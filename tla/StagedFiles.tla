----------------------------- MODULE StagedFiles -----------------------------
(***************************************************************************)
(* Staged files: the index of StagedFileStore and its file, the objects,   *)
(* the references that session records hold to files, the leases of        *)
(* requests that read them, and the jobs that remove files: eviction by an *)
(* upload, the rollback of an upload, and the hourly maintenance.          *)
(*                                                                         *)
(* Two locks. The index lock is held by every operation of the store while *)
(* it changes objects and writes its file; such an operation is one action *)
(* where it changes no object. The files lock of ConversationCache         *)
(* (lock_explicit_files) is held by an upload, a maintenance, a reset, and *)
(* while a reference and the mapping that goes with it are added.          *)
(*                                                                         *)
(* Of a session only the staged IDs its record maps are kept. Its          *)
(* operations run one at a time (SerialOperations). All files have the     *)
(* same size, and belong to the principal that uses them.                  *)
(***************************************************************************)
EXTENDS Naturals, FiniteSets

CONSTANTS
    Files,              \* staged IDs: a digest of principal, name, type and content
    Sessions,
    NoFile,
    Capacity,           \* max_staged_bytes, in files
    MaxFailures,        \* bound on failing writes, renames and removals
    MaxCancels,         \* bound on clients that disconnect during a write
    MaxCrashes,         \* bound on restarts
    MaxDrops            \* bound on the dropped leases of a file that are not counted down

ASSUME FilesAssumption ==
    /\ NoFile \notin Files
    /\ IsFiniteSet(Files)
    /\ {Capacity, MaxFailures, MaxCancels, MaxCrashes, MaxDrops} \subseteq Nat

VARIABLES
    state,     \* the index: absent, live or expired
    refs,      \* the index: <<s, f>> if s is among the references of f
    leases,    \* the index: active_leases
    old,       \* the files whose last use is more than 25 days ago
    disk,      \* files.json: state and references
    objects,   \* the files whose object exists
    trash,     \* the files with a cleanup artifact
    mapped,    \* <<s, f>> if the record of s maps f
    mapDisk,   \* the same of the snapshot file
    pc, using, \* where each session's operation stands, and the file it uploads
    drops,     \* drops[f]: leases dropped whose task has not run
    armed,     \* the sessions being rebuilt: PreservedFileReferencesGuard
    orphaned,  \* the sessions whose guard is still to reconcile
    torn,      \* history: sessions whose reset was cut short, or which mapped a file
               \* that was gone by a count lost, not repaired since
    uncounted, \* history: files of which a lease was dropped that never counted,
               \* until all leases of the file have been dropped
    task,      \* the upload, maintenance or startup that holds the files lock
    failures, cancels, crashes

indexVars == <<state, refs>>
objectVars == <<objects, trash>>
recordVars == <<mapped, mapDisk>>
leaseVars == <<leases, drops, uncounted>>
sessionVars == <<pc, using, armed, orphaned, torn>>
boundVars == <<failures, cancels, crashes>>
vars == <<indexVars, old, disk, objectVars, recordVars, leaseVars, sessionVars,
          task, boundVars>>

Live == {f \in Files : state[f] = "live"}
NoTask == [at |-> "none", file |-> NoFile, created |-> FALSE, gone |-> {},
           starting |-> FALSE]

LockedAt == {"referencing", "mapNew", "mapOld", "unreferencing", "resetting",
             "restoring"}
FilesFree == task.at = "none" /\ \A s \in Sessions : pc[s] \notin LockedAt

\* Neither an upload nor a cleanup is between its first object and its write.
IndexFree == task.at \notin {"placed", "moving"}

Init ==
    /\ state = [f \in Files |-> "absent"]
    /\ refs = {} /\ old = {} /\ objects = {} /\ trash = {}
    /\ disk = [state |-> state, refs |-> {}]
    /\ mapped = {} /\ mapDisk = {}
    /\ leases = [f \in Files |-> 0] /\ drops = [f \in Files |-> 0]
    /\ pc = [s \in Sessions |-> "idle"] /\ using = [s \in Sessions |-> NoFile]
    /\ armed = {} /\ orphaned = {} /\ torn = {} /\ uncounted = {}
    /\ task = NoTask
    /\ failures = 0 /\ cancels = 0 /\ crashes = 0

----------------------------------------------------------------------------
(* Helpers *)

\* update_index and the like: write the changed index, then replace the index.
Written(st, rf) ==
    /\ state' = st /\ refs' = rf /\ disk' = [state |-> st, refs |-> rf]
    /\ UNCHANGED boundVars

\* The write fails, and nothing changes.
Fails ==
    /\ failures < MaxFailures
    /\ failures' = failures + 1
    /\ UNCHANGED <<indexVars, disk, cancels, crashes>>

\* The client goes away during the write: it lands, the index is not replaced.
Lands(st, rf) ==
    /\ cancels < MaxCancels
    /\ cancels' = cancels + 1
    /\ disk' = [state |-> st, refs |-> rf]
    /\ UNCHANGED <<indexVars, failures, crashes>>

Goto(s, l) == pc' = [pc EXCEPT ![s] = l]
Entry(f) == state[f] # "absent"

\* The request of s is over; if it was rebuilding, its guard will reconcile.
Over(s) ==
    /\ Goto(s, "idle")
    /\ using' = [using EXCEPT ![s] = NoFile]
    /\ armed' = armed \ {s}
    /\ orphaned' = orphaned \cup (armed \cap {s})

Dropped(s) == drops' = [drops EXCEPT ![using[s]] = @ + 1]

\* Faulty variant: leases do not count.
UnusedByLeases(f) == \A s \in Sessions : <<s, f>> \notin refs

\* StoredFile::unreferenced
Unused(f) == leases[f] = 0 /\ \A s \in Sessions : <<s, f>> \notin refs
RefsOf(s) == {s} \X Files

----------------------------------------------------------------------------
(* A request sends a staged file upstream: upload_staged_file *)

\* StagedFileStore::resolve
Resolvable(s, f) ==
    /\ pc[s] \in {"idle", "rebuilding"} /\ ~task.starting /\ IndexFree
    /\ <<s, f>> \notin mapped /\ drops[f] < MaxDrops
    /\ f \in Live \cap objects
    /\ f \in old => \E r \in Sessions : <<r, f>> \in refs

Resolve(s, f) ==
    /\ Resolvable(s, f)
    /\ leases' = [leases EXCEPT ![f] = @ + 1]
    /\ old' = old \ {f}
    /\ Goto(s, "uploading") /\ using' = [using EXCEPT ![s] = f]
    /\ Written(state, refs)
    /\ UNCHANGED <<objectVars, recordVars, drops, uncounted, armed, orphaned, torn,
                   task>>

\* The write fails or is cancelled: the lease, made before it, is dropped
\* though it was never counted, so that it takes the count of another.
ResolveFails(s, f) ==
    /\ Resolvable(s, f)
    /\ Fails \/ Lands(state, refs)
    /\ drops' = [drops EXCEPT ![f] = @ + 1]
    /\ uncounted' = uncounted \cup {f}
    /\ Over(s)
    /\ UNCHANGED <<old, objectVars, recordVars, leases, torn, task>>

\* FileLease::drop, the spawned task: a saturating decrement.
DropLease(f) ==
    /\ drops[f] > 0 /\ IndexFree
    /\ drops' = [drops EXCEPT ![f] = @ - 1]
    /\ leases' = [leases EXCEPT ![f] = IF @ = 0 THEN 0 ELSE @ - 1]
    /\ uncounted' = IF drops[f] = 1 /\ \A s \in Sessions : using[s] # f
                    THEN uncounted \ {f} ELSE uncounted
    /\ UNCHANGED <<indexVars, old, disk, objectVars, recordVars, sessionVars,
                   task, boundVars>>

\* The file was read and sent; take the files lock. Or the request fails.
Uploaded(s) ==
    /\ pc[s] = "uploading"
    /\ \/ FilesFree /\ Goto(s, "referencing")
          /\ UNCHANGED <<using, armed, orphaned, drops>>
       \/ Over(s) /\ Dropped(s)
    /\ UNCHANGED <<indexVars, old, disk, objectVars, recordVars, leases, uncounted,
                   torn, task, boundVars>>

\* add_reference
AddReference(s) ==
    /\ pc[s] = "referencing"
    /\ LET f    == using[s]
           rf   == IF Entry(f) THEN refs \cup {<<s, f>>} ELSE refs
       IN  \/ /\ Written(state, rf)
              /\ old' = old \ {f}
              /\ Goto(s, IF rf = refs THEN "mapOld" ELSE "mapNew")
              /\ UNCHANGED <<using, armed, orphaned, drops>>
           \/ /\ Fails \/ Lands(state, rf)
              /\ Over(s) /\ Dropped(s) /\ UNCHANGED old
    /\ UNCHANGED <<objectVars, recordVars, leases, uncounted, torn, task>>

\* put_explicit_file_mapping. It is not rolled back when the client goes away.
PutMapping(s) ==
    /\ pc[s] \in {"mapNew", "mapOld"}
    /\ LET map == mapped \cup {<<s, using[s]>>}
       IN  \/ /\ mapped' = map /\ mapDisk' = map
              /\ \/ /\ Goto(s, IF s \in armed THEN "rebuilding" ELSE "idle")
                    /\ using' = [using EXCEPT ![s] = NoFile]
                    /\ UNCHANGED <<armed, orphaned, boundVars>>
                 \/ /\ cancels < MaxCancels /\ cancels' = cancels + 1
                    /\ Over(s)
                    /\ UNCHANGED <<failures, crashes>>
              /\ Dropped(s)
              /\ torn' = IF using[s] \in uncounted \ Live THEN torn \cup {s} ELSE torn
              /\ UNCHANGED <<indexVars, disk>>
           \/ /\ Fails /\ UNCHANGED <<recordVars, torn>>
              /\ IF pc[s] = "mapNew"
                 THEN /\ Goto(s, "unreferencing")
                      /\ UNCHANGED <<using, armed, orphaned, drops>>
                 ELSE Over(s) /\ Dropped(s)
    /\ UNCHANGED <<old, objectVars, leases, uncounted, task>>

\* remove_reference, after a mapping that could not be stored
RemoveReference(s) ==
    /\ pc[s] = "unreferencing"
    /\ LET rf == refs \ {<<s, using[s]>>}
       IN  Written(state, rf) \/ Fails \/ Lands(state, rf)
    /\ Over(s) /\ Dropped(s)
    /\ UNCHANGED <<old, objectVars, recordVars, leases, uncounted, torn, task>>

----------------------------------------------------------------------------
(* Reset and rebuild *)

\* reset_explicit_for_rebuild: the record goes, its references stay.
RebuildReset(s) ==
    /\ pc[s] = "idle" /\ FilesFree
    /\ \/ /\ mapped' = mapped \ RefsOf(s) /\ mapDisk' = mapped'
          /\ \/ /\ Goto(s, "rebuilding") /\ armed' = armed \cup {s}
                /\ UNCHANGED <<orphaned, boundVars>>
             \/ /\ cancels < MaxCancels /\ cancels' = cancels + 1
                /\ orphaned' = orphaned \cup {s}
                /\ UNCHANGED <<pc, armed, failures, crashes>>
          /\ UNCHANGED <<indexVars, disk>>
       \/ Fails /\ UNCHANGED <<recordVars, pc, armed, orphaned>>
    /\ UNCHANGED <<old, objectVars, leaseVars, using, torn, task>>

\* Faulty variant: the pair the wrong way round.
SetReferencesSwapped(s, files) == (refs \ RefsOf(s)) \cup ((files \cap Live) \X {s})

\* What set_session_references makes of the references.
SetReferences(s, files) == (refs \ RefsOf(s)) \cup ({s} \X (files \cap Live))
MappedBy(s) == {f \in Files : <<s, f>> \in mapped}

\* The rebuild ends. If it succeeded it reconciles: references become what the
\* new record maps. If it, or that, fails the guard will.
RebuildEnds(s) ==
    /\ pc[s] = "rebuilding"
    /\ \/ /\ FilesFree /\ IndexFree
          /\ Written(state, SetReferences(s, MappedBy(s)))
          /\ Goto(s, "idle") /\ armed' = armed \ {s}
          /\ UNCHANGED <<using, orphaned>>
       \/ /\ FilesFree /\ IndexFree
          /\ Lands(state, SetReferences(s, MappedBy(s)))
          /\ Over(s)
       \/ /\ Over(s)
          /\ UNCHANGED <<indexVars, disk, boundVars>>
    /\ UNCHANGED <<old, objectVars, recordVars, leaseVars, torn, task>>

\* Faulty variant: the references are dropped, not reconciled.
ReconcileDropping(s) ==
    /\ s \in orphaned /\ pc[s] = "idle" /\ FilesFree
    /\ orphaned' = orphaned \ {s}
    /\ Written(state, refs \ RefsOf(s))
    /\ UNCHANGED <<old, objectVars, recordVars, leaseVars, pc, using, armed,
                   torn, task>>

\* PreservedFileReferencesGuard, reconcile_after_operation or drop: under the
\* operation lock of the session, whatever ran on it meanwhile. The request's own
\* attempt, when it fails or is cancelled, is repeated by the drop; that only once.
Reconcile(s) ==
    /\ s \in orphaned /\ pc[s] = "idle" /\ FilesFree
    /\ LET rf == SetReferences(s, MappedBy(s))
       IN  \/ Written(state, rf) /\ orphaned' = orphaned \ {s}
           \/ Fails /\ orphaned' \in {orphaned, orphaned \ {s}}
           \/ Lands(state, rf) /\ UNCHANGED orphaned
    /\ UNCHANGED <<old, objectVars, recordVars, leaseVars, pc, using, armed,
                   torn, task>>

\* reset_explicit_session: first the references ...
ApiReset(s) ==
    /\ pc[s] = "idle" /\ FilesFree
    /\ \/ Written(state, refs \ RefsOf(s)) /\ Goto(s, "resetting") /\ UNCHANGED torn
       \/ Fails /\ UNCHANGED <<pc, torn>>
       \/ Lands(state, refs \ RefsOf(s)) /\ torn' = torn \cup {s} /\ UNCHANGED pc
    /\ UNCHANGED <<old, objectVars, recordVars, leaseVars, using, armed,
                   orphaned, task>>

\* ... then the record.
ResetRecord(s) ==
    /\ pc[s] = "resetting"
    /\ \/ /\ mapped' = mapped \ RefsOf(s) /\ mapDisk' = mapped'
          /\ Goto(s, "idle")
          /\ UNCHANGED <<indexVars, disk, boundVars, torn>>
       \/ /\ Fails
          /\ Goto(s, "restoring")
          /\ UNCHANGED <<recordVars, torn>>
       \/ /\ cancels < MaxCancels /\ cancels' = cancels + 1
          /\ Goto(s, "idle") /\ torn' = torn \cup {s}
          /\ UNCHANGED <<indexVars, disk, recordVars, failures, crashes>>
    /\ UNCHANGED <<old, objectVars, leaseVars, using, armed, orphaned, task>>

\* The record could not be removed: its references return.
RestoreReferences(s) ==
    /\ pc[s] = "restoring"
    /\ LET rf == SetReferences(s, MappedBy(s))
       IN  \/ Written(state, rf) /\ UNCHANGED torn
           \/ (Fails \/ Lands(state, rf)) /\ torn' = torn \cup {s}
    /\ Goto(s, "idle")
    /\ UNCHANGED <<old, objectVars, recordVars, leaseVars, using, armed,
                   orphaned, task>>

----------------------------------------------------------------------------
(* Uploads: api_stage_file, stage_stream_with_status *)

\* evict_unreferenced: the least recently used ones, as many as it takes.
Evictable(gone) ==
    LET unused == {f \in Live : Unused(f)}
    IN  /\ gone \subseteq unused
        /\ Cardinality(Live \ gone) < Capacity
        /\ \A f \in gone : Cardinality(Live \ gone) + 1 = Capacity
        /\ \A f \in gone, g \in unused \ gone : g \in old => f \in old

\* A file that is not live is uploaded: its object is renamed into place unless
\* there is one already. An upload of a live file, or one that fails before
\* this, changes nothing.
Stage(f, gone) ==
    /\ FilesFree
    /\ f \notin Live /\ Evictable(gone)
    /\ objects' = objects \cup {f}
    /\ task' = [NoTask EXCEPT !.at = "placed", !.file = f, !.gone = gone,
                              !.created = f \notin objects]
    /\ UNCHANGED <<indexVars, old, disk, trash, recordVars, leaseVars,
                   sessionVars, boundVars>>

\* The index with the new entry and without the evicted ones is written.
StageWrite ==
    /\ task.at = "placed"
    /\ LET f  == task.file
           st == [g \in Files |-> IF g = f THEN "live"
                                  ELSE IF g \in task.gone THEN "absent" ELSE state[g]]
           rf == {p \in refs : p[2] \notin task.gone \cup {f}}
       IN  \/ /\ Written(st, rf)
              /\ leases' = [leases EXCEPT ![f] = 0] /\ old' = old \ {f}
              /\ task' = [task EXCEPT !.at = "removing"]
              /\ UNCHANGED objects
           \/ /\ Fails
              /\ objects' = IF task.created THEN objects \ {f} ELSE objects
              /\ task' = NoTask
              /\ UNCHANGED <<leases, old>>
           \/ /\ Lands(st, rf)
              /\ task' = NoTask
              /\ UNCHANGED <<objects, leases, old>>
    /\ UNCHANGED <<trash, recordVars, drops, uncounted, sessionVars>>

\* The objects of evicted files are removed one by one, without the index lock.
\* A failure is logged, and a client that goes away leaves the rest.
RemoveEvicted ==
    /\ task.at = "removing"
    /\ \/ /\ task.gone = {}
          /\ task' = [task EXCEPT !.at = "staged"]
          /\ UNCHANGED <<objects, boundVars>>
       \/ /\ \E f \in task.gone :
                 /\ task' = [task EXCEPT !.gone = @ \ {f}]
                 /\ \/ objects' = objects \ {f} /\ UNCHANGED failures
                    \/ /\ failures < MaxFailures /\ failures' = failures + 1
                       /\ UNCHANGED objects
          /\ UNCHANGED <<cancels, crashes>>
       \/ /\ cancels < MaxCancels /\ cancels' = cancels + 1
          /\ task' = NoTask
          /\ UNCHANGED <<objects, failures, crashes>>
    /\ UNCHANGED <<indexVars, old, disk, trash, recordVars, leaseVars, sessionVars>>

\* The multipart body ends as it should, or the upload is rolled back: the new
\* entry goes unless it has been used by then (discard_created_unreferenced).
StageEnds ==
    /\ task.at = "staged"
    /\ LET st == [state EXCEPT ![task.file] = "absent"]
       IN  \/ /\ task' = NoTask
              /\ UNCHANGED <<indexVars, disk, boundVars>>
           \/ /\ Unused(task.file)
              /\ \/ Written(st, refs) /\ task' = [task EXCEPT !.at = "discarding"]
                 \/ (Fails \/ Lands(st, refs)) /\ task' = NoTask
    /\ UNCHANGED <<old, objectVars, recordVars, leaseVars, sessionVars>>

Discard ==
    /\ task.at = "discarding"
    /\ task' = NoTask
    /\ \/ objects' = objects \ {task.file} /\ UNCHANGED boundVars
       \/ /\ failures < MaxFailures /\ failures' = failures + 1
          /\ UNCHANGED <<objects, cancels, crashes>>
    /\ UNCHANGED <<indexVars, old, disk, trash, recordVars, leaseVars, sessionVars>>

----------------------------------------------------------------------------
(* Maintenance: maintain_staged_files, hourly and at startup *)

Hourly(l) == task' = [task EXCEPT !.at = l]

\* Faulty variant: references are added and none taken away.
MaintainInserting ==
    /\ FilesFree \/ task.at = "loaded"
    /\ IndexFree
    /\ LET rf == refs \cup {p \in mapped : p[2] \in Live}
       IN  \/ /\ Written(state, rf) /\ Hourly("scanning")
              /\ torn' = {s \in torn : ~ MappedBy(s) \subseteq Live}
           \/ Fails /\ Hourly("cleaning") /\ UNCHANGED torn
    /\ UNCHANGED <<old, objectVars, recordVars, leaseVars, pc, using, armed, orphaned>>

\* The references of all sessions become what the records map. A failure skips
\* the scan of the objects.
Maintain ==
    /\ FilesFree \/ task.at = "loaded"
    /\ IndexFree
    /\ LET rf == (refs \cap mapped) \cup {p \in mapped : p[2] \in Live}
       IN  \/ /\ Written(state, rf) /\ Hourly("scanning")
              /\ torn' = {s \in torn : ~ MappedBy(s) \subseteq Live}
           \/ Fails /\ Hourly("cleaning") /\ UNCHANGED torn
    /\ UNCHANGED <<old, objectVars, recordVars, leaseVars, pc, using, armed, orphaned>>

\* reconcile_objects: what belongs to no live file is removed, and an artifact of
\* a live file without object is renamed back. What fails is left.
Scan ==
    /\ task.at \in {"loading", "scanning"}
    /\ \E left \in SUBSET ((objects \ Live) \cup trash) :
          /\ left # {} => failures < MaxFailures
          /\ failures' = IF left = {} THEN failures ELSE failures + 1
          /\ objects' = (objects \cap (Live \cup left)) \cup ((trash \cap Live) \ left)
          /\ trash' = trash \cap left
    /\ Hourly(IF task.at = "loading" THEN "loaded" ELSE "cleaning")
    /\ UNCHANGED <<indexVars, old, disk, recordVars, leaseVars, sessionVars,
                   cancels, crashes>>

Expirable == {f \in Files : Entry(f) /\ Unused(f) /\ f \in old}

\* restore_moved_objects. A rename that fails leaves its artifact.
RestoreMoved(moved) ==
    \E left \in SUBSET moved :
        /\ left # {} => failures + 1 < MaxFailures
        /\ failures' = failures + (IF left = {} THEN 1 ELSE 2)
        /\ objects' = objects \cup (moved \ left)
        /\ trash' = trash \ (moved \ left)

\* cleanup, with the index lock: the object of a file is renamed out of the way.
CleanupMove ==
    /\ task.at \in {"cleaning", "moving"}
    /\ \/ /\ \E f \in Expirable \cap objects :
                /\ objects' = objects \ {f} /\ trash' = trash \cup {f}
                /\ task' = [task EXCEPT !.at = "moving", !.gone = @ \cup {f}]
          /\ UNCHANGED failures
       \/ /\ Expirable \cap objects # {} /\ failures < MaxFailures
          /\ RestoreMoved(task.gone)
          /\ task' = NoTask
    /\ UNCHANGED <<indexVars, old, disk, recordVars, leaseVars, sessionVars,
                   cancels, crashes>>

\* Faulty variant: a failed write leaves the objects where they were moved to.
CleanupWriteUnrestored ==
    /\ task.at \in {"cleaning", "moving"} /\ Expirable \cap objects = {}
    /\ LET st == [f \in Files |-> IF f \in Expirable THEN "expired" ELSE state[f]]
       IN  \/ Written(st, refs)
              /\ Hourly("deleting")
           \/ Fails
              /\ Hourly("deleting")
    /\ UNCHANGED <<old, objectVars, recordVars, leaseVars, sessionVars>>

\* The entries are marked expired, and that is written.
CleanupWrite ==
    /\ task.at \in {"cleaning", "moving"} /\ Expirable \cap objects = {}
    /\ LET st == [f \in Files |-> IF f \in Expirable THEN "expired" ELSE state[f]]
       IN  \/ Written(st, refs)
              /\ Hourly("deleting")
              /\ UNCHANGED objectVars
           \/ /\ failures < MaxFailures
              /\ RestoreMoved(task.gone)
              /\ task' = NoTask
              /\ UNCHANGED <<indexVars, disk, cancels, crashes>>
    /\ UNCHANGED <<old, recordVars, leaseVars, sessionVars>>

\* The moved objects are deleted, without the lock. A failure is logged.
DeleteMoved ==
    /\ task.at = "deleting"
    /\ task' = NoTask
    /\ \E left \in SUBSET task.gone :
          /\ left # {} => failures < MaxFailures
          /\ failures' = IF left = {} THEN failures ELSE failures + 1
          /\ trash' = trash \ (task.gone \ left)
    /\ UNCHANGED <<indexVars, old, disk, objects, recordVars, leaseVars,
                   sessionVars, cancels, crashes>>

----------------------------------------------------------------------------
(* Time and restarts *)

\* FILE_TTL_SECONDS pass since the last use.
TimePasses(f) ==
    /\ Entry(f) /\ f \notin old /\ IndexFree
    /\ old' = old \cup {f}
    /\ UNCHANGED <<indexVars, disk, objectVars, recordVars, leaseVars,
                   sessionVars, task, boundVars>>

\* The process stops; the next one loads both files and scans the objects.
Crash ==
    /\ crashes < MaxCrashes /\ crashes' = crashes + 1
    /\ state' = disk.state /\ refs' = disk.refs
    /\ mapped' = mapDisk
    /\ leases' = [f \in Files |-> 0] /\ drops' = [f \in Files |-> 0]
    /\ pc' = [s \in Sessions |-> "idle"] /\ using' = [s \in Sessions |-> NoFile]
    /\ armed' = {} /\ orphaned' = {} /\ uncounted' = {}
    /\ torn' = torn \cup {s \in Sessions : pc[s] \in {"resetting", "restoring"}}
    /\ task' = [NoTask EXCEPT !.at = "loading", !.starting = TRUE]
    /\ UNCHANGED <<old, disk, objectVars, mapDisk, failures, cancels>>

UploadNext(f) == \E gone \in SUBSET Files : Stage(f, gone)
TaskNext == StageWrite \/ RemoveEvicted \/ StageEnds \/ Discard
            \/ Scan \/ CleanupMove \/ CleanupWrite \/ DeleteMoved
RequestNext(s) == Uploaded(s) \/ AddReference(s) \/ PutMapping(s) \/ RemoveReference(s)
                  \/ RebuildEnds(s) \/ ResetRecord(s) \/ RestoreReferences(s)

Next ==
    \/ \E s \in Sessions :
          \/ \E f \in Files : Resolve(s, f) \/ ResolveFails(s, f)
          \/ RebuildReset(s) \/ ApiReset(s) \/ RequestNext(s) \/ Reconcile(s)
    \/ \E f \in Files : DropLease(f) \/ UploadNext(f) \/ TimePasses(f)
    \/ TaskNext \/ Maintain \/ Crash

Spec == Init /\ [][Next]_vars

\* What holds a lock goes on, and so do the tasks that were spawned. The lock on
\* files is a tokio mutex, which is fair: a maintenance that waits for it gets it.
FairSpec ==
    /\ Spec
    /\ WF_vars(TaskNext)
    /\ SF_vars(Maintain)
    /\ \A s \in Sessions : SF_vars(RequestNext(s)) /\ SF_vars(Reconcile(s))
    /\ \A f \in Files : SF_vars(DropLease(f))

----------------------------------------------------------------------------
(* Properties *)

TypeOK ==
    /\ state \in [Files -> {"absent", "live", "expired"}]
    /\ refs \subseteq Sessions \X Files
    /\ disk \in [state : [Files -> {"absent", "live", "expired"}],
                 refs : SUBSET (Sessions \X Files)]
    /\ leases \in [Files -> Nat] /\ drops \in [Files -> Nat]
    /\ {old, objects, trash, uncounted} \subseteq SUBSET Files
    /\ {mapped, mapDisk} \subseteq SUBSET (Sessions \X Files)
    /\ pc \in [Sessions -> {"idle", "uploading", "rebuilding"} \cup LockedAt]
    /\ using \in [Sessions -> Files \cup {NoFile}]
    /\ {armed, orphaned, torn} \subseteq SUBSET Sessions
    /\ task \in [at : {"none", "placed", "removing", "staged", "discarding", "loading",
                       "loaded", "scanning", "cleaning", "moving", "deleting"},
                 file : Files \cup {NoFile}, created : BOOLEAN, gone : SUBSET Files,
                 starting : BOOLEAN]
    /\ {failures, cancels, crashes} \subseteq Nat

\* A file that the index or its file on disk has as live is never lost: its object
\* is there, or an artifact from which the next scan restores it. Uploads, evictions,
\* cleanups, failed and cancelled writes and restarts all come between the object
\* and the entry.
NothingLost ==
    \A f \in Files : state[f] = "live" \/ disk.state[f] = "live" => f \in objects \cup trash

\* A file that a request reads keeps its object: neither an eviction nor a cleanup
\* removes it, however the two interleave with leases being taken and dropped. Only a
\* resolve that fails at its write puts the readers of that file at risk, and only
\* until all of them have dropped it.
LeasedStays ==
    \A s \in Sessions : pc[s] = "uploading" => using[s] \in objects \cup uncounted

\* A session's record maps only files on which the index has its reference, so that
\* no eviction, cleanup, rebuild, reconciliation or restart removes a file the session
\* still needs. Not so for a session whose reset was cut short, or that mapped a file
\* removed under it by a lost count, until maintenance, nor within a reset.
MappedIsReferenced ==
    \A s \in Sessions :
        \/ s \in torn \/ pc[s] \in {"resetting", "restoring"}
        \/ mapped \cap RefsOf(s) \subseteq refs

\* A reference that no record justifies, left by a failed write, a disconnect, a
\* rebuild or a restart, does not keep its file for ever.
ReferencesReconciled ==
    \A p \in Sessions \X Files : p \in refs \ mapped ~> (p \notin refs \/ p \in mapped)
=============================================================================
