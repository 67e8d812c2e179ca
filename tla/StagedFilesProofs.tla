-------------------------- MODULE StagedFilesProofs --------------------------
(***************************************************************************)
(* Safety of the staged files, for any files, sessions and capacity and    *)
(* any number of failures, disconnects and restarts.                       *)
(***************************************************************************)
EXTENDS StagedFiles, FiniteSetTheorems, TLAPS

UsingAt == {"uploading", "referencing", "mapNew", "mapOld", "unreferencing"}
ResettingAt == {"resetting", "restoring"}

\* Neither the index nor its file has f as live.
NotLive(f) == state[f] # "live" /\ disk.state[f] # "live"

\* A request names a file exactly while it uses one.
UsingInv == \A s \in Sessions : pc[s] \in UsingAt <=> using[s] # NoFile

\* The lock on files is held by one task or by one request.
LockInv ==
    \A s \in Sessions : pc[s] \in LockedAt =>
        task.at = "none" /\ \A r \in Sessions : pc[r] \in LockedAt => r = s

\* What a task has in hand, by the step that it is at.
TaskInv ==
    /\ task.at = "none" => task = NoTask
    /\ task.at \in {"loading", "loaded", "scanning", "cleaning"} => task.gone = {}
    /\ task.at \in {"loading", "scanning"} => disk.state = state
    /\ task.at \in {"placed", "removing", "staged", "discarding"} => task.file \in Files
    /\ task.at = "placed" =>
           /\ task.file \in objects \ Live
           /\ task.created /\ disk.state[task.file] = "live" => task.file \in trash
           /\ task.gone \subseteq {f \in Live : Unused(f)}
    /\ task.at \in {"removing", "deleting"} => \A f \in task.gone : NotLive(f)
    /\ task.at = "discarding" => NotLive(task.file)
    /\ task.at = "moving" => task.gone \subseteq Expirable

\* The inductive invariant about objects.
ObjectInv == TypeOK /\ UsingInv /\ LockInv /\ TaskInv /\ NothingLost

UsersOf(f) == {s \in Sessions : using[s] = f}

\* The inductive invariant about leases, together with ObjectInv:
\* a file has no more leases than one for each request that uses it and for each that
\* is dropped and not counted down. Where no count was lost it has as many, and what
\* is leased is live and has its object.
LeasedInv(f) ==
    /\ IsFiniteSet(UsersOf(f))
    /\ leases[f] <= Cardinality(UsersOf(f)) + drops[f]
    /\ f \notin uncounted =>
           /\ leases[f] = Cardinality(UsersOf(f)) + drops[f]
           /\ leases[f] > 0 => f \in Live \cap objects
LeaseInv == \A f \in Files : LeasedInv(f)

\* The index has the reference of s to f, which is live, and so has its file.
Backed(s, f) ==
    /\ <<s, f>> \in refs \cap disk.refs
    /\ state[f] = "live" /\ disk.state[f] = "live"

\* What the record of s maps is backed or, within a reset, can be again if the record
\* has to stay; and what s is about to map is backed before, or was lost with a count.
MappedInv(s) ==
    /\ s \notin torn => \A f \in Files : <<s, f>> \in mapped =>
           IF pc[s] \in ResettingAt THEN f \in Live ELSE Backed(s, f)
    /\ pc[s] \in UsingAt => <<s, using[s]>> \notin mapped
    /\ pc[s] \in {"mapNew", "mapOld"} =>
           Backed(s, using[s]) \/ using[s] \in uncounted \ Live

\* The inductive invariant about references, together with those above.
ReferenceInv ==
    /\ mapped = mapDisk
    /\ \A s \in Sessions : MappedInv(s)

-----------------------------------------------------------------------------
(* Types                                                                   *)

IndexTypes ==
    /\ state \in [Files -> {"absent", "live", "expired"}]
    /\ refs \in SUBSET (Sessions \X Files)
    /\ disk \in [state : [Files -> {"absent", "live", "expired"}],
                 refs : SUBSET (Sessions \X Files)]
ObjectTypes ==
    /\ old \in SUBSET Files /\ objects \in SUBSET Files /\ trash \in SUBSET Files
RecordTypes ==
    /\ mapped \in SUBSET (Sessions \X Files) /\ mapDisk \in SUBSET (Sessions \X Files)
LeaseTypes ==
    leases \in [Files -> Nat] /\ drops \in [Files -> Nat] /\ uncounted \in SUBSET Files
SessionTypes ==
    /\ pc \in [Sessions -> {"idle", "uploading", "rebuilding"} \cup LockedAt]
    /\ using \in [Sessions -> Files \cup {NoFile}]
    /\ armed \in SUBSET Sessions /\ orphaned \in SUBSET Sessions
    /\ torn \in SUBSET Sessions
TaskSteps == {"none", "placed", "removing", "staged", "discarding", "loading", "loaded",
              "scanning", "cleaning", "moving", "deleting"}
Tasks == [at : TaskSteps, file : Files \cup {NoFile}, created : BOOLEAN,
          gone : SUBSET Files, starting : BOOLEAN]
TaskTypes == task \in Tasks
BoundTypes ==
    failures \in Nat /\ cancels \in Nat /\ crashes \in Nat

LEMMA TypeParts ==
    /\ TypeOK <=> /\ IndexTypes /\ ObjectTypes /\ RecordTypes /\ LeaseTypes
                  /\ SessionTypes /\ TaskTypes /\ BoundTypes
    /\ TypeOK' <=> /\ IndexTypes' /\ ObjectTypes' /\ RecordTypes' /\ LeaseTypes'
                   /\ SessionTypes' /\ TaskTypes' /\ BoundTypes'
BY DEF TypeOK, IndexTypes, ObjectTypes, RecordTypes, LeaseTypes, SessionTypes,
       TaskTypes, TaskSteps, Tasks, BoundTypes

\* What is unchanged keeps its type.
LEMMA UnchangedTypes ==
    ASSUME TypeOK
    PROVE  /\ UNCHANGED <<indexVars, disk>> => IndexTypes'
           /\ UNCHANGED <<old, objectVars>> => ObjectTypes'
           /\ UNCHANGED recordVars => RecordTypes'
           /\ UNCHANGED leaseVars => LeaseTypes'
           /\ UNCHANGED sessionVars => SessionTypes'
           /\ UNCHANGED task => TaskTypes'
           /\ UNCHANGED boundVars => BoundTypes'
BY TypeParts DEF IndexTypes, ObjectTypes, RecordTypes, LeaseTypes, SessionTypes,
       TaskTypes, BoundTypes, indexVars, objectVars, recordVars, leaseVars,
       sessionVars, boundVars

LEMMA WritesKeepTypes ==
    ASSUME IndexTypes, BoundTypes, NEW st \in [Files -> {"absent", "live", "expired"}],
           NEW rf \in SUBSET (Sessions \X Files),
           Written(st, rf) \/ Fails \/ Lands(st, rf)
    PROVE  IndexTypes' /\ BoundTypes'
BY DEF IndexTypes, BoundTypes, Written, Fails, Lands, indexVars, boundVars

LEMMA TaskRecords ==
    /\ NoTask \in Tasks
    /\ \A l \in TaskSteps, f \in Files, g \in SUBSET Files, b \in BOOLEAN :
           [NoTask EXCEPT !.at = l, !.file = f, !.gone = g, !.created = b] \in Tasks
    /\ \A t \in Tasks :
           /\ t.at \in TaskSteps /\ t.gone \in SUBSET Files
           /\ t.file \in Files \cup {NoFile}
           /\ \A l \in TaskSteps : [t EXCEPT !.at = l] \in Tasks
           /\ \A g \in SUBSET Files : [t EXCEPT !.gone = g] \in Tasks
           /\ \A l \in TaskSteps, g \in SUBSET Files : [t EXCEPT !.at = l, !.gone = g] \in Tasks
BY ZenonT(40) DEF Tasks, TaskSteps, NoTask

RequestAction(s) ==
    \/ \E f \in Files : Resolve(s, f) \/ ResolveFails(s, f)
    \/ RebuildReset(s) \/ ApiReset(s) \/ RequestNext(s) \/ Reconcile(s)

LEMMA ReferencesAreTyped ==
    ASSUME IndexTypes, RecordTypes, NEW s \in Sessions
    PROVE  /\ SetReferences(s, MappedBy(s)) \in SUBSET (Sessions \X Files)
           /\ refs \ RefsOf(s) \in SUBSET (Sessions \X Files)
BY DEF IndexTypes, RecordTypes, SetReferences, MappedBy, RefsOf, Live

LEMMA RequestsKeepTypes ==
    ASSUME TypeOK, UsingInv, NEW s \in Sessions, RequestAction(s)
    PROVE  TypeOK'
<1> USE UnchangedTypes, TypeParts
<1>0. /\ SetReferences(s, MappedBy(s)) \in SUBSET (Sessions \X Files)
      /\ refs \ RefsOf(s) \in SUBSET (Sessions \X Files)
      /\ state \in [Files -> {"absent", "live", "expired"}]
      /\ refs \in SUBSET (Sessions \X Files)
    BY ReferencesAreTyped DEF IndexTypes
<1>1. ASSUME NEW f \in Files, Resolve(s, f)
      PROVE  TypeOK'
  <2>1. IndexTypes' /\ BoundTypes'
      BY <1>0, <1>1, WritesKeepTypes DEF Resolve
  <2>2. ObjectTypes' /\ LeaseTypes' /\ SessionTypes'
      BY <1>1 DEF Resolve, Goto, ObjectTypes, LeaseTypes, SessionTypes, objectVars
  <2>3. QED BY <1>1, <2>1, <2>2 DEF Resolve
<1>2. ASSUME NEW f \in Files, ResolveFails(s, f)
      PROVE  TypeOK'
  <2>1. IndexTypes' /\ BoundTypes'
      BY <1>0, <1>2, WritesKeepTypes DEF ResolveFails
  <2>2. LeaseTypes' /\ SessionTypes'
      BY <1>2 DEF ResolveFails, Over, Goto, LeaseTypes, SessionTypes
  <2>3. UNCHANGED <<old, objectVars>>
      BY <1>2 DEF ResolveFails
  <2>4. QED BY <1>2, <2>1, <2>2, <2>3 DEF ResolveFails
<1>3. CASE RebuildReset(s)
  <2>1. RecordTypes'
      BY <1>3 DEF RebuildReset, RecordTypes, recordVars
  <2>2. SessionTypes'
      BY <1>3 DEF RebuildReset, SessionTypes, Goto
  <2>3. BoundTypes' /\ UNCHANGED <<indexVars, disk>>
      BY <1>3 DEF RebuildReset, Fails, BoundTypes, boundVars
  <2>4. UNCHANGED <<old, objectVars>> /\ UNCHANGED leaseVars /\ UNCHANGED task
      BY <1>3 DEF RebuildReset
  <2>5. QED BY <2>1, <2>2, <2>3, <2>4
<1>4. CASE ApiReset(s)
  <2>1. IndexTypes' /\ BoundTypes'
      BY <1>0, <1>4, WritesKeepTypes DEF ApiReset
  <2>2. SessionTypes'
      BY <1>4 DEF ApiReset, SessionTypes, Goto, LockedAt
  <2>3. UNCHANGED <<old, objectVars>>
      BY <1>4 DEF ApiReset
  <2>4. QED BY <1>4, <2>1, <2>2, <2>3 DEF ApiReset
<1>5. CASE RequestNext(s)
  <2>1. CASE Uploaded(s)
    <3>1. LeaseTypes' /\ SessionTypes'
        BY <2>1 DEF Uploaded, Over, Dropped, Goto, LeaseTypes, SessionTypes, LockedAt
    <3>2. UNCHANGED <<old, objectVars>> /\ UNCHANGED <<indexVars, disk>>
        BY <2>1 DEF Uploaded
    <3>3. QED BY <2>1, <3>1, <3>2 DEF Uploaded
  <2>2. CASE AddReference(s)
    <3>1. using[s] \in Files
        BY <2>2 DEF AddReference, SessionTypes, UsingInv, UsingAt
    <3>2. refs \cup {<<s, using[s]>>} \in SUBSET (Sessions \X Files)
        BY <1>0, <3>1
    <3>3. IndexTypes' /\ BoundTypes'
        BY <1>0, <2>2, <3>2, WritesKeepTypes DEF AddReference
    <3>4. SessionTypes' /\ LeaseTypes'
        BY <2>2 DEF AddReference, Over, Dropped, Goto, SessionTypes, LeaseTypes, LockedAt
    <3>5. ObjectTypes'
        BY <2>2 DEF AddReference, ObjectTypes, objectVars
    <3>6. QED BY <2>2, <3>3, <3>4, <3>5 DEF AddReference
  <2>3. CASE PutMapping(s)
    <3>1. using[s] \in Files
        BY <2>3 DEF PutMapping, SessionTypes, UsingInv, UsingAt
    <3>2. RecordTypes'
        BY <2>3, <3>1 DEF PutMapping, RecordTypes, recordVars
    <3>3. SessionTypes' /\ LeaseTypes'
        BY <2>3 DEF PutMapping, Over, Dropped, Goto, SessionTypes, LeaseTypes, LockedAt
    <3>4. BoundTypes' /\ UNCHANGED <<indexVars, disk>>
        BY <2>3 DEF PutMapping, Fails, BoundTypes, boundVars
    <3>5. UNCHANGED <<old, objectVars>> /\ UNCHANGED task
        BY <2>3 DEF PutMapping
    <3>6. QED BY <3>2, <3>3, <3>4, <3>5
  <2>4. CASE RemoveReference(s)
    <3>1. refs \ {<<s, using[s]>>} \in SUBSET (Sessions \X Files)
        BY <1>0
    <3>2. IndexTypes' /\ BoundTypes'
        BY <1>0, <2>4, <3>1, WritesKeepTypes DEF RemoveReference
    <3>3. SessionTypes' /\ LeaseTypes'
      <4>1. Over(s) /\ Dropped(s) /\ UNCHANGED <<leases, uncounted>> /\ UNCHANGED torn
          BY <2>4 DEF RemoveReference
      <4>2. SessionTypes'
          BY <4>1 DEF Over, Goto, SessionTypes
      <4>3. using[s] \in Files
          BY <2>4 DEF RemoveReference, SessionTypes, UsingInv, UsingAt
      <4>4. LeaseTypes'
          BY <4>1, <4>3 DEF Dropped, LeaseTypes
      <4>5. QED BY <4>2, <4>4
    <3>4. UNCHANGED <<old, objectVars>>
        BY <2>4 DEF RemoveReference
    <3>5. QED BY <2>4, <3>2, <3>3, <3>4 DEF RemoveReference
  <2>5. CASE RebuildEnds(s)
    <3>1. IndexTypes' /\ BoundTypes'
      <4>1. CASE UNCHANGED <<indexVars, disk, boundVars>>
          BY <4>1
      <4>2. CASE ~ UNCHANGED <<indexVars, disk, boundVars>>
          BY <1>0, <2>5, <4>2, WritesKeepTypes DEF RebuildEnds
      <4>3. QED BY <4>1, <4>2
    <3>2. SessionTypes'
        BY <2>5 DEF RebuildEnds, Over, Goto, SessionTypes
    <3>3. UNCHANGED <<old, objectVars>>
        BY <2>5 DEF RebuildEnds
    <3>4. QED BY <2>5, <3>1, <3>2, <3>3 DEF RebuildEnds
  <2>6. CASE ResetRecord(s)
    <3>1. RecordTypes'
        BY <2>6 DEF ResetRecord, RecordTypes, recordVars
    <3>2. SessionTypes'
        BY <2>6 DEF ResetRecord, Goto, SessionTypes, LockedAt
    <3>3. BoundTypes' /\ UNCHANGED <<indexVars, disk>>
        BY <2>6 DEF ResetRecord, Fails, BoundTypes, boundVars
    <3>4. UNCHANGED <<old, objectVars>>
        BY <2>6 DEF ResetRecord
    <3>5. QED BY <2>6, <3>1, <3>2, <3>3, <3>4 DEF ResetRecord
  <2>7. CASE RestoreReferences(s)
    <3>1. IndexTypes' /\ BoundTypes'
        BY <1>0, <2>7, WritesKeepTypes DEF RestoreReferences
    <3>2. SessionTypes'
        BY <2>7 DEF RestoreReferences, Goto, SessionTypes
    <3>3. UNCHANGED <<old, objectVars>>
        BY <2>7 DEF RestoreReferences
    <3>4. QED BY <2>7, <3>1, <3>2, <3>3 DEF RestoreReferences
  <2>8. QED BY <1>5, <2>1, <2>2, <2>3, <2>4, <2>5, <2>6, <2>7 DEF RequestNext
<1>6. CASE Reconcile(s)
  <2>1. IndexTypes' /\ BoundTypes'
      BY <1>0, <1>6, WritesKeepTypes DEF Reconcile
  <2>2. SessionTypes'
      BY <1>6 DEF Reconcile, SessionTypes
  <2>3. UNCHANGED <<old, objectVars>>
      BY <1>6 DEF Reconcile
  <2>4. QED BY <1>6, <2>1, <2>2, <2>3 DEF Reconcile
<1>7. QED BY <1>1, <1>2, <1>3, <1>4, <1>5, <1>6 DEF RequestAction

LEMMA TasksKeepTypes ==
    ASSUME TypeOK, TaskNext \/ Maintain
    PROVE  TypeOK'
<1> USE UnchangedTypes, TypeParts
<1>0. /\ state \in [Files -> {"absent", "live", "expired"}]
      /\ refs \in SUBSET (Sessions \X Files) /\ mapped \in SUBSET (Sessions \X Files)
      /\ task \in Tasks /\ NoTask \in Tasks
      /\ \A l \in TaskSteps : [task EXCEPT !.at = l] \in Tasks
      /\ \A g \in SUBSET Files : [task EXCEPT !.gone = g] \in Tasks
      /\ \A l \in TaskSteps, g \in SUBSET Files : [task EXCEPT !.at = l, !.gone = g] \in Tasks
      /\ task.gone \in SUBSET Files
    BY TaskRecords DEF IndexTypes, RecordTypes, TaskTypes
<1>1. CASE StageWrite
  <2> DEFINE st == [g \in Files |-> IF g = task.file THEN "live"
                                   ELSE IF g \in task.gone THEN "absent" ELSE state[g]]
             rf == {p \in refs : p[2] \notin task.gone \cup {task.file}}
  <2>1. st \in [Files -> {"absent", "live", "expired"}] /\ rf \in SUBSET (Sessions \X Files)
      BY <1>0
  <2>2. Written(st, rf) \/ Fails \/ Lands(st, rf)
      BY <1>1 DEF StageWrite
  <2> HIDE DEF st, rf
  <2>3. IndexTypes' /\ BoundTypes'
      BY <2>1, <2>2, WritesKeepTypes
  <2>4. TaskTypes'
      BY <1>0, <1>1 DEF StageWrite, TaskTypes, TaskSteps
  <2>5. ObjectTypes' /\ LeaseTypes'
      BY <1>1 DEF StageWrite, ObjectTypes, LeaseTypes
  <2>6. QED BY <1>1, <2>3, <2>4, <2>5 DEF StageWrite
<1>2. CASE RemoveEvicted
  <2>0. /\ \/ \E f \in task.gone : task' = [task EXCEPT !.gone = @ \ {f}]
           \/ task' \in {[task EXCEPT !.at = "staged"], NoTask}
        /\ objects' \subseteq objects
        /\ UNCHANGED old /\ UNCHANGED trash
      BY <1>2 DEF RemoveEvicted
  <2>1. ObjectTypes' /\ TaskTypes'
      BY <1>0, <2>0 DEF ObjectTypes, TaskTypes, TaskSteps
  <2>2. BoundTypes'
      BY <1>2 DEF RemoveEvicted, BoundTypes, boundVars
  <2>3. UNCHANGED <<indexVars, disk>>
      BY <1>2 DEF RemoveEvicted
  <2>4. QED BY <1>2, <2>1, <2>2, <2>3 DEF RemoveEvicted
<1>3. CASE StageEnds
  <2> DEFINE st == [state EXCEPT ![task.file] = "absent"]
  <2>1. st \in [Files -> {"absent", "live", "expired"}]
      BY <1>0
  <2>2. Written(st, refs) \/ Fails \/ Lands(st, refs)
        \/ UNCHANGED <<indexVars, disk, boundVars>>
      BY <1>3 DEF StageEnds
  <2> HIDE DEF st
  <2>3. IndexTypes' /\ BoundTypes'
      BY <1>0, <2>1, <2>2, WritesKeepTypes
  <2>4. TaskTypes'
      BY <1>0, <1>3 DEF StageEnds, TaskTypes, TaskSteps
  <2>5. UNCHANGED <<old, objectVars>>
      BY <1>3 DEF StageEnds
  <2>6. QED BY <1>3, <2>3, <2>4, <2>5 DEF StageEnds
<1>4. CASE Discard
  <2>1. ObjectTypes' /\ TaskTypes'
      BY <1>0, <1>4 DEF Discard, ObjectTypes, TaskTypes
  <2>2. BoundTypes'
      BY <1>4 DEF Discard, BoundTypes, boundVars
  <2>3. UNCHANGED <<indexVars, disk>>
      BY <1>4 DEF Discard
  <2>4. QED BY <1>4, <2>1, <2>2, <2>3 DEF Discard
<1>5. CASE Scan
  <2>1. ObjectTypes'
      BY <1>5 DEF Scan, ObjectTypes, Live
  <2>2. TaskTypes'
      BY <1>0, <1>5 DEF Scan, Hourly, TaskTypes, TaskSteps
  <2>3. BoundTypes' /\ UNCHANGED <<indexVars, disk>>
      BY <1>5 DEF Scan, BoundTypes
  <2>4. QED BY <1>5, <2>1, <2>2, <2>3 DEF Scan
<1>6. CASE CleanupMove
  <2>0. \/ \E f \in Files : /\ objects' = objects \ {f} /\ trash' = trash \cup {f}
                            /\ task' = [task EXCEPT !.at = "moving", !.gone = @ \cup {f}]
                            /\ UNCHANGED failures
        \/ RestoreMoved(task.gone) /\ task' = NoTask
      BY <1>6 DEF CleanupMove, Expirable
  <2>1. ObjectTypes' /\ BoundTypes'
    <3>1. UNCHANGED <<old, cancels, crashes>>
        BY <1>6 DEF CleanupMove
    <3>2. failures' \in Nat
      <4>1. failures \in Nat
          BY DEF BoundTypes
      <4>2. failures' \in {failures, failures + 1, failures + 2}
          BY <2>0 DEF RestoreMoved
      <4>3. QED BY <4>1, <4>2
    <3>3. objects' \in SUBSET Files /\ trash' \in SUBSET Files
        BY <1>0, <2>0 DEF RestoreMoved, ObjectTypes
    <3>4. QED BY <3>1, <3>2, <3>3 DEF ObjectTypes, BoundTypes
  <2>2. TaskTypes'
    <3>1. ASSUME NEW f \in Files, task' = [task EXCEPT !.at = "moving", !.gone = @ \cup {f}]
          PROVE  TaskTypes'
      <4>1. task.gone \cup {f} \in SUBSET Files /\ "moving" \in TaskSteps
          BY <1>0 DEF TaskSteps
      <4>2. QED BY <1>0, <3>1, <4>1 DEF TaskTypes
    <3>2. QED BY <1>0, <2>0, <3>1 DEF TaskTypes
  <2>3. UNCHANGED <<indexVars, disk>>
      BY <1>6 DEF CleanupMove
  <2>4. QED BY <1>6, <2>1, <2>2, <2>3 DEF CleanupMove
<1>7. CASE CleanupWrite
  <2> DEFINE st == [f \in Files |-> IF f \in Expirable THEN "expired" ELSE state[f]]
  <2>1. st \in [Files -> {"absent", "live", "expired"}]
      BY <1>0
  <2>2. \/ Written(st, refs) /\ Hourly("deleting") /\ UNCHANGED objectVars
        \/ /\ RestoreMoved(task.gone) /\ task' = NoTask
           /\ UNCHANGED <<indexVars, disk, cancels, crashes>>
      BY <1>7 DEF CleanupWrite
  <2>3. UNCHANGED old
      BY <1>7 DEF CleanupWrite
  <2> HIDE DEF st
  <2>4. IndexTypes' /\ BoundTypes'
    <3>1. CASE Written(st, refs)
        BY <1>0, <2>1, <3>1, WritesKeepTypes
    <3>2. CASE ~ Written(st, refs)
        BY <2>2, <3>2 DEF RestoreMoved, BoundTypes
    <3>3. QED BY <3>1, <3>2
  <2>5. ObjectTypes' /\ TaskTypes'
      BY <1>0, <2>2, <2>3 DEF RestoreMoved, Hourly, ObjectTypes, TaskTypes, TaskSteps, objectVars
  <2>6. QED BY <1>7, <2>4, <2>5 DEF CleanupWrite
<1>8. CASE DeleteMoved
  <2>1. ObjectTypes' /\ TaskTypes'
      BY <1>0, <1>8 DEF DeleteMoved, ObjectTypes, TaskTypes
  <2>2. BoundTypes'
      BY <1>8 DEF DeleteMoved, BoundTypes
  <2>3. UNCHANGED <<indexVars, disk>>
      BY <1>8 DEF DeleteMoved
  <2>4. QED BY <1>8, <2>1, <2>2, <2>3 DEF DeleteMoved
<1>9. CASE Maintain
  <2> DEFINE rf == (refs \cap mapped) \cup {p \in mapped : p[2] \in Live}
  <2>1. rf \in SUBSET (Sessions \X Files)
      BY <1>0
  <2>2. /\ Written(state, rf) \/ Fails
        /\ Hourly("scanning") \/ Hourly("cleaning")
      BY <1>9 DEF Maintain
  <2> HIDE DEF rf
  <2>3. IndexTypes' /\ BoundTypes'
      BY <1>0, <2>1, <2>2, WritesKeepTypes
  <2>4. TaskTypes'
      BY <1>0, <2>2 DEF Hourly, TaskTypes, TaskSteps
  <2>5. SessionTypes'
      BY <1>9 DEF Maintain, SessionTypes
  <2>6. UNCHANGED <<old, objectVars>>
      BY <1>9 DEF Maintain
  <2>7. QED BY <1>9, <2>3, <2>4, <2>5, <2>6 DEF Maintain
<1>10. QED BY <1>1, <1>2, <1>3, <1>4, <1>5, <1>6, <1>7, <1>8, <1>9 DEF TaskNext

LEMMA StepsKeepTypes ==
    ASSUME TypeOK, UsingInv, [Next]_vars
    PROVE  TypeOK'
<1> USE UnchangedTypes, TypeParts
<1>1. ASSUME NEW s \in Sessions, RequestAction(s) PROVE TypeOK'
    BY <1>1, RequestsKeepTypes
<1>2. ASSUME NEW f \in Files, DropLease(f) PROVE TypeOK'
  <2>1. LeaseTypes'
      BY <1>2 DEF DropLease, LeaseTypes
  <2>2. UNCHANGED <<old, objectVars>> /\ UNCHANGED <<indexVars, disk>>
      BY <1>2 DEF DropLease
  <2>3. QED BY <1>2, <2>1, <2>2 DEF DropLease
<1>3. ASSUME NEW f \in Files, NEW gone \in SUBSET Files, Stage(f, gone) PROVE TypeOK'
  <2>1. TaskTypes'
    <3>1. (f \notin objects) \in BOOLEAN /\ "placed" \in TaskSteps
        BY DEF TaskSteps
    <3>2. QED BY <1>3, <3>1, TaskRecords DEF Stage, TaskTypes
  <2>2. ObjectTypes' /\ UNCHANGED <<indexVars, disk>>
      BY <1>3 DEF Stage, ObjectTypes
  <2>3. QED BY <1>3, <2>1, <2>2 DEF Stage
<1>4. ASSUME NEW f \in Files, TimePasses(f) PROVE TypeOK'
  <2>1. ObjectTypes'
      BY <1>4 DEF TimePasses, ObjectTypes, objectVars
  <2>2. UNCHANGED <<indexVars, disk>>
      BY <1>4 DEF TimePasses
  <2>3. QED BY <1>4, <2>1, <2>2 DEF TimePasses
<1>5. CASE TaskNext \/ Maintain
    BY <1>5, TasksKeepTypes
<1>6. CASE Crash
  <2>1. IndexTypes' /\ RecordTypes'
      BY <1>6 DEF Crash, IndexTypes, RecordTypes
  <2>2. LeaseTypes' /\ SessionTypes'
      BY <1>6 DEF Crash, LeaseTypes, SessionTypes
  <2>3. TaskTypes'
      BY <1>6 DEF Crash, TaskTypes, Tasks, TaskSteps, NoTask
  <2>4. BoundTypes'
      BY <1>6 DEF Crash, BoundTypes
  <2>5. UNCHANGED <<old, objectVars>>
      BY <1>6 DEF Crash
  <2>6. QED BY <2>1, <2>2, <2>3, <2>4, <2>5
<1>7. CASE UNCHANGED vars
    BY <1>7 DEF vars
<1>8. QED BY <1>1, <1>2, <1>3, <1>4, <1>5, <1>6, <1>7 DEF Next, RequestAction, UploadNext

LEMMA StepsKeepUsing ==
    ASSUME TypeOK, UsingInv, [Next]_vars
    PROVE  UsingInv'
<1> USE FilesAssumption DEF UsingInv, UsingAt, ResettingAt
<1>0. SessionTypes
    BY TypeParts
<1>1. ASSUME NEW s \in Sessions, RequestAction(s) PROVE UsingInv'
  <2> DEFINE
        Kept == UNCHANGED <<pc, using>> \/ Over(s)
        Begun == \E f \in Files : Goto(s, "uploading") /\ using' = [using EXCEPT ![s] = f]
        Ended == \E l \in {"idle", "rebuilding"} :
                     Goto(s, l) /\ using' = [using EXCEPT ![s] = NoFile]
        Moved == \E l \in {"idle", "rebuilding"} \cup UsingAt \cup ResettingAt :
                     /\ pc[s] \in UsingAt <=> l \in UsingAt
                     /\ Goto(s, l) /\ UNCHANGED using
  <2>1. Kept \/ Begun \/ Ended \/ Moved
    <3>1. ASSUME NEW f \in Files, Resolve(s, f) \/ ResolveFails(s, f) PROVE Kept \/ Begun
        BY <3>1 DEF Resolve, ResolveFails
    <3>2. CASE RebuildReset(s) \/ ApiReset(s) \/ Reconcile(s)
        BY <3>2 DEF RebuildReset, ApiReset, Reconcile
    <3>3. CASE Uploaded(s)
        BY <3>3 DEF Uploaded
    <3>4. CASE AddReference(s)
        BY <3>4 DEF AddReference
    <3>5. CASE PutMapping(s)
        BY <3>5 DEF PutMapping
    <3>6. CASE RemoveReference(s)
        BY <3>6 DEF RemoveReference
    <3>7. CASE RebuildEnds(s) \/ ResetRecord(s) \/ RestoreReferences(s)
        BY <3>7 DEF RebuildEnds, ResetRecord, RestoreReferences
    <3>8. QED BY <1>1, <3>1, <3>2, <3>3, <3>4, <3>5, <3>6, <3>7 DEF RequestAction, RequestNext
  <2>2. QED BY <1>0, <2>1 DEF Over, Goto, SessionTypes
<1>2. CASE Crash
    BY <1>2 DEF Crash
<1>3. CASE UNCHANGED <<pc, using>>
    BY <1>3
<1>4. \/ Crash \/ UNCHANGED <<pc, using>> \/ \E s \in Sessions : RequestAction(s)
  <2>1. ASSUME NEW f \in Files, DropLease(f) \/ UploadNext(f) \/ TimePasses(f)
        PROVE  UNCHANGED <<pc, using>>
      BY <2>1 DEF DropLease, UploadNext, Stage, TimePasses, sessionVars
  <2>2. CASE Maintain
      BY <2>2 DEF Maintain
  <2>3. CASE TaskNext
      BY <2>3 DEF TaskNext, StageWrite, RemoveEvicted, StageEnds, Discard, Scan, CleanupMove,
                  CleanupWrite, DeleteMoved, sessionVars
  <2>4. CASE UNCHANGED vars
      BY <2>4 DEF vars, sessionVars
  <2>5. QED BY <2>1, <2>2, <2>3, <2>4 DEF Next, RequestAction
<1>5. QED BY <1>1, <1>2, <1>3, <1>4

-----------------------------------------------------------------------------
(* Objects and entries                                                     *)

\* A request touches no object, no entry and no task, and no other request.
LEMMA RequestsLeaveObjects ==
    ASSUME TypeOK, NEW s \in Sessions, RequestAction(s)
    PROVE  /\ state' = state /\ task' = task /\ objects' = objects /\ trash' = trash
           /\ disk'.state \in {disk.state, state}
           /\ \A r \in Sessions \ {s} : pc'[r] = pc[r] /\ using'[r] = using[r]
<1> USE DEF indexVars, objectVars, Written, Fails, Lands, boundVars
<1>0. SessionTypes
    BY TypeParts
<1>1. ASSUME NEW f \in Files, Resolve(s, f) \/ ResolveFails(s, f)
      PROVE  /\ state' = state /\ task' = task /\ objects' = objects /\ trash' = trash
             /\ disk'.state \in {disk.state, state}
             /\ \A r \in Sessions \ {s} : pc'[r] = pc[r] /\ using'[r] = using[r]
    BY <1>0, <1>1 DEF Resolve, ResolveFails, Over, Goto, SessionTypes
<1>2. CASE RebuildReset(s)
    BY <1>0, <1>2 DEF RebuildReset, Goto, SessionTypes
<1>3. CASE ApiReset(s)
    BY <1>0, <1>3 DEF ApiReset, Goto, SessionTypes
<1>4. CASE Uploaded(s)
    BY <1>0, <1>4 DEF Uploaded, Over, Goto, SessionTypes
<1>5. CASE AddReference(s)
    BY <1>0, <1>5 DEF AddReference, Over, Goto, SessionTypes
<1>6. CASE PutMapping(s)
    BY <1>0, <1>6 DEF PutMapping, Over, Goto, SessionTypes
<1>7. CASE RemoveReference(s)
    BY <1>0, <1>7 DEF RemoveReference, Over, Goto, SessionTypes
<1>8. CASE RebuildEnds(s)
    BY <1>0, <1>8 DEF RebuildEnds, Over, Goto, SessionTypes
<1>9. CASE ResetRecord(s)
    BY <1>0, <1>9 DEF ResetRecord, Goto, SessionTypes
<1>10. CASE RestoreReferences(s)
    BY <1>0, <1>10 DEF RestoreReferences, Goto, SessionTypes
<1>11. CASE Reconcile(s)
    BY <1>0, <1>11 DEF Reconcile
<1>12. QED BY <1>1, <1>2, <1>3, <1>4, <1>5, <1>6, <1>7, <1>8, <1>9, <1>10, <1>11
           DEF RequestAction, RequestNext

\* A request that comes by the lock on files took it when it was free.
LEMMA RequestsKeepLock ==
    ASSUME TypeOK, LockInv, NEW s \in Sessions, RequestAction(s)
    PROVE  LockInv'
<1>0. SessionTypes
    BY TypeParts
<1>1. pc'[s] \in LockedAt => pc[s] \in LockedAt \/ FilesFree
  <2> USE DEF Goto, Over, SessionTypes
  <2>1. ASSUME NEW f \in Files, Resolve(s, f) \/ ResolveFails(s, f)
        PROVE  pc'[s] \notin LockedAt
      BY <1>0, <2>1 DEF Resolve, ResolveFails, LockedAt
  <2>2. CASE RebuildReset(s) \/ ApiReset(s)
      BY <2>2 DEF RebuildReset, ApiReset
  <2>3. CASE Uploaded(s)
      BY <1>0, <2>3 DEF Uploaded, LockedAt
  <2>4. CASE AddReference(s) \/ PutMapping(s) \/ RemoveReference(s)
      BY <2>4 DEF AddReference, PutMapping, RemoveReference, LockedAt
  <2>5. CASE RebuildEnds(s)
      BY <1>0, <2>5 DEF RebuildEnds, LockedAt
  <2>6. CASE ResetRecord(s) \/ RestoreReferences(s)
      BY <2>6 DEF ResetRecord, RestoreReferences, LockedAt
  <2>7. CASE Reconcile(s)
      BY <2>7 DEF Reconcile
  <2>8. QED BY <2>1, <2>2, <2>3, <2>4, <2>5, <2>6, <2>7 DEF RequestAction, RequestNext
<1>2. QED BY <1>1, RequestsLeaveObjects DEF LockInv, FilesFree

\* While the index lock is held over several steps nobody changes references,
\* leases or times of use.
LEMMA RequestsWaitForIndex ==
    ASSUME TypeOK, LockInv, NEW s \in Sessions, RequestAction(s), ~IndexFree
    PROVE  UNCHANGED <<refs, disk, leases, old>>
<1>1. task.at # "none" /\ ~FilesFree /\ pc[s] \notin LockedAt
    BY DEF IndexFree, LockInv, FilesFree
<1>2. \/ Uploaded(s) /\ ~FilesFree
      \/ RebuildEnds(s) /\ ~FilesFree
    BY <1>1 DEF RequestAction, RequestNext, Resolve, ResolveFails, Resolvable, RebuildReset,
                ApiReset, AddReference, PutMapping, RemoveReference, ResetRecord,
                RestoreReferences, Reconcile, LockedAt
<1>3. QED BY <1>2 DEF Uploaded, RebuildEnds, indexVars, leaseVars

LEMMA RequestsKeepObjects ==
    ASSUME ObjectInv, NEW s \in Sessions, RequestAction(s)
    PROVE  TaskInv' /\ NothingLost'
<1> USE DEF ObjectInv
<1>1. /\ state' = state /\ task' = task /\ objects' = objects /\ trash' = trash
      /\ disk'.state \in {disk.state, state}
    BY RequestsLeaveObjects
<1>2. NothingLost'
    BY <1>1 DEF NothingLost
<1>3. task.at = "placed" =>
          /\ task.file \in objects \ Live
          /\ task.created /\ disk'.state[task.file] = "live" => task.file \in trash
          /\ task.gone \subseteq {f \in Live : Unused(f)'}
    BY <1>1, RequestsWaitForIndex DEF TaskInv, Live, Unused, IndexFree
<1>4. task.at = "moving" => task.gone \subseteq Expirable'
    BY <1>1, RequestsWaitForIndex DEF TaskInv, Expirable, Entry, Unused, IndexFree
<1>5. \A f : NotLive(f) => NotLive(f)'
    BY <1>1 DEF NotLive
<1>6. TaskInv'
    BY <1>1, <1>3, <1>4, <1>5 DEF TaskInv, Live, NoTask
<1>7. QED BY <1>2, <1>6

\* What a task in progress leaves alone, and that it holds the lock on files.
LEMMA TasksKeepLock ==
    ASSUME LockInv, TaskNext \/ Maintain
    PROVE  LockInv'
<1>1. UNCHANGED pc
    BY DEF TaskNext, StageWrite, RemoveEvicted, StageEnds, Discard, Scan, CleanupMove,
           CleanupWrite, DeleteMoved, Maintain, sessionVars
<1>2. task.at # "none" \/ FilesFree
    BY DEF TaskNext, StageWrite, RemoveEvicted, StageEnds, Discard, Scan, CleanupMove,
           CleanupWrite, DeleteMoved, Maintain
<1>3. QED BY <1>1, <1>2 DEF LockInv, FilesFree

LEMMA UploadsKeepObjects ==
    ASSUME ObjectInv, StageWrite \/ RemoveEvicted \/ StageEnds \/ Discard
    PROVE  TaskInv' /\ NothingLost'
<1> USE DEF ObjectInv, indexVars, objectVars
<1>0. /\ IndexTypes /\ ObjectTypes /\ task \in Tasks
      /\ \A l \in TaskSteps : [task EXCEPT !.at = l].at = l
                           /\ [task EXCEPT !.at = l].gone = task.gone
                           /\ [task EXCEPT !.at = l].file = task.file
      /\ \A g : [task EXCEPT !.gone = g].gone = g
             /\ [task EXCEPT !.gone = g].at = task.at
             /\ [task EXCEPT !.gone = g].file = task.file
    BY TypeParts DEF TaskTypes, Tasks
<1>1. CASE StageWrite
  <2> DEFINE st == [g \in Files |-> IF g = task.file THEN "live"
                                   ELSE IF g \in task.gone THEN "absent" ELSE state[g]]
             rf == {p \in refs : p[2] \notin task.gone \cup {task.file}}
  <2>1. /\ task.at = "placed" /\ task.file \in Files
        /\ task.file \in objects /\ task.file \notin Live /\ task.gone \subseteq Live
        /\ task.created /\ disk.state[task.file] = "live" => task.file \in trash
      BY <1>1 DEF StageWrite, TaskInv
  <2>2. /\ \A f \in Files : st[f] = "live" =>
               f = task.file \/ (f \notin task.gone /\ state[f] = "live")
        /\ task.file \notin task.gone
      BY <2>1 DEF Live
  <2>3. CASE Written(st, rf) /\ task' = [task EXCEPT !.at = "removing"] /\ UNCHANGED objects
    <3>1. state' = st /\ disk'.state = st /\ trash' = trash
        BY <1>1, <2>3 DEF StageWrite, Written
    <3>2. NothingLost'
        BY <2>1, <2>2, <2>3, <3>1 DEF NothingLost
    <3>3. \A f \in task.gone : NotLive(f)'
        BY <2>1, <2>2, <3>1 DEF NotLive, Live
    <3>4. task'.at = "removing" /\ task'.gone = task.gone /\ task'.file = task.file
        BY <1>0, <2>3 DEF TaskSteps
    <3>5. TaskInv'
        BY <2>1, <3>3, <3>4 DEF TaskInv
    <3>6. QED BY <3>2, <3>5
  <2>4. CASE /\ Fails /\ task' = NoTask
             /\ objects' = IF task.created THEN objects \ {task.file} ELSE objects
    <3>1. UNCHANGED <<state, disk, trash>>
        BY <1>1, <2>4 DEF StageWrite, Fails
    <3>2. NothingLost'
        BY <2>1, <2>4, <3>1 DEF NothingLost, Live
    <3>3. QED BY <2>4, <3>2 DEF TaskInv, NoTask
  <2>5. CASE Lands(st, rf) /\ task' = NoTask /\ UNCHANGED objects
    <3>1. UNCHANGED <<state, trash>> /\ disk'.state = st
        BY <1>1, <2>5 DEF StageWrite, Lands
    <3>2. NothingLost'
        BY <2>1, <2>2, <2>5, <3>1 DEF NothingLost
    <3>3. QED BY <2>5, <3>2 DEF TaskInv, NoTask
  <2>6. QED BY <1>1, <2>3, <2>4, <2>5 DEF StageWrite
<1>2. CASE RemoveEvicted
  <2>1. /\ task.at = "removing" /\ task.file \in Files /\ UNCHANGED <<state, disk, trash>>
        /\ \A f \in task.gone : NotLive(f)
      BY <1>2 DEF RemoveEvicted, TaskInv
  <2>2. \/ /\ UNCHANGED objects
           /\ task' \in {NoTask, [task EXCEPT !.at = "staged"]}
        \/ \E f \in task.gone : /\ task' = [task EXCEPT !.gone = @ \ {f}]
                                /\ objects' \in {objects, objects \ {f}}
      BY <1>2 DEF RemoveEvicted
  <2>3. NothingLost'
      BY <2>1, <2>2 DEF NothingLost, NotLive
  <2>4. /\ task'.at \in {"none", "removing", "staged"}
        /\ task'.at = "none" => task' = NoTask
        /\ task'.at # "none" => task'.file \in Files
        /\ task'.at = "removing" => task'.gone \subseteq task.gone
    <3>1. CASE task' = NoTask
        BY <3>1 DEF NoTask
    <3>2. CASE task' = [task EXCEPT !.at = "staged"]
      <4>1. task'.at = "staged" /\ task'.file = task.file
          BY <1>0, <3>2 DEF TaskSteps
      <4>2. QED BY <2>1, <4>1
    <3>3. ASSUME NEW f \in task.gone, task' = [task EXCEPT !.gone = @ \ {f}]
          PROVE  task'.at = "removing" /\ task'.file \in Files /\ task'.gone \subseteq task.gone
        BY <1>0, <2>1, <3>3
    <3>4. QED BY <2>2, <3>1, <3>2, <3>3
  <2>5. \A f \in task.gone : NotLive(f)'
      BY <2>1 DEF NotLive
  <2>6. QED BY <2>3, <2>4, <2>5 DEF TaskInv
<1>3. CASE StageEnds
  <2> DEFINE st == [state EXCEPT ![task.file] = "absent"]
  <2>1. task.at = "staged" /\ task.file \in Files /\ UNCHANGED <<objects, trash>>
      BY <1>3 DEF StageEnds, TaskInv
  <2>2. /\ st[task.file] = "absent"
        /\ \A f \in Files : st[f] = "live" => state[f] = "live"
      BY <1>0, <2>1 DEF IndexTypes
  <2>3. CASE Written(st, refs) /\ task' = [task EXCEPT !.at = "discarding"]
    <3>1. state' = st /\ disk'.state = st
        BY <2>3 DEF Written
    <3>2. NothingLost'
        BY <2>1, <2>2, <3>1 DEF NothingLost
    <3>3. task'.at = "discarding" /\ task'.file = task.file
        BY <1>0, <2>3 DEF TaskSteps
    <3>4. QED BY <2>1, <2>2, <3>1, <3>2, <3>3 DEF TaskInv, NotLive
  <2>4. CASE task' = NoTask /\ ((Fails \/ Lands(st, refs)) \/ UNCHANGED <<indexVars, disk>>)
    <3>1. state' = state /\ (disk'.state = disk.state \/ disk'.state = st)
        BY <2>4 DEF Fails, Lands
    <3>2. NothingLost'
        BY <2>1, <2>2, <3>1 DEF NothingLost
    <3>3. QED BY <2>4, <3>2 DEF TaskInv, NoTask
  <2>5. QED BY <1>3, <2>3, <2>4 DEF StageEnds
<1>4. CASE Discard
  <2>1. NotLive(task.file) /\ UNCHANGED <<state, disk, trash>> /\ task' = NoTask
        /\ objects' \in {objects, objects \ {task.file}}
      BY <1>4 DEF Discard, TaskInv
  <2>2. NothingLost'
      BY <2>1 DEF NothingLost, NotLive
  <2>3. QED BY <2>1, <2>2 DEF TaskInv, NoTask
<1>5. QED BY <1>1, <1>2, <1>3, <1>4

LEMMA MaintenanceKeepsObjects ==
    ASSUME ObjectInv, Maintain \/ Scan \/ CleanupMove \/ CleanupWrite \/ DeleteMoved
    PROVE  TaskInv' /\ NothingLost'
<1> USE DEF ObjectInv, indexVars, objectVars
<1>0. /\ IndexTypes /\ ObjectTypes /\ task \in Tasks
      /\ \A l \in TaskSteps : [task EXCEPT !.at = l].at = l
                           /\ [task EXCEPT !.at = l].gone = task.gone
      /\ \A l \in TaskSteps : \A g : [task EXCEPT !.at = l, !.gone = g].at = l
                                    /\ [task EXCEPT !.at = l, !.gone = g].gone = g
    BY TypeParts DEF TaskTypes, Tasks
<1>1. CASE Maintain
  <2>1. /\ UNCHANGED <<state, objects, trash>> /\ disk'.state \in {disk.state, state}
        /\ task.at \in {"none", "loaded"}
        /\ \/ Hourly("scanning") /\ disk'.state = state
           \/ Hourly("cleaning")
      BY <1>1 DEF Maintain, FilesFree, Written, Fails
  <2>2. task.gone = {}
      BY <2>1 DEF TaskInv, NoTask
  <2>3. NothingLost'
      BY <2>1 DEF NothingLost
  <2>4. /\ task'.at \in {"scanning", "cleaning"} /\ task'.gone = {}
        /\ task'.at = "scanning" => disk'.state = state'
    <3>1. CASE Hourly("scanning") /\ disk'.state = state
        BY <1>0, <2>1, <2>2, <3>1 DEF Hourly, TaskSteps
    <3>2. CASE Hourly("cleaning")
      <4>1. task'.at = "cleaning" /\ task'.gone = {}
          BY <1>0, <2>2, <3>2 DEF Hourly, TaskSteps
      <4>2. QED BY <4>1
    <3>3. QED BY <2>1, <3>1, <3>2
  <2>5. QED BY <2>3, <2>4 DEF TaskInv
<1>2. CASE Scan
  <2>1. /\ disk.state = state /\ task.gone = {} /\ UNCHANGED <<state, disk>>
        /\ Hourly("loaded") \/ Hourly("cleaning")
        /\ \E left : /\ objects' = (objects \cap (Live \cup left)) \cup ((trash \cap Live) \ left)
                     /\ trash' = trash \cap left
      BY <1>2 DEF Scan, TaskInv
  <2>2. NothingLost'
      BY <2>1 DEF NothingLost, Live
  <2>3. task'.at \in {"loaded", "cleaning"} /\ task'.gone = {}
    <3>1. CASE Hourly("loaded")
        BY <1>0, <2>1, <3>1 DEF Hourly, TaskSteps
    <3>2. CASE Hourly("cleaning")
        BY <1>0, <2>1, <3>2 DEF Hourly, TaskSteps
    <3>3. QED BY <2>1, <3>1, <3>2
  <2>4. QED BY <2>2, <2>3 DEF TaskInv
<1>3. CASE CleanupMove
  <2>1. UNCHANGED <<state, disk, refs, old, leases>>
      BY <1>3 DEF CleanupMove, leaseVars
  <2>2. task.gone \subseteq Expirable
      BY <1>3 DEF CleanupMove, TaskInv
  <2>3. Expirable' = Expirable
      BY <2>1 DEF Expirable, Entry, Unused
  <2>4. ASSUME NEW f \in Expirable, objects' = objects \ {f}, trash' = trash \cup {f},
               task' = [task EXCEPT !.at = "moving", !.gone = @ \cup {f}]
        PROVE  TaskInv' /\ NothingLost'
    <3>1. NothingLost'
        BY <2>1, <2>4 DEF NothingLost
    <3>2. task'.at = "moving" /\ task'.gone = task.gone \cup {f}
        BY <1>0, <2>4 DEF TaskSteps
    <3>3. QED BY <2>2, <2>3, <2>4, <3>1, <3>2 DEF TaskInv
  <2>5. CASE RestoreMoved(task.gone) /\ task' = NoTask
    <3>1. NothingLost'
        BY <2>1, <2>5 DEF NothingLost, RestoreMoved
    <3>2. QED BY <2>5, <3>1 DEF TaskInv, NoTask
  <2>6. QED BY <1>3, <2>4, <2>5 DEF CleanupMove
<1>4. CASE CleanupWrite
  <2> DEFINE st == [f \in Files |-> IF f \in Expirable THEN "expired" ELSE state[f]]
  <2>1. task.gone \subseteq Expirable
      BY <1>4 DEF CleanupWrite, TaskInv
  <2>2. CASE Written(st, refs) /\ Hourly("deleting") /\ UNCHANGED objectVars
    <3>1. state' = st /\ disk'.state = st
        BY <2>2 DEF Written
    <3>2. \A f \in Files : st[f] = "live" => state[f] = "live" /\ f \notin Expirable
        OBVIOUS
    <3>3. NothingLost'
        BY <2>2, <3>1, <3>2 DEF NothingLost
    <3>4. \A f \in task.gone : NotLive(f)'
        BY <2>1, <3>1, <3>2 DEF NotLive, Expirable
    <3>5. task'.at = "deleting" /\ task'.gone = task.gone
        BY <1>0, <2>2 DEF Hourly, TaskSteps
    <3>6. QED BY <3>3, <3>4, <3>5 DEF TaskInv
  <2>3. CASE RestoreMoved(task.gone) /\ task' = NoTask /\ UNCHANGED <<indexVars, disk>>
    <3>1. NothingLost'
        BY <2>3 DEF NothingLost, RestoreMoved
    <3>2. QED BY <2>3, <3>1 DEF TaskInv, NoTask
  <2>4. QED BY <1>4, <2>2, <2>3 DEF CleanupWrite
<1>5. CASE DeleteMoved
  <2>1. /\ \A f \in task.gone : NotLive(f)
        /\ UNCHANGED <<state, disk, objects>> /\ task' = NoTask
        /\ \E left : trash' = trash \ (task.gone \ left)
      BY <1>5 DEF DeleteMoved, TaskInv
  <2>2. NothingLost'
      BY <2>1 DEF NothingLost, NotLive
  <2>3. QED BY <2>1, <2>2 DEF TaskInv, NoTask
<1>6. QED BY <1>1, <1>2, <1>3, <1>4, <1>5

LEMMA OthersKeepObjects ==
    ASSUME ObjectInv,
           \/ \E f \in Files : DropLease(f) \/ UploadNext(f) \/ TimePasses(f)
           \/ Crash \/ UNCHANGED vars
    PROVE  LockInv' /\ TaskInv' /\ NothingLost'
<1> USE DEF ObjectInv
<1>1. ASSUME NEW f \in Files, DropLease(f) \/ TimePasses(f)
      PROVE  LockInv' /\ TaskInv' /\ NothingLost'
  <2>1. /\ UNCHANGED <<state, disk, objects, trash, task, pc>>
        /\ task.at \notin {"placed", "moving"}
      BY <1>1 DEF DropLease, TimePasses, IndexFree, indexVars, objectVars, sessionVars
  <2>2. QED BY <2>1 DEF LockInv, TaskInv, NothingLost, Live, NotLive, NoTask
<1>2. ASSUME NEW f \in Files, NEW gone \in SUBSET Files, Stage(f, gone)
      PROVE  LockInv' /\ TaskInv' /\ NothingLost'
  <2>1. /\ UNCHANGED <<state, refs, disk, trash, leases, pc>> /\ objects' = objects \cup {f}
        /\ FilesFree /\ f \notin Live /\ gone \subseteq {g \in Live : Unused(g)}
        /\ task' = [NoTask EXCEPT !.at = "placed", !.file = f, !.gone = gone,
                                  !.created = f \notin objects]
      BY <1>2 DEF Stage, Evictable, indexVars, leaseVars, sessionVars
  <2>2. /\ task'.at = "placed" /\ task'.file = f /\ task'.gone = gone
        /\ task'.created => f \notin objects
      BY <2>1 DEF NoTask
  <2>3. NothingLost'
      BY <2>1 DEF NothingLost
  <2>4. LockInv'
      BY <2>1 DEF LockInv, FilesFree
  <2>5. {g \in Live : Unused(g)}' = {g \in Live : Unused(g)} /\ Live' = Live
      BY <2>1 DEF Live, Unused
  <2>6. disk'.state[f] = "live" /\ f \notin objects => f \in trash'
      BY <2>1 DEF NothingLost
  <2>7. TaskInv'
    <3>1. task'.file \in objects' \ Live'
        BY <2>1, <2>2, <2>5
    <3>2. task'.created /\ disk'.state[task'.file] = "live" => task'.file \in trash'
        BY <2>2, <2>6
    <3>3. task'.gone \subseteq {g \in Live : Unused(g)}'
        BY <2>1, <2>2, <2>5
    <3>4. QED BY <2>2, <3>1, <3>2, <3>3 DEF TaskInv
  <2>8. QED BY <2>3, <2>4, <2>7
<1>3. CASE Crash
  <2>1. /\ state' = disk.state /\ disk' = disk /\ UNCHANGED <<objects, trash>>
        /\ task'.at = "loading" /\ task'.gone = {}
        /\ pc' = [s \in Sessions |-> "idle"]
      BY <1>3 DEF Crash, NoTask, objectVars
  <2>2. NothingLost'
      BY <2>1 DEF NothingLost
  <2>3. LockInv'
      BY <2>1 DEF LockInv, LockedAt
  <2>4. TaskInv'
      BY <2>1 DEF TaskInv
  <2>5. QED BY <2>2, <2>3, <2>4
<1>4. CASE UNCHANGED vars
  <2>1. UNCHANGED <<state, refs, disk, leases, old, objects, trash, task, pc>>
      BY <1>4 DEF vars, indexVars, leaseVars, objectVars, sessionVars
  <2>2. QED BY <2>1 DEF LockInv, TaskInv, NothingLost, Live, NotLive, NoTask, Unused,
                       Expirable, Entry
<1>5. QED BY <1>1, <1>2, <1>3, <1>4 DEF UploadNext

LEMMA StepsKeepObjects ==
    ASSUME ObjectInv, [Next]_vars
    PROVE  ObjectInv'
<1>1. TypeOK' /\ UsingInv'
    BY StepsKeepTypes, StepsKeepUsing DEF ObjectInv
<1>2. ASSUME NEW s \in Sessions, RequestAction(s)
      PROVE  LockInv' /\ TaskInv' /\ NothingLost'
    BY <1>2, RequestsKeepLock, RequestsKeepObjects DEF ObjectInv
<1>3. ASSUME TaskNext \/ Maintain
      PROVE  LockInv' /\ TaskInv' /\ NothingLost'
    BY <1>3, TasksKeepLock, UploadsKeepObjects, MaintenanceKeepsObjects DEF TaskNext, ObjectInv
<1>4. ASSUME \/ \E f \in Files : DropLease(f) \/ UploadNext(f) \/ TimePasses(f)
             \/ Crash \/ UNCHANGED vars
      PROVE  LockInv' /\ TaskInv' /\ NothingLost'
    BY <1>4, OthersKeepObjects
<1>5. LockInv' /\ TaskInv' /\ NothingLost'
    BY <1>2, <1>3, <1>4 DEF Next, RequestAction
<1>6. QED BY <1>1, <1>5 DEF ObjectInv

LEMMA InitialObjects == Init => ObjectInv
<1> SUFFICES ASSUME Init PROVE ObjectInv
    OBVIOUS
<1>1. TypeOK /\ UsingInv
  <2>1. TypeOK
      BY FilesAssumption DEF Init, TypeOK, NoTask
  <2>2. QED BY <2>1 DEF Init, UsingInv, UsingAt
<1>2. LockInv /\ NothingLost
    BY DEF Init, LockInv, LockedAt, NothingLost
<1>3. TaskInv
    BY DEF Init, TaskInv, NoTask
<1>4. QED BY <1>1, <1>2, <1>3 DEF ObjectInv

\* The types of StagedFiles, for any number of files, sessions and faults.
THEOREM StagedTypes == Spec => []TypeOK
<1>1. ObjectInv /\ [Next]_vars => ObjectInv'
    BY StepsKeepObjects
<1>2. ObjectInv => TypeOK
    BY DEF ObjectInv
<1>3. QED BY InitialObjects, <1>1, <1>2, PTL DEF Spec

\* What the index or its file has as live has its object, or an artifact that the
\* next scan restores, through uploads, evictions, cleanups, failed and cancelled
\* writes, resolves that fail, and restarts.
THEOREM LiveObjectsStay == Spec => []NothingLost
<1>1. ObjectInv /\ [Next]_vars => ObjectInv'
    BY StepsKeepObjects
<1>2. ObjectInv => NothingLost
    BY DEF ObjectInv
<1>3. QED BY InitialObjects, <1>1, <1>2, PTL DEF Spec

-----------------------------------------------------------------------------
(* Leases                                                                  *)

\* A request takes a lease of a file that is there, gives one up, drops one that
\* never counted, or does nothing to leases.
Takes(s, f) ==
    /\ using[s] = NoFile /\ using' = [using EXCEPT ![s] = f]
    /\ leases' = [leases EXCEPT ![f] = @ + 1] /\ UNCHANGED <<drops, uncounted>>
    /\ f \in Live \cap objects
Gives(s) ==
    /\ using[s] \in Files /\ using' = [using EXCEPT ![s] = NoFile]
    /\ drops' = [drops EXCEPT ![using[s]] = @ + 1] /\ UNCHANGED <<leases, uncounted>>
Miscounts(f) ==
    /\ drops' = [drops EXCEPT ![f] = @ + 1] /\ uncounted' = uncounted \cup {f}
    /\ UNCHANGED <<using, leases>>

LEMMA RequestsTakeAndGive ==
    ASSUME TypeOK, UsingInv, NEW s \in Sessions, RequestAction(s)
    PROVE  \/ \E f \in Files : Takes(s, f) \/ Miscounts(f)
           \/ Gives(s)
           \/ UNCHANGED <<using, leaseVars>>
<1>0. SessionTypes
    BY TypeParts
<1>1. /\ pc[s] \in UsingAt => using[s] \in Files
      /\ pc[s] \notin UsingAt => using[s] = NoFile
    BY <1>0 DEF SessionTypes, UsingInv
<1>2. ASSUME NEW f \in Files, Resolve(s, f) PROVE Takes(s, f)
    BY <1>1, <1>2 DEF Resolve, Resolvable, Takes, UsingAt
<1>3. ASSUME NEW f \in Files, ResolveFails(s, f) PROVE Miscounts(f)
  <2>1. using' = [using EXCEPT ![s] = NoFile] /\ using[s] = NoFile
      BY <1>1, <1>3 DEF ResolveFails, Resolvable, Over, UsingAt
  <2>2. using' = using
      BY <1>0, <2>1 DEF SessionTypes
  <2>3. QED BY <1>3, <2>2 DEF ResolveFails, Miscounts
<1>4. CASE RebuildReset(s) \/ ApiReset(s) \/ Reconcile(s)
    BY <1>4 DEF RebuildReset, ApiReset, Reconcile
<1>5. CASE Uploaded(s)
    BY <1>1, <1>5 DEF Uploaded, Over, Dropped, Gives, UsingAt, leaseVars
<1>6. CASE AddReference(s)
    BY <1>1, <1>6 DEF AddReference, Over, Dropped, Gives, UsingAt, leaseVars
<1>7. CASE PutMapping(s)
    BY <1>1, <1>7 DEF PutMapping, Over, Dropped, Gives, UsingAt, leaseVars
<1>8. CASE RemoveReference(s)
    BY <1>1, <1>8 DEF RemoveReference, Over, Dropped, Gives, UsingAt
<1>9. CASE RebuildEnds(s)
  <2>1. using' = using \/ using' = [using EXCEPT ![s] = NoFile]
      BY <1>9 DEF RebuildEnds, Over
  <2>2. using[s] = NoFile
      BY <1>1, <1>9 DEF RebuildEnds, UsingAt
  <2>3. QED BY <1>0, <1>9, <2>1, <2>2 DEF RebuildEnds, SessionTypes
<1>10. CASE ResetRecord(s) \/ RestoreReferences(s)
    BY <1>10 DEF ResetRecord, RestoreReferences
<1>11. QED BY <1>2, <1>3, <1>4, <1>5, <1>6, <1>7, <1>8, <1>9, <1>10
           DEF RequestAction, RequestNext

LEMMA RequestsKeepLeases ==
    ASSUME ObjectInv, LeaseInv, NEW s \in Sessions, RequestAction(s)
    PROVE  LeaseInv'
<1>0. /\ SessionTypes /\ LeaseTypes
      /\ Live' = Live /\ objects' = objects
    BY TypeParts, RequestsLeaveObjects DEF ObjectInv, Live
<1> SUFFICES ASSUME NEW f \in Files PROVE LeasedInv(f)'
    BY DEF LeaseInv
<1>1. /\ IsFiniteSet(UsersOf(f)) /\ Cardinality(UsersOf(f)) \in Nat
      /\ LeasedInv(f) /\ leases[f] \in Nat /\ drops[f] \in Nat
    BY <1>0, FS_CardinalityType DEF LeaseInv, LeasedInv, LeaseTypes
<1>2. ASSUME NEW g \in Files, Takes(s, g) PROVE LeasedInv(f)'
  <2>1. CASE f = g
    <3>1. UsersOf(f)' = UsersOf(f) \cup {s} /\ s \notin UsersOf(f)
        BY <1>0, <1>2, <2>1, FilesAssumption DEF UsersOf, Takes, SessionTypes
    <3>2. /\ leases'[f] = leases[f] + 1 /\ drops'[f] = drops[f]
          /\ uncounted' = uncounted /\ f \in Live \cap objects
        BY <1>0, <1>2, <2>1 DEF Takes, LeaseTypes
    <3>3. /\ IsFiniteSet(UsersOf(f) \cup {s})
          /\ Cardinality(UsersOf(f) \cup {s}) = Cardinality(UsersOf(f)) + 1
        BY <1>1, <3>1, FS_AddElement
    <3>4. QED BY <1>0, <1>1, <3>1, <3>2, <3>3 DEF LeasedInv
  <2>2. CASE f # g
    <3>1. UsersOf(f)' = UsersOf(f)
        BY <1>0, <1>2, <2>2, FilesAssumption DEF UsersOf, Takes, SessionTypes
    <3>2. leases'[f] = leases[f] /\ drops'[f] = drops[f] /\ uncounted' = uncounted
        BY <1>0, <1>2, <2>2 DEF Takes, LeaseTypes
    <3>3. QED BY <1>0, <1>1, <3>1, <3>2 DEF LeasedInv
  <2>3. QED BY <2>1, <2>2
<1>3. CASE Gives(s)
  <2>1. CASE f = using[s]
    <3>1. UsersOf(f)' = UsersOf(f) \ {s} /\ s \in UsersOf(f)
        BY <1>0, <1>3, <2>1, FilesAssumption DEF UsersOf, Gives, SessionTypes
    <3>2. leases'[f] = leases[f] /\ drops'[f] = drops[f] + 1 /\ uncounted' = uncounted
        BY <1>0, <1>3, <2>1 DEF Gives, LeaseTypes
    <3>3. /\ IsFiniteSet(UsersOf(f) \ {s})
          /\ Cardinality(UsersOf(f) \ {s}) = Cardinality(UsersOf(f)) - 1
        BY <1>1, <3>1, FS_RemoveElement
    <3>4. QED BY <1>0, <1>1, <3>1, <3>2, <3>3 DEF LeasedInv
  <2>2. CASE f # using[s]
    <3>1. UsersOf(f)' = UsersOf(f)
        BY <1>0, <1>3, <2>2, FilesAssumption DEF UsersOf, Gives, SessionTypes
    <3>2. leases'[f] = leases[f] /\ drops'[f] = drops[f] /\ uncounted' = uncounted
        BY <1>0, <1>3, <2>2 DEF Gives, LeaseTypes
    <3>3. QED BY <1>0, <1>1, <3>1, <3>2 DEF LeasedInv
  <2>3. QED BY <2>1, <2>2
<1>4. ASSUME NEW g \in Files, Miscounts(g) PROVE LeasedInv(f)'
  <2>1. UsersOf(f)' = UsersOf(f) /\ leases' = leases
      BY <1>4 DEF UsersOf, Miscounts
  <2>2. \/ f \in uncounted' /\ drops'[f] = drops[f] + 1
        \/ (f \in uncounted' <=> f \in uncounted) /\ drops'[f] = drops[f]
      BY <1>0, <1>4 DEF Miscounts, LeaseTypes
  <2>3. QED BY <1>0, <1>1, <2>1, <2>2 DEF LeasedInv
<1>5. CASE UNCHANGED <<using, leaseVars>>
  <2>1. UsersOf(f)' = UsersOf(f) /\ UNCHANGED <<leases, drops, uncounted>>
      BY <1>5 DEF UsersOf, leaseVars
  <2>2. QED BY <1>0, <1>1, <2>1 DEF LeasedInv
<1>6. QED BY <1>2, <1>3, <1>4, <1>5, RequestsTakeAndGive DEF ObjectInv

\* No task takes away what is leased, and none changes a lease that is held, where
\* no count was lost.
Leased(f) == f \notin uncounted /\ leases[f] > 0

LEMMA TasksKeepLeased ==
    ASSUME ObjectInv, LeaseInv, TaskNext \/ Maintain
    PROVE  /\ drops' = drops /\ using' = using /\ uncounted' = uncounted
           /\ \A f \in Files : /\ leases'[f] <= leases[f]
                               /\ f \notin uncounted => leases'[f] = leases[f]
                               /\ Leased(f) => f \in Live' \cap objects'
<1> USE DEF ObjectInv, Live, indexVars, objectVars, leaseVars, sessionVars
<1> DEFINE Goal == /\ drops' = drops /\ using' = using /\ uncounted' = uncounted
                   /\ \A f \in Files : /\ leases'[f] <= leases[f]
                                       /\ f \notin uncounted => leases'[f] = leases[f]
                                       /\ Leased(f) => f \in Live' \cap objects'
<1>0. /\ \A f \in Files : Leased(f) => state[f] = "live" /\ f \in objects /\ leases[f] > 0
      /\ \A f \in Files : f \notin uncounted /\ state[f] # "live" => leases[f] = 0
      /\ LeaseTypes
    BY TypeParts DEF LeaseInv, LeasedInv, Leased, LeaseTypes
<1>l. ASSUME leases' = leases
      PROVE  \A f \in Files : leases'[f] <= leases[f] /\ leases'[f] = leases[f]
    BY <1>0, <1>l DEF LeaseTypes
<1> SUFFICES Goal
    OBVIOUS
<1>1. CASE StageWrite
  <2> DEFINE st == [g \in Files |-> IF g = task.file THEN "live"
                                   ELSE IF g \in task.gone THEN "absent" ELSE state[g]]
             rf == {p \in refs : p[2] \notin task.gone \cup {task.file}}
  <2>1. /\ task.file \in Files /\ state[task.file] # "live"
        /\ \A f \in task.gone : leases[f] = 0
        /\ drops' = drops /\ using' = using /\ uncounted' = uncounted
      BY <1>1 DEF StageWrite, TaskInv, Unused
  <2>2. task.file \notin uncounted => leases[task.file] = 0
      BY <1>0, <2>1
  <2>3. ASSUME NEW f \in Files, Leased(f)
        PROVE  f \notin task.gone /\ f # task.file /\ f \in objects /\ st[f] = "live"
      BY <1>0, <2>1, <2>2, <2>3
  <2>4. CASE Written(st, rf) /\ leases' = [leases EXCEPT ![task.file] = 0] /\ UNCHANGED objects
    <3>1. state' = st
        BY <2>4 DEF Written
    <3>2. \A f \in Files : /\ leases'[f] <= leases[f]
                           /\ f \notin uncounted => leases'[f] = leases[f]
        BY <1>0, <2>1, <2>2, <2>4 DEF LeaseTypes
    <3>3. QED BY <2>1, <2>3, <2>4, <3>1, <3>2
  <2>5. CASE /\ state' = state /\ leases' = leases
             /\ objects' \in {objects, objects \ {task.file}}
      BY <1>0, <1>l, <2>1, <2>3, <2>5
  <2>6. QED BY <1>1, <2>4, <2>5 DEF StageWrite, Fails, Lands
<1>2. CASE RemoveEvicted
  <2>1. /\ UNCHANGED <<state, leases, drops, uncounted, using>>
        /\ \A f \in task.gone : state[f] # "live"
        /\ objects' = objects \/ \E f \in task.gone : objects' = objects \ {f}
      BY <1>2 DEF RemoveEvicted, TaskInv, NotLive
  <2>2. QED BY <1>0, <1>l, <2>1
<1>3. CASE StageEnds
  <2> DEFINE st == [state EXCEPT ![task.file] = "absent"]
  <2>1. /\ UNCHANGED <<objects, leases, drops, uncounted, using>>
        /\ state' = state \/ (state' = st /\ leases[task.file] = 0)
      BY <1>3 DEF StageEnds, Written, Fails, Lands, Unused
  <2>2. ASSUME NEW f \in Files, Leased(f), leases[task.file] = 0
        PROVE  st[f] = "live"
    <3>1. IndexTypes
        BY TypeParts
    <3>2. QED BY <1>0, <2>2, <3>1 DEF IndexTypes
  <2>3. QED BY <1>0, <1>l, <2>1, <2>2
<1>4. CASE Discard
  <2>1. /\ UNCHANGED <<state, leases, drops, uncounted, using>>
        /\ state[task.file] # "live" /\ objects' \in {objects, objects \ {task.file}}
      BY <1>4 DEF Discard, TaskInv, NotLive
  <2>2. QED BY <1>0, <1>l, <2>1
<1>5. CASE Scan
  <2>1. /\ UNCHANGED <<state, leases, drops, uncounted, using>>
        /\ objects \cap Live \subseteq objects'
      BY <1>5 DEF Scan
  <2>2. QED BY <1>0, <1>l, <2>1
<1>6. CASE CleanupMove
  <2>1. /\ UNCHANGED <<state, leases, drops, uncounted, using>>
        /\ \/ objects \subseteq objects'
           \/ \E f \in Expirable : objects' = objects \ {f}
      BY <1>6 DEF CleanupMove, RestoreMoved
  <2>2. \A f \in Expirable : leases[f] = 0
      BY DEF Expirable, Unused
  <2>3. QED BY <1>0, <1>l, <2>1, <2>2
<1>7. CASE CleanupWrite
  <2> DEFINE st == [f \in Files |-> IF f \in Expirable THEN "expired" ELSE state[f]]
  <2>1. /\ UNCHANGED <<leases, drops, uncounted, using>> /\ objects \subseteq objects'
        /\ state' \in {state, st}
      BY <1>7 DEF CleanupWrite, Written, RestoreMoved
  <2>2. ASSUME NEW f \in Files, Leased(f)
        PROVE  st[f] = "live"
      BY <1>0, <2>2 DEF Expirable, Unused
  <2>3. QED BY <1>0, <1>l, <2>1, <2>2
<1>8. CASE DeleteMoved
    BY <1>0, <1>l, <1>8 DEF DeleteMoved
<1>9. CASE Maintain
    BY <1>0, <1>l, <1>9 DEF Maintain, Written, Fails
<1>10. QED BY <1>1, <1>2, <1>3, <1>4, <1>5, <1>6, <1>7, <1>8, <1>9 DEF TaskNext

LEMMA StepsKeepLeases ==
    ASSUME ObjectInv, LeaseInv, [Next]_vars
    PROVE  LeaseInv'
<1> USE DEF ObjectInv
<1>0. LeaseTypes /\ \A f \in Files : Cardinality(UsersOf(f)) \in Nat
    BY TypeParts, FS_CardinalityType DEF LeaseInv, LeasedInv
<1>1. ASSUME NEW s \in Sessions, RequestAction(s) PROVE LeaseInv'
    BY <1>1, RequestsKeepLeases
<1>2. CASE TaskNext \/ Maintain
  <2>1. \A f : UsersOf(f)' = UsersOf(f)
      BY <1>2, TasksKeepLeased DEF UsersOf
  <2>2. TypeOK'
      BY <1>2, TasksKeepTypes
  <2>3. ASSUME NEW f \in Files PROVE LeasedInv(f)'
    <3>1. leases'[f] \in Nat /\ LeasedInv(f)
        BY <2>2, TypeParts DEF LeaseTypes, LeaseInv
    <3>2. QED BY <1>0, <1>2, <2>1, <3>1, TasksKeepLeased DEF LeasedInv, LeaseTypes, Leased
  <2>4. QED BY <2>3 DEF LeaseInv
<1>3. ASSUME NEW g \in Files, DropLease(g) PROVE LeaseInv'
  <2>1. /\ UNCHANGED <<state, objects, using>> /\ drops[g] > 0
        /\ drops' = [drops EXCEPT ![g] = @ - 1]
        /\ leases' = [leases EXCEPT ![g] = IF @ = 0 THEN 0 ELSE @ - 1]
        /\ uncounted' = IF drops[g] = 1 /\ \A s \in Sessions : using[s] # g
                        THEN uncounted \ {g} ELSE uncounted
      BY <1>3 DEF DropLease, indexVars, objectVars, sessionVars
  <2>2. \A f : UsersOf(f)' = UsersOf(f)
      BY <2>1 DEF UsersOf
  <2>3. ASSUME NEW f \in Files PROVE LeasedInv(f)'
    <3>1. /\ LeasedInv(f) /\ leases[f] \in Nat /\ drops[f] \in Nat
          /\ Cardinality(UsersOf(f)) \in Nat /\ Live' = Live
        BY <1>0, <2>1 DEF LeaseInv, LeaseTypes, Live
    <3>2. CASE f # g
      <4>1. /\ leases'[f] = leases[f] /\ drops'[f] = drops[f]
            /\ f \in uncounted' <=> f \in uncounted
          BY <1>0, <2>1, <3>2 DEF LeaseTypes
      <4>2. QED BY <2>1, <2>2, <3>1, <4>1 DEF LeasedInv
    <3>3. CASE f = g
      <4>1. /\ leases'[f] = (IF leases[f] = 0 THEN 0 ELSE leases[f] - 1)
            /\ drops'[f] = drops[f] - 1 /\ drops[f] > 0
          BY <1>0, <2>1, <3>3 DEF LeaseTypes
      <4>2. CASE uncounted' = uncounted
          BY <2>1, <2>2, <3>1, <4>1, <4>2 DEF LeasedInv
      <4>3. CASE drops[f] = 1 /\ \A s \in Sessions : using[s] # f
        <5>1. Cardinality(UsersOf(f)) = 0
            BY <4>3, FS_EmptySet DEF UsersOf
        <5>2. QED BY <2>2, <3>1, <4>1, <4>3, <5>1 DEF LeasedInv
      <4>4. QED BY <2>1, <3>3, <4>2, <4>3
    <3>4. QED BY <3>2, <3>3
  <2>4. QED BY <2>3 DEF LeaseInv
<1>4. ASSUME NEW g \in Files, UploadNext(g) \/ TimePasses(g) PROVE LeaseInv'
  <2>1. UNCHANGED <<state, using, leases, drops, uncounted>> /\ objects \subseteq objects'
      BY <1>4 DEF UploadNext, Stage, TimePasses, indexVars, objectVars, leaseVars, sessionVars
  <2>2. \A f : UsersOf(f)' = UsersOf(f)
      BY <2>1 DEF UsersOf
  <2>3. QED BY <2>1, <2>2 DEF LeaseInv, LeasedInv, Live
<1>5. CASE Crash
  <2>1. \A f \in Files : UsersOf(f)' = {}
      BY <1>5, FilesAssumption DEF Crash, UsersOf
  <2>2. \A f \in Files : leases'[f] = 0 /\ drops'[f] = 0
      BY <1>5 DEF Crash
  <2>3. \A f \in Files : IsFiniteSet(UsersOf(f)') /\ Cardinality(UsersOf(f)') = 0
      BY <2>1, FS_EmptySet
  <2>4. QED BY <2>2, <2>3 DEF LeaseInv, LeasedInv
<1>6. CASE UNCHANGED vars
  <2>1. UNCHANGED <<state, using, leases, drops, uncounted, objects>>
      BY <1>6 DEF vars, indexVars, objectVars, leaseVars, sessionVars
  <2>2. \A f : UsersOf(f)' = UsersOf(f)
      BY <2>1 DEF UsersOf
  <2>3. QED BY <2>1, <2>2 DEF LeaseInv, LeasedInv, Live
<1>7. QED BY <1>1, <1>2, <1>3, <1>4, <1>5, <1>6 DEF Next, RequestAction

\* What a request uses is leased, so it is live and has its object, unless a count
\* of it was lost.
LEMMA UsedIsLeased ==
    ASSUME ObjectInv, LeaseInv, NEW s \in Sessions, pc[s] \in UsingAt
    PROVE  using[s] \in Files /\ using[s] \in (Live \cap objects) \cup uncounted
<1>1. using[s] \in Files /\ LeaseTypes
    BY TypeParts DEF ObjectInv, SessionTypes, UsingInv
<1>2. s \in UsersOf(using[s])
    BY DEF UsersOf
<1>3. LeasedInv(using[s]) /\ drops[using[s]] \in Nat
    BY <1>1 DEF LeaseInv, LeaseTypes
<1>4. Cardinality(UsersOf(using[s])) \in Nat \ {0}
    BY <1>2, <1>3, FS_CardinalityType, FS_EmptySet DEF LeasedInv
<1>5. QED BY <1>1, <1>3, <1>4 DEF LeasedInv

LEMMA InitialLeases == Init => ObjectInv /\ LeaseInv
<1> SUFFICES ASSUME Init PROVE LeaseInv
    BY InitialObjects
<1>1. \A f \in Files : UsersOf(f) = {}
    BY FilesAssumption DEF Init, UsersOf
<1>2. QED BY <1>1, FS_EmptySet DEF Init, LeaseInv, LeasedInv

\* A file that a request is reading has its object: no eviction, roll-back of an
\* upload or cleanup removes it, with resolves that fail too. Such a resolve drops a
\* lease that never counted: it puts the readers of its own file at risk and of no
\* other, until that file has no lease left to drop.
THEOREM LeasedObjectsStay == Spec => []LeasedStays
<1>1. ObjectInv /\ LeaseInv /\ [Next]_vars => (ObjectInv /\ LeaseInv)'
    BY StepsKeepObjects, StepsKeepLeases
<1>2. ObjectInv /\ LeaseInv => LeasedStays
    BY UsedIsLeased DEF LeasedStays, UsingAt
<1>3. QED BY InitialLeases, <1>1, <1>2, PTL DEF Spec

-----------------------------------------------------------------------------
(* References                                                              *)

LEMMA SetReferencesOf ==
    ASSUME NEW s \in Sessions, NEW r \in Sessions, NEW f \in Files
    PROVE  /\ <<r, f>> \in SetReferences(s, MappedBy(s)) <=>
                  IF r = s THEN <<s, f>> \in mapped /\ f \in Live ELSE <<r, f>> \in refs
           /\ <<r, f>> \in refs \ RefsOf(s) <=> r # s /\ <<r, f>> \in refs
           /\ <<r, f>> \in mapped \ RefsOf(s) <=> r # s /\ <<r, f>> \in mapped
BY DEF SetReferences, MappedBy, RefsOf

\* A request writes references of its own session only, and no state of a file.
Changes(s, rf) ==
    \A r \in Sessions, f \in Files : r # s => (<<r, f>> \in rf <=> <<r, f>> \in refs)

IndexMoves(s) ==
    \E rf : /\ Changes(s, rf)
            /\ Written(state, rf) \/ Fails \/ Lands(state, rf) \/ UNCHANGED <<indexVars, disk>>

LEMMA RequestsWriteTheirOwn ==
    ASSUME NEW s \in Sessions, RequestAction(s)
    PROVE  IndexMoves(s)
<1> USE DEF IndexMoves
<1>1. /\ Changes(s, refs) /\ Changes(s, refs \ RefsOf(s))
      /\ Changes(s, SetReferences(s, MappedBy(s)))
    BY SetReferencesOf DEF Changes
<1>2. ASSUME NEW f \in Files, Resolve(s, f) \/ ResolveFails(s, f) PROVE IndexMoves(s)
    BY <1>1, <1>2 DEF Resolve, ResolveFails
<1>3. CASE RebuildReset(s)
    BY <1>1, <1>3 DEF RebuildReset
<1>4. CASE ApiReset(s)
    BY <1>1, <1>4 DEF ApiReset
<1>5. CASE Uploaded(s)
    BY <1>1, <1>5 DEF Uploaded
<1>6. CASE AddReference(s)
  <2>1. Changes(s, IF Entry(using[s]) THEN refs \cup {<<s, using[s]>>} ELSE refs)
      BY DEF Changes
  <2>2. QED BY <1>6, <2>1 DEF AddReference
<1>7. CASE PutMapping(s)
    BY <1>1, <1>7 DEF PutMapping
<1>8. CASE RemoveReference(s)
  <2>1. Changes(s, refs \ {<<s, using[s]>>})
      BY DEF Changes
  <2>2. QED BY <1>8, <2>1 DEF RemoveReference
<1>9. CASE RebuildEnds(s)
    BY <1>1, <1>9 DEF RebuildEnds
<1>10. CASE ResetRecord(s)
    BY <1>1, <1>10 DEF ResetRecord
<1>11. CASE RestoreReferences(s)
    BY <1>1, <1>11 DEF RestoreReferences
<1>12. CASE Reconcile(s)
    BY <1>1, <1>12 DEF Reconcile
<1>13. QED BY <1>2, <1>3, <1>4, <1>5, <1>6, <1>7, <1>8, <1>9, <1>10, <1>11, <1>12
           DEF RequestAction, RequestNext

\* A request changes the record of its own session only, in memory and in the file.
LEMMA RequestsMapTheirOwn ==
    ASSUME mapped = mapDisk, NEW s \in Sessions, RequestAction(s)
    PROVE  /\ mapped' = mapDisk'
           /\ \A r \in Sessions \ {s} :
                  /\ r \in torn' <=> r \in torn
                  /\ \A f \in Files : <<r, f>> \in mapped' <=> <<r, f>> \in mapped
<1> USE DEF recordVars
<1>1. ASSUME NEW f \in Files, Resolve(s, f) \/ ResolveFails(s, f)
      PROVE  UNCHANGED <<mapped, mapDisk, torn>>
    BY <1>1 DEF Resolve, ResolveFails
<1>2. CASE RebuildReset(s)
    BY <1>2, SetReferencesOf DEF RebuildReset
<1>3. CASE ApiReset(s)
    BY <1>3 DEF ApiReset
<1>4. CASE Uploaded(s) \/ AddReference(s) \/ RemoveReference(s) \/ RebuildEnds(s) \/ Reconcile(s)
    BY <1>4 DEF Uploaded, AddReference, RemoveReference, RebuildEnds, Reconcile
<1>5. CASE PutMapping(s)
    BY <1>5 DEF PutMapping
<1>6. CASE ResetRecord(s)
    BY <1>6, SetReferencesOf DEF ResetRecord
<1>7. CASE RestoreReferences(s)
    BY <1>7 DEF RestoreReferences
<1>8. QED BY <1>1, <1>2, <1>3, <1>4, <1>5, <1>6, <1>7 DEF RequestAction, RequestNext

\* What the request does to its own session.
LEMMA RequestsKeepMapped ==
    ASSUME ObjectInv, LeaseInv, ReferenceInv, NEW s \in Sessions, RequestAction(s)
    PROVE  MappedInv(s)'
<1> USE DEF indexVars, recordVars, ResettingAt, UsingAt
<1>0. /\ SessionTypes /\ IndexTypes /\ RecordTypes /\ MappedInv(s)
      /\ Live' = Live /\ state' = state
      /\ \A f \in Files : <<s, f>> \in SetReferences(s, MappedBy(s)) <=> <<s, f>> \in mapped /\ f \in Live
      /\ \A f \in Files : <<s, f>> \notin mapped \ RefsOf(s)
    BY TypeParts, RequestsLeaveObjects, SetReferencesOf DEF ReferenceInv, ObjectInv, Live
\* Outside a reset what is mapped is live, since it is backed.
<1>1. s \notin torn => \A f \in Files : <<s, f>> \in mapped => f \in Live
    BY <1>0 DEF MappedInv, Backed, Live
<1>2. ASSUME NEW f \in Files, Resolve(s, f) PROVE MappedInv(s)'
  <2>1. /\ pc'[s] = "uploading" /\ using'[s] = f /\ <<s, f>> \notin mapped
        /\ pc[s] \in {"idle", "rebuilding"}
        /\ refs' = refs /\ disk'.refs = refs /\ disk'.state = state
        /\ UNCHANGED <<mapped, torn>>
      BY <1>0, <1>2 DEF Resolve, Resolvable, Goto, Written, SessionTypes
  <2>2. QED BY <1>0, <2>1 DEF MappedInv, Backed
<1>3. ASSUME NEW f \in Files, ResolveFails(s, f) PROVE MappedInv(s)'
  <2>1. /\ pc'[s] = "idle" /\ pc[s] \in {"idle", "rebuilding"}
        /\ refs' = refs
        /\ disk' = disk \/ (disk'.refs = refs /\ disk'.state = state)
        /\ UNCHANGED <<mapped, torn>>
      BY <1>0, <1>3 DEF ResolveFails, Resolvable, Over, Goto, Fails, Lands, SessionTypes
  <2>2. QED BY <1>0, <2>1 DEF MappedInv, Backed
<1>4. CASE RebuildReset(s)
  <2>1. /\ pc[s] = "idle" /\ pc'[s] \in {"idle", "rebuilding"} /\ UNCHANGED <<refs, disk, torn>>
        /\ mapped' \in {mapped, mapped \ RefsOf(s)}
      BY <1>0, <1>4 DEF RebuildReset, Fails, Goto, SessionTypes
  <2>2. QED BY <1>0, <2>1 DEF MappedInv, Backed
<1>5. CASE ApiReset(s)
  <2>1. pc[s] = "idle" /\ mapped' = mapped
      BY <1>5 DEF ApiReset
  <2>2. \/ pc'[s] = "resetting" /\ torn' = torn
        \/ pc'[s] = "idle" /\ s \in torn'
        \/ pc'[s] = "idle" /\ UNCHANGED <<torn, refs, disk>>
      BY <1>0, <1>5 DEF ApiReset, Goto, Fails, SessionTypes
  <2>3. QED BY <1>0, <1>1, <2>1, <2>2 DEF MappedInv, Backed
<1>6. CASE Uploaded(s)
  <2>1. /\ pc[s] = "uploading" /\ UNCHANGED <<refs, disk, mapped, torn>>
        /\ \/ pc'[s] = "referencing" /\ using' = using
           \/ pc'[s] = "idle"
      BY <1>0, <1>6 DEF Uploaded, Over, Goto, SessionTypes
  <2>2. QED BY <1>0, <2>1 DEF MappedInv, Backed
<1>7. CASE AddReference(s)
  <2> DEFINE rf == IF Entry(using[s]) THEN refs \cup {<<s, using[s]>>} ELSE refs
  <2>1. pc[s] = "referencing" /\ UNCHANGED <<mapped, torn, uncounted>>
      BY <1>7 DEF AddReference
  <2>2. /\ refs \subseteq rf
        /\ \/ <<s, using[s]>> \in rf /\ state[using[s]] = "live"
           \/ using[s] \in uncounted \ Live
      BY <2>1, UsedIsLeased DEF Entry, Live
  <2>3. \/ /\ refs' = rf /\ disk'.refs = rf /\ disk'.state = state
           /\ pc'[s] \in {"mapNew", "mapOld"} /\ using' = using
        \/ /\ pc'[s] = "idle"
           /\ refs' = refs
           /\ disk' = disk \/ (disk'.refs = rf /\ disk'.state = state)
      BY SMTT(30), <1>0, <1>7 DEF AddReference, Written, Fails, Lands, Over, Goto, SessionTypes
  <2> HIDE DEF rf
  <2>4. QED BY <1>0, <2>1, <2>2, <2>3 DEF MappedInv, Backed
<1>8. CASE PutMapping(s)
  <2>1. /\ pc[s] \in {"mapNew", "mapOld"} /\ UNCHANGED <<refs, disk>>
        /\ \/ /\ mapped' = mapped \cup {<<s, using[s]>>}
              /\ torn' = IF using[s] \in uncounted \ Live THEN torn \cup {s} ELSE torn
              /\ pc'[s] \in {"idle", "rebuilding"}
           \/ /\ mapped' = mapped /\ torn' = torn
              /\ pc'[s] = "idle" \/ (pc'[s] = "unreferencing" /\ using' = using)
      BY <1>0, <1>8 DEF PutMapping, Fails, Over, Goto, SessionTypes
  <2>2. QED BY <1>0, <2>1 DEF MappedInv, Backed
<1>9. CASE RemoveReference(s)
  <2> DEFINE rf == refs \ {<<s, using[s]>>}
  <2>1. /\ pc[s] = "unreferencing" /\ pc'[s] = "idle" /\ UNCHANGED <<mapped, torn>>
        /\ refs' \in {refs, rf}
        /\ disk' = disk \/ (disk'.refs = rf /\ disk'.state = state)
      BY <1>0, <1>9 DEF RemoveReference, Written, Fails, Lands, Over, Goto, SessionTypes
  <2>2. QED BY <1>0, <2>1 DEF MappedInv, Backed
<1>10. CASE RebuildEnds(s) \/ Reconcile(s)
  <2> DEFINE rf == SetReferences(s, MappedBy(s))
  <2>1. /\ pc[s] \in {"idle", "rebuilding"} /\ pc'[s] = "idle" /\ UNCHANGED <<mapped, torn>>
        /\ refs' \in {refs, rf}
        /\ disk' = disk \/ (disk'.refs = rf /\ disk'.state = state)
      BY <1>0, <1>10 DEF RebuildEnds, Reconcile, Written, Fails, Lands, Over, Goto, SessionTypes
  <2> HIDE DEF rf
  <2>2. \A f \in Files : <<s, f>> \in rf <=> <<s, f>> \in mapped /\ f \in Live
      BY <1>0 DEF rf
  <2>3. QED BY <1>0, <1>1, <2>1, <2>2 DEF MappedInv, Backed
<1>11. CASE ResetRecord(s)
  <2>1. /\ pc[s] = "resetting" /\ UNCHANGED <<refs, disk>>
        /\ \/ mapped' = mapped \ RefsOf(s) /\ pc'[s] = "idle"
           \/ mapped' = mapped /\ pc'[s] = "restoring" /\ torn' = torn
           \/ pc'[s] = "idle" /\ s \in torn'
      BY <1>0, <1>11 DEF ResetRecord, Fails, Goto, SessionTypes
  <2>2. QED BY <1>0, <2>1 DEF MappedInv, Backed
<1>12. CASE RestoreReferences(s)
  <2> DEFINE rf == SetReferences(s, MappedBy(s))
  <2>1. /\ pc[s] = "restoring" /\ pc'[s] = "idle" /\ mapped' = mapped
        /\ \/ refs' = rf /\ disk'.refs = rf /\ disk'.state = state /\ torn' = torn
           \/ s \in torn'
      BY <1>0, <1>12 DEF RestoreReferences, Written, Goto, SessionTypes
  <2> HIDE DEF rf
  <2>2. \A f \in Files : <<s, f>> \in rf <=> <<s, f>> \in mapped /\ f \in Live
      BY <1>0 DEF rf
  <2>3. \A f \in Files : f \in Live => state[f] = "live"
      BY DEF Live
  <2>4. QED BY <1>0, <2>1, <2>2, <2>3 DEF MappedInv, Backed
<1>13. QED BY <1>2, <1>3, <1>4, <1>5, <1>6, <1>7, <1>8, <1>9, <1>10, <1>11, <1>12
           DEF RequestAction, RequestNext

LEMMA RequestsKeepReferences ==
    ASSUME ObjectInv, LeaseInv, ReferenceInv, NEW s \in Sessions, RequestAction(s)
    PROVE  ReferenceInv'
<1> USE DEF indexVars
<1>1. PICK rf :
          /\ Changes(s, rf)
          /\ Written(state, rf) \/ Fails \/ Lands(state, rf) \/ UNCHANGED <<indexVars, disk>>
    BY RequestsWriteTheirOwn DEF IndexMoves
<1>2. /\ refs' \in {refs, rf} /\ state' = state
      /\ disk' = disk \/ (disk'.state = state /\ disk'.refs = rf)
    BY <1>1 DEF Written, Fails, Lands
<1>3. uncounted \subseteq uncounted'
    BY RequestsTakeAndGive DEF ObjectInv, Takes, Gives, Miscounts, leaseVars
<1>4. ASSUME NEW r \in Sessions \ {s} PROVE MappedInv(r)'
  <2>1. /\ pc'[r] = pc[r] /\ using'[r] = using[r] /\ Live' = Live
        /\ r \in torn' <=> r \in torn
        /\ \A f \in Files : <<r, f>> \in mapped' <=> <<r, f>> \in mapped
      BY RequestsLeaveObjects, RequestsMapTheirOwn DEF ObjectInv, ReferenceInv, Live
  <2>2. \A f \in Files : Backed(r, f) => Backed(r, f)'
      BY <1>1, <1>2 DEF Changes, Backed
  <2>3. pc[r] \in UsingAt => using[r] \in Files
      BY UsedIsLeased
  <2>4. MappedInv(r)
      BY DEF ReferenceInv
  <2>5. QED BY <1>3, <2>1, <2>2, <2>3, <2>4 DEF MappedInv, UsingAt
<1>5. MappedInv(s)' /\ mapped' = mapDisk'
    BY RequestsKeepMapped, RequestsMapTheirOwn DEF ReferenceInv
<1>6. QED BY <1>4, <1>5 DEF ReferenceInv

\* Between requests, no session is within a reset or about to map a file.
LEMMA TasksRunApart ==
    ASSUME LockInv, NEW s \in Sessions, TaskNext \/ Maintain
    PROVE  pc[s] \notin LockedAt
<1>1. task.at # "none" \/ FilesFree
    BY DEF TaskNext, StageWrite, RemoveEvicted, StageEnds, Discard, Scan, CleanupMove,
           CleanupWrite, DeleteMoved, Maintain
<1>2. QED BY <1>1 DEF LockInv, FilesFree

\* What leaves the index has no reference, so that a reference to a live file stays.
LEMMA TasksKeepReferences ==
    ASSUME ObjectInv, TaskNext
    PROVE  /\ UNCHANGED <<mapped, mapDisk, pc, using, torn>>
           /\ \A s \in Sessions, f \in Files : Backed(s, f) => Backed(s, f)'
<1> USE DEF ObjectInv, Live, indexVars, recordVars, sessionVars
<1>1. CASE StageWrite
  <2> DEFINE st == [g \in Files |-> IF g = task.file THEN "live"
                                   ELSE IF g \in task.gone THEN "absent" ELSE state[g]]
             rf == {p \in refs : p[2] \notin task.gone \cup {task.file}}
  <2>1. /\ state[task.file] # "live"
        /\ \A f \in task.gone : \A s \in Sessions : <<s, f>> \notin refs
        /\ UNCHANGED <<mapped, mapDisk, pc, using, torn>>
      BY <1>1 DEF StageWrite, TaskInv, Unused
  <2>2. ASSUME NEW s \in Sessions, NEW f \in Files, Backed(s, f)
        PROVE  <<s, f>> \in rf /\ st[f] = "live"
      BY <2>1, <2>2 DEF Backed
  <2>3. \/ state' = st /\ refs' = rf /\ disk' = [state |-> st, refs |-> rf]
        \/ UNCHANGED <<state, refs, disk>>
        \/ UNCHANGED <<state, refs>> /\ disk' = [state |-> st, refs |-> rf]
      BY <1>1 DEF StageWrite, Written, Fails, Lands
  <2> HIDE DEF st, rf
  <2>4. QED BY <2>1, <2>2, <2>3 DEF Backed
<1>2. CASE RemoveEvicted \/ Discard \/ Scan \/ CleanupMove \/ DeleteMoved
  <2>1. UNCHANGED <<state, refs, disk, mapped, mapDisk, pc, using, torn>>
      BY <1>2 DEF RemoveEvicted, Discard, Scan, CleanupMove, DeleteMoved
  <2>2. QED BY <2>1 DEF Backed
<1>3. CASE StageEnds
  <2> DEFINE st == [state EXCEPT ![task.file] = "absent"]
  <2>1. /\ UNCHANGED <<refs, mapped, mapDisk, pc, using, torn>>
        /\ \/ state' = state /\ disk' = disk
           \/ /\ \A s \in Sessions : <<s, task.file>> \notin refs
              /\ state' \in {state, st} /\ disk' \in {disk, [state |-> st, refs |-> refs]}
      BY <1>3 DEF StageEnds, Written, Fails, Lands, Unused
  <2>2. ASSUME NEW s \in Sessions, NEW f \in Files, Backed(s, f), <<s, task.file>> \notin refs
        PROVE  st[f] = "live"
    <3>1. IndexTypes
        BY TypeParts
    <3>2. QED BY <2>2, <3>1 DEF Backed, IndexTypes
  <2> HIDE DEF st
  <2>3. ASSUME NEW s \in Sessions, NEW f \in Files, Backed(s, f) PROVE Backed(s, f)'
    <3>1. CASE state' = state /\ disk' = disk
        BY <2>1, <2>3, <3>1 DEF Backed
    <3>2. CASE \A r \in Sessions : <<r, task.file>> \notin refs
      <4>1. st[f] = "live" /\ state[f] = "live" /\ refs' = refs
          BY <2>1, <2>2, <2>3, <3>2 DEF Backed
      <4>2. \/ disk' = disk
            \/ disk'.refs = refs /\ disk'.state = st
          BY <2>1
      <4>3. state'[f] = "live"
          BY <2>1, <4>1
      <4>4. QED BY <2>3, <4>1, <4>2, <4>3 DEF Backed
    <3>3. QED BY <2>1, <3>1, <3>2
  <2>4. QED BY <2>1, <2>3
<1>4. CASE CleanupWrite
  <2> DEFINE st == [f \in Files |-> IF f \in Expirable THEN "expired" ELSE state[f]]
  <2>1. /\ UNCHANGED <<refs, mapped, mapDisk, pc, using, torn>>
        /\ \/ state' = state /\ disk' = disk
           \/ state' = st /\ disk' = [state |-> st, refs |-> refs]
      BY <1>4 DEF CleanupWrite, Written
  <2>2. ASSUME NEW s \in Sessions, NEW f \in Files, Backed(s, f)
        PROVE  st[f] = "live"
      BY <2>2 DEF Backed, Expirable, Unused
  <2> HIDE DEF st
  <2>3. QED BY <2>1, <2>2 DEF Backed
<1>5. QED BY <1>1, <1>2, <1>3, <1>4 DEF TaskNext

LEMMA StepsKeepReferences ==
    ASSUME ObjectInv, LeaseInv, ReferenceInv, [Next]_vars
    PROVE  ReferenceInv'
<1> USE DEF ReferenceInv, indexVars, recordVars, sessionVars
<1>1. ASSUME NEW s \in Sessions, RequestAction(s) PROVE ReferenceInv'
    BY <1>1, RequestsKeepReferences
<1>2. CASE TaskNext
  <2>1. /\ UNCHANGED <<mapped, mapDisk, pc, using, torn>>
        /\ \A s \in Sessions, f \in Files : Backed(s, f) => Backed(s, f)'
      BY <1>2, TasksKeepReferences
  <2>2. ASSUME NEW s \in Sessions PROVE MappedInv(s)'
    <3>1. pc[s] \notin ResettingAt /\ pc[s] \notin {"mapNew", "mapOld"}
        BY <1>2, TasksRunApart DEF ObjectInv, LockedAt, ResettingAt
    <3>2. QED BY <2>1, <3>1 DEF MappedInv
  <2>3. QED BY <2>1, <2>2
<1>3. CASE Maintain
  <2> DEFINE rf == (refs \cap mapped) \cup {p \in mapped : p[2] \in Live}
  <2>1. /\ UNCHANGED <<mapped, mapDisk, pc, using>>
        /\ \/ /\ state' = state /\ refs' = rf /\ disk' = [state |-> state, refs |-> rf]
              /\ torn' = {s \in torn : ~ MappedBy(s) \subseteq Live}
           \/ UNCHANGED <<state, refs, disk, torn>>
      BY <1>3 DEF Maintain, Written, Fails
  <2>2. \A s \in Sessions, f \in Files : <<s, f>> \in mapped /\ f \in Live => <<s, f>> \in rf
      OBVIOUS
  <2> HIDE DEF rf
  <2>3. ASSUME NEW s \in Sessions PROVE MappedInv(s)'
    <3>1. pc[s] \notin ResettingAt /\ pc[s] \notin {"mapNew", "mapOld"}
        BY <1>3, TasksRunApart DEF ObjectInv, LockedAt, ResettingAt
    <3>2. CASE UNCHANGED <<state, refs, disk, torn>>
        BY <2>1, <3>1, <3>2 DEF MappedInv, Backed
    <3>3. CASE /\ state' = state /\ refs' = rf /\ disk' = [state |-> state, refs |-> rf]
               /\ torn' = {r \in torn : ~ MappedBy(r) \subseteq Live}
      <4>1. ASSUME s \notin torn', NEW f \in Files, <<s, f>> \in mapped
            PROVE  f \in Live
        <5>1. CASE s \in torn
            BY <3>3, <4>1, <5>1 DEF MappedBy
        <5>2. CASE s \notin torn
            BY <3>1, <4>1, <5>2 DEF MappedInv, Backed, Live
        <5>3. QED BY <5>1, <5>2
      <4>2. QED BY <2>1, <2>2, <3>1, <3>3, <4>1 DEF MappedInv, Backed, Live
    <3>4. QED BY <2>1, <3>2, <3>3
  <2>4. QED BY <2>1, <2>3
<1>4. ASSUME NEW g \in Files, DropLease(g) PROVE ReferenceInv'
  <2>1. /\ UNCHANGED <<state, refs, disk, mapped, mapDisk, pc, using, torn>>
        /\ \A s \in Sessions : using[s] \in uncounted => using[s] \in uncounted'
      BY <1>4 DEF DropLease
  <2>2. QED BY <2>1 DEF MappedInv, Backed, Live
<1>5. ASSUME \/ \E f \in Files : UploadNext(f) \/ TimePasses(f)
             \/ UNCHANGED vars
      PROVE  ReferenceInv'
  <2>1. UNCHANGED <<state, refs, disk, mapped, mapDisk, pc, using, torn, uncounted>>
      BY <1>5 DEF UploadNext, Stage, TimePasses, vars, leaseVars
  <2>2. QED BY <2>1 DEF MappedInv, Backed, Live
<1>6. CASE Crash
  <2>1. /\ state' = disk.state /\ refs' = disk.refs /\ disk' = disk
        /\ mapped' = mapDisk /\ mapDisk' = mapDisk
        /\ pc' = [s \in Sessions |-> "idle"]
        /\ torn' = torn \cup {s \in Sessions : pc[s] \in ResettingAt}
      BY <1>6 DEF Crash, ResettingAt
  <2>2. ASSUME NEW s \in Sessions PROVE MappedInv(s)'
      BY <2>1 DEF MappedInv, Backed, UsingAt, ResettingAt
  <2>3. QED BY <2>1, <2>2
<1>7. QED BY <1>1, <1>2, <1>3, <1>4, <1>5, <1>6 DEF Next, RequestAction

LEMMA InitialReferences == Init => ReferenceInv
BY DEF Init, ReferenceInv, MappedInv, UsingAt

\* What the record of a session maps is referenced in the index, so that no eviction,
\* roll-back, cleanup, rebuild, reconciliation or restart takes away a file it needs;
\* but for a session within a reset, or whose reset was cut short, or that mapped a
\* file which a lost count had let go, until the maintenance.
THEOREM MappedFilesAreReferenced == Spec => []MappedIsReferenced
<1>1. ObjectInv /\ LeaseInv /\ ReferenceInv /\ [Next]_vars
          => (ObjectInv /\ LeaseInv /\ ReferenceInv)'
    BY StepsKeepObjects, StepsKeepLeases, StepsKeepReferences
<1>2. ASSUME ObjectInv, ReferenceInv PROVE MappedIsReferenced
  <2> SUFFICES ASSUME NEW s \in Sessions, s \notin torn, pc[s] \notin ResettingAt,
                      NEW p \in mapped \cap RefsOf(s)
               PROVE  p \in refs
      BY DEF MappedIsReferenced, ResettingAt
  <2>1. PICK f \in Files : p = <<s, f>>
      BY DEF RefsOf
  <2>2. QED BY <1>2, <2>1 DEF ReferenceInv, MappedInv, Backed
<1>3. QED BY InitialLeases, InitialReferences, <1>1, <1>2, PTL DEF Spec
=============================================================================
