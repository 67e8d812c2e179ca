--------------------------- MODULE ExplicitSession ---------------------------
(***************************************************************************)
(* One explicit session: the record ConversationCache keeps of it in       *)
(* memory and in its snapshot file, the requests that plan, stage, send    *)
(* and commit turns on it (try_explicit_chat), the lifecycle that settles  *)
(* a turn when the response ends or the client goes away, the reset        *)
(* endpoint, and restarts of the process.                                  *)
(*                                                                         *)
(* The operation lock is the component SerialOperations. A request makes   *)
(* up to three calls of lock_explicit_request: for its first attempt, for  *)
(* the one recovery, and before it reports a repeated failure. A request   *)
(* is one task, so one pc per request; every await that can end a section  *)
(* in which shared state is stable is a step boundary.                     *)
(***************************************************************************)
EXTENDS Naturals, Sequences, FiniteSets

CONSTANTS
    Requests,          \* chat requests with the session's ID
    Resets,            \* calls of POST /v1/sessions/reset
    Digest,            \* Digest[r]: explicit_request_fingerprint of request r
    Streaming,         \* the requests that asked for SSE
    NoCall,            \* no pending turn
    NoRecord,          \* the cache has no entry for the session
    NoJob,             \* no write in progress
    MaxCrashes,        \* bound on restarts
    MaxCancels,        \* bound on disconnecting clients
    MaxWriteFailures   \* bound on snapshot writes that fail

Actors == Requests \cup Resets
Attempts == 1..3
Calls == Actors \X Attempts

ASSUME SessionAssumption ==
    /\ Requests \cap Resets = {}
    /\ Streaming \subseteq Requests
    /\ NoCall \notin Calls
    /\ {MaxCrashes, MaxCancels, MaxWriteFailures} \subseteq Nat

VARIABLES
    status, response, witnessed,   \* the operation lock
    pc,        \* where each request or reset stands
    n,         \* the number of lock calls it has made
    fate,      \* how its last attempt ended
    mem,       \* the record in ConversationCache.inner
    disk,      \* the record in the snapshot file
    job,       \* the snapshot write the mutation in progress waits for
    late,      \* the writes whose mutation was cancelled, still in the blocking pool
    overtaken, \* history: the snapshots that such a write put over a later one
    keep,      \* replace_from_turn of the attempt's plan
    target,    \* the conversation the attempt planned to use
    doubtful,  \* history: the conversations with a completion POSTed to them
               \* that was not seen to end with message_stop
    life,      \* the calls whose lifecycle exists and is not finalized
    spawned,   \* the calls whose finalize_uncertain task has not run
    faulted,   \* history: the requests under way that met a fault of their own
    crashes, cancels, writeFailures

lockVars == <<status, response, witnessed>>
recordVars == <<mem, disk, job, late, overtaken>>
planVars == <<keep, target>>
lifeVars == <<life, spawned>>
boundVars == <<crashes, cancels, writeFailures>>
vars == <<lockVars, pc, n, fate, recordVars, planVars, doubtful, lifeVars,
          faulted, boundVars>>

Lock == INSTANCE SerialOperations WITH
            Requests <- Requests \X Attempts,
            Fingerprint <- [c \in Requests \X Attempts |-> Digest[c[1]]]

----------------------------------------------------------------------------
(* The session record *)

States == {"InFlight", "Committed", "Uncertain", "Tombstoned"}

\* A conversation is named by the call that created it, a turn by the call that
\* added it. keep is PendingExplicitTurn.replace_from_turn.
Records == [state: States, conv: Calls, turns: Seq(Calls),
            pending: Calls \cup {NoCall}, keep: Nat]
Snapshots == Records \cup {NoRecord}

Fates == {"none", "ok", "recoverable", "cookie", "fatal", "cancelled"}

\* A mutation in progress: who waits for it, what is written, where it goes on,
\* what a failure puts back, and how the attempt then ends.
Jobs == [by: Actors, snap: Snapshots, ok: {"send", "committed", "failing", "plan"},
         undo: Snapshots, err: Fates]

\* A write that nobody waits for. It is passed when a later one has landed before it.
Leftovers == [by: Actors, snap: Snapshots, passed: BOOLEAN]

ASSUME SentinelAssumption == NoRecord \notin Records /\ NoJob \notin Jobs

\* set_explicit_checked's record: a new conversation with its first turn staged.
Fresh(c) == [state |-> "InFlight", conv |-> c, turns |-> <<>>,
             pending |-> c, keep |-> 0]

\* Faulty variant of Staged: the pending turn is not recorded.
StagedWithoutPending(rec, c, k) ==
    [rec EXCEPT !.state = "InFlight", !.keep = k]

\* stage_explicit_turn
Staged(rec, c, k) ==
    [rec EXCEPT !.state = "InFlight", !.pending = c, !.keep = k]

\* commit_explicit_turn: truncate at the pending turn's place and append it.
WithPendingCommitted(rec) ==
    [rec EXCEPT !.state = "Committed", !.pending = NoCall, !.keep = 0,
                !.turns = Append(SubSeq(rec.turns, 1, rec.keep), rec.pending)]

\* restore_explicit_committed and tombstone_explicit drop the pending turn.
Dropping(rec, s) == [rec EXCEPT !.state = s, !.pending = NoCall, !.keep = 0]

\* mark_explicit_uncertain and mark_explicit_uncertain_in_memory
Uncertain(rec) ==
    IF rec = NoRecord THEN rec ELSE [rec EXCEPT !.state = "Uncertain"]

\* What plan can answer for a committed record: append after the last turn,
\* regenerate the last one, or fork at a turn that is not the first.
Keeps(rec) == {k \in 0..Len(rec.turns) : k = 0 => Len(rec.turns) = 1}

Call(r) == <<r, n[r]>>
Goto(r, l) == pc' = [pc EXCEPT ![r] = l]
Ends(r, f) == fate' = [fate EXCEPT ![r] = f]
Faults(r) == faulted' = faulted \cup {r}

\* The request is answered, failed or gone: its task and what it kept are over.
Over(r) ==
    /\ Goto(r, "done")
    /\ Ends(r, "none")
    /\ target' = [target EXCEPT ![r] = NoCall]
    /\ keep' = [keep EXCEPT ![r] = 0]
    /\ faulted' = faulted \ {r}

Retried == {"recoverable", "cookie"}

Init ==
    /\ Lock!SerialInit
    /\ pc = [r \in Actors |-> "idle"]
    /\ n = [r \in Actors |-> 0]
    /\ fate = [r \in Actors |-> "none"]
    /\ mem = NoRecord /\ disk = NoRecord /\ job = NoJob
    /\ late = {} /\ overtaken = {}
    /\ keep = [r \in Actors |-> 0]
    /\ target = [r \in Actors |-> NoCall]
    /\ doubtful = {} /\ life = {} /\ spawned = {} /\ faulted = {}
    /\ crashes = 0 /\ cancels = 0 /\ writeFailures = 0

----------------------------------------------------------------------------
(* mutate_explicit: under the mutation and persistence locks, change the    *)
(* record in memory, hand a snapshot to the blocking pool and wait for it.  *)

\* Request r changes the record to rec. When the write lands r goes on at ok;
\* when it fails the record becomes undo and r's attempt ends with fate err.
Mutate(r, rec, ok, undo, err) ==
    /\ job = NoJob
    /\ mem' = rec
    /\ job' = [by |-> r, snap |-> rec, ok |-> ok, undo |-> undo, err |-> err]
    /\ Goto(r, "writing")
    /\ UNCHANGED <<disk, late, overtaken>>

WriteLands(r) ==
    /\ pc[r] = "writing"
    /\ disk' = job.snap
    /\ job' = NoJob
    /\ late' = {[w EXCEPT !.passed = TRUE] : w \in late}
    /\ Goto(r, job.ok)
    /\ life' = life \ {Call(r)}
    /\ UNCHANGED <<lockVars, n, fate, mem, overtaken, planVars, doubtful, spawned,
                   faulted, boundVars>>

\* Roll back, or for the two callers that fall back to
\* mark_explicit_uncertain_in_memory, mark what was rolled back.
WriteFails(r) ==
    /\ pc[r] = "writing"
    /\ writeFailures < MaxWriteFailures
    /\ writeFailures' = writeFailures + 1
    /\ mem' = job.undo
    /\ job' = NoJob
    /\ Goto(r, "failing")
    /\ Ends(r, job.err)
    /\ Faults(r)
    /\ life' = IF job.undo = Uncertain(job.undo) THEN life \ {Call(r)} ELSE life
    /\ UNCHANGED <<lockVars, n, disk, late, overtaken, planVars, doubtful, spawned,
                   crashes, cancels>>

\* The blocking closure of a cancelled mutation runs to its end regardless.
LateWriteLands ==
    /\ \E w \in late :
          /\ disk' = w.snap
          /\ late' = late \ {w}
          /\ overtaken' = IF w.passed THEN overtaken \cup {w.snap} ELSE overtaken
    /\ UNCHANGED <<lockVars, pc, n, fate, mem, job, planVars, doubtful,
                   lifeVars, faulted, boundVars>>

\* ConversationCache::persist for another entry writes this record too.
Flush ==
    /\ job = NoJob
    /\ disk # mem
    /\ disk' = mem
    /\ UNCHANGED <<lockVars, pc, n, fate, mem, job, late, overtaken, planVars,
                   doubtful, lifeVars, faulted, boundVars>>

----------------------------------------------------------------------------
(* The operation lock around an attempt *)

\* lock_explicit_request before the first attempt, the recovery or the report
\* of a repeated failure; lock_explicit_operation in api_reset_session.
Arrive(r) ==
    /\ pc[r] \in {"idle", "retry"}
    /\ n' = [n EXCEPT ![r] = @ + 1]
    /\ Lock!Arrive(<<r, n[r] + 1>>)
    /\ Goto(r, "waiting")
    /\ UNCHANGED <<fate, recordVars, planVars, doubtful, lifeVars, faulted,
                   boundVars>>

Grant(r) ==
    /\ pc[r] = "waiting"
    /\ Lock!Grant(Call(r))
    /\ Goto(r, IF r \in Resets THEN "reset" ELSE <<"plan", "recover", "failing">>[n[r]])
    /\ UNCHANGED <<n, fate, recordVars, planVars, doubtful, lifeVars,
                   faulted, boundVars>>

\* observed_replay: the response of a twin that ran meanwhile.
Share(r) ==
    /\ pc[r] = "waiting"
    /\ Lock!Share(Call(r))
    /\ Over(r)
    /\ UNCHANGED <<n, recordVars, doubtful, lifeVars, boundVars>>

\* The attempt is over without a response: the replay handle is failed or
\* dropped, ...
FailReplay(r) ==
    /\ pc[r] = "failing"
    /\ IF response[Call(r)] = "pending" THEN Lock!Fail(Call(r))
                                        ELSE UNCHANGED lockVars
    /\ Goto(r, "ending")
    /\ UNCHANGED <<n, fate, recordVars, planVars, doubtful, lifeVars,
                   faulted, boundVars>>

\* ... then the guard. A lifecycle that was not finalized is dropped after its
\* operation was released, and its drop still spawns finalize_uncertain.
\* A recoverable error makes the request come back for the lock, twice at most.
Release(r) ==
    /\ pc[r] = "ending"
    /\ Lock!End(Call(r))
    /\ \/ /\ fate[r] \in Retried /\ n[r] < 3
          /\ Goto(r, "retry")
          /\ UNCHANGED <<fate, planVars, faulted>>
       \/ /\ fate[r] \notin Retried \/ n[r] = 3
          /\ Over(r)
    /\ life' = life \ {Call(r)}
    /\ spawned' = spawned \cup ({Call(r)} \cap life)
    /\ UNCHANGED <<n, recordVars, doubtful, boundVars>>

----------------------------------------------------------------------------
(* One attempt: try_explicit_chat_once *)

\* A request that digest_messages rejects.
Invalid(r) ==
    /\ pc[r] = "plan" /\ n[r] = 1
    /\ Goto(r, "failing") /\ Ends(r, "fatal") /\ Faults(r)
    /\ UNCHANGED <<lockVars, n, recordVars, planVars, doubtful, lifeVars,
                   boundVars>>

Planned(r, conv, k) ==
    /\ target' = [target EXCEPT ![r] = conv]
    /\ keep' = [keep EXCEPT ![r] = k]
    /\ Goto(r, "prepare")
    /\ UNCHANGED fate

\* explicit_session::plan on a copy of the record.
Plan(r) ==
    /\ pc[r] = "plan"
    /\ \/ /\ mem = NoRecord
          /\ Planned(r, Call(r), 0)
       \/ /\ mem # NoRecord /\ mem.state = "Committed"
          /\ \E k \in Keeps(mem) : Planned(r, mem.conv, k)
       \/ /\ mem # NoRecord        \* conversation_reuse_failed, _state_uncertain, _expired
          /\ Goto(r, "failing") /\ Ends(r, "recoverable")
          /\ UNCHANGED planVars
    /\ UNCHANGED <<lockVars, n, recordVars, doubtful, lifeVars, faulted,
                   boundVars>>

Creates(r) == target[r] = Call(r)

\* The bound Cookie or organization is gone: tombstone, 410.
ExpirePlan(r) ==
    /\ pc[r] = "prepare" /\ ~Creates(r)
    /\ Mutate(r, Dropping(mem, "Tombstoned"), "failing", mem, "fatal")
    /\ Ends(r, "recoverable") /\ Faults(r)
    /\ UNCHANGED <<lockVars, n, planVars, doubtful, lifeVars, boundVars>>

\* No Cookie for a new session, bootstrap fails, or finds the Cookie invalid.
PrepareFails(r) ==
    /\ pc[r] = "prepare"
    /\ \E f \in {"fatal", "cookie"} : Ends(r, f)
    /\ Goto(r, "failing") /\ Faults(r)
    /\ UNCHANGED <<lockVars, n, recordVars, planVars, doubtful, lifeVars,
                   boundVars>>

\* stage_explicit_operation: the pending turn is on disk before anything is sent.
Stage(r) ==
    /\ pc[r] = "prepare"
    /\ LET rec == IF Creates(r) THEN Fresh(Call(r))
                                ELSE Staged(mem, Call(r), keep[r])
       IN Mutate(r, rec, "send", mem, "fatal")
    /\ UNCHANGED <<lockVars, n, fate, planVars, doubtful, lifeVars, faulted,
                   boundVars>>

\* finish_explicit_send for an error before explicit_completion_started.
SendFails(r) ==
    /\ pc[r] = "send"
    /\ LET rec == IF Creates(r) THEN Uncertain(mem) ELSE Dropping(mem, "Committed")
       IN Mutate(r, rec, "failing", mem, "fatal")
    /\ \E f \in {"fatal", "cookie"} : Ends(r, f)
    /\ Faults(r)
    /\ UNCHANGED <<lockVars, n, planVars, doubtful, lifeVars, boundVars>>

\* finish_explicit_send for 404 and 410, before or after the completion started.
SendGone(r) ==
    /\ pc[r] \in {"send", "posted"}
    /\ Mutate(r, Dropping(mem, "Tombstoned"), "failing", mem, "fatal")
    /\ Ends(r, "recoverable") /\ Faults(r)
    /\ UNCHANGED <<lockVars, n, planVars, doubtful, lifeVars, boundVars>>

\* The completion request leaves: explicit_completion_started.
Post(r) ==
    /\ pc[r] = "send"
    /\ doubtful' = doubtful \cup {target[r]}
    /\ Goto(r, "posted")
    /\ UNCHANGED <<lockVars, n, fate, recordVars, planVars, lifeVars,
                   faulted, boundVars>>

\* Faulty variant of PostFails: the record is restored although the completion started.
PostFailsRestoring(r) ==
    /\ pc[r] = "posted"
    /\ LET rec == IF Creates(r) THEN Uncertain(mem) ELSE Dropping(mem, "Committed")
       IN Mutate(r, rec, "failing", mem, "fatal")
    /\ Ends(r, "fatal")
    /\ Faults(r)
    /\ UNCHANGED <<lockVars, n, planVars, doubtful, lifeVars, boundVars>>

\* finish_explicit_send for an error after the completion started.
PostFails(r) ==
    /\ pc[r] = "posted"
    /\ Mutate(r, Uncertain(mem), "failing", mem, "fatal")
    /\ \E f \in {"fatal", "cookie"} : Ends(r, f)
    /\ Faults(r)
    /\ UNCHANGED <<lockVars, n, planVars, doubtful, lifeVars, boundVars>>

\* The response head is there: the lifecycle takes over the operation.
Respond(r) ==
    /\ pc[r] = "posted"
    /\ Goto(r, "reading")
    /\ life' = life \cup {Call(r)}
    /\ UNCHANGED <<lockVars, n, fate, recordVars, planVars, doubtful, spawned,
                   faulted, boundVars>>

----------------------------------------------------------------------------
(* Reading the response: transform_response, materialize_explicit_response *)

\* Faulty variant of ReadStop: the turn is committed in memory and not persisted.
ReadStopInMemory(r) ==
    /\ pc[r] = "reading"
    /\ doubtful' = doubtful \ {target[r]}
    /\ mem' = WithPendingCommitted(mem)
    /\ Goto(r, "committed")
    /\ UNCHANGED <<lockVars, n, fate, disk, job, late, overtaken, planVars, lifeVars,
                   faulted, boundVars>>

\* message_stop: ExplicitLifecycle::commit. A commit that fails breaks the SSE
\* body, which the materializer reports as uncertain.
ReadStop(r) ==
    /\ pc[r] = "reading"
    /\ doubtful' = doubtful \ {target[r]}
    /\ Mutate(r, WithPendingCommitted(mem), "committed", mem,
              IF r \in Streaming THEN "recoverable" ELSE "fatal")
    /\ UNCHANGED <<lockVars, n, fate, planVars, lifeVars, faulted,
                   boundVars>>

\* The body ends without message_stop: ExplicitLifecycle::uncertain.
ReadTruncated(r) ==
    /\ pc[r] = "reading"
    /\ Mutate(r, Uncertain(mem), "failing", Uncertain(mem),
              IF r \in Streaming THEN "recoverable" ELSE "fatal")
    /\ Ends(r, "recoverable") /\ Faults(r)
    /\ UNCHANGED <<lockVars, n, planVars, doubtful, lifeVars, boundVars>>

\* The connection breaks. merge_sse marks the turn uncertain and returns the
\* error; the SSE path leaves the record InFlight and answers 502.
ReadBroken(r) ==
    /\ pc[r] = "reading"
    /\ IF r \in Streaming
       THEN /\ Goto(r, "failing") /\ Ends(r, "recoverable")
            /\ UNCHANGED recordVars
       ELSE /\ Mutate(r, Uncertain(mem), "failing", Uncertain(mem), "fatal")
            /\ Ends(r, "fatal")
    /\ Faults(r)
    /\ UNCHANGED <<lockVars, n, planVars, doubtful, lifeVars, boundVars>>

\* An SSE body over MAX_EXPLICIT_RESPONSE_BYTES before message_stop.
ReadTooLarge(r) ==
    /\ pc[r] = "reading" /\ r \in Streaming
    /\ Goto(r, "failing") /\ Ends(r, "fatal") /\ Faults(r)
    /\ UNCHANGED <<lockVars, n, recordVars, planVars, doubtful, lifeVars,
                   boundVars>>

\* The whole body is buffered: replay.complete, then the operation is released.
Complete(r) ==
    /\ pc[r] = "committed"
    /\ Lock!Complete(Call(r))
    /\ Goto(r, "ending") /\ Ends(r, "ok")
    /\ UNCHANGED <<n, recordVars, planVars, doubtful, lifeVars, faulted,
                   boundVars>>

\* The turn is committed but its body is too large, breaks after message_stop,
\* or the staged-file references cannot be reconciled.
CompleteFails(r) ==
    /\ pc[r] = "committed"
    /\ \E f \in {"fatal"} \cup (IF r \in Streaming THEN {"recoverable"} ELSE {}) :
           Ends(r, f)
    /\ Goto(r, "failing") /\ Faults(r)
    /\ UNCHANGED <<lockVars, n, recordVars, planVars, doubtful, lifeVars,
                   boundVars>>

----------------------------------------------------------------------------
(* Recovery and reset *)

\* Faulty variant of SkipReset: the recovery never resets.
SkipResetAlways(r) ==
    /\ pc[r] = "recover" /\ fate[r] = "recoverable"
    /\ Goto(r, "plan")
    /\ UNCHANGED <<lockVars, n, fate, recordVars, planVars, doubtful, lifeVars,
                   faulted, boundVars>>

\* The permit of the recovery is held. explicit_recovery_still_needed plans on
\* the current record; if that succeeds the second attempt plans the same.
SkipReset(r) ==
    /\ pc[r] = "recover" /\ fate[r] = "recoverable"
    /\ \/ mem = NoRecord /\ Planned(r, Call(r), 0)
       \/ /\ mem # NoRecord /\ mem.state = "Committed"
          /\ \E k \in Keeps(mem) : Planned(r, mem.conv, k)
    /\ UNCHANGED <<lockVars, n, recordVars, doubtful, lifeVars, faulted,
                   boundVars>>

\* Otherwise, and always after InvalidCookie, reset_explicit_for_rebuild removes
\* the record, and the second attempt creates a new conversation.
RecoveryReset(r) ==
    /\ pc[r] = "recover"
    /\ mem # NoRecord
    /\ Mutate(r, NoRecord, "plan", mem, "fatal")
    /\ UNCHANGED <<lockVars, n, fate, planVars, doubtful, lifeVars, faulted,
                   boundVars>>

\* reset_explicit finds nothing to remove and persists nothing.
RecoveryResetOfNothing(r) ==
    /\ pc[r] = "recover" /\ fate[r] = "cookie"
    /\ mem = NoRecord
    /\ Goto(r, "plan")
    /\ UNCHANGED <<lockVars, n, fate, recordVars, planVars, doubtful,
                   lifeVars, faulted, boundVars>>

\* Faulty variant of ApiReset: the record is removed without waiting for the operation.
ApiResetUnlocked(r) ==
    /\ r \in Resets /\ pc[r] \in {"waiting", "reset"}
    /\ mem # NoRecord /\ Mutate(r, NoRecord, "failing", mem, "fatal")
    /\ UNCHANGED <<lockVars, n, fate, planVars, doubtful, lifeVars, faulted,
                   boundVars>>

\* api_reset_session: 404 for an unknown session, and an error before anything
\* is changed if the references to its staged files cannot be removed.
ApiReset(r) ==
    /\ pc[r] = "reset"
    /\ \/ Goto(r, "failing") /\ UNCHANGED recordVars
       \/ mem # NoRecord /\ Mutate(r, NoRecord, "failing", mem, "fatal")
    /\ UNCHANGED <<lockVars, n, fate, planVars, doubtful, lifeVars, faulted,
                   boundVars>>

----------------------------------------------------------------------------
(* Cancellation, the lifecycle's drop, and restarts *)

\* A dropped mutate_explicit gives up both locks and does not roll back, while
\* its write stays in the blocking pool.
Abandon(r) ==
    IF pc[r] = "writing"
    THEN /\ late' = late \cup {[by |-> r, snap |-> job.snap, passed |-> FALSE]}
         /\ job' = NoJob
    ELSE UNCHANGED <<late, job>>

HoldingAt == {"plan", "prepare", "send", "posted", "reading", "committed",
              "recover", "reset", "writing"}

\* The client disconnects and axum drops the handler. Before the lifecycle
\* exists or after it is finalized the guard goes with it; in between, the drop
\* of the lifecycle keeps the operation and spawns finalize_uncertain.
Cancel(r) ==
    /\ cancels < MaxCancels
    /\ cancels' = cancels + 1
    /\ \/ /\ pc[r] = "waiting"
          /\ Lock!Cancel(Call(r))
          /\ Over(r)
          /\ UNCHANGED <<job, late, lifeVars>>
       \/ /\ pc[r] = "retry"
          /\ Over(r)
          /\ UNCHANGED <<lockVars, job, late, lifeVars>>
       \/ /\ pc[r] \in HoldingAt /\ fate[r] # "cancelled"
          /\ Call(r) \notin life
          /\ Abandon(r)
          /\ Goto(r, "failing") /\ Ends(r, "cancelled")
          /\ UNCHANGED <<lockVars, planVars, faulted, lifeVars>>
       \/ /\ pc[r] \in HoldingAt /\ fate[r] # "cancelled"
          /\ Call(r) \in life
          /\ Abandon(r)
          /\ Lock!Fail(Call(r))
          /\ Goto(r, "orphaned") /\ Ends(r, "cancelled")
          /\ life' = life \ {Call(r)}
          /\ spawned' = spawned \cup {Call(r)}
          /\ UNCHANGED <<planVars, faulted>>
    /\ UNCHANGED <<n, mem, disk, overtaken, doubtful, crashes, writeFailures>>

\* Faulty variant of Finalize: the record is marked although the operation was released.
FinalizeUnchecked(c) ==
    /\ c \in spawned
    /\ spawned' = spawned \ {c}
    /\ LET r == c[1]
       IN  IF pc[r] = "orphaned" /\ c = Call(r)
           THEN Mutate(r, Uncertain(mem), "failing", Uncertain(mem), "cancelled")
           ELSE /\ mem' = Uncertain(mem)
                /\ UNCHANGED <<pc, disk, job, late, overtaken>>
    /\ UNCHANGED <<lockVars, n, fate, planVars, doubtful, life, faulted, boundVars>>

\* Faulty variant of Finalize: a finalizer that does not give the operation back.
FinalizeKeeping(c) ==
    /\ c \in spawned
    /\ spawned' = spawned \ {c}
    /\ UNCHANGED <<lockVars, pc, n, fate, recordVars, planVars, doubtful, life,
                   faulted, boundVars>>

\* finalize_uncertain: only while the lifecycle still has the operation.
Finalize(c) ==
    /\ c \in spawned
    /\ spawned' = spawned \ {c}
    /\ LET r == c[1]
       IN  IF pc[r] = "orphaned" /\ c = Call(r)
           THEN Mutate(r, Uncertain(mem), "failing", Uncertain(mem), "cancelled")
           ELSE UNCHANGED <<pc, recordVars>>
    /\ UNCHANGED <<lockVars, n, fate, planVars, doubtful, life, faulted,
                   boundVars>>

\* The process dies and starts again: ConversationCache::persistent loads the
\* snapshot, and whatever was in progress is gone.
Crash ==
    /\ crashes < MaxCrashes
    /\ crashes' = crashes + 1
    /\ mem' = disk
    /\ job' = NoJob /\ late' = {} /\ life' = {} /\ spawned' = {}
    /\ pc' = [r \in Actors |-> IF pc[r] = "idle" THEN "idle" ELSE "done"]
    /\ fate' = [r \in Actors |-> "none"]
    /\ target' = [r \in Actors |-> NoCall]
    /\ keep' = [r \in Actors |-> 0]
    /\ faulted' = {}
    /\ status' = [c \in Calls |-> CASE status[c] = "waiting" -> "cancelled"
                                    [] status[c] = "holding" -> "ended"
                                    [] OTHER -> status[c]]
    /\ response' = [c \in Calls |-> IF status[c] = "holding" /\ response[c] = "pending"
                                    THEN "failed" ELSE response[c]]
    /\ witnessed' = [c \in Calls |-> {}]
    /\ UNCHANGED <<n, disk, overtaken, doubtful, cancels, writeFailures>>

----------------------------------------------------------------------------
LockStep(r) == Grant(r) \/ Share(r) \/ FailReplay(r) \/ Release(r)

AttemptStep(r) ==
    \/ Invalid(r) \/ Plan(r) \/ ExpirePlan(r) \/ PrepareFails(r) \/ Stage(r)
    \/ SendFails(r) \/ SendGone(r) \/ Post(r) \/ PostFails(r) \/ Respond(r)
    \/ ReadStop(r) \/ ReadTruncated(r) \/ ReadBroken(r) \/ ReadTooLarge(r)
    \/ Complete(r) \/ CompleteFails(r)

RecoveryStep(r) ==
    \/ SkipReset(r) \/ RecoveryReset(r) \/ RecoveryResetOfNothing(r)
    \/ ApiReset(r)

WriteStep(r) == WriteLands(r) \/ WriteFails(r)

Next ==
    \/ \E r \in Actors : Arrive(r) \/ Cancel(r) \/ LockStep(r) \/ WriteStep(r)
    \/ \E r \in Actors : AttemptStep(r) \/ RecoveryStep(r)
    \/ \E c \in Calls : Finalize(c)
    \/ LateWriteLands \/ Flush \/ Crash

Spec == Init /\ [][Next]_vars

\* Every task that can run is polled, snapshot writes end, and the upstream
\* answers, fails or drops every request: the code sets no timeout of its own.
Fairness ==
    /\ \A r \in Actors : /\ WF_vars(LockStep(r)) /\ WF_vars(AttemptStep(r))
                         /\ WF_vars(RecoveryStep(r)) /\ WF_vars(WriteLands(r))
                         /\ WF_vars(Arrive(r) /\ pc[r] = "retry")
    /\ \A c \in Calls : WF_vars(Finalize(c))
    /\ WF_vars(LateWriteLands)

FairSpec == Spec /\ Fairness
----------------------------------------------------------------------------
(* Correctness *)

TypeOK ==
    /\ Lock!SerialTypeOK
    /\ pc \in [Actors -> HoldingAt \cup {"idle", "waiting", "failing", "ending",
                                         "retry", "orphaned", "done"}]
    /\ n \in [Actors -> 0..3]
    /\ fate \in [Actors -> Fates]
    /\ mem \in Snapshots /\ disk \in Snapshots
    /\ job \in Jobs \cup {NoJob} /\ late \subseteq Leftovers
    /\ overtaken \subseteq Snapshots
    /\ target \in [Actors -> Calls \cup {NoCall}]
    /\ keep \in [Actors -> Nat]
    /\ doubtful \subseteq Calls /\ life \subseteq Calls /\ spawned \subseteq Calls
    /\ faulted \subseteq Actors
    /\ {crashes, cancels, writeFailures} \subseteq Nat

\* A record may be reused only when nothing about its conversation is unknown:
\* every completion ever sent to it was seen to end with message_stop. This
\* holds of the record in memory and of the one a restart would load, through
\* write failures and cancellations. Only a write that was cancelled and lands after
\* a later one can bring back a conversation that has become doubtful meanwhile.
Offered(rec) == rec # NoRecord /\ rec.state = "Committed"

Known(conv) ==
    conv \in doubtful => \E snap \in overtaken : Offered(snap) /\ snap.conv = conv

KnownConversation(rec) == Offered(rec) => Known(rec.conv)

ReusableIsKnown == KnownConversation(mem) /\ KnownConversation(disk)

\* A response is offered to the client and to the twins only once its turn is
\* the last committed turn of the record on disk, if the snapshot is not one that a
\* cancelled write put over a later one.
AnsweredIsDurable ==
    \A r \in Requests :
        pc[r] = "ending" /\ fate[r] = "ok" =>
            \/ disk \in overtaken
            \/ /\ Offered(disk)
               /\ disk.turns # <<>> /\ disk.turns[Len(disk.turns)] = Call(r)

\* The record changes only by the hand of the request that holds the session's
\* operation: not by a finalizer that outlived its operation, nor by a request
\* that gave its permit back to recover.
OnlyHolderChanges ==
    [][mem' # mem /\ crashes' = crashes =>
           \E r \in Actors :
               /\ n[r] > 0 /\ status[Call(r)] = "holding"
               /\ \/ job # NoJob /\ job.by = r
                  \/ job' # NoJob /\ job'.by = r]_vars

\* A session is never stuck: whatever state other requests, cancellations or a
\* restart left it in, a request that meets no fault of its own is answered.
FailsOnlyByOwnFault ==
    [][\A r \in Requests :
           /\ pc[r] = "ending" /\ pc'[r] = "done" /\ crashes' = crashes
           /\ fate[r] \notin {"ok", "cancelled"}
           => r \in faulted]_vars

\* Every request ends, and its permit with it.
EveryRequestEnds ==
    \A r \in Actors : pc[r] # "idle" ~> pc[r] = "done"
=============================================================================
