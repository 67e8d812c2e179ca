------------------------ MODULE ExplicitSessionProofs ------------------------
(***************************************************************************)
(* Safety of an explicit session, for any number of requests and resets,   *)
(* restarts, disconnecting clients, failed writes and writes that land     *)
(* after their mutation was cancelled.                                     *)
(***************************************************************************)
EXTENDS ExplicitSession, TLAPS

Busy == HoldingAt \cup {"failing", "ending", "orphaned"}

\* Where r is, or will be when the write it waits for has landed.
At(r) == IF pc[r] = "writing" THEN job.ok ELSE pc[r]

\* The record is the one that r planned on.
Continued(r) ==
    /\ mem # NoRecord /\ mem.state = "Committed"
    /\ mem.conv = target[r] /\ keep[r] \in 0..Len(mem.turns)

\* The record is the one that r staged, ...
InFlight(r) ==
    /\ mem # NoRecord /\ mem.state = "InFlight"
    /\ mem.conv = target[r] /\ mem.pending = Call(r)
    /\ mem.keep \in 0..Len(mem.turns)

\* ... or that it committed.
EndsWithTurn(rec, r) ==
    /\ rec # NoRecord /\ rec.state = "Committed"
    /\ rec.turns # <<>> /\ rec.turns[Len(rec.turns)] = Call(r)

Answered(r) == pc[r] = "ending" /\ fate[r] = "ok"

\* A busy request holds the operation, and its pc agrees with the mutation in
\* progress.
HoldsInv(r) ==
    /\ pc[r] = "idle" <=> n[r] = 0
    /\ pc[r] = "retry" => n[r] # 3
    /\ pc[r] = "reset" => r \in Resets
    /\ pc[r] \in Busy => status[Call(r)] = "holding"
    /\ pc[r] = "writing" => job # NoJob /\ job.by = r

\* What a request may rely on about the record while it holds the operation.
RecordInv(r) ==
    /\ pc[r] = "prepare" /\ ~Creates(r) => Continued(r)
    /\ At(r) \in {"send", "posted", "reading"} => InFlight(r)
    /\ At(r) = "committed" \/ Answered(r) => EndsWithTurn(mem, r)
    /\ fate[r] = "ok" => pc[r] = "ending"

\* A request that met no fault can fail its first attempt alone, and only
\* because the record was unusable; the second attempt has a new one.
FaultInv(r) ==
    r \in Requests \ faulted =>
        /\ At(r) \in {"failing", "ending"} =>
               fate[r] \in {"ok", "cancelled"} \/ (fate[r] = "recoverable" /\ n[r] = 1)
        /\ pc[r] = "orphaned" => fate[r] = "cancelled"
        /\ pc[r] = "retry" => n[r] = 1
        /\ n[r] = 2 /\ At(r) = "plan" => mem = NoRecord
        /\ n[r] = 3 => pc[r] = "done"

ActorInv(r) == HoldsInv(r) /\ RecordInv(r) /\ FaultInv(r)

\* The inductive invariant about memory.
SafeInv ==
    /\ TypeOK
    /\ Lock!OneHolder
    /\ job # NoJob => pc[job.by] = "writing" /\ job.err # "ok"
    /\ \A r \in Actors : ActorInv(r)

\* The snapshot has what r relies on, or a cancelled write has put an earlier one
\* over it; no other cancelled write can still land unnoticed; and what r sends a turn
\* to is known.
DiskInv(r) ==
    /\ pc[r] \in {"send", "posted", "reading", "committed"} \/ Answered(r) =>
           /\ disk = mem \/ disk \in overtaken
           /\ \A w \in late : w.passed
    /\ (pc[r] = "prepare" \/ At(r) = "send") /\ ~Creates(r) => Known(target[r])

\* The inductive invariant about the snapshot: a write has what is in memory,
\* and nothing that memory or snapshot can become offers a doubtful conversation.
DurableInv ==
    /\ job # NoJob => job.snap = mem /\ KnownConversation(job.undo)
    /\ \A w \in late : ~w.passed => KnownConversation(w.snap)
    /\ KnownConversation(mem) /\ KnownConversation(disk)
    /\ \A r \in Actors : DiskInv(r)

-----------------------------------------------------------------------------
(* Records and calls                                                       *)

LEMMA RecordOperators ==
    ASSUME NEW rec \in Records, NEW c \in Calls, NEW k \in Nat, NEW s \in States
    PROVE  /\ Fresh(c) \in Records
           /\ Staged(rec, c, k) \in Records
           /\ Dropping(rec, s) \in Records
           /\ rec # NoRecord
<1>1. rec # NoRecord
    BY SentinelAssumption
<1>2. Fresh(c) \in Records
    BY DEF Records, Fresh, States
<1>3. Staged(rec, c, k) \in Records
    BY DEF Records, Staged, States
<1>4. Dropping(rec, s) \in Records
    BY DEF Records, Dropping, States
<1>5. QED BY <1>1, <1>2, <1>3, <1>4

LEMMA UncertainRecord ==
    ASSUME NEW rec \in Snapshots
    PROVE  /\ Uncertain(rec) \in Snapshots
           /\ KnownConversation(Uncertain(rec))
BY SentinelAssumption DEF Snapshots, Records, States, Uncertain, KnownConversation, Offered

\* The turn that was pending is the last one of the committed record.
LEMMA CommittedRecord ==
    ASSUME NEW rec \in Records, rec.pending \in Calls, rec.keep \in 0..Len(rec.turns)
    PROVE  LET new == WithPendingCommitted(rec)
           IN  /\ new \in Records /\ new # NoRecord
               /\ new.state = "Committed" /\ new.conv = rec.conv
               /\ new.turns # <<>> /\ new.turns[Len(new.turns)] = rec.pending
<1> DEFINE kept == SubSeq(rec.turns, 1, rec.keep)
           turns == Append(kept, rec.pending)
<1>1. kept \in Seq(Calls)
    BY DEF Records
<1>2. turns \in Seq(Calls) /\ turns # <<>> /\ turns[Len(turns)] = rec.pending
    BY <1>1
<1> HIDE DEF kept
<1>3. WithPendingCommitted(rec) =
          [rec EXCEPT !.state = "Committed", !.pending = NoCall, !.keep = 0, !.turns = turns]
    BY DEF WithPendingCommitted, kept
<1> HIDE DEF turns
<1>4. WithPendingCommitted(rec) =
          [state |-> "Committed", conv |-> rec.conv, turns |-> turns,
           pending |-> NoCall, keep |-> 0]
    BY <1>3 DEF Records
<1>5. WithPendingCommitted(rec) \in Records
    BY <1>2, <1>4 DEF Records, States
<1>6. WithPendingCommitted(rec) # NoRecord
    BY <1>5, SentinelAssumption
<1>7. QED BY <1>2, <1>4, <1>5, <1>6

LEMMA CallOfActor ==
    ASSUME TypeOK, NEW r \in Actors, n[r] # 0
    PROVE  Call(r) \in Calls /\ n[r] \in Attempts
BY DEF TypeOK, Call, Calls, Attempts

\* The operation lock keeps its types and gives one permit at a time.
LEMMA LockStepProperties ==
    ASSUME Lock!SerialTypeOK, Lock!OneHolder, NEW c \in Calls,
           \/ Lock!Arrive(c) \/ Lock!Grant(c) \/ Lock!Share(c) \/ Lock!Cancel(c)
           \/ Lock!Complete(c) \/ Lock!Fail(c) \/ Lock!End(c)
    PROVE  Lock!SerialTypeOK' /\ Lock!OneHolder'
<1>1. CASE Lock!Arrive(c)
    BY <1>1 DEF Lock!SerialTypeOK, Lock!OneHolder, Lock!Arrive, Lock!Statuses, Lock!Holders
<1>2. CASE Lock!Grant(c)
    BY <1>2 DEF Lock!SerialTypeOK, Lock!OneHolder, Lock!Grant, Lock!Statuses, Lock!Holders
<1>3. CASE Lock!Share(c) \/ Lock!Cancel(c) \/ Lock!End(c)
    BY <1>3 DEF Lock!SerialTypeOK, Lock!OneHolder, Lock!Share, Lock!Cancel, Lock!End, Lock!Statuses
<1>4. CASE Lock!Complete(c) \/ Lock!Fail(c)
    BY <1>4 DEF Lock!SerialTypeOK, Lock!OneHolder, Lock!Complete, Lock!Fail
<1>5. QED BY <1>1, <1>2, <1>3, <1>4

-----------------------------------------------------------------------------
(* Steps of one actor leave what the others rely on alone                   *)

Others(r) ==
    \A s \in Actors \ {r} :
        /\ pc'[s] = pc[s] /\ n'[s] = n[s] /\ fate'[s] = fate[s]
        /\ target'[s] = target[s] /\ keep'[s] = keep[s]
        /\ s \in faulted' <=> s \in faulted
        /\ \A k \in Attempts : status'[<<s, k>>] = status[<<s, k>>]

\* The operation is one actor's: two busy ones would both hold it.
LEMMA BusyAlone ==
    ASSUME SafeInv, NEW r \in Actors, NEW s \in Actors, pc[r] \in Busy, pc[s] \in Busy
    PROVE  r = s
<1>1. n[r] # 0 /\ n[s] # 0 /\ status[Call(r)] = "holding" /\ status[Call(s)] = "holding"
    BY DEF SafeInv, ActorInv, HoldsInv, Busy, HoldingAt
<1>2. Call(r) \in Calls /\ Call(s) \in Calls
    BY <1>1, CallOfActor DEF SafeInv
<1>3. Call(r) = Call(s)
    BY <1>1, <1>2 DEF SafeInv, Lock!OneHolder
<1>4. QED BY <1>3 DEF Call

\* A step of the actor that holds the operation, whatever it does to the record.
LEMMA BusyStep ==
    ASSUME SafeInv, NEW r \in Actors, pc[r] \in Busy, Others(r),
           TypeOK', Lock!OneHolder',
           job' # NoJob => job'.by = r /\ pc'[r] = "writing" /\ job'.err # "ok",
           ActorInv(r)'
    PROVE  SafeInv'
<1>1. ASSUME NEW s \in Actors, s # r PROVE ActorInv(s)'
    <2>1. pc[s] \notin Busy /\ pc'[s] = pc[s] /\ pc'[s] \notin Busy
        BY <1>1, BusyAlone DEF Others
    <2>2. HoldsInv(s)'
        <3>1. HoldsInv(s)
            BY DEF SafeInv, ActorInv
        <3>2. QED BY <1>1, <2>1, <3>1 DEF Others, HoldsInv, Busy, HoldingAt
    <2>3. RecordInv(s)'
        <3>1. fate[s] # "ok"
            BY <2>1 DEF SafeInv, ActorInv, RecordInv, Busy
        <3>2. QED BY <1>1, <2>1, <3>1 DEF Others, RecordInv, At, Answered, Busy, HoldingAt
    <2>4. FaultInv(s)'
        <3>1. FaultInv(s)
            BY DEF SafeInv, ActorInv
        <3>2. QED BY <1>1, <2>1, <3>1 DEF Others, FaultInv, At, Busy, HoldingAt
    <2>5. QED BY <2>2, <2>3, <2>4 DEF ActorInv
<1>2. QED BY <1>1 DEF SafeInv

\* A step of an actor that leaves the record alone.
LEMMA IdleStep ==
    ASSUME SafeInv, NEW r \in Actors, Others(r), TypeOK', Lock!OneHolder',
           UNCHANGED <<mem, job>>, pc[r] # "writing",
           ActorInv(r)'
    PROVE  SafeInv'
<1>1. ASSUME NEW s \in Actors, s # r PROVE ActorInv(s)'
    <2>1. ActorInv(s)
        BY DEF SafeInv
    <2>2. status'[Call(s)] = status[Call(s)] \/ pc[s] = "idle"
        BY <1>1, <2>1, CallOfActor DEF ActorInv, HoldsInv, Others, SafeInv, Call
    <2>3. At(s)' = At(s) /\ Call(s)' = Call(s) /\ Creates(s)' = Creates(s)
        BY <1>1 DEF Others, At, Call, Creates
    <2>4. HoldsInv(s)'
        BY <1>1, <2>1, <2>2, <2>3 DEF Others, ActorInv, HoldsInv, Busy, HoldingAt
    <2>5. RecordInv(s)'
        BY <1>1, <2>1, <2>3 DEF Others, ActorInv, RecordInv, Answered, Continued, InFlight, EndsWithTurn
    <2>6. FaultInv(s)'
        BY <1>1, <2>1, <2>3 DEF Others, ActorInv, FaultInv
    <2>7. QED BY <2>4, <2>5, <2>6 DEF ActorInv
<1>2. job' # NoJob => pc'[job'.by] = "writing" /\ job'.err # "ok"
    BY DEF SafeInv, Others, TypeOK, Jobs
<1>3. QED BY <1>1, <1>2 DEF SafeInv

-----------------------------------------------------------------------------
(* The steps of a request that holds the operation                         *)

\* What all steps of an attempt have in common.
Attempt(r) ==
    /\ n' = n
    /\ UNCHANGED <<lockVars, boundVars>>
    /\ fate'[r] \in Fates /\ fate' = [fate EXCEPT ![r] = fate'[r]]
    /\ target'[r] \in Calls \cup {NoCall} /\ target' = [target EXCEPT ![r] = target'[r]]
    /\ keep'[r] \in Nat /\ keep' = [keep EXCEPT ![r] = keep'[r]]
    /\ doubtful' \subseteq Calls /\ life' \subseteq Calls /\ spawned' \subseteq Calls
    /\ faulted' \in {faulted, faulted \cup {r}}

\* A mutation begins.
LEMMA MutateStep ==
    ASSUME SafeInv, NEW r \in Actors, pc[r] \in Busy, Attempt(r),
           NEW rec \in Snapshots, NEW undo \in Snapshots, NEW err \in Fates,
           NEW ok \in {"send", "committed", "failing", "plan"},
           Mutate(r, rec, ok, undo, err),
           fate'[r] # "ok", err # "ok",
           ok = "send" => InFlight(r)',
           ok = "committed" => EndsWithTurn(rec, r),
           r \in Requests \ faulted' =>
               /\ n[r] # 3
               /\ ok = "failing" => fate'[r] = "cancelled"
               /\ ok = "plan" => rec = NoRecord
    PROVE  SafeInv'
<1> USE DEF Attempt
<1>1. /\ pc' = [pc EXCEPT ![r] = "writing"] /\ mem' = rec
      /\ late' = late /\ disk' = disk /\ overtaken' = overtaken
      /\ job' = [by |-> r, snap |-> rec, ok |-> ok, undo |-> undo, err |-> err]
    BY DEF Mutate, Goto
<1>2. job' \in Jobs /\ job' # NoJob
    BY <1>1, SentinelAssumption DEF Jobs
<1>3. TypeOK'
    <2>1. Lock!SerialTypeOK'
        BY DEF SafeInv, TypeOK, lockVars, Lock!SerialTypeOK, Lock!Statuses
    <2>2. QED BY <1>1, <1>2, <2>1 DEF SafeInv, TypeOK, HoldingAt, boundVars
<1>4. Lock!OneHolder'
    BY DEF SafeInv, lockVars, Lock!OneHolder
<1>5. Others(r)
    BY <1>1 DEF Others, SafeInv, TypeOK, lockVars
<1>6. HoldsInv(r)'
    BY <1>1, <1>2 DEF SafeInv, TypeOK, ActorInv, HoldsInv, Busy, HoldingAt, lockVars, Call
<1>7. pc'[r] = "writing" /\ At(r)' = ok /\ Call(r)' = Call(r)
    BY <1>1 DEF SafeInv, TypeOK, At, Call
<1>8. RecordInv(r)'
    BY <1>1, <1>7 DEF RecordInv, Answered, EndsWithTurn
<1>9. FaultInv(r)'
    BY <1>1, <1>7 DEF FaultInv
<1>10. job'.by = r /\ job'.err # "ok"
    BY <1>1
<1>11. ActorInv(r)'
    BY <1>6, <1>8, <1>9 DEF ActorInv
<1>12. QED BY <1>3, <1>4, <1>5, <1>7, <1>10, <1>11, BusyStep

\* The attempt goes on, or fails, without a mutation.
LEMMA MoveStep ==
    ASSUME SafeInv, NEW r \in Actors, pc[r] \in Busy, pc[r] # "writing", Attempt(r),
           UNCHANGED recordVars,
           NEW l \in Busy, Goto(r, l), l \notin {"writing", "reset"},
           RecordInv(r)', FaultInv(r)'
    PROVE  SafeInv'
<1> USE DEF Attempt
<1>1. pc' = [pc EXCEPT ![r] = l]
    BY DEF Goto
<1>2. TypeOK'
    <2>1. Lock!SerialTypeOK'
        BY DEF SafeInv, TypeOK, lockVars, Lock!SerialTypeOK, Lock!Statuses
    <2>2. QED BY <1>1, <2>1 DEF SafeInv, TypeOK, Busy, HoldingAt, recordVars, boundVars
<1>3. Lock!OneHolder'
    BY DEF SafeInv, lockVars, Lock!OneHolder
<1>4. Others(r)
    BY <1>1 DEF Others, SafeInv, TypeOK, lockVars
<1>5. HoldsInv(r)'
    BY <1>1 DEF SafeInv, TypeOK, ActorInv, HoldsInv, Busy, HoldingAt, lockVars, Call
<1>6. job = NoJob
    <2>1. job # NoJob => job.by \in Actors /\ pc[job.by] = "writing"
        BY DEF SafeInv, TypeOK, Jobs
    <2>2. QED BY <2>1, BusyAlone DEF Busy, HoldingAt
<1>7. job' = NoJob
    BY <1>6 DEF recordVars
<1>8. ActorInv(r)'
    BY <1>5 DEF ActorInv
<1>9. QED BY <1>2, <1>3, <1>4, <1>7, <1>8, BusyStep

\* What the record is for a request that is about to send or has sent.
LEMMA InFlightRecord ==
    ASSUME SafeInv, NEW r \in Actors, pc[r] \in {"send", "posted", "reading"}
    PROVE  /\ InFlight(r) /\ mem \in Records /\ mem \in Snapshots
           /\ Call(r) \in Calls /\ target[r] \in Calls /\ fate[r] # "ok"
<1>1. InFlight(r)
    BY DEF SafeInv, ActorInv, RecordInv, At
<1>2. mem \in Records
    BY <1>1 DEF SafeInv, TypeOK, Snapshots, InFlight
<1>3. n[r] # 0 /\ fate[r] # "ok"
    BY DEF SafeInv, ActorInv, HoldsInv, RecordInv
<1>4. Call(r) \in Calls /\ target[r] \in Calls
    BY <1>1, <1>2, <1>3, CallOfActor DEF SafeInv, Records, InFlight
<1>5. QED BY <1>1, <1>2, <1>3, <1>4 DEF Snapshots

\* The same for one that has a plan.
LEMMA PlannedRecord ==
    ASSUME SafeInv, NEW r \in Actors, pc[r] = "prepare"
    PROVE  /\ Call(r) \in Calls /\ fate[r] # "ok" /\ mem \in Snapshots
           /\ ~Creates(r) => Continued(r) /\ mem \in Records /\ keep[r] \in 0..Len(mem.turns)
<1>1. ~Creates(r) => Continued(r) /\ mem \in Records /\ keep[r] \in 0..Len(mem.turns)
    BY DEF SafeInv, TypeOK, ActorInv, RecordInv, Continued, Snapshots
<1>2. n[r] # 0 /\ fate[r] # "ok" /\ mem \in Snapshots
    BY DEF SafeInv, TypeOK, ActorInv, HoldsInv, RecordInv
<1>3. QED BY <1>1, <1>2, CallOfActor DEF SafeInv

LEMMA FaultlessThird ==
    ASSUME SafeInv, NEW r \in Requests \ faulted, pc[r] # "done"
    PROVE  n[r] # 3
BY DEF SafeInv, ActorInv, FaultInv, Actors

\* Steps that fail an attempt by a fault of its own and change no record.
LEMMA FailingSteps ==
    ASSUME SafeInv, NEW r \in Actors,
           Invalid(r) \/ PrepareFails(r) \/ ReadTooLarge(r) \/ CompleteFails(r)
    PROVE  SafeInv'
<1>1. pc[r] \in {"plan", "prepare", "reading", "committed"} /\ pc[r] \in Busy
    BY DEF Invalid, PrepareFails, ReadTooLarge, CompleteFails, Busy, HoldingAt
<1>2. Goto(r, "failing") /\ Attempt(r) /\ UNCHANGED recordVars
      /\ fate'[r] # "ok" /\ faulted' = faulted \cup {r}
    BY DEF Invalid, PrepareFails, ReadTooLarge, CompleteFails, Ends, Faults, Attempt,
           SafeInv, TypeOK, Fates, planVars, lifeVars
<1>3. At(r)' = "failing" /\ pc'[r] = "failing"
    BY <1>2 DEF Goto, SafeInv, TypeOK, At
<1>4. RecordInv(r)' /\ FaultInv(r)'
    BY <1>2, <1>3 DEF RecordInv, FaultInv, Answered
<1>5. QED BY <1>1, <1>2, <1>4, MoveStep DEF Busy

\* A plan points to the record it was made on, or to a new conversation.
LEMMA PlannedStep ==
    ASSUME SafeInv, NEW r \in Actors, pc[r] \in {"plan", "recover"},
           \/ mem = NoRecord /\ Planned(r, Call(r), 0)
           \/ /\ mem # NoRecord /\ mem.state = "Committed"
              /\ \E k \in Keeps(mem) : Planned(r, mem.conv, k),
           UNCHANGED <<lockVars, n, recordVars, doubtful, lifeVars, faulted, boundVars>>
    PROVE  SafeInv'
<1>1. pc[r] \in Busy /\ n[r] # 0 /\ Call(r) \in Calls /\ fate[r] # "ok"
    BY CallOfActor DEF Busy, HoldingAt, SafeInv, ActorInv, HoldsInv, RecordInv
<1>2. Goto(r, "prepare") /\ fate' = fate
    BY DEF Planned
<1>3. mem # NoRecord => mem \in Records
    BY DEF SafeInv, TypeOK, Snapshots
<1>4. /\ target' = [target EXCEPT ![r] = target'[r]] /\ keep' = [keep EXCEPT ![r] = keep'[r]]
      /\ \/ target'[r] = Call(r) /\ keep'[r] = 0
         \/ /\ mem # NoRecord /\ mem.state = "Committed"
            /\ target'[r] = mem.conv /\ keep'[r] \in 0..Len(mem.turns)
    BY DEF Planned, Keeps, SafeInv, TypeOK
<1>5. target'[r] \in Calls /\ keep'[r] \in Nat
    <2>1. mem # NoRecord => mem.conv \in Calls /\ Len(mem.turns) \in Nat
        BY <1>3 DEF Records
    <2>2. QED BY <1>1, <1>4, <2>1
<1>6. Attempt(r)
    BY <1>2, <1>4, <1>5 DEF Attempt, SafeInv, TypeOK, lifeVars
<1>7. At(r)' = "prepare" /\ pc'[r] = "prepare" /\ Call(r)' = Call(r)
    BY <1>2 DEF Goto, SafeInv, TypeOK, At, Call
<1>8. RecordInv(r)'
    BY <1>1, <1>2, <1>4, <1>7 DEF RecordInv, Answered, Creates, Continued, recordVars
<1>9. FaultInv(r)'
    <2>1. r \in Requests \ faulted => n[r] # 3
        BY FaultlessThird
    <2>2. QED BY <1>7, <2>1 DEF FaultInv
<1>10. UNCHANGED recordVars
    OBVIOUS
<1>11. QED BY <1>1, <1>2, <1>6, <1>8, <1>9, <1>10, MoveStep DEF Busy, HoldingAt

LEMMA PlanStep ==
    ASSUME SafeInv, NEW r \in Actors, Plan(r) \/ SkipReset(r)
    PROVE  SafeInv'
<1>1. CASE mem # NoRecord /\ Plan(r) /\ Goto(r, "failing") /\ Ends(r, "recoverable")
           /\ UNCHANGED planVars
    <2>1. pc[r] = "plan" /\ pc[r] \in Busy
        BY <1>1 DEF Plan, Busy, HoldingAt
    <2>2. Attempt(r) /\ UNCHANGED recordVars /\ fate'[r] = "recoverable"
          /\ faulted' = faulted /\ n' = n
        BY <1>1 DEF Plan, Attempt, Ends, SafeInv, TypeOK, Fates, planVars, lifeVars
    <2>3. At(r)' = "failing" /\ pc'[r] = "failing"
        BY <1>1 DEF Goto, SafeInv, TypeOK, At
    <2>4. RecordInv(r)'
        BY <2>2, <2>3 DEF RecordInv, Answered
    <2>5. r \in Requests \ faulted => n[r] = 1
        \* A second attempt without faults plans on no record.
        <3>1. SUFFICES ASSUME r \in Requests \ faulted PROVE n[r] = 1
            OBVIOUS
        <3>2. n[r] # 3 /\ n[r] # 0
            BY <2>1, <3>1, FaultlessThird DEF SafeInv, ActorInv, HoldsInv
        <3>3. n[r] # 2
            BY <1>1, <2>1, <3>1 DEF SafeInv, ActorInv, FaultInv, At
        <3>4. QED BY <3>2, <3>3 DEF SafeInv, TypeOK
    <2>6. FaultInv(r)'
        BY <2>2, <2>3, <2>5 DEF FaultInv
    <2>7. QED BY <1>1, <2>1, <2>2, <2>4, <2>6, MoveStep DEF Busy
<1>2. CASE ~(mem # NoRecord /\ Plan(r) /\ Goto(r, "failing") /\ Ends(r, "recoverable")
             /\ UNCHANGED planVars)
    BY <1>2, PlannedStep DEF Plan, SkipReset
<1>3. QED BY <1>1, <1>2

LEMMA StageStep == ASSUME SafeInv, NEW r \in Actors, Stage(r) PROVE SafeInv'
<1> DEFINE rec == IF Creates(r) THEN Fresh(Call(r)) ELSE Staged(mem, Call(r), keep[r])
<1>1. pc[r] = "prepare" /\ Mutate(r, rec, "send", mem, "fatal") /\ Attempt(r)
      /\ fate' = fate /\ target' = target /\ n' = n /\ faulted' = faulted
    BY DEF Stage, Attempt, SafeInv, TypeOK, planVars, lifeVars
<1>2. /\ Call(r) \in Calls /\ fate[r] # "ok" /\ mem \in Snapshots
      /\ ~Creates(r) => Continued(r) /\ mem \in Records /\ keep[r] \in 0..Len(mem.turns)
    BY <1>1, PlannedRecord
<1>3. rec \in Records
    <2>1. CASE Creates(r)
        <3>1. Fresh(Call(r)) \in Records
            BY <1>2 DEF Records, Fresh, States
        <3>2. QED BY <2>1, <3>1
    <2>2. CASE ~Creates(r)
        <3>1. mem \in Records /\ Call(r) \in Calls /\ keep[r] \in Nat
            BY <1>2, <2>2 DEF SafeInv, TypeOK
        <3>2. Staged(mem, Call(r), keep[r]) \in Records
            BY <3>1 DEF Records, Staged, States
        <3>3. QED BY <2>2, <3>2
    <2>3. QED BY <2>1, <2>2
<1>4. rec # NoRecord
    BY <1>3, SentinelAssumption
<1>5. rec.state = "InFlight" /\ rec.conv = target[r] /\ rec.pending = Call(r)
      /\ rec.keep \in 0..Len(rec.turns)
    <2>1. CASE Creates(r)
        BY <2>1 DEF Fresh, Creates
    <2>2. CASE ~Creates(r)
        BY <1>2, <2>2 DEF Staged, Continued, Records
    <2>3. QED BY <2>1, <2>2
<1>6. mem' = rec /\ Call(r)' = Call(r)
    BY <1>1 DEF Mutate, Call
<1> HIDE DEF rec
<1>7. InFlight(r)'
    BY <1>1, <1>4, <1>5, <1>6 DEF InFlight
<1>8. r \in Requests \ faulted' => n[r] # 3
    BY <1>1, FaultlessThird
<1>9. pc[r] \in Busy /\ rec \in Snapshots
    BY <1>1, <1>3 DEF Busy, HoldingAt, Snapshots
<1>10. QED BY <1>1, <1>2, <1>7, <1>8, <1>9, MutateStep DEF Fates

\* Mutations after which the attempt fails by a fault of its own.
LEMMA FailingMutation ==
    ASSUME SafeInv, NEW r \in Actors,
           ExpirePlan(r) \/ SendFails(r) \/ SendGone(r) \/ PostFails(r) \/ ReadTruncated(r)
    PROVE  SafeInv'
<1>1. pc[r] \in Busy
    BY DEF ExpirePlan, SendFails, SendGone, PostFails, ReadTruncated, Busy, HoldingAt
<1>2. Attempt(r) /\ fate'[r] # "ok" /\ faulted' = faulted \cup {r}
    BY DEF ExpirePlan, SendFails, SendGone, PostFails, ReadTruncated, Ends, Faults, Attempt,
           SafeInv, TypeOK, Fates, planVars, lifeVars
<1>3. \E rec, undo \in Snapshots, err \in Fates \ {"ok"} : Mutate(r, rec, "failing", undo, err)
    <2>0. mem \in Snapshots /\ Uncertain(mem) \in Snapshots
        BY UncertainRecord DEF SafeInv, TypeOK
    <2>1. CASE ExpirePlan(r)
        <3>1. mem \in Records /\ "Tombstoned" \in States
            BY <2>1, PlannedRecord DEF ExpirePlan, States
        <3>2. Dropping(mem, "Tombstoned") \in Snapshots
            BY <3>1 DEF Dropping, Records, Snapshots
        <3>3. QED BY <2>0, <2>1, <3>2 DEF ExpirePlan, Fates
    <2>2. CASE SendFails(r) \/ SendGone(r)
        <3>1. mem \in Records /\ {"Tombstoned", "Committed"} \subseteq States
            BY <2>2, InFlightRecord DEF SendFails, SendGone, States
        <3>2. Dropping(mem, "Tombstoned") \in Snapshots /\ Dropping(mem, "Committed") \in Snapshots
            BY <3>1 DEF Dropping, Records, Snapshots
        <3>3. QED BY <2>0, <2>2, <3>2 DEF SendFails, SendGone, Fates
    <2>3. CASE PostFails(r) \/ ReadTruncated(r)
        BY <2>0, <2>3 DEF PostFails, ReadTruncated, Fates
    <2>4. QED BY <2>1, <2>2, <2>3
<1>4. PICK rec \in Snapshots, undo \in Snapshots, err \in Fates \ {"ok"} :
          Mutate(r, rec, "failing", undo, err)
    BY <1>3
<1>5. QED BY <1>1, <1>2, <1>4, MutateStep

\* The connection breaks: with or without a mutation.
LEMMA ReadBrokenStep == ASSUME SafeInv, NEW r \in Actors, ReadBroken(r) PROVE SafeInv'
<1>1. pc[r] = "reading" /\ pc[r] \in Busy /\ "failing" \in Busy
    BY DEF ReadBroken, Busy, HoldingAt
<1>2. Attempt(r) /\ fate'[r] # "ok" /\ faulted' = faulted \cup {r}
    BY DEF ReadBroken, Ends, Faults, Attempt, SafeInv, TypeOK, Fates, planVars, lifeVars
<1>3. CASE r \in Streaming
    <2>1. Goto(r, "failing") /\ UNCHANGED recordVars
        BY <1>3 DEF ReadBroken
    <2>2. At(r)' = "failing" /\ pc'[r] = "failing"
        BY <2>1 DEF Goto, SafeInv, TypeOK, At
    <2>3. RecordInv(r)' /\ FaultInv(r)'
        BY <1>2, <2>2 DEF RecordInv, FaultInv, Answered
    <2>4. QED BY <1>1, <1>2, <2>1, <2>3, MoveStep
<1>4. CASE r \notin Streaming
    <2>1. Mutate(r, Uncertain(mem), "failing", Uncertain(mem), "fatal")
        BY <1>4 DEF ReadBroken
    <2>2. Uncertain(mem) \in Snapshots
        BY UncertainRecord DEF SafeInv, TypeOK
    <2>3. QED BY <1>1, <1>2, <2>1, <2>2, MutateStep DEF Fates
<1>5. QED BY <1>3, <1>4

\* The turn is sent, and its response begins.
LEMMA SendStep == ASSUME SafeInv, NEW r \in Actors, Post(r) \/ Respond(r) PROVE SafeInv'
<1>1. pc[r] \in {"send", "posted"} /\ pc[r] \in Busy
    BY DEF Post, Respond, Busy, HoldingAt
<1>2. InFlight(r) /\ Call(r) \in Calls /\ target[r] \in Calls /\ fate[r] # "ok"
    BY <1>1, InFlightRecord
<1>3. PICK l \in {"posted", "reading"} : Goto(r, l)
    BY DEF Post, Respond
<1>4. Attempt(r)
    BY <1>2 DEF Post, Respond, Attempt, SafeInv, TypeOK, planVars, lifeVars
<1>5. UNCHANGED <<recordVars, fate, n, target, faulted>>
    BY DEF Post, Respond, planVars
<1>6. At(r)' = l /\ pc'[r] = l /\ Call(r)' = Call(r)
    BY <1>3, <1>5 DEF Goto, SafeInv, TypeOK, At, Call
<1>7. RecordInv(r)'
    BY <1>2, <1>5, <1>6 DEF RecordInv, Answered, InFlight, recordVars
<1>8. FaultInv(r)'
    <2>1. r \in Requests \ faulted => n[r] # 3
        BY <1>1, FaultlessThird
    <2>2. QED BY <1>5, <1>6, <2>1 DEF FaultInv
<1>9. QED BY <1>1, <1>3, <1>4, <1>5, <1>7, <1>8, MoveStep DEF Busy, HoldingAt

\* message_stop: the turn is committed.
LEMMA ReadStopStep == ASSUME SafeInv, NEW r \in Actors, ReadStop(r) PROVE SafeInv'
<1> DEFINE err == IF r \in Streaming THEN "recoverable" ELSE "fatal"
<1>1. pc[r] = "reading" /\ Mutate(r, WithPendingCommitted(mem), "committed", mem, err)
      /\ Attempt(r) /\ fate' = fate /\ faulted' = faulted
    BY DEF ReadStop, Attempt, SafeInv, TypeOK, planVars, lifeVars
<1>2. InFlight(r) /\ mem \in Records /\ mem \in Snapshots /\ Call(r) \in Calls /\ fate[r] # "ok"
    BY <1>1, InFlightRecord
<1>3. EndsWithTurn(WithPendingCommitted(mem), r) /\ WithPendingCommitted(mem) \in Snapshots
    BY <1>2, CommittedRecord DEF EndsWithTurn, InFlight, Snapshots
<1>4. r \in Requests \ faulted' => n[r] # 3
    BY <1>1, FaultlessThird
<1>5. err \in Fates /\ err # "ok" /\ pc[r] \in Busy
    BY <1>1 DEF Fates, Busy, HoldingAt
<1> HIDE DEF err
<1>6. QED BY <1>1, <1>2, <1>3, <1>4, <1>5, MutateStep

\* The record goes before a rebuild, or is gone already.
LEMMA RecoveryStepSafe ==
    ASSUME SafeInv, NEW r \in Actors, RecoveryReset(r) \/ RecoveryResetOfNothing(r)
    PROVE  SafeInv'
<1>1. pc[r] = "recover" /\ pc[r] \in Busy /\ "plan" \in Busy
    BY DEF RecoveryReset, RecoveryResetOfNothing, Busy, HoldingAt
<1>2. Attempt(r) /\ fate' = fate /\ faulted' = faulted /\ n' = n
    BY DEF RecoveryReset, RecoveryResetOfNothing, Attempt, SafeInv, TypeOK, planVars, lifeVars
<1>3. fate[r] # "ok" /\ (r \in Requests \ faulted => n[r] # 3)
    BY <1>1, FaultlessThird DEF SafeInv, ActorInv, RecordInv
<1>4. CASE RecoveryReset(r)
    <2>1. Mutate(r, NoRecord, "plan", mem, "fatal") /\ mem \in Snapshots /\ NoRecord \in Snapshots
        BY <1>4 DEF RecoveryReset, SafeInv, TypeOK, Snapshots
    <2>2. QED BY <1>1, <1>2, <1>3, <2>1, MutateStep DEF Fates
<1>5. CASE RecoveryResetOfNothing(r)
    <2>1. Goto(r, "plan") /\ UNCHANGED recordVars /\ mem = NoRecord
        BY <1>5 DEF RecoveryResetOfNothing
    <2>2. At(r)' = "plan" /\ pc'[r] = "plan"
        BY <2>1 DEF Goto, SafeInv, TypeOK, At
    <2>3. RecordInv(r)' /\ FaultInv(r)'
        BY <1>2, <1>3, <2>1, <2>2 DEF RecordInv, FaultInv, Answered, recordVars
    <2>4. QED BY <1>1, <1>2, <2>1, <2>3, MoveStep
<1>6. QED BY <1>4, <1>5

\* The reset endpoint.
LEMMA ApiResetStep == ASSUME SafeInv, NEW r \in Actors, ApiReset(r) PROVE SafeInv'
<1>1. pc[r] = "reset" /\ pc[r] \in Busy /\ "failing" \in Busy
    BY DEF ApiReset, Busy, HoldingAt
<1>2. Attempt(r) /\ fate' = fate /\ faulted' = faulted /\ n' = n
    BY DEF ApiReset, Attempt, SafeInv, TypeOK, planVars, lifeVars
<1>3. fate[r] # "ok" /\ r \notin Requests
    BY <1>1, SessionAssumption DEF SafeInv, ActorInv, HoldsInv, RecordInv
<1>4. CASE Goto(r, "failing") /\ UNCHANGED recordVars
    <2>1. At(r)' = "failing" /\ pc'[r] = "failing"
        BY <1>4 DEF Goto, SafeInv, TypeOK, At
    <2>2. RecordInv(r)' /\ FaultInv(r)'
        BY <1>2, <1>3, <2>1 DEF RecordInv, FaultInv, Answered
    <2>3. QED BY <1>1, <1>2, <1>4, <2>2, MoveStep
<1>5. CASE Mutate(r, NoRecord, "failing", mem, "fatal")
    <2>1. mem \in Snapshots /\ NoRecord \in Snapshots
        BY DEF SafeInv, TypeOK, Snapshots
    <2>2. QED BY <1>1, <1>2, <1>3, <1>5, <2>1, MutateStep DEF Fates
<1>6. QED BY <1>4, <1>5 DEF ApiReset

\* finalize_uncertain marks the record only for the call that has the operation.
LEMMA FinalizeStep == ASSUME SafeInv, NEW c \in Calls, Finalize(c) PROVE SafeInv'
<1> DEFINE r == c[1]
<1>0. r \in Actors
    BY DEF Calls
<1> HIDE DEF r
<1>1. /\ UNCHANGED <<lockVars, n, fate, planVars, doubtful, life, faulted, boundVars>>
      /\ spawned' = spawned \ {c}
      /\ \/ pc[r] = "orphaned" /\ Mutate(r, Uncertain(mem), "failing", Uncertain(mem), "cancelled")
         \/ UNCHANGED <<pc, recordVars>>
    BY DEF Finalize, r
<1>2. CASE pc[r] = "orphaned" /\ Mutate(r, Uncertain(mem), "failing", Uncertain(mem), "cancelled")
    <2>1. Attempt(r) /\ fate' = fate /\ faulted' = faulted
        BY <1>0, <1>1 DEF Attempt, SafeInv, TypeOK, planVars
    <2>2. fate[r] # "ok"
        BY <1>0, <1>2 DEF SafeInv, ActorInv, RecordInv
    <2>3. r \in Requests \ faulted => n[r] # 3 /\ fate[r] = "cancelled"
        BY <1>0, <1>2, FaultlessThird DEF SafeInv, ActorInv, FaultInv
    <2>4. Uncertain(mem) \in Snapshots /\ pc[r] \in Busy
        BY <1>2, UncertainRecord DEF SafeInv, TypeOK, Busy
    <2>5. QED BY <1>0, <1>2, <2>1, <2>2, <2>3, <2>4, MutateStep DEF Fates
<1>3. CASE UNCHANGED <<pc, recordVars>>
    <2>1. TypeOK'
        BY <1>1, <1>3 DEF SafeInv, TypeOK, lockVars, recordVars, planVars, boundVars,
           Lock!SerialTypeOK, Lock!Statuses
    <2>2. Lock!OneHolder' /\ (job' # NoJob => pc'[job'.by] = "writing" /\ job'.err # "ok")
        BY <1>1, <1>3 DEF SafeInv, lockVars, recordVars, Lock!OneHolder
    <2>3. ASSUME NEW s \in Actors PROVE ActorInv(s)'
        <3>1. ActorInv(s)
            BY DEF SafeInv
        <3>2. QED
            BY <1>1, <1>3, <3>1 DEF lockVars, recordVars, planVars, ActorInv, HoldsInv,
               RecordInv, FaultInv, At, Answered, Continued, InFlight, EndsWithTurn, Creates, Call
    <2>4. QED BY <2>1, <2>2, <2>3 DEF SafeInv
<1>4. QED BY <1>1, <1>2, <1>3

\* The write of a mutation ends.
LEMMA WriteStepSafe ==
    ASSUME SafeInv, NEW r \in Actors, WriteLands(r) \/ WriteFails(r)
    PROVE  SafeInv'
<1>1. pc[r] = "writing" /\ pc[r] \in Busy /\ job # NoJob /\ job.by = r /\ job \in Jobs
    BY DEF WriteLands, WriteFails, Busy, HoldingAt, SafeInv, TypeOK, ActorInv, HoldsInv
<1>2. fate[r] # "ok" /\ job.err # "ok" /\ (r \in Requests \ faulted => n[r] # 3)
    BY <1>1, FaultlessThird DEF SafeInv, ActorInv, RecordInv
<1>3. n' = n /\ target' = target /\ keep' = keep /\ job' = NoJob /\ lockVars' = lockVars
    BY DEF WriteLands, WriteFails, planVars
<1>4. Lock!SerialTypeOK' /\ Lock!OneHolder'
    BY <1>3 DEF SafeInv, TypeOK, lockVars, Lock!SerialTypeOK, Lock!Statuses, Lock!OneHolder
<1>5. CASE WriteLands(r)
    <2>1. /\ pc' = [pc EXCEPT ![r] = job.ok] /\ mem' = mem /\ fate' = fate
          /\ faulted' = faulted /\ disk' = job.snap
          /\ job.ok \in {"send", "committed", "failing", "plan"}
        BY <1>1, <1>5 DEF WriteLands, Goto, Jobs
    <2>2. TypeOK'
        <3>1. /\ late \subseteq Leftovers /\ overtaken' = overtaken
              /\ late' = {[w EXCEPT !.passed = TRUE] : w \in late}
            BY <1>5 DEF WriteLands, SafeInv, TypeOK
        <3>2. \A w \in Leftovers : [w EXCEPT !.passed = TRUE] \in Leftovers
            BY DEF Leftovers
        <3>3. late' \subseteq Leftovers
            BY <3>1, <3>2
        <3>4. QED
            BY <1>1, <1>3, <1>4, <1>5, <2>1, <3>1, <3>3
               DEF WriteLands, SafeInv, TypeOK, HoldingAt, boundVars, planVars, Jobs
    <2>3. Others(r)
        BY <1>3, <2>1 DEF Others, SafeInv, TypeOK, lockVars
    <2>4. At(r)' = At(r) /\ Call(r)' = Call(r) /\ pc'[r] = job.ok /\ At(r) = job.ok
        BY <1>1, <1>3, <2>1 DEF At, Call, SafeInv, TypeOK
    <2>5. HoldsInv(r)'
        BY <1>1, <1>3, <2>1, <2>4
           DEF SafeInv, ActorInv, HoldsInv, Busy, HoldingAt, lockVars
    <2>6. RecordInv(r)'
        BY <1>2, <1>3, <2>1, <2>4
           DEF SafeInv, ActorInv, RecordInv, Answered, InFlight, EndsWithTurn
    <2>7. FaultInv(r)'
        BY <1>2, <1>3, <2>1, <2>4 DEF SafeInv, ActorInv, FaultInv
    <2>8. QED BY <1>1, <1>3, <1>4, <2>2, <2>3, <2>5, <2>6, <2>7, BusyStep DEF ActorInv
<1>6. CASE WriteFails(r)
    <2>1. /\ pc' = [pc EXCEPT ![r] = "failing"] /\ mem' = job.undo
          /\ fate' = [fate EXCEPT ![r] = job.err] /\ faulted' = faulted \cup {r}
        BY <1>6 DEF WriteFails, Goto, Ends, Faults
    <2>2. TypeOK'
        BY <1>1, <1>3, <1>4, <1>6, <2>1
           DEF WriteFails, SafeInv, TypeOK, planVars, Jobs
    <2>3. Others(r)
        BY <1>3, <2>1 DEF Others, SafeInv, TypeOK, lockVars
    <2>4. pc'[r] = "failing" /\ At(r)' = "failing" /\ Call(r)' = Call(r) /\ fate'[r] # "ok"
        BY <1>2, <1>3, <2>1 DEF At, Call, SafeInv, TypeOK
    <2>5. HoldsInv(r)'
        BY <1>1, <1>3, <2>4 DEF SafeInv, ActorInv, HoldsInv, lockVars
    <2>6. RecordInv(r)' /\ FaultInv(r)'
        BY <2>1, <2>4 DEF RecordInv, FaultInv, Answered
    <2>7. QED BY <1>1, <1>3, <1>4, <2>2, <2>3, <2>5, <2>6, BusyStep DEF ActorInv
<1>7. QED BY <1>5, <1>6

-----------------------------------------------------------------------------
(* The operation lock around the attempts                                  *)

\* A step of the lock for one call of r changes the status of that call only.
LEMMA StatusFrame ==
    ASSUME SafeInv, NEW r \in Actors, NEW k \in Attempts,
           \/ Lock!Arrive(<<r, k>>) \/ Lock!Grant(<<r, k>>) \/ Lock!Share(<<r, k>>)
           \/ Lock!Cancel(<<r, k>>) \/ Lock!Complete(<<r, k>>) \/ Lock!Fail(<<r, k>>)
           \/ Lock!End(<<r, k>>)
    PROVE  /\ \A s \in Actors \ {r} : \A j \in Attempts : status'[<<s, j>>] = status[<<s, j>>]
           /\ Lock!SerialTypeOK' /\ Lock!OneHolder'
<1>1. <<r, k>> \in Calls
    BY DEF Calls
<1>2. Lock!SerialTypeOK' /\ Lock!OneHolder'
    BY <1>1, LockStepProperties DEF SafeInv, TypeOK
<1>3. \/ status' = status
      \/ \E v : status' = [status EXCEPT ![<<r, k>>] = v]
    BY DEF Lock!Arrive, Lock!Grant, Lock!Share, Lock!Cancel, Lock!Complete, Lock!Fail, Lock!End
<1>4. status \in [Calls -> Lock!Statuses]
    BY DEF SafeInv, TypeOK, Lock!SerialTypeOK
<1>5. QED BY <1>2, <1>3, <1>4 DEF Calls

LEMMA ArriveStep == ASSUME SafeInv, NEW r \in Actors, Arrive(r) PROVE SafeInv'
<1>1. pc[r] \in {"idle", "retry"} /\ fate[r] # "ok" /\ n[r] # 3 /\ (n[r] = 0 <=> pc[r] = "idle")
    BY DEF Arrive, SafeInv, ActorInv, HoldsInv, RecordInv
<1>2. n[r] + 1 \in Attempts /\ n[r] \in 0..3
    BY <1>1 DEF SafeInv, TypeOK, Attempts
<1>3. /\ n' = [n EXCEPT ![r] = n[r] + 1] /\ pc' = [pc EXCEPT ![r] = "waiting"]
      /\ UNCHANGED <<fate, recordVars, planVars, doubtful, lifeVars, faulted, boundVars>>
    BY DEF Arrive, Goto
<1>4. /\ \A s \in Actors \ {r} : \A j \in Attempts : status'[<<s, j>>] = status[<<s, j>>]
      /\ Lock!SerialTypeOK' /\ Lock!OneHolder'
    BY <1>2, StatusFrame DEF Arrive
<1>5. TypeOK'
    BY <1>2, <1>3, <1>4 DEF SafeInv, TypeOK, Attempts, recordVars, planVars, lifeVars, boundVars
<1>6. Others(r)
    BY <1>3, <1>4 DEF Others, SafeInv, TypeOK, planVars
<1>7. pc'[r] = "waiting" /\ n'[r] = n[r] + 1 /\ At(r)' = "waiting"
    BY <1>3 DEF SafeInv, TypeOK, At
<1>8. HoldsInv(r)'
    BY <1>2, <1>7 DEF HoldsInv, Busy, HoldingAt
<1>9. RecordInv(r)'
    BY <1>1, <1>3, <1>7 DEF RecordInv, Answered
<1>10. FaultInv(r)'
    \* A request without faults is back for its second attempt.
    <2>1. r \in Requests \ faulted => n[r] \in {0, 1}
        BY <1>1 DEF SafeInv, ActorInv, FaultInv
    <2>2. QED BY <1>3, <1>7, <2>1 DEF FaultInv
<1>11. UNCHANGED <<mem, job>>
    BY <1>3 DEF recordVars
<1>12. QED BY <1>1, <1>4, <1>5, <1>6, <1>8, <1>9, <1>10, <1>11, IdleStep DEF ActorInv

LEMMA GrantStep == ASSUME SafeInv, NEW r \in Actors, Grant(r) PROVE SafeInv'
<1>1. pc[r] = "waiting" /\ fate[r] # "ok" /\ n[r] # 0 /\ n[r] \in Attempts
    BY CallOfActor DEF Grant, SafeInv, ActorInv, HoldsInv, RecordInv
<1>2. PICK l \in {"reset", "plan", "recover", "failing"} :
          /\ pc' = [pc EXCEPT ![r] = l]
          /\ l = "reset" => r \in Resets
          /\ l = "plan" => n[r] = 1
          /\ l = "failing" => n[r] = 3
    <2> DEFINE to == IF r \in Resets THEN "reset" ELSE <<"plan", "recover", "failing">>[n[r]]
    <2>1. pc' = [pc EXCEPT ![r] = to]
        BY DEF Grant, Goto
    <2>2. /\ to \in {"reset", "plan", "recover", "failing"}
          /\ to = "reset" => r \in Resets
          /\ to = "plan" => n[r] = 1
          /\ to = "failing" => n[r] = 3
        BY <1>1 DEF Attempts
    <2> HIDE DEF to
    <2>3. QED BY <2>1, <2>2
<1>3. /\ \A s \in Actors \ {r} : \A j \in Attempts : status'[<<s, j>>] = status[<<s, j>>]
      /\ Lock!SerialTypeOK' /\ Lock!OneHolder'
    BY <1>1, StatusFrame DEF Grant, Call
<1>4. UNCHANGED <<n, fate, recordVars, planVars, doubtful, lifeVars, faulted, boundVars>>
    BY DEF Grant
<1>5. TypeOK'
    BY <1>2, <1>3, <1>4 DEF SafeInv, TypeOK, HoldingAt, recordVars, planVars, lifeVars, boundVars
<1>6. Others(r)
    BY <1>2, <1>3, <1>4 DEF Others, SafeInv, TypeOK, planVars
<1>7. pc'[r] = l /\ At(r)' = l /\ Call(r)' = Call(r) /\ status'[Call(r)] = "holding"
    <2>1. status'[Call(r)] = "holding"
        BY <1>1, CallOfActor DEF Grant, Lock!Grant, SafeInv, TypeOK, Lock!SerialTypeOK
    <2>2. QED BY <1>2, <1>4, <2>1 DEF SafeInv, TypeOK, At, Call
<1>8. HoldsInv(r)'
    BY <1>1, <1>2, <1>4, <1>7 DEF HoldsInv
<1>9. RecordInv(r)'
    BY <1>1, <1>4, <1>7 DEF RecordInv, Answered
<1>10. FaultInv(r)'
    <2>1. r \in Requests \ faulted => n[r] # 3
        BY <1>1, FaultlessThird
    <2>2. QED BY <1>2, <1>4, <1>7, <2>1 DEF FaultInv
<1>11. UNCHANGED <<mem, job>>
    BY <1>4 DEF recordVars
<1>12. QED BY <1>1, <1>3, <1>5, <1>6, <1>8, <1>9, <1>10, <1>11, IdleStep DEF ActorInv

\* A request that is over, whatever happened to its call.
LEMMA OverStep ==
    ASSUME SafeInv, NEW r \in Actors, Over(r), pc[r] \notin {"idle", "writing"}, n' = n,
           \A s \in Actors \ {r} : \A j \in Attempts : status'[<<s, j>>] = status[<<s, j>>],
           Lock!SerialTypeOK', Lock!OneHolder', UNCHANGED <<recordVars, doubtful>>,
           life' \subseteq Calls, spawned' \subseteq Calls,
           {crashes', cancels', writeFailures'} \subseteq Nat
    PROVE  SafeInv'
<1>1. /\ pc' = [pc EXCEPT ![r] = "done"] /\ fate' = [fate EXCEPT ![r] = "none"]
      /\ target' = [target EXCEPT ![r] = NoCall] /\ keep' = [keep EXCEPT ![r] = 0]
      /\ faulted' = faulted \ {r}
    BY DEF Over, Goto, Ends
<1>2. TypeOK'
    BY <1>1 DEF SafeInv, TypeOK, Fates, recordVars
<1>3. Others(r)
    BY <1>1 DEF Others, SafeInv, TypeOK
<1>4. pc'[r] = "done" /\ At(r)' = "done" /\ fate'[r] = "none" /\ n[r] # 0
    BY <1>1 DEF SafeInv, TypeOK, At, ActorInv, HoldsInv
<1>5. HoldsInv(r)' /\ RecordInv(r)' /\ FaultInv(r)'
    BY <1>4 DEF HoldsInv, RecordInv, FaultInv, Answered, Busy, HoldingAt
<1>6. UNCHANGED <<mem, job>>
    BY DEF recordVars
<1>7. QED BY <1>2, <1>3, <1>5, <1>6, IdleStep DEF ActorInv

LEMMA ShareStep == ASSUME SafeInv, NEW r \in Actors, Share(r) PROVE SafeInv'
<1>1. pc[r] = "waiting" /\ n[r] \in Attempts
    BY CallOfActor DEF Share, SafeInv, ActorInv, HoldsInv
<1>2. /\ \A s \in Actors \ {r} : \A j \in Attempts : status'[<<s, j>>] = status[<<s, j>>]
      /\ Lock!SerialTypeOK' /\ Lock!OneHolder'
    BY <1>1, StatusFrame DEF Share, Call
<1>3. {crashes', cancels', writeFailures'} \subseteq Nat /\ life' \subseteq Calls
      /\ spawned' \subseteq Calls
    BY DEF Share, SafeInv, TypeOK, boundVars, lifeVars
<1>4. QED BY <1>1, <1>2, <1>3, OverStep DEF Share

\* The holder settles what its twins may have.
LEMMA SettleStep ==
    ASSUME SafeInv, NEW r \in Actors, FailReplay(r) \/ Complete(r)
    PROVE  SafeInv'
<1>1. pc[r] \in {"failing", "committed"} /\ pc[r] \in Busy /\ pc[r] # "writing"
    BY DEF FailReplay, Complete, Busy, HoldingAt
<1>2. n[r] # 0 /\ n[r] \in Attempts /\ Call(r) \in Calls /\ fate[r] # "ok"
      /\ status[Call(r)] = "holding"
    BY <1>1, CallOfActor DEF SafeInv, ActorInv, HoldsInv, RecordInv
<1>3. lockVars' = lockVars \/ Lock!Fail(Call(r)) \/ Lock!Complete(Call(r))
    BY DEF FailReplay, Complete
<1>4. Lock!SerialTypeOK' /\ Lock!OneHolder' /\ status' = status
    <2>1. status' = status
        BY <1>3 DEF Lock!Fail, Lock!Complete, lockVars
    <2>2. CASE lockVars' = lockVars
        BY <2>2 DEF SafeInv, TypeOK, lockVars, Lock!SerialTypeOK, Lock!Statuses, Lock!OneHolder
    <2>3. CASE Lock!Fail(Call(r)) \/ Lock!Complete(Call(r))
        BY <1>2, <2>1, <2>3, LockStepProperties DEF SafeInv, TypeOK
    <2>4. QED BY <1>3, <2>1, <2>2, <2>3
<1>5. /\ pc' = [pc EXCEPT ![r] = "ending"]
      /\ UNCHANGED <<n, recordVars, planVars, doubtful, lifeVars, faulted, boundVars>>
      /\ \/ pc[r] = "failing" /\ fate' = fate
         \/ pc[r] = "committed" /\ fate' = [fate EXCEPT ![r] = "ok"]
    BY DEF FailReplay, Complete, Goto, Ends
<1>6. TypeOK'
    BY <1>4, <1>5 DEF SafeInv, TypeOK, Fates, recordVars, planVars, lifeVars, boundVars
<1>7. Others(r)
    BY <1>4, <1>5 DEF Others, SafeInv, TypeOK, planVars
<1>8. pc'[r] = "ending" /\ At(r)' = "ending" /\ Call(r)' = Call(r) /\ mem' = mem
    BY <1>5 DEF SafeInv, TypeOK, At, Call, recordVars
<1>9. HoldsInv(r)'
    BY <1>2, <1>4, <1>5, <1>8 DEF SafeInv, ActorInv, HoldsInv
<1>10. RecordInv(r)'
    <2>1. pc[r] = "committed" => EndsWithTurn(mem, r)
        BY DEF SafeInv, ActorInv, RecordInv, At
    <2>2. QED BY <1>2, <1>5, <1>8, <2>1 DEF RecordInv, Answered, EndsWithTurn, SafeInv, TypeOK
<1>11. FaultInv(r)'
    <2>1. r \in Requests \ faulted => n[r] # 3
        BY <1>1, FaultlessThird
    <2>2. QED BY <1>1, <1>5, <1>8, <2>1 DEF SafeInv, TypeOK, ActorInv, FaultInv, At
<1>12. job' # NoJob => FALSE
    <2>1. job # NoJob => job.by \in Actors /\ pc[job.by] = "writing"
        BY DEF SafeInv, TypeOK, Jobs
    <2>2. job = NoJob
        BY <1>1, <2>1, BusyAlone DEF Busy, HoldingAt
    <2>3. QED BY <1>5, <2>2 DEF recordVars
<1>13. QED BY <1>1, <1>4, <1>6, <1>7, <1>9, <1>10, <1>11, <1>12, BusyStep DEF ActorInv

LEMMA ReleaseStep == ASSUME SafeInv, NEW r \in Actors, Release(r) PROVE SafeInv'
<1>1. pc[r] = "ending" /\ n[r] # 0 /\ n[r] \in Attempts /\ Call(r) \in Calls
    BY CallOfActor DEF Release, SafeInv, ActorInv, HoldsInv
<1>2. /\ \A s \in Actors \ {r} : \A j \in Attempts : status'[<<s, j>>] = status[<<s, j>>]
      /\ Lock!SerialTypeOK' /\ Lock!OneHolder'
    BY <1>1, StatusFrame DEF Release, Call
<1>3. /\ UNCHANGED <<n, recordVars, doubtful, boundVars>>
      /\ life' \subseteq Calls /\ spawned' \subseteq Calls
      /\ {crashes', cancels', writeFailures'} \subseteq Nat
    BY <1>1 DEF Release, SafeInv, TypeOK, boundVars
<1>4. CASE Over(r)
    BY <1>1, <1>2, <1>3, <1>4, OverStep
<1>5. CASE /\ fate[r] \in Retried /\ n[r] < 3 /\ Goto(r, "retry")
           /\ UNCHANGED <<fate, planVars, faulted>>
    <2>1. pc' = [pc EXCEPT ![r] = "retry"] /\ fate[r] # "ok"
        BY <1>5 DEF Goto, Retried
    <2>2. TypeOK'
        BY <1>2, <1>3, <1>5, <2>1 DEF SafeInv, TypeOK, recordVars, planVars
    <2>3. Others(r)
        BY <1>2, <1>3, <1>5, <2>1 DEF Others, SafeInv, TypeOK, planVars
    <2>4. pc'[r] = "retry" /\ At(r)' = "retry" /\ n[r] # 3
        BY <1>1, <1>5, <2>1 DEF SafeInv, TypeOK, At, Attempts
    <2>5. HoldsInv(r)' /\ RecordInv(r)'
        BY <1>1, <1>3, <1>5, <2>1, <2>4 DEF HoldsInv, RecordInv, Answered, Busy, HoldingAt
    <2>6. FaultInv(r)'
        \* Only the first attempt can have failed without a fault.
        <3>1. r \in Requests \ faulted => n[r] = 1
            BY <1>1, <1>5 DEF SafeInv, ActorInv, FaultInv, At, Retried
        <3>2. QED BY <1>3, <1>5, <2>4, <3>1 DEF FaultInv
    <2>7. UNCHANGED <<mem, job>>
        BY <1>3 DEF recordVars
    <2>8. QED BY <1>1, <1>2, <2>2, <2>3, <2>5, <2>6, <2>7, IdleStep DEF ActorInv
<1>6. QED BY <1>4, <1>5 DEF Release

-----------------------------------------------------------------------------
(* Disconnects, restarts and writes of others                              *)

\* The client leaves while its request holds the operation.
LEMMA LeaveStep ==
    ASSUME SafeInv, NEW r \in Actors, pc[r] \in HoldingAt, Abandon(r), Ends(r, "cancelled"),
           NEW l \in {"failing", "orphaned"}, Goto(r, l),
           lockVars' = lockVars \/ Lock!Fail(Call(r)),
           UNCHANGED <<n, mem, disk, overtaken, doubtful, planVars, faulted>>,
           life' \subseteq Calls, spawned' \subseteq Calls,
           {crashes', cancels', writeFailures'} \subseteq Nat
    PROVE  SafeInv'
<1>1. pc[r] \in Busy /\ n[r] # 0 /\ Call(r) \in Calls /\ status[Call(r)] = "holding"
    BY CallOfActor DEF SafeInv, ActorInv, HoldsInv, Busy, HoldingAt
<1>2. Lock!SerialTypeOK' /\ Lock!OneHolder' /\ status' = status
    <2>1. status' = status
        BY DEF Lock!Fail, lockVars
    <2>2. CASE lockVars' = lockVars
        BY <2>2 DEF SafeInv, TypeOK, lockVars, Lock!SerialTypeOK, Lock!Statuses, Lock!OneHolder
    <2>3. CASE Lock!Fail(Call(r))
        BY <1>1, <2>1, <2>3, LockStepProperties DEF SafeInv, TypeOK
    <2>4. QED BY <2>1, <2>2, <2>3
<1>3. job' = NoJob /\ late' \subseteq Leftovers
    <2>1. CASE pc[r] = "writing"
        <3>1. job \in Jobs
            BY <2>1 DEF SafeInv, TypeOK, ActorInv, HoldsInv
        <3>2. [by |-> r, snap |-> job.snap, passed |-> FALSE] \in Leftovers
            BY <3>1 DEF Jobs, Leftovers
        <3>3. QED BY <2>1, <3>2 DEF Abandon, SafeInv, TypeOK
    <2>2. CASE pc[r] # "writing"
        <3>1. job # NoJob => job.by \in Actors /\ pc[job.by] = "writing"
            BY DEF SafeInv, TypeOK, Jobs
        <3>2. job = NoJob
            BY <1>1, <2>2, <3>1, BusyAlone DEF Busy, HoldingAt
        <3>3. QED BY <2>2, <3>2 DEF Abandon, SafeInv, TypeOK
    <2>3. QED BY <2>1, <2>2
<1>4. pc' = [pc EXCEPT ![r] = l] /\ fate' = [fate EXCEPT ![r] = "cancelled"]
    BY DEF Goto, Ends
<1>5. TypeOK'
    BY <1>2, <1>3, <1>4 DEF SafeInv, TypeOK, Fates, planVars
<1>6. Others(r)
    BY <1>2, <1>4 DEF Others, SafeInv, TypeOK, planVars
<1>7. pc'[r] = l /\ At(r)' = l /\ Call(r)' = Call(r) /\ fate'[r] = "cancelled"
    BY <1>4 DEF SafeInv, TypeOK, At, Call
<1>8. HoldsInv(r)'
    BY <1>1, <1>2, <1>7 DEF HoldsInv
<1>9. RecordInv(r)'
    BY <1>7 DEF RecordInv, Answered
<1>10. FaultInv(r)'
    <2>1. r \in Requests \ faulted => n[r] # 3
        BY FaultlessThird DEF HoldingAt
    <2>2. QED BY <1>7, <2>1 DEF FaultInv
<1>11. QED BY <1>1, <1>2, <1>3, <1>5, <1>6, <1>8, <1>9, <1>10, BusyStep DEF ActorInv

LEMMA CancelStep == ASSUME SafeInv, NEW r \in Actors, Cancel(r) PROVE SafeInv'
<1>1. UNCHANGED <<n, mem, disk, overtaken, doubtful, crashes, writeFailures>> /\ cancels' = cancels + 1
      /\ {crashes', cancels', writeFailures'} \subseteq Nat
    BY DEF Cancel, SafeInv, TypeOK
<1>2. CASE /\ pc[r] = "waiting" /\ Lock!Cancel(Call(r)) /\ Over(r)
           /\ UNCHANGED <<job, late, lifeVars>>
    <2>1. n[r] \in Attempts
        BY <1>2, CallOfActor DEF SafeInv, ActorInv, HoldsInv
    <2>2. /\ \A s \in Actors \ {r} : \A j \in Attempts : status'[<<s, j>>] = status[<<s, j>>]
          /\ Lock!SerialTypeOK' /\ Lock!OneHolder'
        BY <1>2, <2>1, StatusFrame DEF Call
    <2>3. life' \subseteq Calls /\ spawned' \subseteq Calls /\ UNCHANGED <<recordVars, doubtful>>
        BY <1>1, <1>2 DEF lifeVars, recordVars, SafeInv, TypeOK
    <2>4. QED BY <1>1, <1>2, <2>2, <2>3, OverStep
<1>3. CASE pc[r] = "retry" /\ Over(r) /\ UNCHANGED <<lockVars, job, late, lifeVars>>
    <2>1. /\ \A s \in Actors \ {r} : \A j \in Attempts : status'[<<s, j>>] = status[<<s, j>>]
          /\ Lock!SerialTypeOK' /\ Lock!OneHolder'
        BY <1>3 DEF SafeInv, TypeOK, lockVars, Lock!SerialTypeOK, Lock!Statuses, Lock!OneHolder
    <2>2. life' \subseteq Calls /\ spawned' \subseteq Calls /\ UNCHANGED <<recordVars, doubtful>>
        BY <1>1, <1>3 DEF lifeVars, recordVars, SafeInv, TypeOK
    <2>3. QED BY <1>1, <1>3, <2>1, <2>2, OverStep
<1>4. CASE /\ pc[r] \in HoldingAt /\ Abandon(r) /\ Goto(r, "failing") /\ Ends(r, "cancelled")
           /\ UNCHANGED <<lockVars, planVars, faulted, lifeVars>>
    <2>1. life' \subseteq Calls /\ spawned' \subseteq Calls
        BY <1>4 DEF lifeVars, SafeInv, TypeOK
    <2>2. QED BY <1>1, <1>4, <2>1, LeaveStep
<1>5. CASE /\ pc[r] \in HoldingAt /\ Call(r) \in life
           /\ Abandon(r) /\ Lock!Fail(Call(r)) /\ Goto(r, "orphaned") /\ Ends(r, "cancelled")
           /\ life' = life \ {Call(r)} /\ spawned' = spawned \cup {Call(r)}
           /\ UNCHANGED <<planVars, faulted>>
    <2>1. life' \subseteq Calls /\ spawned' \subseteq Calls
        BY <1>5 DEF SafeInv, TypeOK
    <2>2. QED BY <1>1, <1>5, <2>1, LeaveStep
<1>6. QED BY <1>2, <1>3, <1>4, <1>5 DEF Cancel

LEMMA CrashStep == ASSUME SafeInv, Crash PROVE SafeInv'
<1>1. Lock!SerialTypeOK'
    BY DEF Crash, SafeInv, TypeOK, Lock!SerialTypeOK, Lock!Statuses
<1>2. Lock!OneHolder'
    BY DEF Crash, SafeInv, TypeOK, Lock!OneHolder, Lock!SerialTypeOK, Lock!Statuses
<1>3. TypeOK'
    BY <1>1 DEF Crash, SafeInv, TypeOK, HoldingAt, Fates
<1>4. job' = NoJob
    BY DEF Crash
<1>5. ASSUME NEW r \in Actors PROVE ActorInv(r)'
    <2>1. /\ pc'[r] \in {"idle", "done"} /\ (pc'[r] = "idle" <=> pc[r] = "idle")
          /\ n' = n /\ fate'[r] = "none"
        BY DEF Crash
    <2>2. At(r)' = pc'[r]
        BY <2>1 DEF At
    <2>3. HoldsInv(r)' /\ RecordInv(r)'
        BY <2>1, <2>2 DEF SafeInv, ActorInv, HoldsInv, RecordInv, Answered, Busy, HoldingAt
    <2>4. FaultInv(r)'
        <3>1. pc[r] = "idle" => n[r] = 0
            BY DEF SafeInv, ActorInv, HoldsInv
        <3>2. QED BY <2>1, <2>2, <3>1 DEF FaultInv
    <2>5. QED BY <2>3, <2>4 DEF ActorInv
<1>6. QED BY <1>2, <1>3, <1>4, <1>5 DEF SafeInv

\* Nothing that SafeInv says of the requests depends on the snapshot.
LEMMA SnapshotStep ==
    ASSUME SafeInv, LateWriteLands \/ Flush \/ UNCHANGED vars
    PROVE  SafeInv'
<1>1. /\ UNCHANGED <<lockVars, pc, n, fate, mem, job, planVars, doubtful, lifeVars,
                     faulted, boundVars>>
      /\ disk' \in Snapshots /\ late' \subseteq Leftovers /\ overtaken' \subseteq Snapshots
    <2>1. CASE LateWriteLands
        BY <2>1 DEF LateWriteLands, SafeInv, TypeOK, Leftovers
    <2>2. CASE Flush
        BY <2>2 DEF Flush, SafeInv, TypeOK
    <2>3. CASE UNCHANGED vars
        BY <2>3 DEF vars, recordVars, SafeInv, TypeOK
    <2>4. QED BY <2>1, <2>2, <2>3
<1>2. TypeOK'
    BY <1>1 DEF SafeInv, TypeOK, lockVars, planVars, lifeVars, boundVars,
       Lock!SerialTypeOK, Lock!Statuses
<1>3. Lock!OneHolder' /\ (job' # NoJob => pc'[job'.by] = "writing" /\ job'.err # "ok")
    BY <1>1 DEF SafeInv, lockVars, Lock!OneHolder
<1>4. ASSUME NEW s \in Actors PROVE ActorInv(s)'
    <2>1. ActorInv(s)
        BY DEF SafeInv
    <2>2. QED
        BY <1>1, <2>1 DEF lockVars, planVars, ActorInv, HoldsInv, RecordInv, FaultInv, At,
           Answered, Continued, InFlight, EndsWithTurn, Creates, Call
<1>5. QED BY <1>2, <1>3, <1>4 DEF SafeInv

-----------------------------------------------------------------------------
(* Theorems about memory                                                   *)

LEMMA SafeInit == Init => SafeInv
<1> SUFFICES ASSUME Init PROVE SafeInv
    OBVIOUS
<1>1. Lock!SerialTypeOK /\ Lock!OneHolder
    BY DEF Init, Lock!SerialInit, Lock!SerialTypeOK, Lock!OneHolder, Lock!Statuses
<1>2. TypeOK
    BY <1>1 DEF Init, TypeOK, HoldingAt, Fates, Snapshots
<1>3. ASSUME NEW r \in Actors PROVE ActorInv(r)
    BY DEF Init, ActorInv, HoldsInv, RecordInv, FaultInv, At, Answered, Busy, HoldingAt
<1>4. QED BY <1>1, <1>2, <1>3 DEF SafeInv, Init

LEMMA SafeNext == SafeInv /\ [Next]_vars => SafeInv'
<1> SUFFICES ASSUME SafeInv, [Next]_vars PROVE SafeInv'
    OBVIOUS
<1>1. ASSUME NEW r \in Actors, Arrive(r) \/ Cancel(r) \/ LockStep(r) \/ WriteStep(r)
      PROVE  SafeInv'
    BY <1>1, ArriveStep, CancelStep, GrantStep, ShareStep, SettleStep, ReleaseStep,
       WriteStepSafe DEF LockStep, WriteStep
<1>2. ASSUME NEW r \in Actors, AttemptStep(r) PROVE SafeInv'
    BY <1>2, FailingSteps, PlanStep, FailingMutation, StageStep, SendStep, ReadStopStep,
       ReadBrokenStep, SettleStep DEF AttemptStep
<1>3. ASSUME NEW r \in Actors, RecoveryStep(r) PROVE SafeInv'
    BY <1>3, PlanStep, RecoveryStepSafe, ApiResetStep DEF RecoveryStep
<1>4. ASSUME NEW c \in Calls, Finalize(c) PROVE SafeInv'
    BY <1>4, FinalizeStep
<1>5. CASE Crash
    BY <1>5, CrashStep
<1>6. CASE LateWriteLands \/ Flush \/ UNCHANGED vars
    BY <1>6, SnapshotStep
<1>7. QED BY <1>1, <1>2, <1>3, <1>4, <1>5, <1>6 DEF Next

LEMMA SafeInvariant == Spec => []SafeInv
BY SafeInit, SafeNext, PTL DEF Spec

\* Every reachable state of a session is well typed; in particular a turn that
\* is committed was staged.
THEOREM SessionTypes == Spec => []TypeOK
<1>1. SafeInv => TypeOK
    BY DEF SafeInv
<1>2. QED BY <1>1, SafeInvariant, PTL

\* A step that changes the record begins a mutation or ends a failed one.
LEMMA Changes ==
    ASSUME SafeInv, Next, mem' # mem, crashes' = crashes
    PROVE  \E r \in Actors : pc[r] \in Busy /\ (pc[r] = "writing" \/ pc'[r] = "writing")
<1>1. ~Crash
    <2>1. Crash => crashes' = crashes + 1
        BY DEF Crash
    <2>2. QED BY <2>1 DEF SafeInv, TypeOK
<1>2. ~LateWriteLands /\ ~Flush
    BY DEF LateWriteLands, Flush
<1>3. ASSUME NEW r \in Actors, pc[r] \in Busy, NEW rec, NEW ok, NEW undo, NEW err,
             Mutate(r, rec, ok, undo, err)
      PROVE  pc[r] \in Busy /\ pc'[r] = "writing"
    BY <1>3 DEF Mutate, Goto, SafeInv, TypeOK
<1>4. ASSUME NEW r \in Actors,
             \/ Arrive(r) \/ Cancel(r) \/ LockStep(r) \/ WriteLands(r) \/ Invalid(r) \/ Plan(r)
             \/ PrepareFails(r) \/ Post(r) \/ Respond(r) \/ ReadTooLarge(r) \/ Complete(r)
             \/ CompleteFails(r) \/ SkipReset(r) \/ RecoveryResetOfNothing(r)
      PROVE  FALSE
    <2>1. CASE Arrive(r) \/ Cancel(r) \/ LockStep(r) \/ WriteLands(r)
        BY <2>1 DEF Arrive, Cancel, LockStep, Grant, Share, FailReplay, Release, WriteLands,
           recordVars
    <2>2. CASE Invalid(r) \/ Plan(r) \/ PrepareFails(r) \/ Post(r) \/ Respond(r)
        BY <2>2 DEF Invalid, Plan, PrepareFails, Post, Respond, recordVars
    <2>3. CASE \/ ReadTooLarge(r) \/ Complete(r) \/ CompleteFails(r) \/ SkipReset(r)
               \/ RecoveryResetOfNothing(r)
        BY <2>3 DEF ReadTooLarge, Complete, CompleteFails, SkipReset, RecoveryResetOfNothing,
           recordVars
    <2>4. QED BY <1>4, <2>1, <2>2, <2>3
<1>5. ASSUME NEW r \in Actors, WriteFails(r) PROVE pc[r] \in Busy /\ pc[r] = "writing"
    BY <1>5 DEF WriteFails, Busy, HoldingAt
<1>6. ASSUME NEW r \in Actors,
             \/ ExpirePlan(r) \/ Stage(r) \/ SendFails(r) \/ SendGone(r) \/ PostFails(r)
             \/ ReadStop(r) \/ ReadTruncated(r) \/ ReadBroken(r)
             \/ RecoveryReset(r) \/ ApiReset(r)
      PROVE  pc[r] \in Busy /\ pc'[r] = "writing"
    <2>1. pc[r] \in Busy
        BY <1>6 DEF ExpirePlan, Stage, SendFails, SendGone, PostFails, ReadStop, ReadTruncated,
           ReadBroken, RecoveryReset, ApiReset, Busy, HoldingAt
    <2>2. \E rec, ok, undo, err : Mutate(r, rec, ok, undo, err)
        <3>1. CASE ExpirePlan(r) \/ Stage(r) \/ SendFails(r) \/ SendGone(r) \/ PostFails(r)
            BY <3>1 DEF ExpirePlan, Stage, SendFails, SendGone, PostFails
        <3>2. CASE ReadStop(r) \/ ReadTruncated(r) \/ ReadBroken(r)
            BY <3>2 DEF ReadStop, ReadTruncated, ReadBroken, recordVars
        <3>3. CASE RecoveryReset(r) \/ ApiReset(r)
            BY <3>3 DEF RecoveryReset, ApiReset, recordVars
        <3>4. QED BY <1>6, <3>1, <3>2, <3>3
    <2>3. QED BY <1>3, <2>1, <2>2
<1>7. ASSUME NEW c \in Calls, Finalize(c)
      PROVE  \E r \in Actors : pc[r] \in Busy /\ pc'[r] = "writing"
    <2>1. c[1] \in Actors
        BY DEF Calls
    <2>2. pc[c[1]] = "orphaned"
          /\ Mutate(c[1], Uncertain(mem), "failing", Uncertain(mem), "cancelled")
        BY <1>7 DEF Finalize, recordVars
    <2>3. QED BY <1>3, <2>1, <2>2 DEF Busy
<1>8. QED BY <1>1, <1>2, <1>4, <1>5, <1>6, <1>7
          DEF Next, AttemptStep, RecoveryStep, WriteStep

\* Whatever is cancelled, late or recovering, the record of a session changes only
\* by the hand of the request that holds its operation (mutate_explicit and its
\* callers, finalize_uncertain).
THEOREM HoldersChangeRecords == Spec => OnlyHolderChanges
<1>1. SafeInv /\ SafeInv' /\ [Next]_vars =>
          [mem' # mem /\ crashes' = crashes =>
               \E r \in Actors :
                   /\ n[r] > 0 /\ status[Call(r)] = "holding"
                   /\ \/ job # NoJob /\ job.by = r
                      \/ job' # NoJob /\ job'.by = r]_vars
    <2> SUFFICES ASSUME SafeInv, SafeInv', Next, mem' # mem, crashes' = crashes
                 PROVE  \E r \in Actors :
                            /\ n[r] > 0 /\ status[Call(r)] = "holding"
                            /\ \/ job # NoJob /\ job.by = r
                               \/ job' # NoJob /\ job'.by = r
        OBVIOUS
    <2>1. PICK r \in Actors : pc[r] \in Busy /\ (pc[r] = "writing" \/ pc'[r] = "writing")
        BY Changes
    <2>2. n[r] # 0 /\ status[Call(r)] = "holding"
        BY <2>1 DEF SafeInv, ActorInv, HoldsInv, Busy, HoldingAt
    <2>3. n[r] > 0
        BY <2>2 DEF SafeInv, TypeOK
    <2>4. \/ job # NoJob /\ job.by = r
          \/ job' # NoJob /\ job'.by = r
        BY <2>1 DEF SafeInv, ActorInv, HoldsInv
    <2>5. QED BY <2>2, <2>3, <2>4
<1>2. QED BY <1>1, SafeInvariant, PTL DEF Spec, OnlyHolderChanges

\* A request leaves the end of an attempt by giving the operation back, or is
\* killed.
LEMMA LeavesEnding ==
    ASSUME SafeInv, Next, NEW r \in Actors, pc[r] = "ending", pc'[r] # "ending"
    PROVE  Release(r) \/ Crash
<1> SUFFICES ASSUME ~Crash PROVE Release(r)
    OBVIOUS
<1>1. ASSUME NEW s \in Actors, pc[s] # "ending", NEW l, Goto(s, l) PROVE FALSE
    BY <1>1 DEF Goto, SafeInv, TypeOK
<1>2. pc' # pc
    OBVIOUS
<1>3. ASSUME NEW s \in Actors, Arrive(s) \/ Cancel(s) \/ Grant(s) \/ Share(s) \/ FailReplay(s)
      PROVE  FALSE
    BY <1>1, <1>3 DEF Arrive, Cancel, Grant, Share, FailReplay, Over, HoldingAt
<1>4. ASSUME NEW s \in Actors, WriteLands(s) \/ WriteFails(s) PROVE FALSE
    BY <1>1, <1>4 DEF WriteLands, WriteFails
<1>5. ASSUME NEW s \in Actors, AttemptStep(s) PROVE FALSE
    <2>1. pc[s] # "ending"
        BY <1>5 DEF AttemptStep, Invalid, Plan, ExpirePlan, PrepareFails, Stage, SendFails,
           SendGone, Post, PostFails, Respond, ReadStop, ReadTruncated, ReadBroken,
           ReadTooLarge, Complete, CompleteFails
    <2>2. CASE Invalid(s) \/ Plan(s) \/ ExpirePlan(s) \/ PrepareFails(s) \/ Stage(s)
        BY <1>1, <2>1, <2>2 DEF Invalid, Plan, Planned, ExpirePlan, PrepareFails, Stage, Mutate
    <2>3. CASE SendFails(s) \/ SendGone(s) \/ Post(s) \/ PostFails(s) \/ Respond(s)
        BY <1>1, <2>1, <2>3 DEF SendFails, SendGone, Post, PostFails, Respond, Mutate
    <2>4. CASE ReadStop(s) \/ ReadTruncated(s) \/ ReadBroken(s)
        BY <1>1, <2>1, <2>4 DEF ReadStop, ReadTruncated, ReadBroken, Mutate
    <2>5. CASE ReadTooLarge(s) \/ Complete(s) \/ CompleteFails(s)
        BY <1>1, <2>1, <2>5 DEF ReadTooLarge, Complete, CompleteFails
    <2>6. QED BY <1>5, <2>2, <2>3, <2>4, <2>5 DEF AttemptStep
<1>6. ASSUME NEW s \in Actors, RecoveryStep(s) PROVE FALSE
    <2>1. pc[s] # "ending"
        BY <1>6 DEF RecoveryStep, SkipReset, RecoveryReset, RecoveryResetOfNothing, ApiReset
    <2>2. QED BY <1>1, <1>6, <2>1 DEF RecoveryStep, SkipReset, Planned, RecoveryReset,
                 RecoveryResetOfNothing, ApiReset, Mutate
<1>7. ASSUME NEW c \in Calls, Finalize(c) PROVE FALSE
    <2>1. c[1] \in Actors
        BY DEF Calls
    <2>2. QED BY <1>1, <1>2, <1>7, <2>1 DEF Finalize, Mutate
<1>8. ~LateWriteLands /\ ~Flush
    BY <1>2 DEF LateWriteLands, Flush
<1>9. PICK s \in Actors : Release(s)
    BY <1>3, <1>4, <1>5, <1>6, <1>7, <1>8 DEF Next, LockStep, WriteStep
<1>10. s = r
    BY <1>9 DEF Release, Over, Goto, SafeInv, TypeOK
<1>11. QED BY <1>9, <1>10

\* A session is never stuck (try_explicit_chat): whatever other requests, leaving
\* clients or restarts made of its record, a request that meets no fault of its
\* own is not answered with an error.
THEOREM FailuresAreOwn == Spec => FailsOnlyByOwnFault
<1>1. SafeInv /\ [Next]_vars =>
          [\A r \in Requests :
               /\ pc[r] = "ending" /\ pc'[r] = "done" /\ crashes' = crashes
               /\ fate[r] \notin {"ok", "cancelled"}
               => r \in faulted]_vars
    <2> SUFFICES ASSUME SafeInv, Next, NEW r \in Requests, pc[r] = "ending", pc'[r] = "done",
                        crashes' = crashes, fate[r] \notin {"ok", "cancelled"}
                 PROVE  r \in faulted
        OBVIOUS
    <2>1. r \in Actors
        BY DEF Actors
    <2>2. ~Crash
        <3>1. Crash => crashes' = crashes + 1
            BY DEF Crash
        <3>2. QED BY <3>1 DEF SafeInv, TypeOK
    <2>3. Release(r)
        BY <2>1, <2>2, LeavesEnding
    <2>4. fate[r] \notin Retried \/ n[r] = 3
        BY <2>1, <2>3 DEF Release, Goto, SafeInv, TypeOK
    <2>5. r \notin faulted => fate[r] = "recoverable" /\ n[r] = 1
        BY <2>1 DEF SafeInv, ActorInv, FaultInv, At
    <2>6. QED BY <2>4, <2>5 DEF Retried
<1>2. QED BY <1>1, SafeInvariant, PTL DEF Spec, FailsOnlyByOwnFault

-----------------------------------------------------------------------------
(* The snapshot                                                            *)

\* A step of the actor that holds the operation.
LEMMA BusyDurable ==
    ASSUME SafeInv, NEW r \in Actors, pc[r] \in Busy, Others(r),
           job' # NoJob => job'.snap = mem' /\ KnownConversation(job.undo)',
           \A w \in late' : ~w.passed => KnownConversation(w.snap)',
           KnownConversation(mem)', KnownConversation(disk)', DiskInv(r)'
    PROVE  DurableInv'
<1>1. ASSUME NEW s \in Actors, s # r PROVE DiskInv(s)'
    <2>1. pc'[s] \notin Busy
        BY <1>1, BusyAlone DEF Others
    <2>2. QED BY <2>1 DEF DiskInv, At, Answered, Busy, HoldingAt
<1>2. QED BY <1>1 DEF DurableInv

\* A step that leaves record, snapshot and what is doubtful alone.
LEMMA IdleDurable ==
    ASSUME DurableInv, NEW r \in Actors, Others(r), UNCHANGED <<recordVars, doubtful>>, DiskInv(r)'
    PROVE  DurableInv'
<1>1. ASSUME NEW s \in Actors, s # r PROVE DiskInv(s)'
    <2>1. DiskInv(s)
        BY DEF DurableInv
    <2>2. At(s)' = At(s) /\ Creates(s)' = Creates(s) /\ Answered(s)' = Answered(s)
        BY <1>1 DEF Others, At, Creates, Call, Answered, recordVars
    <2>3. QED BY <1>1, <2>1, <2>2 DEF Others, DiskInv, Known, recordVars
<1>2. QED BY <1>1 DEF DurableInv, KnownConversation, Known, recordVars

LEMMA MutateDurable ==
    ASSUME SafeInv, DurableInv, NEW r \in Actors, pc[r] \in Busy, Attempt(r),
           NEW rec, NEW undo, NEW ok, NEW err, Mutate(r, rec, ok, undo, err),
           doubtful' \subseteq doubtful,
           KnownConversation(rec) \/ rec.conv \notin doubtful', KnownConversation(undo),
           target' = target, ok = "send" /\ ~Creates(r) => Known(target[r])
    PROVE  DurableInv'
<1>1. /\ pc' = [pc EXCEPT ![r] = "writing"] /\ mem' = rec /\ disk' = disk
      /\ late' = late /\ overtaken' = overtaken
      /\ job' = [by |-> r, snap |-> rec, ok |-> ok, undo |-> undo, err |-> err]
    BY DEF Mutate, Goto
<1>2. Others(r)
    BY <1>1 DEF Attempt, Others, SafeInv, TypeOK, lockVars
<1>3. pc'[r] = "writing" /\ At(r)' = ok
    BY <1>1 DEF SafeInv, TypeOK, At
<1>4. DiskInv(r)'
    <2>1. Creates(r)' = Creates(r)
        BY DEF Creates, Call, Attempt
    <2>2. ok = "send" /\ ~Creates(r) => Known(target[r])'
        BY <1>1 DEF Known
    <2>3. QED BY <1>3, <2>1, <2>2 DEF DiskInv, Answered
<1>5. KnownConversation(mem)' /\ KnownConversation(disk)' /\ KnownConversation(job.undo)'
    BY <1>1 DEF DurableInv, KnownConversation, Known
<1>6. \A w \in late' : ~w.passed => KnownConversation(w.snap)'
    BY <1>1 DEF DurableInv, KnownConversation, Known
<1>7. job'.snap = mem'
    BY <1>1
<1>8. QED BY <1>2, <1>4, <1>5, <1>6, <1>7, BusyDurable

\* A step of the holder that begins no mutation.
LEMMA MoveDurable ==
    ASSUME SafeInv, DurableInv, NEW r \in Actors, pc[r] \in Busy, Attempt(r),
           NEW l, Goto(r, l), UNCHANGED <<recordVars, doubtful>>,
           pc'[r] = l => DiskInv(r)'
    PROVE  DurableInv'
<1>1. pc' = [pc EXCEPT ![r] = l] /\ pc'[r] = l
    BY DEF Goto, SafeInv, TypeOK
<1>2. Others(r)
    BY <1>1 DEF Attempt, Others, SafeInv, TypeOK, lockVars
<1>3. QED BY <1>1, <1>2, IdleDurable

LEMMA FailingDurable ==
    ASSUME SafeInv, DurableInv, NEW r \in Actors,
           Invalid(r) \/ PrepareFails(r) \/ ReadTooLarge(r) \/ CompleteFails(r)
    PROVE  DurableInv'
<1>1. pc[r] \in Busy /\ Goto(r, "failing") /\ UNCHANGED <<recordVars, doubtful>>
    BY DEF Invalid, PrepareFails, ReadTooLarge, CompleteFails, Busy, HoldingAt
<1>2. Attempt(r)
    BY DEF Invalid, PrepareFails, ReadTooLarge, CompleteFails, Ends, Faults, Attempt,
           SafeInv, TypeOK, Fates, planVars, lifeVars
<1>3. pc'[r] = "failing" => DiskInv(r)'
    BY DEF DiskInv, At, Answered
<1>4. QED BY <1>1, <1>2, <1>3, MoveDurable

\* What is planned to be continued is the conversation of a committed record.
LEMMA PlannedDurable ==
    ASSUME SafeInv, DurableInv, NEW r \in Actors, pc[r] \in {"plan", "recover"},
           \/ mem = NoRecord /\ Planned(r, Call(r), 0)
           \/ /\ mem # NoRecord /\ mem.state = "Committed"
              /\ \E k \in Keeps(mem) : Planned(r, mem.conv, k),
           UNCHANGED <<lockVars, n, recordVars, doubtful, lifeVars, faulted, boundVars>>
    PROVE  DurableInv'
<1>1. pc[r] \in Busy
    BY DEF Busy, HoldingAt
<1>2. pc' = [pc EXCEPT ![r] = "prepare"] /\ pc'[r] = "prepare" /\ fate' = fate
    BY DEF Planned, Goto, SafeInv, TypeOK
<1>3. /\ \A s \in Actors \ {r} : target'[s] = target[s] /\ keep'[s] = keep[s]
      /\ \/ target'[r] = Call(r)
         \/ mem # NoRecord /\ mem.state = "Committed" /\ target'[r] = mem.conv
    BY DEF Planned, SafeInv, TypeOK
<1>4. Others(r)
    BY <1>2, <1>3 DEF Others, SafeInv, TypeOK, lockVars
<1>5. DiskInv(r)'
    <2>1. Call(r)' = Call(r)
        BY DEF Call
    <2>2. ~Creates(r)' => Known(target[r])'
        BY <1>3, <2>1 DEF Creates, DurableInv, KnownConversation, Offered, Known, recordVars
    <2>3. QED BY <1>2, <2>2 DEF DiskInv, Answered
<1>6. QED BY <1>4, <1>5, IdleDurable

LEMMA PlanDurable ==
    ASSUME SafeInv, DurableInv, NEW r \in Actors, Plan(r) \/ SkipReset(r)
    PROVE  DurableInv'
<1>1. CASE mem # NoRecord /\ Plan(r) /\ Goto(r, "failing") /\ Ends(r, "recoverable")
           /\ UNCHANGED planVars
    <2>1. pc[r] \in Busy /\ Attempt(r) /\ UNCHANGED <<recordVars, doubtful>>
        BY <1>1 DEF Plan, Attempt, Ends, SafeInv, TypeOK, Fates, planVars, lifeVars,
           Busy, HoldingAt
    <2>2. pc'[r] = "failing" => DiskInv(r)'
        BY DEF DiskInv, At, Answered
    <2>3. QED BY <1>1, <2>1, <2>2, MoveDurable
<1>2. CASE ~(mem # NoRecord /\ Plan(r) /\ Goto(r, "failing") /\ Ends(r, "recoverable")
             /\ UNCHANGED planVars)
    BY <1>2, PlannedDurable DEF Plan, SkipReset
<1>3. QED BY <1>1, <1>2

LEMMA StageDurable ==
    ASSUME SafeInv, DurableInv, NEW r \in Actors, Stage(r)
    PROVE  DurableInv'
<1> DEFINE rec == IF Creates(r) THEN Fresh(Call(r)) ELSE Staged(mem, Call(r), keep[r])
<1>1. pc[r] = "prepare" /\ pc[r] \in Busy /\ Mutate(r, rec, "send", mem, "fatal")
      /\ Attempt(r) /\ target' = target /\ doubtful' = doubtful
    BY DEF Stage, Attempt, SafeInv, TypeOK, planVars, lifeVars, Busy, HoldingAt
<1>2. rec.state = "InFlight"
    <2>1. CASE Creates(r)
        BY <2>1 DEF Fresh
    <2>2. CASE ~Creates(r)
        <3>1. mem \in Records
            BY <1>1, <2>2, PlannedRecord
        <3>2. QED BY <2>2, <3>1 DEF Staged, Records
    <2>3. QED BY <2>1, <2>2
<1> HIDE DEF rec
<1>3. KnownConversation(mem) /\ KnownConversation(rec)
    BY <1>2 DEF DurableInv, KnownConversation, Offered
<1>4. ~Creates(r) => Known(target[r])
    BY <1>1 DEF DurableInv, DiskInv
<1>5. QED BY <1>1, <1>3, <1>4, MutateDurable

\* Mutations after which the attempt fails, or a new one begins.
LEMMA FailingMutationDurable ==
    ASSUME SafeInv, DurableInv, NEW r \in Actors,
           \/ ExpirePlan(r) \/ SendFails(r) \/ SendGone(r) \/ PostFails(r) \/ ReadTruncated(r)
           \/ RecoveryReset(r)
    PROVE  DurableInv'
<1>1. pc[r] \in Busy /\ target' = target /\ doubtful' = doubtful
    BY DEF ExpirePlan, SendFails, SendGone, PostFails, ReadTruncated, RecoveryReset, planVars,
           Busy, HoldingAt
<1>2. Attempt(r)
    BY DEF ExpirePlan, SendFails, SendGone, PostFails, ReadTruncated, RecoveryReset, Ends,
           Faults, Attempt, SafeInv, TypeOK, Fates, planVars, lifeVars
<1>3. KnownConversation(mem) /\ KnownConversation(NoRecord) /\ KnownConversation(Uncertain(mem))
    BY UncertainRecord DEF DurableInv, SafeInv, TypeOK, KnownConversation, Offered
<1>4. \E rec, undo, ok, err : /\ Mutate(r, rec, ok, undo, err) /\ ok # "send"
                              /\ KnownConversation(rec) /\ KnownConversation(undo)
    <2>1. CASE ExpirePlan(r) \/ SendGone(r)
        <3>1. mem \in Records
            BY <2>1, PlannedRecord, InFlightRecord DEF ExpirePlan, SendGone
        <3>2. KnownConversation(Dropping(mem, "Tombstoned"))
            BY <3>1 DEF Dropping, Records, KnownConversation, Offered
        <3>3. QED BY <1>3, <2>1, <3>2 DEF ExpirePlan, SendGone
    <2>2. CASE SendFails(r)
        <3>1. mem \in Records /\ InFlight(r) /\ pc[r] = "send"
            BY <2>2, InFlightRecord DEF SendFails
        <3>2. ~Creates(r) => KnownConversation(Dropping(mem, "Committed"))
            BY <3>1 DEF Dropping, Records, KnownConversation, Offered, InFlight, DurableInv, DiskInv, At
        <3>3. QED BY <1>3, <2>2, <3>2 DEF SendFails
    <2>3. CASE PostFails(r) \/ ReadTruncated(r)
        BY <1>3, <2>3 DEF PostFails, ReadTruncated
    <2>4. CASE RecoveryReset(r)
        BY <1>3, <2>4 DEF RecoveryReset
    <2>5. QED BY <2>1, <2>2, <2>3, <2>4
<1>5. QED BY <1>1, <1>2, <1>4, MutateDurable

\* Steps of a response or of a reset that may begin a mutation, or not.
LEMMA EndingDurable ==
    ASSUME SafeInv, DurableInv, NEW r \in Actors,
           ReadBroken(r) \/ RecoveryResetOfNothing(r) \/ ApiReset(r)
    PROVE  DurableInv'
<1>1. pc[r] \in Busy /\ target' = target /\ doubtful' = doubtful
    BY DEF ReadBroken, RecoveryResetOfNothing, ApiReset, planVars, Busy, HoldingAt
<1>2. Attempt(r)
    BY DEF ReadBroken, RecoveryResetOfNothing, ApiReset, Ends, Faults, Attempt,
           SafeInv, TypeOK, Fates, planVars, lifeVars
<1>3. KnownConversation(mem) /\ KnownConversation(NoRecord) /\ KnownConversation(Uncertain(mem))
    BY UncertainRecord DEF DurableInv, SafeInv, TypeOK, KnownConversation, Offered
<1>4. \/ \E rec, undo, ok, err : /\ Mutate(r, rec, ok, undo, err) /\ ok # "send"
                                 /\ KnownConversation(rec) /\ KnownConversation(undo)
      \/ \E l \in {"failing", "plan"} : Goto(r, l) /\ UNCHANGED recordVars
    <2>1. CASE ReadBroken(r)
        BY <1>3, <2>1 DEF ReadBroken
    <2>2. CASE RecoveryResetOfNothing(r) \/ ApiReset(r)
        BY <1>3, <2>2 DEF RecoveryResetOfNothing, ApiReset
    <2>3. QED BY <2>1, <2>2
<1>5. \A l \in {"failing", "plan"} : pc'[r] = l => DiskInv(r)'
    BY DEF DiskInv, At, Answered
<1>6. CASE \E rec, undo, ok, err : /\ Mutate(r, rec, ok, undo, err) /\ ok # "send"
                                   /\ KnownConversation(rec) /\ KnownConversation(undo)
    BY <1>1, <1>2, <1>6, MutateDurable
<1>7. CASE \E l \in {"failing", "plan"} : Goto(r, l) /\ UNCHANGED recordVars
    BY <1>1, <1>2, <1>5, <1>7, MoveDurable
<1>8. QED BY <1>4, <1>6, <1>7

\* When the completion leaves the record says InFlight, and so does the snapshot if no
\* cancelled write has replaced it; none that could do so unnoticed is left.
LEMMA SendDurable ==
    ASSUME SafeInv, DurableInv, NEW r \in Actors, Post(r) \/ Respond(r)
    PROVE  DurableInv'
<1>1. pc[r] \in {"send", "posted"} /\ pc[r] \in Busy /\ job' = job /\ mem' = mem /\ disk' = disk
      /\ late' = late /\ overtaken' = overtaken /\ target' = target
    BY DEF Post, Respond, Busy, HoldingAt, recordVars, planVars
<1>2. InFlight(r) /\ target[r] \in Calls
    BY <1>1, InFlightRecord
<1>3. PICK l \in {"posted", "reading"} : pc' = [pc EXCEPT ![r] = l]
    BY DEF Post, Respond, Goto
<1>4. pc'[r] = l
    BY <1>3 DEF SafeInv, TypeOK
<1>5. (disk = mem \/ disk \in overtaken) /\ \A w \in late : w.passed
    BY <1>1 DEF DurableInv, DiskInv
<1>6. Others(r)
    BY <1>3 DEF Post, Respond, Others, SafeInv, TypeOK, lockVars, planVars
<1>7. KnownConversation(mem)' /\ KnownConversation(disk)'
    BY <1>1, <1>2, <1>5 DEF KnownConversation, Offered, Known, InFlight
<1>8. job' = NoJob
    <2>1. job # NoJob => job.by \in Actors /\ pc[job.by] = "writing"
        BY DEF SafeInv, TypeOK, Jobs
    <2>2. QED BY <1>1, <2>1, BusyAlone DEF Busy, HoldingAt
<1>9. \A w \in late' : ~w.passed => KnownConversation(w.snap)'
    BY <1>1, <1>5
<1>10. DiskInv(r)'
    BY <1>1, <1>4, <1>5 DEF DiskInv, At, Answered
<1>11. QED BY <1>1, <1>6, <1>7, <1>8, <1>9, <1>10, BusyDurable

\* The answer was read to its end: its conversation is known again.
LEMMA ReadStopDurable ==
    ASSUME SafeInv, DurableInv, NEW r \in Actors, ReadStop(r)
    PROVE  DurableInv'
<1> DEFINE err == IF r \in Streaming THEN "recoverable" ELSE "fatal"
<1>1. pc[r] = "reading" /\ pc[r] \in Busy /\ target' = target /\ doubtful' = doubtful \ {target[r]}
      /\ Mutate(r, WithPendingCommitted(mem), "committed", mem, err) /\ Attempt(r)
    BY DEF ReadStop, Attempt, SafeInv, TypeOK, planVars, lifeVars, Busy, HoldingAt
<1>2. InFlight(r) /\ mem \in Records /\ Call(r) \in Calls
    BY <1>1, InFlightRecord
<1>3. WithPendingCommitted(mem).conv = target[r]
    BY <1>2, CommittedRecord DEF InFlight
<1> HIDE DEF err
<1>4. doubtful' \subseteq doubtful /\ target[r] \notin doubtful' /\ KnownConversation(mem)
    BY <1>1, <1>2 DEF InFlight, KnownConversation, Offered
<1>5. QED BY <1>1, <1>3, <1>4, MutateDurable

LEMMA FinalizeDurable ==
    ASSUME SafeInv, DurableInv, NEW c \in Calls, Finalize(c)
    PROVE  DurableInv'
<1> DEFINE r == c[1]
<1>0. r \in Actors
    BY DEF Calls
<1> HIDE DEF r
<1>1. /\ UNCHANGED <<lockVars, n, fate, planVars, doubtful, life, faulted, boundVars>>
      /\ spawned' = spawned \ {c}
      /\ \/ pc[r] = "orphaned" /\ Mutate(r, Uncertain(mem), "failing", Uncertain(mem), "cancelled")
         \/ UNCHANGED <<pc, recordVars>>
    BY DEF Finalize, r
<1>2. CASE pc[r] = "orphaned" /\ Mutate(r, Uncertain(mem), "failing", Uncertain(mem), "cancelled")
    <2>1. Attempt(r) /\ pc[r] \in Busy /\ target' = target /\ doubtful' = doubtful
        BY <1>0, <1>1, <1>2 DEF Attempt, SafeInv, TypeOK, planVars, Busy
    <2>2. KnownConversation(Uncertain(mem))
        BY UncertainRecord DEF SafeInv, TypeOK
    <2>3. QED BY <1>0, <1>2, <2>1, <2>2, MutateDurable
<1>3. CASE UNCHANGED <<pc, recordVars>>
    <2>1. Others(r) /\ DiskInv(r)'
        BY <1>0, <1>1, <1>3 DEF Others, lockVars, planVars, recordVars, DurableInv, DiskInv, At,
           Answered, Creates, Call, Known
    <2>2. QED BY <1>0, <1>1, <1>3, <2>1, IdleDurable
<1>4. QED BY <1>1, <1>2, <1>3

\* When a write has landed the snapshot is what is in memory; when it has failed,
\* memory is what was there before it.
LEMMA WriteDurable ==
    ASSUME SafeInv, DurableInv, NEW r \in Actors, WriteLands(r) \/ WriteFails(r)
    PROVE  DurableInv'
<1>1. pc[r] = "writing" /\ pc[r] \in Busy /\ job # NoJob /\ job \in Jobs
    BY DEF WriteLands, WriteFails, Busy, HoldingAt, SafeInv, TypeOK, ActorInv, HoldsInv
<1>2. job.snap = mem /\ KnownConversation(job.undo) /\ fate[r] # "ok"
      /\ KnownConversation(mem) /\ KnownConversation(disk)
    BY <1>1 DEF DurableInv, SafeInv, ActorInv, RecordInv
<1>3. n' = n /\ target' = target /\ keep' = keep /\ job' = NoJob /\ lockVars' = lockVars
      /\ overtaken' = overtaken /\ doubtful' = doubtful
    BY <1>2 DEF WriteLands, WriteFails, planVars
<1>4. CASE WriteLands(r)
    <2>1. pc' = [pc EXCEPT ![r] = job.ok] /\ mem' = mem /\ disk' = mem /\ fate' = fate
          /\ faulted' = faulted /\ \A w \in late' : w.passed
        <3>1. late' = {[w EXCEPT !.passed = TRUE] : w \in late} /\ late \subseteq Leftovers
            BY <1>4 DEF WriteLands, SafeInv, TypeOK
        <3>2. \A w \in late' : w.passed
            BY <3>1 DEF Leftovers
        <3>3. QED BY <1>2, <1>4, <3>2 DEF WriteLands, Goto
    <2>2. Others(r)
        BY <1>3, <2>1 DEF Others, SafeInv, TypeOK, lockVars
    <2>3. pc'[r] = job.ok /\ job.ok \in {"send", "committed", "failing", "plan"}
        BY <1>1, <2>1 DEF SafeInv, TypeOK, Jobs
    <2>4. At(r)' = At(r) /\ Creates(r)' = Creates(r)
        BY <1>1, <1>3, <2>3 DEF At, Creates, Call
    <2>5. DiskInv(r)'
        BY <1>3, <2>1, <2>3, <2>4 DEF DurableInv, DiskInv, Answered, Known
    <2>6. KnownConversation(mem)' /\ KnownConversation(disk)'
        BY <1>2, <1>3, <2>1 DEF KnownConversation, Known
    <2>7. QED BY <1>1, <1>3, <2>1, <2>2, <2>5, <2>6, BusyDurable
<1>5. CASE WriteFails(r)
    <2>1. pc' = [pc EXCEPT ![r] = "failing"] /\ mem' = job.undo /\ disk' = disk /\ late' = late
          /\ fate' = [fate EXCEPT ![r] = job.err] /\ faulted' = faulted \cup {r}
        BY <1>5 DEF WriteFails, Goto, Ends, Faults
    <2>2. Others(r)
        BY <1>3, <2>1 DEF Others, SafeInv, TypeOK, lockVars
    <2>3. pc'[r] = "failing"
        BY <2>1 DEF SafeInv, TypeOK
    <2>4. DiskInv(r)'
        BY <2>3 DEF DiskInv, At, Answered
    <2>5. /\ KnownConversation(mem)' /\ KnownConversation(disk)'
          /\ \A w \in late' : ~w.passed => KnownConversation(w.snap)'
        BY <1>2, <1>3, <2>1 DEF DurableInv, KnownConversation, Known
    <2>6. QED BY <1>1, <1>3, <2>2, <2>4, <2>5, BusyDurable
<1>6. QED BY <1>4, <1>5

\* A request that comes, waits, gets the operation, or is over.
LEMMA LockDurable ==
    ASSUME SafeInv, DurableInv, NEW r \in Actors,
           Arrive(r) \/ Grant(r) \/ Share(r) \/ FailReplay(r) \/ Complete(r) \/ Release(r)
    PROVE  DurableInv'
<1>1. UNCHANGED <<recordVars, doubtful>>
    BY DEF Arrive, Grant, Share, FailReplay, Complete, Release
<1>2. n[r] # 0 => n[r] \in Attempts
    BY CallOfActor DEF SafeInv
<1>3. \/ UNCHANGED lockVars
      \/ \E k \in Attempts : \/ Lock!Arrive(<<r, k>>) \/ Lock!Grant(<<r, k>>)
                             \/ Lock!Share(<<r, k>>) \/ Lock!Complete(<<r, k>>)
                             \/ Lock!Fail(<<r, k>>) \/ Lock!End(<<r, k>>)
    <2>1. CASE Arrive(r)
        <3>1. n[r] \in 0..3 /\ n[r] # 3
            BY <2>1 DEF Arrive, SafeInv, TypeOK, ActorInv, HoldsInv
        <3>2. n[r] + 1 \in Attempts
            BY <3>1 DEF Attempts
        <3>3. QED BY <2>1, <3>2 DEF Arrive
    <2>2. CASE ~Arrive(r)
        <3>1. n[r] \in Attempts
            BY <1>2, <2>2 DEF Grant, Share, FailReplay, Complete, Release, SafeInv, ActorInv, HoldsInv
        <3>2. QED BY <2>2, <3>1 DEF Grant, Share, FailReplay, Complete, Release, Call
    <2>3. QED BY <2>1, <2>2
<1>4. \A s \in Actors \ {r} : \A j \in Attempts : status'[<<s, j>>] = status[<<s, j>>]
    <2>1. CASE UNCHANGED lockVars
        BY <2>1 DEF lockVars
    <2>2. CASE ~UNCHANGED lockVars
        BY <1>3, <2>2, StatusFrame
    <2>3. QED BY <2>1, <2>2
<1>5. PICK l \in {"waiting", "reset", "plan", "recover", "failing", "ending", "retry", "done"} :
          /\ pc' = [pc EXCEPT ![r] = l]
          /\ l = "ending" => pc[r] \in {"failing", "committed"}
          /\ l = "ending" /\ pc[r] = "failing" => fate' = fate
    <2>1. CASE Grant(r)
        <3> DEFINE to == IF r \in Resets THEN "reset" ELSE <<"plan", "recover", "failing">>[n[r]]
        <3>1. n[r] \in Attempts
            BY <1>2, <2>1 DEF Grant, SafeInv, ActorInv, HoldsInv
        <3>2. to \in {"reset", "plan", "recover", "failing"}
            BY <3>1 DEF Attempts
        <3>3. pc' = [pc EXCEPT ![r] = to]
            BY <2>1 DEF Grant, Goto
        <3> HIDE DEF to
        <3>4. QED BY <3>2, <3>3
    <2>2. CASE ~Grant(r)
        BY <2>2 DEF Arrive, Share, FailReplay, Complete, Release, Over, Goto
    <2>3. QED BY <2>1, <2>2
<1>6. /\ \A s \in Actors \ {r} :
             /\ n'[s] = n[s] /\ fate'[s] = fate[s] /\ target'[s] = target[s] /\ keep'[s] = keep[s]
             /\ s \in faulted' <=> s \in faulted
    <2>1. CASE Arrive(r) \/ Grant(r) \/ FailReplay(r) \/ Complete(r)
        BY <2>1 DEF Arrive, Grant, FailReplay, Complete, Ends, planVars, SafeInv, TypeOK
    <2>2. CASE Share(r) \/ Release(r)
        BY <2>2 DEF Share, Release, Over, Ends, planVars, SafeInv, TypeOK
    <2>3. QED BY <2>1, <2>2
<1>7. Others(r)
    BY <1>4, <1>5, <1>6 DEF Others, SafeInv, TypeOK
<1>8. pc'[r] = l
    BY <1>5 DEF SafeInv, TypeOK
<1>9. DiskInv(r)'
    <2>1. l # "ending" => ~Answered(r)'
        BY <1>8 DEF Answered
    <2>2. l = "ending" /\ pc[r] = "failing" => ~Answered(r)'
        BY <1>5 DEF Answered, SafeInv, ActorInv, RecordInv
    <2>3. pc[r] = "committed" =>
              /\ disk' = mem' \/ disk' \in overtaken'
              /\ \A w \in late' : w.passed
        BY <1>1 DEF recordVars, DurableInv, DiskInv
    <2>4. QED BY <1>5, <1>8, <2>1, <2>2, <2>3 DEF DiskInv, At
<1>10. QED BY <1>1, <1>7, <1>9, IdleDurable

\* The client leaves; a write it waited for goes on and has what is in memory, which
\* is known.
LEMMA CancelDurable ==
    ASSUME SafeInv, DurableInv, NEW r \in Actors, Cancel(r)
    PROVE  DurableInv'
<1>1. mem' = mem /\ disk' = disk /\ n' = n /\ doubtful' = doubtful /\ overtaken' = overtaken
    BY DEF Cancel
<1>2. CASE /\ pc[r] \in {"waiting", "retry"} /\ Over(r) /\ UNCHANGED <<job, late, lifeVars>>
           /\ Lock!Cancel(Call(r)) \/ UNCHANGED lockVars
    <2>1. n[r] \in Attempts
        BY <1>2, CallOfActor DEF SafeInv, ActorInv, HoldsInv
    <2>2. \A s \in Actors \ {r} : \A j \in Attempts : status'[<<s, j>>] = status[<<s, j>>]
        BY <1>2, <2>1, StatusFrame DEF Call, lockVars
    <2>3. Others(r)
        BY <1>1, <1>2, <2>2 DEF Over, Goto, Ends, Others, SafeInv, TypeOK
    <2>4. DiskInv(r)'
        BY <1>2 DEF Over, Goto, SafeInv, TypeOK, DiskInv, At, Answered
    <2>5. UNCHANGED <<recordVars, doubtful>>
        BY <1>1, <1>2 DEF recordVars
    <2>6. QED BY <2>3, <2>4, <2>5, IdleDurable
<1>3. CASE /\ pc[r] \in HoldingAt /\ Abandon(r) /\ Ends(r, "cancelled")
           /\ Goto(r, "failing") \/ Goto(r, "orphaned")
           /\ UNCHANGED <<planVars, faulted>> /\ status' = status
    <2>1. pc[r] \in Busy
        BY <1>3 DEF Busy
    <2>2. pc'[r] \in {"failing", "orphaned"}
        BY <1>3 DEF Goto, SafeInv, TypeOK
    <2>3. Others(r)
        BY <1>1, <1>3 DEF Goto, Ends, Others, SafeInv, TypeOK, planVars
    <2>4. DiskInv(r)'
        BY <2>2 DEF DiskInv, At, Answered
    <2>5. job' = NoJob /\ \A w \in late' : w \in late \/ w.snap = mem
        <3>1. CASE pc[r] = "writing"
            <4>1. job # NoJob /\ job.snap = mem
                BY <3>1 DEF SafeInv, ActorInv, HoldsInv, DurableInv
            <4>2. QED BY <1>3, <3>1, <4>1 DEF Abandon
        <3>2. CASE pc[r] # "writing"
            <4>1. job # NoJob => job.by \in Actors /\ pc[job.by] = "writing"
                BY DEF SafeInv, TypeOK, Jobs
            <4>2. job = NoJob
                BY <2>1, <3>2, <4>1, BusyAlone DEF Busy, HoldingAt
            <4>3. QED BY <1>3, <3>2, <4>2 DEF Abandon, DurableInv
        <3>3. QED BY <3>1, <3>2
    <2>6. /\ KnownConversation(mem)' /\ KnownConversation(disk)'
          /\ \A w \in late' : ~w.passed => KnownConversation(w.snap)'
        BY <1>1, <2>5 DEF DurableInv, KnownConversation, Known
    <2>7. QED BY <1>1, <2>1, <2>3, <2>4, <2>5, <2>6, BusyDurable
<1>4. QED BY <1>2, <1>3 DEF Cancel, Lock!Fail, lockVars

LEMMA CrashDurable == ASSUME SafeInv, DurableInv, Crash PROVE DurableInv'
<1>1. /\ mem' = disk /\ disk' = disk /\ job' = NoJob /\ late' = {}
      /\ overtaken' = overtaken /\ doubtful' = doubtful
      /\ \A r \in Actors : pc'[r] \in {"idle", "done"}
    BY DEF Crash
<1>2. \A r \in Actors : DiskInv(r)'
    BY <1>1 DEF DiskInv, At, Answered
<1>3. KnownConversation(mem)' /\ KnownConversation(disk)'
    BY <1>1 DEF DurableInv, KnownConversation, Known
<1>4. QED BY <1>1, <1>2, <1>3 DEF DurableInv

\* A cancelled write that was passed is noticed when it lands; one that was not has a
\* snapshot that is known.
LEMMA SnapshotDurable ==
    ASSUME DurableInv, LateWriteLands \/ Flush \/ UNCHANGED vars
    PROVE  DurableInv'
<1>1. /\ UNCHANGED <<lockVars, pc, n, fate, mem, job, planVars, doubtful>>
      /\ late' \subseteq late /\ overtaken \subseteq overtaken'
      /\ \/ disk' \in {disk, mem} \cup overtaken'
         \/ KnownConversation(disk') /\ \E w \in late : ~w.passed
    <2>1. CASE LateWriteLands
        BY <2>1 DEF LateWriteLands, DurableInv
    <2>2. CASE Flush
        BY <2>2 DEF Flush
    <2>3. CASE UNCHANGED vars
        BY <2>3 DEF vars, recordVars
    <2>4. QED BY <2>1, <2>2, <2>3
<1>2. ASSUME NEW r \in Actors PROVE DiskInv(r)'
    <2>1. DiskInv(r)
        BY DEF DurableInv
    <2>2. Known(target[r]) => Known(target[r])'
        BY <1>1 DEF Known, planVars
    <2>3. QED BY <1>1, <2>1, <2>2 DEF DiskInv, At, Answered, Creates, Call, planVars
<1>3. /\ KnownConversation(mem)' /\ KnownConversation(disk)'
      /\ KnownConversation(job.undo) => KnownConversation(job.undo)'
      /\ \A w \in late' : ~w.passed => KnownConversation(w.snap)'
    BY <1>1 DEF DurableInv, KnownConversation, Known
<1>4. QED BY <1>1, <1>2, <1>3 DEF DurableInv

-----------------------------------------------------------------------------
(* Theorems about the snapshot                                             *)

LEMMA DurableInit == Init => DurableInv
BY DEF Init, DurableInv, KnownConversation, Offered, DiskInv, At, Answered

LEMMA DurableNext == SafeInv /\ DurableInv /\ [Next]_vars => DurableInv'
<1> SUFFICES ASSUME SafeInv, DurableInv, [Next]_vars PROVE DurableInv'
    OBVIOUS
<1>1. ASSUME NEW r \in Actors, Arrive(r) \/ Cancel(r) \/ LockStep(r) \/ WriteStep(r)
      PROVE  DurableInv'
    BY <1>1, LockDurable, CancelDurable, WriteDurable DEF LockStep, WriteStep
<1>2. ASSUME NEW r \in Actors, AttemptStep(r) PROVE DurableInv'
    BY <1>2, FailingDurable, PlanDurable, FailingMutationDurable, StageDurable, SendDurable,
       ReadStopDurable, EndingDurable, LockDurable DEF AttemptStep
<1>3. ASSUME NEW r \in Actors, RecoveryStep(r) PROVE DurableInv'
    BY <1>3, PlanDurable, FailingMutationDurable, EndingDurable DEF RecoveryStep
<1>4. ASSUME NEW c \in Calls, Finalize(c) PROVE DurableInv'
    BY <1>4, FinalizeDurable
<1>5. CASE Crash
    BY <1>5, CrashDurable
<1>6. CASE LateWriteLands \/ Flush \/ UNCHANGED vars
    BY <1>6, SnapshotDurable
<1>7. QED BY <1>1, <1>2, <1>3, <1>4, <1>5, <1>6 DEF Next

LEMMA DurableInvariant == Spec => []DurableInv
BY DurableInit, DurableNext, SafeInvariant, PTL DEF Spec

\* A record is offered for reuse, by this process or by one that loads the
\* snapshot, only when every completion sent to its conversation was seen to end
\* with message_stop (finish_explicit_send, ExplicitLifecycle, mutate_explicit), except
\* a conversation that a cancelled write brought back by landing after a later one.
THEOREM ReusedIsKnown == Spec => []ReusableIsKnown
<1>1. DurableInv => ReusableIsKnown
    BY DEF DurableInv, ReusableIsKnown
<1>2. QED BY <1>1, DurableInvariant, PTL

\* A response is offered to its client and to the twins only when its turn is the
\* last committed one of the snapshot (ExplicitLifecycle::commit before
\* replay.complete), unless a cancelled write has replaced that snapshot.
THEOREM AnswersAreDurable == Spec => []AnsweredIsDurable
<1>1. SafeInv /\ DurableInv => AnsweredIsDurable
    <2> SUFFICES ASSUME SafeInv, DurableInv, NEW r \in Requests, pc[r] = "ending", fate[r] = "ok",
                        disk \notin overtaken
                 PROVE  /\ disk # NoRecord /\ disk.state = "Committed"
                        /\ disk.turns # <<>> /\ disk.turns[Len(disk.turns)] = Call(r)
        BY DEF AnsweredIsDurable, Offered
    <2>1. r \in Actors
        BY DEF Actors
    <2>2. EndsWithTurn(mem, r) /\ disk = mem
        BY <2>1 DEF SafeInv, ActorInv, RecordInv, DurableInv, DiskInv, Answered
    <2>3. QED BY <2>2 DEF EndsWithTurn
<1>2. QED BY <1>1, DurableInvariant, SafeInvariant, PTL
=============================================================================
