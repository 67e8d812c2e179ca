------------------------- MODULE OperationLockProofs -------------------------
(***************************************************************************)
(* Safety of the per-session operation lock, for any number of calls and   *)
(* any assignment of fingerprints. Everything follows from one inductive   *)
(* invariant, IInv: all calls in progress keep one StoredOperationState,   *)
(* its slot names exactly the call with the permit, a waiting call has     *)
(* witnessed the twin it watches, and an outcome is decided once.          *)
(***************************************************************************)
EXTENDS OperationLock, TLAPS

\* The invariant holds before the first call.
LEMMA InitIInv == Init => IInv
BY CallAssumption
   DEF Init, IInv, TypeOK, StateInv, SlotInv, WitnessInv, OutcomeInv,
       ReplayFromConcurrentTwin, WaitingAt, HoldingAt, WatchingAt, DoneAt

\* A step inside wait_for_replay_terminal or wait_for_generation_release moves
\* one call between the labels of the two loops and touches nothing shared.
LEMMA QuietStep ==
    ASSUME IInv, NEW c \in Calls, pc[c] \in WatchingAt,
           NEW l \in WatchingAt, Goto(c, l), signal' \in SUBSET Calls,
           UNCHANGED <<registry, inst, active, outcome, seen, armed, witnessed>>
    PROVE  IInv'
<1> USE DEF IInv, TypeOK, WaitingAt, HoldingAt, DoneAt, WatchingAt, Goto
<1>1. TypeOK'
    OBVIOUS
<1>2. StateInv' /\ SlotInv' /\ OutcomeInv'
    BY DEF StateInv, SlotInv, OutcomeInv
<1>3. WitnessInv' /\ ReplayFromConcurrentTwin'
    BY DEF WitnessInv, ReplayFromConcurrentTwin, Twins
<1>4. QED BY <1>1, <1>2, <1>3

\* A decision sent on the outcome channel of the call that holds the permit, or
\* a failure sent by a handle that outlived its guard, reaches the receivers and
\* leaves the slot and the registry alone.
LEMMA SendStep ==
    ASSUME IInv, NEW c \in Calls, NEW value \in {"complete", "failed"},
           Send(c, value), armed' = armed \ {c},
           \/ c \in armed /\ (value = "complete" => pc[c] = "holding")
           \/ outcome[c] = "pending" /\ pc[c] = "holding" /\ value = "failed",
           UNCHANGED <<pc, registry, inst, active, seen, witnessed>>
    PROVE  IInv'
<1> USE DEF IInv, TypeOK, WaitingAt, HoldingAt, DoneAt, WatchingAt, Send,
            Notify, OutcomeReceivers
<1>1. TypeOK' /\ StateInv' /\ SlotInv'
    BY DEF StateInv, SlotInv
<1>2. WitnessInv' /\ OutcomeInv'
    BY DEF WitnessInv, OutcomeInv, Twins
<1>3. ReplayFromConcurrentTwin'
    BY DEF OutcomeInv, ReplayFromConcurrentTwin, Twins
<1>4. QED BY <1>1, <1>2, <1>3

\* Every step preserves the invariant.
LEMMA StepIInv == IInv /\ [Next]_vars => IInv'
<1> SUFFICES ASSUME IInv, [Next]_vars
             PROVE  IInv'
    OBVIOUS
<1> USE CallAssumption
        DEF IInv, TypeOK, WaitingAt, HoldingAt, DoneAt, WatchingAt, Goto, Twins
<1>1. ASSUME NEW c \in Calls, Arrive(c) PROVE IInv'
    <2>1. TypeOK' /\ OutcomeInv' /\ ReplayFromConcurrentTwin'
        BY <1>1 DEF Arrive, OutcomeInv, ReplayFromConcurrentTwin
    <2>2. StateInv'
        \* A state that is not upgraded is kept by nobody.
        BY <1>1 DEF Arrive, Alive, StateInv
    <2>3. SlotInv'
        BY <1>1 DEF Arrive, SlotInv
    <2>4. WitnessInv'
        BY <1>1 DEF Arrive, WitnessInv
    <2>5. QED BY <2>1, <2>2, <2>3, <2>4
<1>2. ASSUME NEW c \in Calls, Observe(c) PROVE IInv'
    <2>1. TypeOK'
        BY <1>2 DEF Observe, StateInv
    <2>2. StateInv' /\ SlotInv' /\ OutcomeInv' /\ ReplayFromConcurrentTwin'
        BY <1>2 DEF Observe, StateInv, SlotInv, OutcomeInv, ReplayFromConcurrentTwin
    <2>3. WitnessInv'
        \* The slot names the holder, whom the caller has witnessed.
        BY <1>2 DEF Observe, StateInv, SlotInv, WitnessInv
    <2>4. QED BY <2>1, <2>2, <2>3
<1>3. ASSUME NEW c \in Calls, Install(c) PROVE IInv'
    <2>1. TypeOK' /\ StateInv'
        BY <1>3 DEF Install, StateInv
    <2>2. SlotInv'
        BY <1>3 DEF Install, StateInv, SlotInv
    <2>3. WitnessInv'
        BY <1>3 DEF Install, WitnessInv
    <2>4. OutcomeInv' /\ ReplayFromConcurrentTwin'
        BY <1>3 DEF Install, OutcomeInv, ReplayFromConcurrentTwin
    <2>5. QED BY <2>1, <2>2, <2>3, <2>4
<1>4. ASSUME NEW c \in Calls, ReadOutcome(c) PROVE IInv'
    <2>1. TypeOK' /\ StateInv' /\ SlotInv' /\ OutcomeInv'
        BY <1>4 DEF ReadOutcome, StateInv, SlotInv, OutcomeInv
    <2>2. WitnessInv' /\ ReplayFromConcurrentTwin'
        \* What is replayed is what the caller watched, hence witnessed.
        BY <1>4 DEF ReadOutcome, MayReplay, WitnessInv, ReplayFromConcurrentTwin
    <2>3. QED BY <2>1, <2>2
<1>5. ASSUME NEW c \in Calls, ReadActive(c) PROVE IInv'
    <2>1. TypeOK' /\ StateInv' /\ SlotInv' /\ OutcomeInv'
        BY <1>5 DEF ReadActive, StateInv, SlotInv, OutcomeInv
    <2>2. WitnessInv' /\ ReplayFromConcurrentTwin'
        BY <1>5 DEF ReadActive, WitnessInv, ReplayFromConcurrentTwin
    <2>3. QED BY <2>1, <2>2
<1>6. ASSUME NEW c \in Calls,
             \/ SubscribeOutcome(c) \/ WakeOutcome(c)
             \/ SubscribeRelease(c) \/ WakeRelease(c)
      PROVE IInv'
    BY <1>6, QuietStep
       DEF SubscribeOutcome, WakeOutcome, SubscribeRelease, WakeRelease
<1>7. ASSUME NEW c \in Calls, Cancel(c) PROVE IInv'
    <2>1. TypeOK' /\ StateInv' /\ SlotInv' /\ OutcomeInv'
        BY <1>7 DEF Cancel, StateInv, SlotInv, OutcomeInv
    <2>2. WitnessInv' /\ ReplayFromConcurrentTwin'
        BY <1>7 DEF Cancel, WitnessInv, ReplayFromConcurrentTwin
    <2>3. QED BY <2>1, <2>2
<1>8. ASSUME NEW c \in Calls, Complete(c) \/ FailReplay(c) PROVE IInv'
    BY <1>8, SendStep DEF Complete, FailReplay
<1>9. ASSUME NEW c \in Calls, DropGuardOutcome(c) PROVE IInv'
    <2>1. TypeOK' /\ StateInv' /\ SlotInv'
        BY <1>9 DEF DropGuardOutcome, Send, Notify, OutcomeReceivers, StateInv, SlotInv
    <2>2. WitnessInv' /\ OutcomeInv'
        BY <1>9 DEF DropGuardOutcome, Send, WitnessInv, OutcomeInv
    <2>3. ReplayFromConcurrentTwin'
        BY <1>9 DEF DropGuardOutcome, Send, OutcomeInv, ReplayFromConcurrentTwin
    <2>4. QED BY <2>1, <2>2, <2>3
<1>10. ASSUME NEW c \in Calls, DropGuardSlot(c) PROVE IInv'
    <2>1. TypeOK' /\ StateInv' /\ OutcomeInv'
        BY <1>10 DEF DropGuardSlot, Notify, VersionReceivers, StateInv, OutcomeInv
    <2>2. SlotInv'
        BY <1>10 DEF DropGuardSlot, StateInv, SlotInv
    <2>3. WitnessInv' /\ ReplayFromConcurrentTwin'
        BY <1>10 DEF DropGuardSlot, WitnessInv, ReplayFromConcurrentTwin
    <2>4. QED BY <2>1, <2>2, <2>3
<1>11. CASE UNCHANGED vars
    BY <1>11 DEF vars, StateInv, SlotInv, WitnessInv, OutcomeInv,
                 ReplayFromConcurrentTwin
<1>12. QED
    BY <1>1, <1>2, <1>3, <1>4, <1>5, <1>6, <1>7, <1>8, <1>9, <1>10, <1>11
       DEF Next, WaitStep, HoldStep

LEMMA Invariance == Spec => []IInv
BY InitIInv, StepIInv, PTL DEF Spec

\* Type correctness.
THEOREM TypeCorrect == Spec => []TypeOK
<1>1. IInv => TypeOK
    BY DEF IInv
<1>2. QED BY <1>1, Invariance, PTL

\* Two permits held at once would both be named by the one slot.
LEMMA SlotExcludes == IInv => OneOperation
<1> SUFFICES ASSUME IInv, NEW c \in Calls, NEW d \in Calls,
                    pc[c] \in HoldingAt, pc[d] \in HoldingAt
             PROVE  c = d
    BY DEF OneOperation
<1>1. inst[c] = registry /\ inst[d] = registry
    BY CallAssumption DEF IInv, StateInv
<1>2. active[registry] = c /\ active[registry] = d
    BY <1>1 DEF IInv, SlotInv
<1>3. QED BY <1>2

\* Mutual exclusion (lock_explicit_request, lock_explicit_operation and the
\* guard's drop): one operation at a time on a session.
THEOREM MutualExclusion == Spec => []OneOperation
BY SlotExcludes, Invariance, PTL

\* A call that replays returns the complete response of an identical request
\* that was in progress while it waited.
THEOREM ReplaySound == Spec => []ReplayFromConcurrentTwin
<1>1. IInv => ReplayFromConcurrentTwin
    BY DEF IInv
<1>2. QED BY <1>1, Invariance, PTL

\* No drop of a handle or of a guard takes a completed response back.
THEOREM CompleteStays == Spec => CompleteIsFinal
<1>1. IInv /\ [Next]_vars =>
          [\A c \in Calls : outcome[c] = "complete" => outcome'[c] = "complete"]_vars
    <2> SUFFICES ASSUME IInv, Next, NEW c \in Calls, outcome[c] = "complete"
                 PROVE  outcome'[c] = "complete"
        OBVIOUS
    <2>1. c \notin armed
        BY DEF IInv, OutcomeInv
    <2>2. ASSUME NEW d \in Calls, Complete(d) \/ FailReplay(d)
          PROVE  outcome'[c] = "complete"
        BY <2>1, <2>2 DEF IInv, TypeOK, Complete, FailReplay, Send
    <2>3. ASSUME NEW d \in Calls, DropGuardOutcome(d)
          PROVE  outcome'[c] = "complete"
        BY <2>3 DEF IInv, TypeOK, DropGuardOutcome, Send
    <2>4. ASSUME NEW d \in Calls,
                 Arrive(d) \/ Cancel(d) \/ WaitStep(d) \/ DropGuardSlot(d)
          PROVE  outcome' = outcome
        BY <2>4 DEF Arrive, Cancel, WaitStep, Observe, Install, SubscribeOutcome,
           ReadOutcome, WakeOutcome, SubscribeRelease, ReadActive, WakeRelease,
           DropGuardSlot
    <2>5. QED BY <2>2, <2>3, <2>4 DEF Next, HoldStep
<1>2. QED BY <1>1, Invariance, PTL DEF Spec, CompleteIsFinal

----------------------------------------------------------------------------
(* The lock implements SerialOperations. *)

\* The abstract status of a call, label by label.
LEMMA StatusFacts ==
    /\ \A l \in WaitingAt : StatusOf(l) = "waiting"
    /\ \A l \in HoldingAt : StatusOf(l) = "holding"
    /\ \A l \in DoneAt \cup {"idle"} : StatusOf(l) = l
BY DEF StatusOf, WaitingAt, HoldingAt, DoneAt

\* Under the invariant the abstract holders are the calls with a permit.
LEMMA HoldersMapped ==
    ASSUME TypeOK
    PROVE  Serial!Holders = {c \in Calls : pc[c] \in HoldingAt}
BY StatusFacts DEF Serial!Holders, TypeOK, WaitingAt, HoldingAt, DoneAt

LEMMA InitRefines == Init => Serial!SerialInit
BY StatusFacts DEF Init, Serial!SerialInit

\* A step that moves a call between labels of one abstract status, and leaves
\* outcomes and history alone, is invisible.
LEMMA InvisibleMove ==
    ASSUME TypeOK, NEW c \in Calls, NEW l, Goto(c, l),
           StatusOf(l) = StatusOf(pc[c]), UNCHANGED <<outcome, witnessed>>
    PROVE  UNCHANGED Serial!serialVars
BY DEF TypeOK, Goto, Serial!serialVars

\* Every step of the lock is a step of SerialOperations or invisible.
LEMMA StepRefines ==
    IInv /\ [Next]_vars => [Serial!SerialNext]_(Serial!serialVars)
<1> SUFFICES ASSUME IInv, [Next]_vars
             PROVE  [Serial!SerialNext]_(Serial!serialVars)
    OBVIOUS
<1> USE StatusFacts
<1>t. TypeOK
    BY DEF IInv
<1>p. pc \in [Calls -> WaitingAt \cup HoldingAt \cup DoneAt \cup {"idle"}]
    BY <1>t DEF TypeOK
<1>l. /\ WatchingAt \cup {"observe", "install"} = WaitingAt
      /\ HoldingAt = {"holding", "dropping"}
      /\ DoneAt = {"ended", "shared", "cancelled"}
    BY DEF WatchingAt, WaitingAt, HoldingAt, DoneAt
<1>1. ASSUME NEW c \in Calls, Arrive(c) PROVE Serial!Arrive(c)
    <2>1. Serial!Holders = {d \in Calls : pc[d] \in HoldingAt}
        BY <1>t, HoldersMapped
    <2>2. {d \in Serial!Holders : Serial!Twins(c, d)}
              = {d \in Calls : pc[d] \in HoldingAt /\ Twins(c, d)}
        BY <2>1 DEF Twins, Serial!Twins
    <2>3. QED BY <1>1, <1>p, <1>l, <2>2 DEF Arrive, Goto, Serial!Arrive
<1>2. ASSUME NEW c \in Calls, Install(c)
      PROVE  Serial!Grant(c) \/ UNCHANGED Serial!serialVars
    <2>1. CASE active[inst[c]] = NoCall
        <3>1. pc[c] = "install" /\ inst[c] = registry
            BY <1>2, <1>l DEF Install, IInv, StateInv
        <3>2. \A d \in Calls : pc[d] \notin HoldingAt
            BY <2>1, <3>1, CallAssumption DEF IInv, StateInv, SlotInv
        <3>3. Serial!Holders = {}
            BY <1>t, <3>2, HoldersMapped
        <3>4. \A d \in Calls : StatusOf(pc[d]) = "waiting" <=> pc[d] \in WaitingAt
            BY <1>p, <1>l
        <3>5. witnessed' = [d \in Calls |->
                  IF d = c THEN {}
                  ELSE IF StatusOf(pc[d]) = "waiting" /\ Serial!Twins(c, d)
                       THEN witnessed[d] \cup {c} ELSE witnessed[d]]
            BY <1>2, <2>1, <3>4 DEF Install, Twins, Serial!Twins
        <3>6. pc' = [pc EXCEPT ![c] = "holding"] /\ UNCHANGED outcome
            BY <1>2, <2>1 DEF Install, Goto
        <3>7. QED BY <1>p, <1>l, <3>1, <3>3, <3>5, <3>6 DEF Serial!Grant
    <2>2. CASE active[inst[c]] # NoCall
        BY <1>2, <2>2, <1>t, <1>l, InvisibleMove DEF Install
    <2>3. QED BY <2>1, <2>2
<1>3. ASSUME NEW c \in Calls, ReadOutcome(c)
      PROVE  Serial!Share(c) \/ UNCHANGED Serial!serialVars
    <2>1. CASE MayReplay(c) /\ Goto(c, "shared")
        <3>1. seen[c] \in witnessed[c] /\ outcome[seen[c]] = "complete"
            BY <1>3, <2>1 DEF ReadOutcome, MayReplay, IInv, WitnessInv, WatchingAt
        <3>2. QED
            BY <1>3, <1>p, <1>l, <2>1, <3>1 DEF ReadOutcome, Goto, Serial!Share, IInv, TypeOK
    <2>2. CASE Goto(c, "sleepOutcome") \/ Goto(c, "subRelease")
        BY <1>3, <2>2, <1>t, <1>l, InvisibleMove DEF ReadOutcome, WaitingAt
    <2>3. QED BY <1>3, <2>1, <2>2 DEF ReadOutcome
<1>4. ASSUME NEW c \in Calls, Cancel(c) PROVE Serial!Cancel(c)
    BY <1>4, <1>p, <1>l DEF Cancel, Goto, Serial!Cancel
<1>5. ASSUME NEW c \in Calls, Complete(c) PROVE Serial!Complete(c)
    BY <1>5, <1>p, <1>l DEF Complete, Send, IInv, OutcomeInv, Serial!Complete
<1>6. ASSUME NEW c \in Calls, FailReplay(c)
      PROVE  Serial!Fail(c) \/ UNCHANGED Serial!serialVars
    <2>1. CASE pc[c] = "holding"
        BY <1>6, <1>l, <2>1 DEF FailReplay, Send, IInv, OutcomeInv, Serial!Fail
    <2>2. CASE pc[c] # "holding"
        <3>1. outcome[c] = "failed"
            BY <1>6, <1>p, <1>l, <2>2 DEF FailReplay, IInv, TypeOK, StateInv, OutcomeInv
        <3>2. UNCHANGED <<pc, outcome, witnessed>>
            BY <1>6, <3>1 DEF FailReplay, Send, IInv, TypeOK
        <3>3. QED BY <3>2 DEF Serial!serialVars
    <2>3. QED BY <2>1, <2>2
<1>7. ASSUME NEW c \in Calls, DropGuardOutcome(c)
      PROVE  Serial!Fail(c) \/ UNCHANGED Serial!serialVars
    <2>1. CASE outcome[c] = "pending"
        BY <1>7, <1>p, <1>l, <2>1 DEF DropGuardOutcome, Goto, Send, Serial!Fail
    <2>2. CASE outcome[c] # "pending"
        BY <1>7, <1>t, <1>l, <2>2, InvisibleMove DEF DropGuardOutcome
    <2>3. QED BY <2>1, <2>2
<1>8. ASSUME NEW c \in Calls, DropGuardSlot(c) PROVE Serial!End(c)
    BY <1>8, <1>p, <1>l DEF DropGuardSlot, Goto, IInv, OutcomeInv, Serial!End
<1>9. ASSUME NEW c \in Calls,
             \/ Observe(c) \/ SubscribeOutcome(c) \/ WakeOutcome(c)
             \/ SubscribeRelease(c) \/ ReadActive(c) \/ WakeRelease(c)
      PROVE  UNCHANGED Serial!serialVars
    BY <1>9, <1>t, InvisibleMove
       DEF Observe, SubscribeOutcome, WakeOutcome, SubscribeRelease, ReadActive,
           WakeRelease, WaitingAt
<1>10. CASE UNCHANGED vars
    BY <1>10 DEF vars, Serial!serialVars
<1>11. QED
    BY <1>1, <1>2, <1>3, <1>4, <1>5, <1>6, <1>7, <1>8, <1>9, <1>10
       DEF Next, WaitStep, HoldStep, Serial!SerialNext

\* The polling, double-checked implementation behaves as a serial lock whose
\* waiting twins may share a completed response.
THEOREM LockRefinesSerial == Spec => RefinesSerial
BY InitRefines, StepRefines, Invariance, PTL
   DEF Spec, RefinesSerial, Serial!SerialSpec
=============================================================================
