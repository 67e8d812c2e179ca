---------------------------- MODULE OperationLock ----------------------------
(***************************************************************************)
(* The per-session operation lock of ConversationCache: lock_explicit_     *)
(* request and lock_explicit_operation, the guard and the replay handle    *)
(* they return, and the registry of weak pointers to the lock's state.     *)
(*                                                                         *)
(* The lock is not a mutex that tasks queue on. It is a slot, `active`,    *)
(* that holds the generation of the operation in progress; callers read    *)
(* the slot, wait on two tokio watch channels (the generation's outcome,   *)
(* then the slot's version) and race to install a generation of their own. *)
(* Every std-mutex section and every watch operation is one step here, so  *)
(* the calls interleave as tasks of a multi-threaded runtime do.           *)
(*                                                                         *)
(* A call is one invocation and the use of its permit, so it installs at   *)
(* most one generation: a generation is named by the call that made it,    *)
(* and a StoredOperationState by the call that created it.                 *)
(***************************************************************************)
CONSTANTS
    Calls,        \* every call made on one session
    Requests,     \* the calls of lock_explicit_request; others never replay
    Fingerprint,  \* Fingerprint[c]: the request digest call c passes
    NoCall        \* no generation, or no StoredOperationState

ASSUME CallAssumption ==
    /\ Requests \subseteq Calls
    /\ NoCall \notin Calls

VARIABLES
    pc,         \* where each call stands in the code
    registry,   \* the StoredOperationState the weak map names, dead or alive
    inst,       \* the StoredOperationState a call keeps alive
    active,     \* active[i]: the generation in progress on state i
    outcome,    \* outcome[g]: value of the generation's outcome channel
    seen,       \* the generation a call observed and waits for
    signal,     \* the calls whose receiver has a value it has not seen
    armed,      \* the calls whose replay handle is armed
    witnessed   \* history: the twins that ran during a call's wait

vars == <<pc, registry, inst, active, outcome, seen, signal, armed, witnessed>>

WaitingAt == {"observe", "subOutcome", "readOutcome", "sleepOutcome",
              "subRelease", "readActive", "sleepRelease", "install"}
HoldingAt == {"holding", "dropping"}
DoneAt == {"ended", "shared", "cancelled"}

TypeOK ==
    /\ pc \in [Calls -> WaitingAt \cup HoldingAt \cup DoneAt \cup {"idle"}]
    /\ registry \in Calls \cup {NoCall}
    /\ inst \in [Calls -> Calls \cup {NoCall}]
    /\ active \in [Calls -> Calls \cup {NoCall}]
    /\ outcome \in [Calls -> {"pending", "complete", "failed"}]
    /\ seen \in [Calls -> Calls \cup {NoCall}]
    /\ signal \in SUBSET Calls
    /\ armed \in SUBSET Calls
    /\ witnessed \in [Calls -> SUBSET Calls]

Init ==
    /\ pc = [c \in Calls |-> "idle"]
    /\ registry = NoCall
    /\ inst = [c \in Calls |-> NoCall]
    /\ active = [c \in Calls |-> NoCall]
    /\ outcome = [c \in Calls |-> "pending"]
    /\ seen = [c \in Calls |-> NoCall]
    /\ signal = {}
    /\ armed = {}
    /\ witnessed = [c \in Calls |-> {}]

----------------------------------------------------------------------------
(* Helpers *)

Goto(c, l) == pc' = [pc EXCEPT ![c] = l]

\* Two requests with the same digest. lock_explicit_operation makes its
\* generation with the empty fingerprint, which equals no digest.
Twins(c, d) == /\ {c, d} \subseteq Requests
               /\ c # d
               /\ Fingerprint[c] = Fingerprint[d]

\* The strong count of state i is not zero.
Alive(i) == \E c \in Calls : inst[c] = i

\* Receivers that have subscribed to the outcome of g, or to the version of i.
OutcomeReceivers(g) ==
    {c \in Calls : pc[c] \in {"readOutcome", "sleepOutcome"} /\ seen[c] = g}
VersionReceivers(i) ==
    {c \in Calls : pc[c] \in {"readActive", "sleepRelease"} /\ inst[c] = i}

\* watch::Sender::send_replace / send_modify: the receivers subscribed by now
\* have an unseen value.
Notify(receivers) == signal' = signal \cup receivers

Send(g, value) ==
    /\ outcome' = [outcome EXCEPT ![g] = value]
    /\ Notify(OutcomeReceivers(g))

----------------------------------------------------------------------------
(* Acquiring *)

\* Faulty variant: the weak pointer is never upgraded.
ArriveFresh(c) ==
    /\ pc[c] = "idle"
    /\ registry' = c
    /\ inst' = [inst EXCEPT ![c] = c]
    /\ Goto(c, "observe")
    /\ witnessed' = [witnessed EXCEPT ![c] =
                        {d \in Calls : pc[d] \in HoldingAt /\ Twins(c, d)}]
    /\ UNCHANGED <<active, outcome, seen, signal, armed>>

\* stored_operation: under the registry's lock, drop the dead entries, then
\* upgrade the weak pointer of this session or make a new state.
Arrive(c) ==
    /\ pc[c] = "idle"
    /\ LET upgraded == registry # NoCall /\ Alive(registry)
           i        == IF upgraded THEN registry ELSE c
       IN  /\ registry' = i
           /\ inst' = [inst EXCEPT ![c] = i]
    /\ Goto(c, "observe")
    /\ witnessed' = [witnessed EXCEPT ![c] =
                        {d \in Calls : pc[d] \in HoldingAt /\ Twins(c, d)}]
    /\ UNCHANGED <<active, outcome, seen, signal, armed>>

\* The head of both loops: clone the generation in the slot.
Observe(c) ==
    /\ pc[c] = "observe"
    /\ LET g == active[inst[c]]
       IN  /\ seen' = [seen EXCEPT ![c] = g]
           /\ Goto(c, IF g = NoCall THEN "install" ELSE "subOutcome")
    /\ UNCHANGED <<registry, inst, active, outcome, signal, armed, witnessed>>

\* wait_for_replay_terminal: subscribe, ...
SubscribeOutcome(c) ==
    /\ pc[c] = "subOutcome"
    /\ signal' = signal \ {c}
    /\ Goto(c, "readOutcome")
    /\ UNCHANGED <<registry, inst, active, outcome, seen, armed, witnessed>>

\* ... then borrow. A terminal outcome ends the wait and drops the receiver: a
\* complete one of an identical request is replayed, and the call lets go of
\* the state.
\* (MayReplayAny is a faulty variant that does not compare the fingerprints.)
MayReplayAny(c) == outcome[seen[c]] = "complete"
MayReplay(c) == Twins(c, seen[c]) /\ outcome[seen[c]] = "complete"

ReadOutcome(c) ==
    /\ pc[c] = "readOutcome"
    /\ \/ /\ outcome[seen[c]] = "pending"
          /\ Goto(c, "sleepOutcome")
          /\ UNCHANGED <<inst, signal>>
       \/ /\ MayReplay(c)
          /\ Goto(c, "shared")
          /\ inst' = [inst EXCEPT ![c] = NoCall]
          /\ signal' = signal \ {c}
       \/ /\ outcome[seen[c]] # "pending"
          /\ ~MayReplay(c)
          /\ Goto(c, "subRelease")
          /\ signal' = signal \ {c}
          /\ UNCHANGED inst
    /\ UNCHANGED <<registry, active, outcome, seen, armed, witnessed>>

\* outcome.changed(): returns once there is an unseen value, and marks it seen.
WakeOutcome(c) ==
    /\ pc[c] = "sleepOutcome"
    /\ c \in signal
    /\ signal' = signal \ {c}
    /\ Goto(c, "readOutcome")
    /\ UNCHANGED <<registry, inst, active, outcome, seen, armed, witnessed>>

\* wait_for_generation_release: subscribe to the version, ...
SubscribeRelease(c) ==
    /\ pc[c] = "subRelease"
    /\ signal' = signal \ {c}
    /\ Goto(c, "readActive")
    /\ UNCHANGED <<registry, inst, active, outcome, seen, armed, witnessed>>

\* ... then look whether the observed generation is still the active one.
ReadActive(c) ==
    /\ pc[c] = "readActive"
    /\ \/ /\ active[inst[c]] = seen[c]
          /\ Goto(c, "sleepRelease")
          /\ UNCHANGED signal
       \/ /\ active[inst[c]] # seen[c]
          /\ Goto(c, "observe")
          /\ signal' = signal \ {c}
    /\ UNCHANGED <<registry, inst, active, outcome, seen, armed, witnessed>>

\* active_version.changed()
WakeRelease(c) ==
    /\ pc[c] = "sleepRelease"
    /\ c \in signal
    /\ signal' = signal \ {c}
    /\ Goto(c, "readActive")
    /\ UNCHANGED <<registry, inst, active, outcome, seen, armed, witnessed>>

\* Faulty variant: the slot is filled without looking at it again.
InstallUnchecked(c) ==
    /\ pc[c] = "install"
    /\ active' = [active EXCEPT ![inst[c]] = c]
    /\ armed' = IF c \in Requests THEN armed \cup {c} ELSE armed
    /\ Goto(c, "holding")
    /\ UNCHANGED <<registry, inst, outcome, seen, signal, witnessed>>

\* The slot was empty when observed; it is looked at again under the same lock
\* that fills it. The loser of the race observes afresh.
Install(c) ==
    /\ pc[c] = "install"
    /\ \/ /\ active[inst[c]] = NoCall
          /\ active' = [active EXCEPT ![inst[c]] = c]
          /\ armed' = IF c \in Requests THEN armed \cup {c} ELSE armed
          /\ witnessed' = [d \in Calls |->
                              IF d = c THEN {}
                              ELSE IF pc[d] \in WaitingAt /\ Twins(c, d)
                              THEN witnessed[d] \cup {c} ELSE witnessed[d]]
          /\ Goto(c, "holding")
       \/ /\ active[inst[c]] # NoCall
          /\ Goto(c, "observe")
          /\ UNCHANGED <<active, armed, witnessed>>
    /\ UNCHANGED <<registry, inst, outcome, seen, signal>>

\* The client of a waiting call disconnects: its future is dropped.
Cancel(c) ==
    /\ pc[c] \in WaitingAt
    /\ inst' = [inst EXCEPT ![c] = NoCall]
    /\ Goto(c, "cancelled")
    /\ signal' = signal \ {c}
    /\ seen' = [seen EXCEPT ![c] = NoCall]
    /\ witnessed' = [witnessed EXCEPT ![c] = {}]
    /\ UNCHANGED <<registry, active, outcome, armed>>

----------------------------------------------------------------------------
(* Holding the permit *)

\* Faulty variant: complete() leaves the handle armed, and its drop fails it.
CompleteStillArmed(c) ==
    /\ pc[c] = "holding"
    /\ c \in armed
    /\ Send(c, "complete")
    /\ UNCHANGED <<pc, registry, inst, active, seen, armed, witnessed>>

\* ExplicitReplayHandle::complete. The callers complete before they release.
Complete(c) ==
    /\ pc[c] = "holding"
    /\ c \in armed
    /\ Send(c, "complete")
    /\ armed' = armed \ {c}
    /\ UNCHANGED <<pc, registry, inst, active, seen, witnessed>>

\* ExplicitReplayHandle::fail, and the drop of an armed handle: the operation
\* failed, or the permit was reduced to its guard (into_guard). A cancelled
\* request may drop the handle before or after its guard.
FailReplay(c) ==
    /\ c \in armed
    /\ Send(c, "failed")
    /\ armed' = armed \ {c}
    /\ UNCHANGED <<pc, registry, inst, active, seen, witnessed>>

\* Faulty variant: the drop clears the outcome instead of failing it.
DropGuardOutcomeCleared(c) ==
    /\ pc[c] = "holding"
    /\ Send(c, NoCall)
    /\ Goto(c, "dropping")
    /\ UNCHANGED <<registry, inst, active, seen, armed, witnessed>>

\* ExplicitOperationGuard::drop, first part: an outcome nobody set is Failed.
DropGuardOutcome(c) ==
    /\ pc[c] = "holding"
    /\ \/ outcome[c] = "pending" /\ Send(c, "failed")
       \/ outcome[c] # "pending" /\ UNCHANGED <<outcome, signal>>
    /\ Goto(c, "dropping")
    /\ UNCHANGED <<registry, inst, active, seen, armed, witnessed>>

\* Faulty variant: the slot is emptied without bumping the version.
DropGuardSlotSilent(c) ==
    /\ pc[c] = "dropping"
    /\ active' = [active EXCEPT ![inst[c]] = NoCall]
    /\ inst' = [inst EXCEPT ![c] = NoCall]
    /\ Goto(c, "ended")
    /\ UNCHANGED <<registry, outcome, seen, signal, armed, witnessed>>

\* ExplicitOperationGuard::drop, second part: empty the slot if it still holds
\* this generation, bump the version, and let go of the state.
DropGuardSlot(c) ==
    /\ pc[c] = "dropping"
    /\ \/ /\ active[inst[c]] = c
          /\ active' = [active EXCEPT ![inst[c]] = NoCall]
          /\ Notify(VersionReceivers(inst[c]))
       \/ /\ active[inst[c]] # c
          /\ UNCHANGED <<active, signal>>
    /\ inst' = [inst EXCEPT ![c] = NoCall]
    /\ Goto(c, "ended")
    /\ UNCHANGED <<registry, outcome, seen, armed, witnessed>>

----------------------------------------------------------------------------
WaitStep(c) ==
    \/ Observe(c) \/ Install(c)
    \/ SubscribeOutcome(c) \/ ReadOutcome(c) \/ WakeOutcome(c)
    \/ SubscribeRelease(c) \/ ReadActive(c) \/ WakeRelease(c)

HoldStep(c) == DropGuardOutcome(c) \/ DropGuardSlot(c)

Next ==
    \/ \E c \in Calls : Arrive(c) \/ Cancel(c) \/ WaitStep(c)
    \/ \E c \in Calls : Complete(c) \/ FailReplay(c) \/ HoldStep(c)

Spec == Init /\ [][Next]_vars

\* The runtime polls every task that can run, and every operation ends: the
\* request handler returns, fails or is dropped, and with it its guard.
Fairness == \A c \in Calls : WF_vars(WaitStep(c)) /\ WF_vars(HoldStep(c))

FairSpec == Spec /\ Fairness
----------------------------------------------------------------------------
(* Correctness *)

\* Mutual exclusion. At most one permit with a guard exists for the session at
\* any time, across every StoredOperationState the registry ever made for it
\* and until the guard's drop has emptied the slot.
OneOperation ==
    \A c, d \in Calls : pc[c] \in HoldingAt /\ pc[d] \in HoldingAt => c = d

\* A replayed response is never stale and never somebody else's: it is the
\* complete response of an identical request whose operation was in progress at
\* some moment after the replaying call arrived.
ReplayFromConcurrentTwin ==
    \A c \in Calls : pc[c] = "shared" =>
        /\ seen[c] \in witnessed[c]
        /\ Twins(c, seen[c])
        /\ outcome[seen[c]] = "complete"

\* Once the twins may take a response, neither the handle's drop, nor the
\* guard's, nor a late failure takes it back from those that have not read it.
CompleteIsFinal ==
    [][\A c \in Calls : outcome[c] = "complete" => outcome'[c] = "complete"]_vars

\* No missed wakeup and no lost race leaves a call waiting for ever: every call
\* gets the session or a replay, or its client gives up.
EveryCallResolved ==
    \A c \in Calls : pc[c] \in WaitingAt ~> pc[c] \in HoldingAt \cup DoneAt

\* The lock implements SerialOperations.
StatusOf(l) ==
    CASE l \in WaitingAt -> "waiting"
      [] l \in HoldingAt -> "holding"
      [] OTHER -> l

Serial == INSTANCE SerialOperations WITH
              status <- [c \in Calls |-> StatusOf(pc[c])],
              response <- outcome

RefinesSerial == Serial!SerialSpec
----------------------------------------------------------------------------
(* The inductive invariant behind the safety properties *)

WatchingAt == {"subOutcome", "readOutcome", "sleepOutcome",
               "subRelease", "readActive", "sleepRelease"}

\* A call keeps a state alive exactly while it waits or holds, and all calls in
\* progress keep the one state the registry names.
StateInv == \A c \in Calls :
    /\ inst[c] # NoCall <=> pc[c] \in WaitingAt \cup HoldingAt
    /\ inst[c] # NoCall => inst[c] = registry

\* A slot is filled exactly by the call that holds a permit on that state.
SlotInv ==
    /\ \A i \in Calls : active[i] # NoCall =>
           pc[active[i]] \in HoldingAt /\ inst[active[i]] = i
    /\ \A c \in Calls : pc[c] \in HoldingAt => active[inst[c]] = c

\* A waiting call has witnessed the twin in progress and the twin it watches.
WitnessInv ==
    /\ \A c, g \in Calls :
           pc[c] \in WaitingAt /\ pc[g] \in HoldingAt /\ Twins(c, g)
               => g \in witnessed[c]
    /\ \A c \in Calls : pc[c] \in WatchingAt =>
           seen[c] \in Calls /\ (Twins(c, seen[c]) => seen[c] \in witnessed[c])

\* The outcome is undecided until the operation decides it, a handle that is
\* still armed has not completed, and a dropped guard leaves it decided.
OutcomeInv == \A c \in Calls :
    /\ pc[c] \notin HoldingAt \cup {"ended"} =>
           outcome[c] = "pending" /\ c \notin armed
    /\ pc[c] \in {"dropping", "ended"} => outcome[c] # "pending"
    /\ c \in armed => c \in Requests /\ outcome[c] # "complete"
    /\ c \in armed /\ pc[c] = "holding" => outcome[c] = "pending"

IInv == TypeOK /\ StateInv /\ SlotInv /\ WitnessInv /\ OutcomeInv
        /\ ReplayFromConcurrentTwin
=============================================================================
