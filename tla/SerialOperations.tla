-------------------------- MODULE SerialOperations --------------------------
(***************************************************************************)
(* What the explicit-operation lock of a session promises its callers,     *)
(* without saying how: operations on one session run one at a time, and a  *)
(* request that waited while an identical request ran may take that        *)
(* request's completed response instead of running itself.                 *)
(*                                                                         *)
(* A "call" is one invocation of lock_explicit_request (the calls in       *)
(* Requests) or of lock_explicit_operation (all other calls), together     *)
(* with the use of the permit it returns.                                  *)
(***************************************************************************)
CONSTANTS
    Calls,        \* every call made on one session
    Requests,     \* the calls of lock_explicit_request, which carry a fingerprint
    Fingerprint   \* Fingerprint[c]: digest of the request that made call c

VARIABLES
    status,       \* where each call stands
    response,     \* what became of the response of the operation a call ran
    witnessed     \* twins that ran at some moment of a call's wait

serialVars == <<status, response, witnessed>>

\* Two distinct requests that may share one response. The operations of
\* lock_explicit_operation have the empty fingerprint, which no digest equals.
Twins(c, d) == /\ {c, d} \subseteq Requests
               /\ c # d
               /\ Fingerprint[c] = Fingerprint[d]

Statuses == {"idle", "waiting", "holding", "ended", "shared", "cancelled"}

SerialTypeOK ==
    /\ status \in [Calls -> Statuses]
    /\ response \in [Calls -> {"pending", "complete", "failed"}]
    /\ witnessed \in [Calls -> SUBSET Calls]

SerialInit ==
    /\ status = [c \in Calls |-> "idle"]
    /\ response = [c \in Calls |-> "pending"]
    /\ witnessed = [c \in Calls |-> {}]

Holders == {c \in Calls : status[c] = "holding"}

\* A call starts to wait. It witnesses the operation in progress.
Arrive(c) ==
    /\ status[c] = "idle"
    /\ status' = [status EXCEPT ![c] = "waiting"]
    /\ witnessed' = [witnessed EXCEPT ![c] = {d \in Holders : Twins(c, d)}]
    /\ UNCHANGED response

\* The session is free and one of the waiting calls gets it.
Grant(c) ==
    /\ status[c] = "waiting"
    /\ Holders = {}
    /\ status' = [status EXCEPT ![c] = "holding"]
    /\ witnessed' = [d \in Calls |->
                        IF d = c THEN {}
                        ELSE IF status[d] = "waiting" /\ Twins(c, d)
                        THEN witnessed[d] \cup {c} ELSE witnessed[d]]
    /\ UNCHANGED response

\* The operation's complete response becomes available to its twins.
Complete(c) ==
    /\ status[c] = "holding"
    /\ c \in Requests
    /\ response[c] = "pending"
    /\ response' = [response EXCEPT ![c] = "complete"]
    /\ UNCHANGED <<status, witnessed>>

\* The operation ends, or is about to end, without a response to share.
Fail(c) ==
    /\ status[c] = "holding"
    /\ response[c] = "pending"
    /\ response' = [response EXCEPT ![c] = "failed"]
    /\ UNCHANGED <<status, witnessed>>

\* The session is free again. By then the operation's twins know its outcome.
End(c) ==
    /\ status[c] = "holding"
    /\ response[c] # "pending"
    /\ status' = [status EXCEPT ![c] = "ended"]
    /\ UNCHANGED <<response, witnessed>>

\* A waiting call takes the complete response of a twin that ran while it waited.
Share(c) ==
    /\ status[c] = "waiting"
    /\ \E d \in witnessed[c] : response[d] = "complete"
    /\ status' = [status EXCEPT ![c] = "shared"]
    /\ UNCHANGED <<response, witnessed>>

\* The client of a waiting call goes away.
Cancel(c) ==
    /\ status[c] = "waiting"
    /\ status' = [status EXCEPT ![c] = "cancelled"]
    /\ witnessed' = [witnessed EXCEPT ![c] = {}]
    /\ UNCHANGED response

SerialNext ==
    \E c \in Calls :
        \/ Arrive(c) \/ Grant(c) \/ Share(c) \/ Cancel(c)
        \/ Complete(c) \/ Fail(c) \/ End(c)

SerialSpec == SerialInit /\ [][SerialNext]_serialVars

\* One operation at a time.
OneHolder == \A c, d \in Calls :
                 status[c] = "holding" /\ status[d] = "holding" => c = d
=============================================================================
