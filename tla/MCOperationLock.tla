--------------------------- MODULE MCOperationLock ---------------------------
(***************************************************************************)
(* A session that two identical requests, a1 and a2, and one lock_explicit_ *)
(* operation call (a reset or a file download), x1, compete for.  Three    *)
(* calls are the fewest for a newcomer to take the slot between the end of *)
(* one operation and the wakeup of its twin.  To a call of the other kind  *)
(* a request with another digest is no different: neither replays it.      *)
(***************************************************************************)
EXTENDS OperationLock

CONSTANTS a1, a2, x1

MCCalls == {a1, a2, x1}
MCRequests == {a1, a2}
MCFingerprint == [c \in MCRequests |-> "a"]
=============================================================================
