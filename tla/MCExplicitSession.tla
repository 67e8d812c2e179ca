-------------------------- MODULE MCExplicitSession --------------------------
(***************************************************************************)
(* Three requests and one reset on a session, of which each run takes      *)
(* some. r1 and r2 are identical and streaming, r3 differs and is not.     *)
(***************************************************************************)
EXTENDS ExplicitSession, TLC

CONSTANTS r1, r2, r3, x1

MCDigest == [r \in Requests |-> IF r = r3 THEN "b" ELSE "a"]
MCStreaming == Requests \ {r3}
Symmetry == Permutations({r1, r2})
=============================================================================
