----------------------------- MODULE MCCodeClient -----------------------------
(* Instances of CodeClient with tasks that are interchangeable.  *)
EXTENDS CodeClient, TLC
CONSTANTS c1, session, sonnet

Symmetry == Permutations(Tasks)
=============================================================================
