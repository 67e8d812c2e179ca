--------------------------- MODULE MCStagedFiles ---------------------------
(* Instances of StagedFiles for TLC. *)
EXTENDS StagedFiles, TLC

CONSTANTS f1, f2, s1, s2, none

OneSession == {s1}
TwoSessions == {s1, s2}
OneFile == {f1}
TwoFiles == {f1, f2}
Symmetric == Permutations({f1, f2}) \cup Permutations({s1, s2})
=============================================================================
