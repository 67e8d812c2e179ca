--------------------------- MODULE MCImplicitChat ---------------------------
(* Instances of ImplicitChat: requests that grow, branch and differ inside  *)
(* a turn of several messages.                                              *)
EXTENDS ImplicitChat, TLC
CONSTANTS c1, u, v, w

MCRequests == {<<u>>, <<u, v, v>>, <<u, v, w>>}
MCBranches == {<<u>>, <<u, v>>, <<u, w>>, <<u, v, w, v>>}

MCAccounts == {<<c1, FALSE>>, <<c1, TRUE>>}
MCOneAccount == {<<c1, FALSE>>}

Symmetry == Permutations(Tasks)
=============================================================================
