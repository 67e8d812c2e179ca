----------------------------- MODULE MCCookiePool -----------------------------
(***************************************************************************)
(* Three Cookies and one affinity key.                                     *)
(***************************************************************************)
EXTENDS CookiePool, TLC

CONSTANTS c1, c2, c3, k1

CookieSymmetry == Permutations({c1, c2, c3})
=============================================================================
