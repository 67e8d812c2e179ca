---------------------------- MODULE MCStatusCache ----------------------------
(* Two gets, and a change while the first of them is fetching.               *)
EXTENDS StatusCache
=============================================================================
