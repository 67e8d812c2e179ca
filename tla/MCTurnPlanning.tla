---------------------------- MODULE MCTurnPlanning ----------------------------
(* An instance of TurnPlanning with interchangeable messages, and one of     *)
(* MessageContent with interchangeable payloads.  They share no variable and *)
(* no property, so that a behaviour takes the steps of one of them only.     *)
EXTENDS TurnPlanning, MessageContent, TLC
CONSTANTS a, b

MCInit == Init /\ InitContent

MCNext ==
    \/ asked = <<>> /\ Next /\ UNCHANGED contentVars
    \/ session = NoSession /\ nodes = <<>> /\ NextContent /\ UNCHANGED vars

MCSpec == MCInit /\ [][MCNext]_<<vars, contentVars>>

Symmetry == Permutations(Users) \cup Permutations(Assistants) \cup Permutations(Values)
=============================================================================
