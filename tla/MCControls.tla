----------------------------- MODULE MCControls -----------------------------
(* Two settings: a switch, and one that retunes the network. *)
EXTENDS Controls, TLC

MCSettings == {1, 2}
MCTuning == {2}
MCSwitch == 1
Symmetry == Permutations(Controllers)
=============================================================================
