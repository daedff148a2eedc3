------------------------------- MODULE MCTrace -------------------------------
(* Traces for TLC: three workers in turn or at once, two
   clients, and a token that recurs. *)
EXTENDS Trace, TLC

Symmetry == Permutations(Workers) \cup Permutations(Clients)
=============================================================================
