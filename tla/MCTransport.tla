---------------------------- MODULE MCTransport ----------------------------
(* Small instances of the device-local transport for TLC. *)
EXTENDS Transport, TLC

(* The games' devices are interchangeable where no property names one. *)
Symmetry == Permutations(Layers)
=============================================================================
