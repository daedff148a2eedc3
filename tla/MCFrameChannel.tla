--------------------------- MODULE MCFrameChannel ---------------------------
(* Small instances of the frame channel for TLC. *)
EXTENDS FrameChannel, TLC

(* Games are interchangeable, and so are extents. *)
GameSymmetry == Permutations(Layers)
ShapeSymmetry == Permutations(Layers) \cup Permutations(Extents)
=============================================================================
