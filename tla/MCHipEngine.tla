---------------------------- MODULE MCHipEngine ----------------------------
(* A small instance of the HIP engine for TLC. *)
EXTENDS HipFrames

(* With motion, every combination of stages and passes; and one at a time, *)
(* what else a history depends on.                                         *)
Plain == [motion |-> TRUE, tuned |-> FALSE, colored |-> FALSE, look |-> 1, passes |-> 1, shape |-> 1, place |-> 1]
MCSettings ==
  {[Plain EXCEPT !.tuned = t, !.colored = c, !.passes = p] : t \in BOOLEAN, c \in BOOLEAN, p \in 1 .. 2}
  \cup {[Plain EXCEPT !.look = 2], [Plain EXCEPT !.shape = 2], [Plain EXCEPT !.place = 2]}
  \cup {[Plain EXCEPT !.motion = FALSE, !.tuned = t, !.colored = t, !.passes = 2] : t \in BOOLEAN}

-----------------------------------------------------------------------------
(* Extents about every boundary of geometry(); the binary16 about every power
   of two, and a stretch of the subnormals and of the normals next to them; and
   the floats on and beside the middle between each and the next. *)
Edges == {0, 1, 2, 719, 720, 721, 900, 901, 1080, 1081, 1279, 1280, 1281, 1600, 1601, 1920, 1921, 9103, 16383, 16384, 16385}
MCSources == [width : Edges, height : Edges, tier : {0, 720, 768, 900, 1080}]

Encoded16 == [width |-> 1280, height |-> 720, tier |-> 0]
Decoded16 == [width |-> 1920, height |-> 1080, tier |-> 0]
MCServed == {[width |-> 1600, height |-> 900, tier |-> 0]}
Halves == 0 .. 2^6 \cup 1000 .. 1060 \cup {e * 2^10 + d - 3 : e \in 1 .. 31, d \in 0 .. 2} \cup {e * 2^10 + d : e \in 0 .. 30, d \in 0 .. 2}

MCSourceSamples(s) ==
  IF s = Encoded16 THEN Halves \cup {31 * 2^10, 31 * 2^10 + 1} ELSE IF s \in MCServed THEN {} ELSE {0}
MCAnswers(s) ==
  IF s # Decoded16 THEN {0}
  ELSE {Picture!UnpackHalf(h) : h \in Halves} \cup {Picture!Infinity - 1 + i : i \in 0 .. 2}
       \cup UNION {{Picture!Middle(h) - 1, Picture!Middle(h), Picture!Middle(h) + 1} : h \in Halves}
=============================================================================
