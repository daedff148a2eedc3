----------------------------- MODULE HipFrames ------------------------------
(***************************************************************************)
(* The HIP engine's frames with the codec's: the picture of a source is    *)
(* fitted before the engine sees it; then the codec's module follows one   *)
(* of its samples, or, for a source in Served, the engine's follows its    *)
(* buffers.                                                                *)
(***************************************************************************)
EXTENDS HipEngine

CONSTANTS Sources, SourceSamples(_), Answers(_), Served

(* A binary16's magnitude has 15 bits. *)
ASSUME SampleAssumption ==
  \A s \in Sources : SourceSamples(s) \subseteq 0 .. 2^15 - 1 /\ Answers(s) \subseteq Nat

VARIABLES stage, source, g, sample, read

picture == <<stage, source, g, sample, read>>

Picture == INSTANCE Codec

FramesInit == Init /\ Picture!Init

PictureStep == Picture!Next /\ UNCHANGED vars
EngineStep == source \in Served /\ stage = "encode" /\ Next /\ UNCHANGED picture
FramesNext == PictureStep \/ EngineStep

FramesSpec == FramesInit /\ [][FramesNext]_<<vars, picture>>

(* The codec's properties, of these frames: see Codec.tla. *)
PictureFits == Picture!PictureFits
HalvesAreNearest == Picture!HalvesAreNearest
=============================================================================
