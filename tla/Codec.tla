------------------------------- MODULE Codec --------------------------------
(***************************************************************************)
(* The codec: a source picture of any extent is fitted into the extent of  *)
(* a network's tier, its samples go to the network and what the network    *)
(* answers comes back as binary16.  One sample follows a frame here, as    *)
(* the bits of a float's magnitude: the code keeps the sign as it is, and  *)
(* bilinear filtering, at a texel's centre, is the texel.                  *)
(***************************************************************************)
EXTENDS Integers

CONSTANTS
  Sources,             \* extents and tiers asked for: [width, height, tier]
  SourceSamples(_),    \* the binary16 samples of a source's pictures
  Answers(_)           \* the floats the network may answer for it

MaxSource == 16384

-----------------------------------------------------------------------------
(* Geometry.                                                               *)

(* The tiers, from the smallest: a 16:9 viewport, and below it the padding up
   to the network's height. *)
NativeTiers ==
  <<[width |-> 1280, height |-> 720, networkHeight |-> 768],
    [width |-> 1600, height |-> 900, networkHeight |-> 960],
    [width |-> 1920, height |-> 1080, networkHeight |-> 1152]>>

Holds(tier, s) == s.width <= tier.width /\ s.height <= tier.height

(* The automatic tier is the smallest that holds the source, else the largest. *)
Automatic(s) ==
  IF Holds(NativeTiers[1], s) THEN NativeTiers[1]
  ELSE IF Holds(NativeTiers[2], s) THEN NativeTiers[2] ELSE NativeTiers[3]

Tier(s) == IF s.tier = 0 THEN Automatic(s) ELSE CHOOSE t \in {NativeTiers[i] : i \in 1 .. 3} : t.height = s.tier

(* What geometry() refuses. *)
Refused(s) ==
  \/ s.width \notin 1 .. MaxSource \/ s.height \notin 1 .. MaxSource
  \/ s.tier \notin {0} \cup {NativeTiers[i].height : i \in 1 .. 3}

Rounded(a, b) == (a + b \div 2) \div b

BuggyAtLeastOne(n) == n
AtLeastOne(n) == IF n = 0 THEN 1 ELSE n

(* The extent of s, fitted into w by h: the full width, or the full height. *)
FitWidth(s, w, h) == AtLeastOne(IF s.width * h >= s.height * w THEN w ELSE Rounded(s.width * h, s.height))
FitHeight(s, w, h) == AtLeastOne(IF s.width * h >= s.height * w THEN Rounded(s.height * w, s.width) ELSE h)

Geometry(s) ==
  LET tier == Tier(s)
      fw == FitWidth(s, tier.width, tier.height)
      fh == FitHeight(s, tier.width, tier.height)
  IN [source_width |-> s.width, source_height |-> s.height,
      width |-> tier.width, height |-> tier.networkHeight, valid_height |-> tier.height,
      x |-> (tier.width - fw) \div 2, y |-> (tier.height - fh) \div 2, fit_width |-> fw, fit_height |-> fh]

(* validate(): g is the geometry of its source in the tier it names. *)
Valid(g) ==
  LET s == [width |-> g.source_width, height |-> g.source_height, tier |-> g.valid_height]
  IN ~Refused(s) /\ g = Geometry(s)

(* fits(), as unsigned numbers have it. *)
Fits(g) ==
  /\ g.fit_width > 0 /\ g.fit_height > 0
  /\ g.x \in 0 .. g.width - 1 /\ g.y \in 0 .. g.height - 1
  /\ g.fit_width <= g.width - g.x /\ g.fit_height <= g.height - g.y

(* The viewport row that a row shows: the padding reflects it. *)
CodecRow(g, y) == IF y < g.valid_height THEN y ELSE 2 * g.valid_height - 2 - y

-----------------------------------------------------------------------------
(* Samples: the bits of a float's magnitude, and of a binary16's.          *)

Infinity == 255 * 2^23        \* 0x7f800000
Overflow == 143 * 2^23 - 2^12 \* 0x477ff000: from here on, past binary16
Normal == 113 * 2^23          \* 0x38800000: binary16's smallest normal
Finite(m) == m < Infinity

Log(k) == CHOOSE l \in 0 .. 23 : 2^l <= k /\ k < 2^(l + 1)

(* k * 2^e, for a small k. *)
FloatOf(k, e) == IF k = 0 THEN 0 ELSE (127 + e + Log(k)) * 2^23 + (k - 2^Log(k)) * 2^(23 - Log(k))

(* low, or low + 1 if the fraction n / d asks for it: to nearest, ties to even. *)
BuggyNearest(low, n, d) == IF 2 * n >= d THEN low + 1 ELSE low
Nearest(low, n, d) == IF 2 * n > d \/ (2 * n = d /\ low % 2 = 1) THEN low + 1 ELSE low

(* A binary16 subnormal is a multiple of 2^-24: the nearest, of m. *)
Multiple(m) ==
  LET exponent == IF m < 2^23 THEN 1 ELSE m \div 2^23
      significand == IF m < 2^23 THEN m ELSE 2^23 + (m % 2^23)
      shift == IF 126 - exponent > 30 THEN 30 ELSE 126 - exponent
  IN Nearest(significand \div 2^shift, significand % 2^shift, 2^shift)

HalfRound(m) ==
  IF m >= Infinity THEN m
  ELSE IF m >= Overflow THEN Infinity
  ELSE IF m < Normal THEN FloatOf(Multiple(m), -24)
  ELSE ((m + 4095 + ((m \div 2^13) % 2)) \div 2^13) * 2^13

UnpackHalf(h) ==
  LET exponent == (h \div 2^10) % 32
      fraction == h % 2^10
  IN IF exponent = 0 THEN FloatOf(fraction, -24)
     ELSE (IF exponent = 31 THEN 255 ELSE exponent + 112) * 2^23 + fraction * 2^13

PackHalf(m) ==
  LET rounded == HalfRound(m)
  IN IF rounded < Normal THEN Multiple(rounded) ELSE rounded \div 2^13 - 112 * 2^10

-----------------------------------------------------------------------------
(* A frame.                                                                *)

VARIABLES
  stage,    \* "fit", "encode", "infer", "answered"; "fed" or "decoded"; or "rejected"
  source,   \* the source's extent and the tier asked for
  g,        \* its geometry, or NoGeometry
  sample,   \* the sample: a binary16 when decoded, else a float
  read      \* the sample before the last step

vars == <<stage, source, g, sample, read>>
NoGeometry == [width |-> 0]

Init ==
  /\ stage = "fit" /\ source \in Sources
  /\ g = NoGeometry /\ sample = 0 /\ read = 0

Reject == stage' = "rejected" /\ sample' = 0 /\ read' = 0

Fit ==
  /\ stage = "fit"
  /\ IF Refused(source) THEN stage' = "rejected" /\ g' = g ELSE stage' = "encode" /\ g' = Geometry(source)
  /\ UNCHANGED <<source, sample, read>>

(* encode_proxy. *)
Encode ==
  /\ stage = "encode"
  /\ \E h \in SourceSamples(source) :
       IF ~Finite(UnpackHalf(h)) THEN Reject
       ELSE stage' = "infer" /\ sample' = HalfRound(UnpackHalf(h)) /\ read' = h
  /\ UNCHANGED <<source, g>>

(* The network. *)
Infer ==
  /\ stage = "infer"
  /\ sample' \in Answers(source)
  /\ stage' = "answered" /\ read' = 0
  /\ UNCHANGED <<source, g>>

(* feedback_neural_rgb in 16-bit precision: the next pass's input. *)
Feedback ==
  /\ stage = "answered"
  /\ IF ~Finite(HalfRound(sample)) THEN Reject
     ELSE stage' = "fed" /\ sample' = HalfRound(sample) /\ read' = sample
  /\ UNCHANGED <<source, g>>

(* decode_neural_proxy. *)
Decode ==
  /\ stage = "answered"
  /\ IF ~Finite(HalfRound(sample)) THEN Reject
     ELSE stage' = "decoded" /\ sample' = PackHalf(HalfRound(sample)) /\ read' = sample
  /\ UNCHANGED <<source, g>>

(* The frame, or the pass, is over. *)
Over == stage \in {"fed", "decoded", "rejected"} /\ UNCHANGED vars

Next == Fit \/ Encode \/ Infer \/ Feedback \/ Decode \/ Over

Spec == Init /\ [][Next]_vars

-----------------------------------------------------------------------------
(* n pixels are a / d, to within half a pixel, or the least there is. *)
IsAspect(n, a, d) == n = 1 \/ (2 * (n * d - a) <= d /\ 2 * (a - n * d) <= d)

(* What a geometry has to be, of whatever source. *)
IsPicture(p) ==
  /\ Fits(p) /\ Valid(p)
  /\ p.y + p.fit_height <= p.valid_height
  /\ \/ p.fit_width = p.width /\ IsAspect(p.fit_height, p.width * p.source_height, p.source_width)
     \/ p.fit_height = p.valid_height /\ IsAspect(p.fit_width, p.valid_height * p.source_width, p.source_height)
  /\ (p.width - p.fit_width) - 2 * p.x \in {0, 1}
  /\ (p.valid_height - p.fit_height) - 2 * p.y \in {0, 1}
  /\ \A y \in p.valid_height .. p.height - 1 : CodecRow(p, y) \in 0 .. p.valid_height - 1

(* Every picture is fitted: nonempty, inside the viewport, in its middle, over
   all its width or all its height, its aspect kept to within half a pixel
   wherever that leaves it a pixel; validate() takes it in the tier it got; and
   the padding below reflects rows of the viewport (geometry, validate, fits,
   codec_row). *)
PictureFits == [][g' # g => IsPicture(g')]_g

(* Between h and the next binary16. *)
Middle(h) == IF h < 2^10 THEN FloatOf(2 * h + 1, -25) ELSE UnpackHalf(h) + 2^12

IsNearest(h, m) ==
  /\ h < 31 * 2^10
  /\ m < Middle(h) \/ (m = Middle(h) /\ h % 2 = 0)
  /\ h > 0 => m > Middle(h - 1) \/ (m = Middle(h - 1) /\ h % 2 = 0)

(* A frame's samples are finite binary16, and the nearest: a source's samples
   reach the network as they are, and what is fed back or decoded is the
   nearest to what the network answered, ties to even, from the subnormals to
   the greatest (half_round, unpack_half, pack_half). *)
HalvesAreNearest ==
  /\ stage = "infer" => sample = UnpackHalf(read) /\ PackHalf(sample) = read
  /\ stage = "fed" => IsNearest(PackHalf(sample), read) /\ UnpackHalf(PackHalf(sample)) = sample
  /\ stage = "decoded" => IsNearest(sample, read)
=============================================================================
