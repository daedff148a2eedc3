--------------------------- MODULE CapturesProofs ---------------------------
(***************************************************************************)
(* The safety of Captures, for any number of controllers, generations,     *)
(* frames and faults.                                                      *)
(***************************************************************************)
EXTENDS Captures, TLAPS

(* A batch's pairs and what is left of it are never more than was asked. *)
BatchFits == Len(pairs) + capture.frames <= MaxCapture

(* A frame begins with the last leg 2 collected, and no capture is newer   *)
(* than the frame under way.                                               *)
InFrame ==
  /\ fs <= controlSeq /\ capture.control <= controlSeq
  /\ lpc # "out" => ~leg2Pending /\ capture.control <= fs

(* While a pair waits, the settings beside it are its frame's; while one   *)
(* is recorded and not submitted, they are those of the frame under way.   *)
PairWaits ==
  /\ leg2Pending /\ captureRecorded => captureBuf = captureMetadata /\ capture.control <= captureMetadata
  /\ lpc = "composed" /\ captureRecorded => captureMetadata = fs

(* A request is somewhere once: to be stored, in the header, or taken. *)
Stored(c) == asking[c] # NoRequest
RequestsOnce ==
  /\ captureRequest = NoRequest \/ captureRequest.frames > 0
  /\ captureRequest.control <= controlSeq
  /\ \A c \in Controllers : Stored(c) =>
       /\ 0 < asking[c].control /\ asking[c].control <= controlSeq
       /\ asking[c].control # captureRequest.control
       /\ \A d \in Controllers : d # c /\ Stored(d) => asking[d].control # asking[c].control
       /\ \A i \in DOMAIN taken : taken[i].asked # asking[c].control
  /\ \A i \in DOMAIN taken : taken[i].asked <= controlSeq
  /\ captureRequest.frames > 0 => \A i \in DOMAIN taken : taken[i].asked # captureRequest.control

IInv ==
  /\ TypeOK /\ BatchFits /\ InFrame /\ PairWaits /\ RequestsOnce
  /\ PairsMatchFrames /\ OneRunPerRequest /\ NoPairLeftWaiting
-----------------------------------------------------------------------------
(* Types, and how many pairs a batch has.                                  *)

Sound == TypeOK /\ BatchFits

(* One pair more: the batch grows by what it had left. *)
LEMMA Growing ==
  ASSUME NEW T, NEW s \in Seq(T), NEW e \in T
  PROVE  /\ Append(s, e) \in Seq(T) /\ Len(s) \in Nat /\ Len(Append(s, e)) = Len(s) + 1
         /\ \A i \in DOMAIN Append(s, e) :
              \/ i \in DOMAIN s /\ Append(s, e)[i] = s[i]
              \/ i = Len(s) + 1 /\ Append(s, e)[i] = e
OBVIOUS

(* What a sequence holds. *)
LEMMA Holding ==
  ASSUME NEW T, NEW s \in Seq(T)
  PROVE  \A i \in DOMAIN s : s[i] \in T
OBVIOUS

Pair == [pixels : Generations, metadata : Generations]

(* Collecting leg 2 keeps the types of what it changes. *)
LEMMA CollectingTypes ==
  ASSUME Sound, NEW buf \in Generations, CollectLeg2(buf)
  PROVE  /\ {leg2Pending', captureRecorded', waitFailed'} \subseteq BOOLEAN
         /\ capture' \in Requests /\ pairs' \in Seq(Pair)
         /\ Len(pairs') + capture'.frames <= MaxCapture
         /\ faults' \in 0 .. MaxFaults
<1>1. MaxGenerations \in Nat /\ MaxCapture \in Nat /\ MaxFaults \in Nat
  BY BoundAssumption
<1>2. pairs \in Seq(Pair) /\ Len(pairs) \in Nat /\ capture \in Requests /\ capture.frames \in 0 .. MaxCapture
  BY DEF Sound, TypeOK, Pair, Requests
<1>3. CASE Fault /\ waitFailed' = TRUE /\ leg2Pending' = TRUE /\ UNCHANGED <<captureRecorded, capture, pairs>>
  BY <1>1, <1>2, <1>3 DEF Sound, TypeOK, BatchFits, Fault
<1>4. CASE waitFailed' = FALSE /\ leg2Pending' = FALSE /\ captureRecorded' = FALSE /\ UNCHANGED <<capture, pairs, faults>>
  BY <1>1, <1>2, <1>4 DEF Sound, TypeOK, BatchFits
<1>5. CASE /\ waitFailed' = FALSE /\ leg2Pending' = FALSE /\ captureRecorded' = FALSE
           /\ capture.frames > 0 /\ WriteFrame(buf)
  <2>0. {leg2Pending', captureRecorded', waitFailed'} \subseteq BOOLEAN
    BY <1>5
  <2>2. CASE Fault /\ capture' = [capture EXCEPT !.frames = 0] /\ UNCHANGED pairs
    <3>1. capture' \in Requests /\ capture'.frames = 0
      BY <1>1, <1>2, <2>2 DEF Requests
    <3>2. faults' \in 0 .. MaxFaults
      BY <1>1, <2>2 DEF Sound, TypeOK, Fault
    <3> QED
      BY <1>1, <1>2, <2>0, <2>2, <3>1, <3>2 DEF Sound, TypeOK, BatchFits
  <2>3. CASE /\ pairs' = Append(pairs, [pixels |-> buf, metadata |-> captureMetadata])
             /\ capture' = [capture EXCEPT !.frames = @ - 1]
             /\ UNCHANGED faults
    <3>1. [pixels |-> buf, metadata |-> captureMetadata] \in Pair
      BY DEF Pair, Sound, TypeOK
    <3>2. pairs' \in Seq(Pair) /\ Len(pairs') = Len(pairs) + 1
      BY <1>2, <2>3, <3>1, Growing
    <3>3. capture' \in Requests /\ capture'.frames = capture.frames - 1
      BY <1>1, <1>2, <1>5, <2>3, SMTT(60) DEF Requests
    <3> QED
      BY <1>1, <1>2, <2>0, <2>3, <3>2, <3>3 DEF Sound, TypeOK, BatchFits
  <2> QED
    BY <1>5, <2>2, <2>3 DEF WriteFrame
<1> QED
  BY <1>3, <1>4, <1>5 DEF CollectLeg2, WriteCapturedFrame

(* A batch that fits has no more pairs than were asked for. *)
LEMMA FewPairs ==
  ASSUME NEW c \in Requests, NEW s \in Seq(Pair), Len(s) + c.frames <= MaxCapture
  PROVE  Len(s) <= MaxCapture
<1>1. MaxCapture \in Nat /\ c.frames \in Nat /\ Len(s) \in Nat
  BY BoundAssumption DEF Requests
<1> QED
  BY <1>1

(* So does beginning a batch. *)
LEMMA BeginningTypes ==
  ASSUME Sound, NEW n \in 0 .. MaxCapture, Begin(n)
  PROVE  /\ capture' \in Requests /\ pairs' \in Seq(Pair)
         /\ Len(pairs') + capture'.frames <= MaxCapture
         /\ faults' \in 0 .. MaxFaults
<1>1. MaxGenerations \in Nat /\ MaxCapture \in Nat /\ MaxFaults \in Nat
  BY BoundAssumption
<1>2. pairs \in Seq(Pair) /\ Len(pairs) \in Nat /\ capture \in Requests /\ fs \in Generations
  BY DEF Sound, TypeOK, Pair
<1>3. CASE Fault /\ capture' = [capture EXCEPT !.frames = 0] /\ UNCHANGED pairs
  <2>1. capture' \in Requests /\ capture'.frames = 0
    BY <1>1, <1>2, <1>3 DEF Requests
  <2>2. faults' \in 0 .. MaxFaults
    BY <1>1, <1>3 DEF Sound, TypeOK, Fault
  <2> QED
    BY <1>1, <1>2, <1>3, <2>1, <2>2 DEF Sound, TypeOK
<1>4. CASE capture' = [control |-> fs, frames |-> n] /\ pairs' = <<>> /\ UNCHANGED faults
  <2>1. capture' \in Requests /\ capture'.frames = n
    BY <1>1, <1>2, <1>4 DEF Requests
  <2>2. pairs' \in Seq(Pair) /\ Len(pairs') = 0
    BY <1>4
  <2> QED
    BY <1>1, <1>4, <2>1, <2>2 DEF Sound, TypeOK
<1> QED
  BY <1>3, <1>4 DEF Begin

(* The captures begun are noted with both generations. *)
LEMMA TakingTypes ==
  ASSUME Sound, BeginRequested
  PROVE  /\ capture' \in Requests /\ pairs' \in Seq(Pair)
         /\ Len(pairs') + capture'.frames <= MaxCapture
         /\ faults' \in 0 .. MaxFaults
         /\ taken' \in Seq([asked : Generations, under : Generations])
<1>1. captureRequest \in Requests /\ fs \in Generations /\ taken \in Seq([asked : Generations, under : Generations])
  BY DEF Sound, TypeOK
<1>2. CASE captureRequest.frames > 0
  <2>1. captureRequest.frames \in 0 .. MaxCapture /\ captureRequest.control \in Generations
    BY <1>1 DEF Requests
  <2>2. [asked |-> captureRequest.control, under |-> fs] \in [asked : Generations, under : Generations]
    BY <1>1, <2>1
  <2>3. taken' = Append(taken, [asked |-> captureRequest.control, under |-> fs]) /\ Begin(captureRequest.frames)
    BY <1>2 DEF BeginRequested
  <2>4. taken' \in Seq([asked : Generations, under : Generations])
    BY <1>1, <2>2, <2>3
  <2> QED
    BY <2>1, <2>3, <2>4, BeginningTypes
<1>3. CASE ~(captureRequest.frames > 0)
  BY <1>1, <1>3 DEF BeginRequested, Sound, TypeOK, BatchFits, Pair
<1> QED
  BY <1>2, <1>3

(* Every step keeps the types and the size of a batch. *)
LEMMA SoundKept ==
  ASSUME Sound, [Next]_vars
  PROVE  Sound'
<1> USE DEF Sound, TypeOK, BatchFits
<1>0. MaxGenerations \in Nat /\ MaxCapture \in Nat /\ MaxFaults \in Nat
  BY BoundAssumption
<1>1. ASSUME NEW c \in Controllers, Publish(c) PROVE Sound'
  <2>1. controlSeq' \in Generations /\ controlSeq' = controlSeq + 1
    BY <1>0, <1>1 DEF Publish, Generations
  <2>2. asking' \in [Controllers -> Requests]
    <3>1. \A n \in 0 .. MaxCapture : [control |-> controlSeq + 1, frames |-> n] \in Requests
      BY <2>1 DEF Requests
    <3> QED
      BY <1>1, <3>1 DEF Publish
  <2> QED
    BY <1>1, <2>1, <2>2 DEF Publish, header, composition
<1>2. ASSUME NEW c \in Controllers, AskCapture(c) PROVE Sound'
  <2>1. NoRequest \in Requests
    BY <1>0 DEF NoRequest, Requests, Generations
  <2>2. captureRequest' \in Requests /\ asking' \in [Controllers -> Requests]
    BY <1>2, <2>1 DEF AskCapture
  <2> QED
    BY <1>2, <2>2 DEF AskCapture, composition
<1>3. ASSUME BeginFrame PROVE Sound'
  <2>0. 0 \in Generations /\ captureBuf \in Generations
    BY <1>0 DEF Generations
  <2>1. fs' \in Generations /\ lpc' \in {"out", "reading", "taking", "composing", "composed"}
    BY <1>3 DEF BeginFrame, StartFrame
  <2>2. /\ {leg2Pending', captureRecorded', waitFailed'} \subseteq BOOLEAN
        /\ capture' \in Requests /\ pairs' \in Seq(Pair)
        /\ Len(pairs') + capture'.frames <= MaxCapture
        /\ faults' \in 0 .. MaxFaults
    <3>1. CASE CollectLeg2(captureBuf)
      BY <2>0, <3>1, CollectingTypes
    <3>2. CASE NothingPending
      BY <3>2 DEF NothingPending, Pair
    <3> QED
      BY <1>3, <3>1, <3>2 DEF BeginFrame
  <2> QED
    BY <1>0, <1>3, <2>1, <2>2, FewPairs DEF BeginFrame, header, Pair
<1>4. ASSUME GiveUp PROVE Sound'
  <2>1. fs' \in Generations /\ lpc' = "out"
    BY <1>0, <1>4 DEF GiveUp, EndFrame, Generations
  <2>2. faults' \in 0 .. MaxFaults
    BY <1>0, <1>4 DEF GiveUp, Fault
  <2> QED
    BY <1>4, <2>1, <2>2 DEF GiveUp, header, composition
<1>5. ASSUME CheckCapture PROVE Sound'
  BY <1>5 DEF CheckCapture, header, composition
<1>6. ASSUME TakeCapture PROVE Sound'
  <2>1. NoRequest \in Requests
    BY <1>0 DEF NoRequest, Requests, Generations
  <2> QED
    <3>1. BeginRequested
      BY <1>6 DEF TakeCapture
    <3>2. /\ capture' \in Requests /\ pairs' \in Seq(Pair)
          /\ Len(pairs') + capture'.frames <= MaxCapture
          /\ faults' \in 0 .. MaxFaults
          /\ taken' \in Seq([asked : Generations, under : Generations])
      BY <3>1, TakingTypes
    <3>3. Len(pairs') <= MaxCapture
      BY <3>2, FewPairs
    <3>4. /\ captureRequest' \in Requests /\ lpc' \in {"out", "reading", "taking", "composing", "composed"}
          /\ UNCHANGED <<controlSeq, asking, fs, captureMetadata, captureBuf, leg2Pending, captureRecorded, waitFailed>>
      BY <1>6, <2>1 DEF TakeCapture
    <3> QED
      BY <3>2, <3>3, <3>4 DEF Pair
<1>7. ASSUME RecordCompose PROVE Sound'
  <2>1. faults' \in 0 .. MaxFaults
    BY <1>0, <1>7 DEF RecordCompose, Fault
  <2>2. captureRecorded' \in BOOLEAN
    <3>1. CASE captureRecorded' = (capture.frames > 0)
      BY <3>1
    <3>2. CASE captureRecorded' = FALSE
      BY <3>2
    <3> QED
      BY <1>7, <3>1, <3>2 DEF RecordCompose
  <2>3. captureMetadata' \in Generations
    BY <1>7 DEF RecordCompose, NoteSettings
  <2> QED
    BY <1>7, <2>1, <2>2, <2>3 DEF RecordCompose, header
<1>8. ASSUME Submit PROVE Sound'
  <2>0. 0 \in Generations
    BY <1>0 DEF Generations
  <2>1. captureBuf' \in Generations
    BY <1>8 DEF Submit, SubmitFailed, Copied
  <2>2. /\ {leg2Pending', captureRecorded', waitFailed'} \subseteq BOOLEAN
        /\ capture' \in Requests /\ pairs' \in Seq(Pair)
        /\ Len(pairs') + capture'.frames <= MaxCapture
        /\ faults' \in 0 .. MaxFaults
    <3>1. CASE CollectLeg2(captureBuf')
      BY <2>1, <3>1, CollectingTypes
    <3>2. CASE LeaveLeg2
      BY <3>2 DEF LeaveLeg2, Pair
    <3>3. CASE SubmitFailed
      BY <1>0, <3>3 DEF SubmitFailed, Fault, Pair
    <3> QED
      BY <1>8, <3>1, <3>2, <3>3 DEF Submit
  <2> QED
    BY <1>0, <1>8, <2>0, <2>1, <2>2, FewPairs DEF Submit, EndFrame, header, Pair
<1>9. ASSUME Recreate PROVE Sound'
  <2>1. capture' \in Requests /\ capture'.frames = 0
    BY <1>0, <1>9 DEF Recreate, NoRequest, Requests, Generations
  <2>2. pairs' \in Seq(Pair) /\ Len(pairs') = 0 /\ 0 \in Generations
    BY <1>0, <1>9 DEF Recreate, Generations
  <2> QED
    <3>1. {leg2Pending', captureRecorded', waitFailed'} \subseteq BOOLEAN
      BY <1>9 DEF Recreate
    <3>2. {fs', captureMetadata', captureBuf'} \subseteq Generations
      BY <1>9, <2>2 DEF Recreate
    <3> QED
      BY <1>0, <1>9, <2>1, <2>2, <3>1, <3>2 DEF Recreate, header, Pair
<1>10. CASE UNCHANGED vars
  BY <1>10 DEF vars, header, composition
<1> QED
  BY <1>1, <1>2, <1>3, <1>4, <1>5, <1>6, <1>7, <1>8, <1>9, <1>10 DEF Next, FrameStep

-----------------------------------------------------------------------------
(* Requests.                                                               *)

RequestPlaces == <<controlSeq, captureRequest, asking, taken>>

(* A request moves from a controller to the header, and from there to a    *)
(* capture, and every step keeps it in one place.                          *)
LEMMA RequestsKept ==
  ASSUME Sound, RequestsOnce, OneRunPerRequest, [Next]_vars
  PROVE  RequestsOnce' /\ OneRunPerRequest'
<1>0. /\ controlSeq \in Nat /\ captureRequest \in Requests /\ captureRequest.control \in Nat
      /\ captureRequest.frames \in Nat
      /\ asking \in [Controllers -> Requests]
      /\ \A c \in Controllers : asking[c].control \in Nat /\ asking[c].frames \in Nat
      /\ taken \in Seq([asked : Generations, under : Generations])
      /\ \A i \in DOMAIN taken : taken[i].asked \in Nat
  <2>1. Generations \subseteq Nat
    BY BoundAssumption DEF Generations
  <2>2. 0 .. MaxCapture \subseteq Nat
    BY BoundAssumption
  <2>3. \A r \in Requests : r.control \in Nat /\ r.frames \in Nat
    BY <2>1, <2>2 DEF Requests
  <2>4. taken \in Seq([asked : Generations, under : Generations])
    BY DEF Sound, TypeOK
  <2>5. \A i \in DOMAIN taken : taken[i] \in [asked : Generations, under : Generations]
    BY <2>4, Holding
  <2> QED
    BY <2>1, <2>3, <2>4, <2>5 DEF Sound, TypeOK
<1>1. ASSUME NEW c \in Controllers, Publish(c) PROVE RequestsOnce' /\ OneRunPerRequest'
  <2>1. controlSeq' = controlSeq + 1 /\ UNCHANGED <<captureRequest, taken>>
    BY <1>1 DEF Publish
  <2>2. CASE UNCHANGED asking
    BY <1>0, <2>1, <2>2 DEF RequestsOnce, OneRunPerRequest, Stored
  <2>3. CASE \E n \in 0 .. MaxCapture : asking' = [asking EXCEPT ![c] = [control |-> controlSeq + 1, frames |-> n]]
    <3>1. \A d \in Controllers : asking'[d] = asking[d] \/ (d = c /\ asking'[d].control = controlSeq + 1)
      BY <1>0, <2>3
    <3> QED
      BY <1>0, <2>1, <3>1 DEF RequestsOnce, OneRunPerRequest, Stored
  <2> QED
    BY <1>1, <2>2, <2>3 DEF Publish
<1>2. ASSUME NEW c \in Controllers, AskCapture(c) PROVE RequestsOnce' /\ OneRunPerRequest'
  <2>1. /\ UNCHANGED <<controlSeq, taken>> /\ Stored(c)
        /\ asking' = [asking EXCEPT ![c] = NoRequest]
        /\ captureRequest' = NoRequest \/ (captureRequest' = asking[c] /\ asking[c].frames # 0)
    BY <1>2 DEF AskCapture, Stored
  <2>2. asking'[c] = NoRequest /\ \A d \in Controllers : d # c => asking'[d] = asking[d]
    BY <1>0, <2>1
  <2>3. NoRequest.control = 0 /\ NoRequest.frames = 0
    BY DEF NoRequest
  <2> QED
    BY <1>0, <2>1, <2>2, <2>3 DEF RequestsOnce, OneRunPerRequest, Stored
<1>3. ASSUME TakeCapture PROVE RequestsOnce' /\ OneRunPerRequest'
  <2>1. UNCHANGED <<controlSeq, asking>> /\ captureRequest' = NoRequest
    BY <1>3 DEF TakeCapture
  <2>2. NoRequest.control = 0 /\ NoRequest.frames = 0
    BY DEF NoRequest
  <2>3. CASE captureRequest.frames > 0
    <3> DEFINE new == [asked |-> captureRequest.control, under |-> fs]
    <3>1. taken' = Append(taken, new)
      BY <1>3, <2>3 DEF TakeCapture, BeginRequested
    <3>2. new \in [asked : Generations, under : Generations] /\ new.asked = captureRequest.control
      BY DEF Sound, TypeOK, Requests
    <3>3. \A i \in DOMAIN taken' : \/ i \in DOMAIN taken /\ taken'[i] = taken[i]
                                   \/ i = Len(taken) + 1 /\ taken'[i] = new
      <4> HIDE DEF new
      <4> QED
        BY <1>0, <3>1, <3>2, Growing
    <3> HIDE DEF new
    <3>4. \A i \in DOMAIN taken : taken[i].asked # new.asked
      BY <2>3, <3>2 DEF RequestsOnce
    <3>5. OneRunPerRequest'
      BY <3>3, <3>4 DEF OneRunPerRequest
    <3>6. \A c \in Controllers : Stored(c) => asking[c].control # new.asked
      BY <3>2 DEF RequestsOnce
    <3>7. \A i \in DOMAIN taken' : taken'[i].asked <= controlSeq
      BY <3>2, <3>3 DEF RequestsOnce
    <3> QED
      BY <1>0, <2>1, <2>2, <3>3, <3>5, <3>6, <3>7 DEF RequestsOnce, Stored
  <2>4. CASE ~(captureRequest.frames > 0)
    <3>1. UNCHANGED taken
      BY <1>3, <2>4 DEF TakeCapture, BeginRequested
    <3> QED
      BY <1>0, <2>1, <2>2, <3>1 DEF RequestsOnce, OneRunPerRequest, Stored
  <2> QED
    BY <2>3, <2>4
<1>4. CASE UNCHANGED RequestPlaces
  BY <1>4 DEF RequestPlaces, RequestsOnce, OneRunPerRequest, Stored
<1>5. BeginFrame \/ GiveUp \/ CheckCapture \/ RecordCompose \/ Submit \/ Recreate \/ UNCHANGED vars
        => UNCHANGED RequestPlaces
  BY DEF BeginFrame, GiveUp, CheckCapture, RecordCompose, Submit, Recreate, vars, header, RequestPlaces
<1> QED
  BY <1>1, <1>2, <1>3, <1>4, <1>5 DEF Next, FrameStep

-----------------------------------------------------------------------------
(* Pairs.                                                                  *)

(* Leg 2 is collected, or the wait for it failed.  A pair that is written  *)
(* is of the frame whose settings were noted.                              *)
LEMMA Collecting ==
  ASSUME Sound, PairsMatchFrames, NEW buf \in Generations, CollectLeg2(buf),
         captureRecorded => buf = captureMetadata /\ capture.control <= captureMetadata
  PROVE  /\ capture'.control = capture.control /\ PairsMatchFrames'
         /\ waitFailed' => leg2Pending' /\ captureRecorded' = captureRecorded
         /\ ~waitFailed' => ~leg2Pending' /\ ~captureRecorded'
<1>0. pairs \in Seq(Pair) /\ capture \in Requests /\ captureMetadata \in Generations
  BY DEF Sound, TypeOK, Pair
<1>1. CASE waitFailed' = TRUE /\ leg2Pending' = TRUE /\ UNCHANGED <<captureRecorded, capture, pairs>>
  BY <1>1 DEF PairsMatchFrames
<1>2. CASE waitFailed' = FALSE /\ leg2Pending' = FALSE /\ captureRecorded' = FALSE /\ UNCHANGED <<capture, pairs>>
  BY <1>2 DEF PairsMatchFrames
<1>3. CASE /\ waitFailed' = FALSE /\ leg2Pending' = FALSE /\ captureRecorded' = FALSE
           /\ captureRecorded /\ WriteFrame(buf)
  <2>1. capture'.control = capture.control
    BY <1>0, <1>3 DEF WriteFrame, Requests
  <2>2. CASE UNCHANGED pairs
    BY <1>3, <2>1, <2>2 DEF PairsMatchFrames
  <2>3. CASE pairs' = Append(pairs, [pixels |-> buf, metadata |-> captureMetadata])
    <3> DEFINE new == [pixels |-> buf, metadata |-> captureMetadata]
    <3>1. new \in Pair /\ new.pixels = new.metadata /\ new.metadata >= capture.control
      BY <1>0, <1>3, BoundAssumption DEF Pair, Generations, Requests
    <3>2. \A i \in DOMAIN pairs' : (i \in DOMAIN pairs /\ pairs'[i] = pairs[i]) \/ pairs'[i] = new
      <4>1. pairs' = Append(pairs, new)
        BY <2>3
      <4> HIDE DEF new
      <4> QED
        BY <1>0, <3>1, <4>1, Growing
    <3> HIDE DEF new
    <3> QED
      BY <1>3, <2>1, <3>1, <3>2 DEF PairsMatchFrames
  <2> QED
    BY <1>3, <2>1, <2>2, <2>3 DEF WriteFrame
<1> QED
  BY <1>1, <1>2, <1>3 DEF CollectLeg2, WriteCapturedFrame

(* Every step keeps a pair's pixels with its settings. *)
PairsRight == InFrame /\ PairWaits /\ PairsMatchFrames /\ NoPairLeftWaiting

LEMMA PairsKept ==
  ASSUME Sound, PairsRight, [Next]_vars
  PROVE  PairsRight'
<1> USE DEF PairsRight
<1>0. /\ {controlSeq, fs, captureMetadata, captureBuf} \subseteq Nat /\ {captureMetadata, captureBuf} \subseteq Generations
      /\ capture \in Requests /\ capture.control \in Nat /\ capture.frames \in Nat
      /\ {leg2Pending, captureRecorded, waitFailed} \subseteq BOOLEAN
  BY BoundAssumption DEF Sound, TypeOK, Generations, Requests
<1>1. ASSUME NEW c \in Controllers, Publish(c) PROVE PairsRight'
  BY <1>0, <1>1 DEF Publish, composition, InFrame, PairWaits, PairsMatchFrames, NoPairLeftWaiting
<1>2. ASSUME NEW c \in Controllers, AskCapture(c) PROVE PairsRight'
  BY <1>0, <1>2 DEF AskCapture, composition, InFrame, PairWaits, PairsMatchFrames, NoPairLeftWaiting
<1>3. ASSUME BeginFrame PROVE PairsRight'
  <2>1. lpc = "out" /\ UNCHANGED <<controlSeq, captureMetadata, captureBuf>>
    BY <1>3 DEF BeginFrame, header
  <2>2. CASE leg2Pending
    <3>1. CollectLeg2(captureBuf) /\ (IF waitFailed' THEN UNCHANGED <<fs, lpc>> ELSE StartFrame)
      BY <1>3, <2>2 DEF BeginFrame
    <3>2. captureRecorded => captureBuf = captureMetadata /\ capture.control <= captureMetadata
      BY <2>2 DEF PairWaits
    <3>3. /\ capture'.control = capture.control /\ PairsMatchFrames'
          /\ waitFailed' => leg2Pending' /\ captureRecorded' = captureRecorded
          /\ ~waitFailed' => ~leg2Pending' /\ ~captureRecorded'
      BY <1>0, <3>1, <3>2, Collecting
    <3> QED
      BY <1>0, <2>1, <2>2, <3>1, <3>2, <3>3 DEF StartFrame, InFrame, PairWaits, NoPairLeftWaiting
  <2>3. CASE ~leg2Pending
    BY <1>0, <1>3, <2>1, <2>3
    DEF BeginFrame, StartFrame, NothingPending, InFrame, PairWaits, PairsMatchFrames, NoPairLeftWaiting
  <2> QED
    BY <2>2, <2>3
<1>4. ASSUME GiveUp PROVE PairsRight'
  BY <1>0, <1>4 DEF GiveUp, EndFrame, header, composition, InFrame, PairWaits, PairsMatchFrames, NoPairLeftWaiting
<1>5. ASSUME CheckCapture PROVE PairsRight'
  BY <1>0, <1>5 DEF CheckCapture, header, composition, InFrame, PairWaits, PairsMatchFrames, NoPairLeftWaiting
<1>6. ASSUME TakeCapture PROVE PairsRight'
  <2>1. /\ lpc = "taking" /\ lpc' = "composing"
        /\ UNCHANGED <<controlSeq, fs, leg2Pending, captureRecorded, captureMetadata, captureBuf>>
    BY <1>6 DEF TakeCapture
  <2>2. \/ capture'.control = capture.control /\ UNCHANGED pairs
        \/ capture'.control = fs /\ pairs' = <<>>
    BY <1>0, <1>6 DEF TakeCapture, BeginRequested, Begin, Requests
  <2>3. PairsMatchFrames'
    BY <2>2 DEF PairsMatchFrames
  <2> QED
    BY <1>0, <2>1, <2>2, <2>3 DEF InFrame, PairWaits, NoPairLeftWaiting
<1>7. ASSUME RecordCompose PROVE PairsRight'
  <2>1. /\ lpc = "composing" /\ lpc' = "composed"
        /\ UNCHANGED <<controlSeq, fs, leg2Pending, capture, captureBuf, pairs>>
        /\ captureRecorded' => capture.frames > 0 /\ captureMetadata' = fs
    BY <1>7 DEF RecordCompose, NoteSettings, header
  <2> QED
    BY <1>0, <2>1 DEF InFrame, PairWaits, PairsMatchFrames, NoPairLeftWaiting
<1>8. ASSUME Submit PROVE PairsRight'
  <2>1. /\ lpc = "composed" /\ lpc' = "out" /\ fs' = 0 /\ UNCHANGED <<controlSeq, captureMetadata>>
    BY <1>8 DEF Submit, EndFrame, header
  <2>2. CASE SubmitFailed
    BY <1>0, <2>1, <2>2 DEF SubmitFailed, InFrame, PairWaits, PairsMatchFrames, NoPairLeftWaiting
  <2>3. CASE Copied /\ captureRecorded /\ CollectLeg2(captureBuf')
    <3>1. captureBuf' = fs /\ fs = captureMetadata /\ capture.control <= captureMetadata
      BY <2>1, <2>3 DEF Copied, InFrame, PairWaits
    <3>2. captureBuf' \in Generations
      BY <1>0, <3>1
    <3>3. /\ capture'.control = capture.control /\ PairsMatchFrames'
          /\ waitFailed' => leg2Pending' /\ captureRecorded' = captureRecorded
          /\ ~waitFailed' => ~leg2Pending' /\ ~captureRecorded'
      BY <2>3, <3>1, <3>2, Collecting
    <3> QED
      BY <1>0, <2>1, <3>1, <3>3 DEF InFrame, PairWaits, NoPairLeftWaiting
  <2>4. CASE ~captureRecorded /\ LeaveLeg2
    BY <1>0, <2>1, <2>4 DEF LeaveLeg2, InFrame, PairWaits, PairsMatchFrames, NoPairLeftWaiting
  <2> QED
    BY <1>8, <2>2, <2>3, <2>4 DEF Submit
<1>9. ASSUME Recreate PROVE PairsRight'
  BY <1>0, <1>9 DEF Recreate, NoRequest, header, InFrame, PairWaits, PairsMatchFrames, NoPairLeftWaiting
<1>10. CASE UNCHANGED vars
  BY <1>10 DEF vars, header, composition, InFrame, PairWaits, PairsMatchFrames, NoPairLeftWaiting
<1> QED
  BY <1>1, <1>2, <1>3, <1>4, <1>5, <1>6, <1>7, <1>8, <1>9, <1>10 DEF Next, FrameStep

-----------------------------------------------------------------------------
(* The theorems.                                                           *)

(* The inductive invariant holds at the start. *)
LEMMA Start == Init => IInv
<1> SUFFICES ASSUME Init PROVE IInv
  OBVIOUS
<1> USE DEF Init
<1>0. 0 \in Generations /\ 0 \in 0 .. MaxCapture /\ 0 \in 0 .. MaxFaults /\ MaxCapture \in Nat
  BY BoundAssumption DEF Generations
<1>1. NoRequest \in Requests
  BY <1>0 DEF NoRequest, Requests
<1>2. TypeOK
  <2>1. pairs \in Seq([pixels : Generations, metadata : Generations]) /\ Len(pairs) <= MaxCapture
    BY <1>0
  <2>2. taken \in Seq([asked : Generations, under : Generations])
    OBVIOUS
  <2> QED
    BY <1>0, <1>1, <2>1, <2>2 DEF TypeOK
<1>3. BatchFits /\ InFrame /\ PairWaits /\ PairsMatchFrames /\ NoPairLeftWaiting
  BY <1>0 DEF NoRequest, BatchFits, InFrame, PairWaits, PairsMatchFrames, NoPairLeftWaiting
<1>4. RequestsOnce /\ OneRunPerRequest
  BY DEF NoRequest, RequestsOnce, OneRunPerRequest, Stored
<1> QED
  BY <1>2, <1>3, <1>4 DEF IInv

(* The inductive invariant holds in every state: what the types, the place *)
(* of a request and the settings of a waiting pair are, from Begin and the *)
(* exchange of captureRequest to the collection of leg 2.                  *)
THEOREM Invariance == Spec => []IInv
<1>1. IInv /\ [Next]_vars => IInv'
  <2> SUFFICES ASSUME IInv, [Next]_vars PROVE IInv'
    OBVIOUS
  <2>1. Sound /\ PairsRight
    BY DEF IInv, Sound, PairsRight
  <2>2. Sound' /\ PairsRight'
    BY <2>1, SoundKept, PairsKept
  <2>3. RequestsOnce' /\ OneRunPerRequest'
    BY <2>1, RequestsKept DEF IInv
  <2> QED
    BY <2>2, <2>3 DEF IInv, Sound, PairsRight
<1> QED
  BY <1>1, Start, PTL DEF Spec

(* Every state of the header, the layer's frame and the capture writer has *)
(* its type, and a batch never holds more pairs than one may ask for.      *)
THEOREM TypeCorrect == Spec => []TypeOK
<1>1. IInv => TypeOK
  BY DEF IInv
<1> QED
  BY <1>1, Invariance, PTL

(* The pixels of a captured pair and the metadata written beside them are  *)
(* of one frame, no older than the batch, whichever frame collects leg 2.  *)
THEOREM PairsMatch == Spec => []PairsMatchFrames
<1>1. IInv => PairsMatchFrames
  BY DEF IInv
<1> QED
  BY <1>1, Invariance, PTL

(* The exchange that takes a request takes it for the last time: no press  *)
(* makes two runs, however many controllers ask.                           *)
THEOREM RunsOnce == Spec => []OneRunPerRequest
<1>1. IInv => OneRunPerRequest
  BY DEF IInv
<1> QED
  BY <1>1, Invariance, PTL

(* A pair is collected in the present that copied it, unless the wait for  *)
(* leg 2 failed there: a paused game leaves none behind.                   *)
THEOREM NoneLeftWaiting == Spec => []NoPairLeftWaiting
<1>1. IInv => NoPairLeftWaiting
  BY DEF IInv
<1> QED
  BY <1>1, Invariance, PTL
=============================================================================
