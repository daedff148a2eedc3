------------------------------ MODULE Captures ------------------------------
(***************************************************************************)
(* Captures.  A controller publishes a generation and then asks for a      *)
(* number of frames; a layer takes the request in one of its frames, and   *)
(* copies out a pair (the frame presented, the frame composed) from each   *)
(* frame it composes until the batch is complete.  A frame's composition,  *)
(* leg 2, is left to run, and collected by the next frame.                 *)
(***************************************************************************)
EXTENDS Naturals, Sequences

CONSTANTS
  Controllers,    \* processes that publish generations and ask for captures
  MaxGenerations, \* bound: generations published
  MaxCapture,     \* bound: frames asked for in one capture
  MaxFaults       \* bound: calls that fail in a layer's frame

ASSUME BoundAssumption == {MaxGenerations, MaxCapture, MaxFaults} \subseteq Nat

VARIABLES
  (* The shared header. *)
  controlSeq,
  captureRequest,   \* the frames asked for, and the generation of who asked
  (* The controllers. *)
  asking,           \* a request still to store
  (* A layer's present. *)
  lpc,
  fs,               \* the generation of its snapshot of the settings
  leg2Pending,
  (* Its composition. *)
  captureRecorded,
  capture,          \* CaptureWriter: _controlSeq, _remaining
  captureMetadata,  \* its frameControlSeq
  captureBuf,       \* the generation of the frame whose pixels it holds
  pairs,            \* the batch's pairs: their pixels, and _metadata
  (* Bookkeeping. *)
  waitFailed,       \* the last wait for leg 2 failed
  faults,
  taken             \* captures begun: the request's generation, the frame's

header == <<controlSeq, captureRequest>>
composition == <<captureRecorded, capture, captureMetadata, captureBuf, pairs>>
vars == <<header, asking, lpc, fs, leg2Pending, composition, waitFailed, faults, taken>>

Generations == 0 .. MaxGenerations
Requests == [control : Generations, frames : 0 .. MaxCapture]
NoRequest == [control |-> 0, frames |-> 0]

TypeOK ==
  /\ controlSeq \in Generations /\ captureRequest \in Requests
  /\ asking \in [Controllers -> Requests]
  /\ lpc \in {"out", "reading", "taking", "composing", "composed"}
  /\ {fs, captureMetadata, captureBuf} \subseteq Generations
  /\ {leg2Pending, captureRecorded, waitFailed} \subseteq BOOLEAN
  /\ capture \in Requests
  /\ pairs \in Seq([pixels : Generations, metadata : Generations]) /\ Len(pairs) <= MaxCapture
  /\ faults \in 0 .. MaxFaults
  /\ taken \in Seq([asked : Generations, under : Generations])

Init ==
  /\ controlSeq = 0 /\ captureRequest = NoRequest
  /\ asking = [c \in Controllers |-> NoRequest]
  /\ lpc = "out" /\ fs = 0 /\ leg2Pending = FALSE
  /\ captureRecorded = FALSE /\ capture = NoRequest
  /\ captureMetadata = 0 /\ captureBuf = 0 /\ pairs = <<>>
  /\ waitFailed = FALSE /\ faults = 0 /\ taken = <<>>

-----------------------------------------------------------------------------
(* The controllers, and a daemon that claims a trace.                      *)

Publish(c) ==
  /\ asking[c] = NoRequest /\ controlSeq < MaxGenerations
  /\ controlSeq' = controlSeq + 1
  /\ \/ UNCHANGED asking
     \/ \E n \in 0 .. MaxCapture : asking' = [asking EXCEPT ![c] = [control |-> controlSeq + 1, frames |-> n]]
  /\ UNCHANGED <<captureRequest, lpc, fs, leg2Pending, composition, waitFailed, faults, taken>>

(* captureRequest.store(n): it replaces a request that waits there, and a  *)
(* count of 0 withdraws it.                                                *)
AskCapture(c) ==
  /\ asking[c] # NoRequest
  /\ captureRequest' = IF asking[c].frames = 0 THEN NoRequest ELSE asking[c]
  /\ asking' = [asking EXCEPT ![c] = NoRequest]
  /\ UNCHANGED <<controlSeq, lpc, fs, leg2Pending, composition, waitFailed, faults, taken>>

-----------------------------------------------------------------------------
(* The capture writer and the collection of leg 2.                         *)

Fault == faults < MaxFaults /\ faults' = faults + 1

(* CaptureWriter::Begin: a batch of n frames, in a directory of its own. *)
Begin(n) ==
  \/ Fault /\ capture' = [capture EXCEPT !.frames = 0] /\ UNCHANGED pairs
  \/ /\ capture' = [control |-> fs, frames |-> n] /\ pairs' = <<>>
     /\ UNCHANGED faults

(* CaptureWriter::WriteFrame: a write that fails ends the batch. *)
WriteFrame(buf) ==
  \/ Fault /\ capture' = [capture EXCEPT !.frames = 0] /\ UNCHANGED pairs
  \/ /\ pairs' = Append(pairs, [pixels |-> buf, metadata |-> captureMetadata])
     /\ capture' = [capture EXCEPT !.frames = @ - 1]
     /\ UNCHANGED faults

WriteCapturedFrame(buf) ==
  /\ captureRecorded' = FALSE
  /\ IF captureRecorded /\ capture.frames > 0 THEN WriteFrame(buf) ELSE UNCHANGED <<capture, pairs, faults>>

CollectLeg2(buf) ==
  \/ /\ Fault
     /\ waitFailed' = TRUE /\ leg2Pending' = TRUE
     /\ UNCHANGED <<captureRecorded, capture, pairs>>
  \/ /\ waitFailed' = FALSE /\ leg2Pending' = FALSE
     /\ WriteCapturedFrame(buf)

-----------------------------------------------------------------------------
(* A layer's frame.                                                        *)

StartFrame == fs' = controlSeq /\ lpc' = "reading"
EndFrame == fs' = 0 /\ lpc' = "out"
NothingPending == UNCHANGED <<leg2Pending, captureRecorded, capture, pairs, waitFailed, faults>>

(* A bug: the frame goes on when the wait for the last leg 2 fails. *)
BuggyBeginFrame ==
  /\ lpc = "out"
  /\ StartFrame
  /\ IF leg2Pending THEN CollectLeg2(captureBuf) ELSE NothingPending
  /\ UNCHANGED <<header, asking, captureMetadata, captureBuf, taken>>

(* The last leg 2 collected, the settings are read. *)
BeginFrame ==
  /\ lpc = "out"
  /\ IF leg2Pending
     THEN CollectLeg2(captureBuf) /\ (IF waitFailed' THEN UNCHANGED <<fs, lpc>> ELSE StartFrame)
     ELSE StartFrame /\ NothingPending
  /\ UNCHANGED <<header, asking, captureMetadata, captureBuf, taken>>

(* Every exit of the frame that composes nothing: no composition can run   *)
(* at this size, a command cannot be recorded, the daemon does not answer. *)
GiveUp ==
  /\ lpc \in {"reading", "composing"}
  /\ Fault /\ EndFrame
  /\ UNCHANGED <<header, asking, leg2Pending, composition, waitFailed, taken>>

(* The request is left to the next frame when a generation was published   *)
(* since this one's snapshot.                                              *)
CheckCapture ==
  /\ lpc = "reading"
  /\ lpc' = IF controlSeq = fs THEN "taking" ELSE "composing"
  /\ UNCHANGED <<header, asking, fs, leg2Pending, composition, waitFailed, faults, taken>>

(* What captureRequest.exchange(0) found. *)
BeginRequested ==
  IF captureRequest.frames > 0
  THEN /\ Begin(captureRequest.frames)
       /\ taken' = Append(taken, [asked |-> captureRequest.control, under |-> fs])
  ELSE UNCHANGED <<capture, pairs, faults, taken>>

(* A bug: the request is loaded, and not cleared. *)
BuggyTakeCapture ==
  /\ lpc = "taking" /\ lpc' = "composing"
  /\ BeginRequested
  /\ UNCHANGED <<header, asking, fs, leg2Pending, captureRecorded, captureMetadata, captureBuf, waitFailed>>

TakeCapture ==
  /\ lpc = "taking" /\ lpc' = "composing"
  /\ BeginRequested
  /\ captureRequest' = NoRequest
  /\ UNCHANGED <<controlSeq, asking, fs, leg2Pending, captureRecorded, captureMetadata, captureBuf, waitFailed>>

(* The frame's settings, while a capture is active. *)
NoteSettings == captureMetadata' = IF capture.frames > 0 THEN fs ELSE captureMetadata

(* A bug: the buffer the pair is copied to is never made. *)
BuggyRecordCompose ==
  /\ lpc = "composing" /\ lpc' = "composed"
  /\ NoteSettings /\ captureRecorded' = FALSE
  /\ UNCHANGED <<header, asking, fs, leg2Pending, capture, captureBuf, pairs, waitFailed, faults, taken>>

(* The copies of the pair are recorded, unless there is no memory for one. *)
RecordCompose ==
  /\ lpc = "composing" /\ lpc' = "composed"
  /\ NoteSettings
  /\ \/ captureRecorded' = (capture.frames > 0) /\ UNCHANGED faults
     \/ capture.frames > 0 /\ captureRecorded' = FALSE /\ Fault
  /\ UNCHANGED <<header, asking, fs, leg2Pending, capture, captureBuf, pairs, waitFailed, taken>>

SubmitFailed == Fault /\ UNCHANGED <<leg2Pending, captureRecorded, capture, captureBuf, pairs, waitFailed>>
Copied == captureBuf' = IF captureRecorded THEN fs ELSE captureBuf
LeaveLeg2 == leg2Pending' = TRUE /\ waitFailed' = FALSE /\ UNCHANGED <<captureRecorded, capture, pairs, faults>>

(* A bug: a recorded pair is left for the next frame to collect. *)
BuggySubmit ==
  /\ lpc = "composed" /\ EndFrame
  /\ SubmitFailed \/ (Copied /\ LeaveLeg2)
  /\ UNCHANGED <<header, asking, captureMetadata, taken>>

(* Leg 2 is left to run, unless it copies a pair out: a paused game may    *)
(* present no other frame to collect it.                                   *)
Submit ==
  /\ lpc = "composed" /\ EndFrame
  /\ SubmitFailed \/ (Copied /\ (IF captureRecorded THEN CollectLeg2(captureBuf') ELSE LeaveLeg2))
  /\ UNCHANGED <<header, asking, captureMetadata, taken>>

(* The swapchain is destroyed and made again, its composition with it. *)
Recreate ==
  /\ lpc = "out"
  /\ leg2Pending' = FALSE /\ captureRecorded' = FALSE /\ waitFailed' = FALSE
  /\ capture' = NoRequest /\ pairs' = <<>> /\ captureMetadata' = 0 /\ captureBuf' = 0
  /\ UNCHANGED <<header, asking, lpc, fs, faults, taken>>

-----------------------------------------------------------------------------
FrameStep == BeginFrame \/ CheckCapture \/ TakeCapture \/ RecordCompose \/ Submit

Next == (\E c \in Controllers : Publish(c) \/ AskCapture(c)) \/ FrameStep \/ GiveUp \/ Recreate

Spec == Init /\ [][Next]_vars

(* The game keeps presenting, and its calls return. *)
FairSpec == Spec /\ WF_vars(FrameStep)

-----------------------------------------------------------------------------
(* A captured pair's pixels and the settings written beside them are of    *)
(* one frame, and of one no older than the batch, though a frame's         *)
(* composition is collected by the next one, and waits and submits fail.   *)
PairsMatchFrames ==
  \A i \in DOMAIN pairs : pairs[i].pixels = pairs[i].metadata /\ pairs[i].metadata >= capture.control

(* One press makes one run: no request begins two captures. *)
OneRunPerRequest ==
  \A i, j \in DOMAIN taken : taken[i].asked = taken[j].asked => i = j

(* Between frames, no copied pair waits for a frame that a paused game may *)
(* never present, unless the wait for it failed.                           *)
NoPairLeftWaiting == lpc = "out" /\ leg2Pending /\ captureRecorded => waitFailed

(* A capture that is asked for is begun or withdrawn, and its batch ends,  *)
(* when the game keeps presenting.                                         *)
CaptureEnds ==
  (captureRequest # NoRequest \/ capture.frames > 0) ~> (captureRequest = NoRequest /\ capture.frames = 0)

=============================================================================
