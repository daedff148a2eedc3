------------------------- MODULE FrameChannelProofs -------------------------
(***************************************************************************)
(* The safety of the frame channel, for any number of games, extents,      *)
(* tiers, frames and faults, and any modulus of the sequence numbers; and  *)
(* what it promises of each exchange.                                      *)
(***************************************************************************)
EXTENDS FrameChannel, TLAPS

(* The lock of the producer: whoever is in a present holds it. *)
LockHeld == \A l \in Layers : lpc[l] # "out" => producer = l

(* At most one request is outstanding.  A layer that fills the slots found *)
(* none, and one that waits is the latest to have asked.                   *)
OneRequest ==
  /\ seqReq = seqResp \/ seqReq = NextSeq(seqResp)
  /\ \A l \in Layers :
       /\ lpc[l] \in {"admitted", "writing", "written"} => seqReq = seqResp
       /\ lpc[l] \in WaitingPCs => lReq[l] = seqReq
       /\ lpc[l] \in {"answered", "composing"} => lReq[l] = seqResp

(* The daemon's own count agrees with the channel's. *)
InStep ==
  /\ wpc = "settling" => last \in {seqReq, seqResp}
  /\ wpc \in LoopPCs => last = seqResp
  /\ wpc \in BusyPCs => last = seqReq /\ Outstanding

(* What the slots hold, as the layer knows it and as the daemon does. *)
SlotContents ==
  /\ \A l \in Layers :
       /\ lpc[l] \in {"writing", "written"} \cup WaitingPCs => lFrame[l] # 0 /\ lExtent[l] \in Extents
       /\ lpc[l] \in {"written"} \cup WaitingPCs => input = lFrame[l] /\ extent = lExtent[l]
  /\ Outstanding => input # 0 /\ extent \in Extents
  /\ wpc \in BusyPCs => wExtent = extent
  /\ wpc \in {"inferring", "checking"} => wFrame = input
  /\ wpc = "checking" => output = <<input, extent>>
  /\ wpc \in {"stamping", "confirming", "responding"} /\ outcome = "ok" => output = <<input, extent>>

(* What makes an answer usable stands behind it. *)
AnswerStands ==
  /\ wpc \in OpeningPCs => seqOk = 0
  /\ wpc = "confirming" => outcome = "ok"
  /\ wpc = "responding" /\ outcome # "ok" => answered = NoExtent
  /\ \A l \in Layers :
       lpc[l] \in {"waiting", "unanswered", "answered"} /\ seqResp = lReq[l] /\ Usable(l) /\ lReq[l] # 0
         => output = <<input, extent>>

(* The daemon says it runs while it serves. *)
RunningWhileBusy ==
  /\ wpc \in {"request", "inferring", "checking", "confirming"} => helperState = "Running"
  /\ wpc \in {"stamping", "responding"} /\ outcome # "fault" => helperState = "Running"

IInv ==
  /\ LockHeld /\ OneRequest /\ InStep /\ SlotContents /\ AnswerStands /\ ComposedIsOwn
  /\ HonestState /\ RunningWhileBusy

-----------------------------------------------------------------------------
(* Types.                                                                  *)

(* The daemon's actions, its start and its end keep every type. *)
LEMMA DaemonTypes ==
  ASSUME TypeOK, Start \/ Work \/ ObeySignal \/ IdleOut \/ Kill
  PROVE  TypeOK'
<1> USE SeqModAssumption, ExtentAssumption, TierAssumption, BoundAssumption
        DEF TypeOK, Seqs, Frames, WorkerPCs, OpeningPCs, LoopPCs, BusyPCs, HelperStates, NoAnswer,
            request, answer, controls, job, network, layer, manager, bounds
<1>1. CASE OpenMapping
  <2>1. quit' \in BOOLEAN
    BY <1>1, Zenon DEF OpenMapping
  <2>2. QED
    BY <1>1, <2>1 DEF OpenMapping
<1>2. CASE ReadOldRequest
  BY <1>2 DEF ReadOldRequest
<1>3. CASE AnswerOldRequest
  BY <1>3 DEF AnswerOldRequest
<1>4. CASE Announce
  BY <1>4 DEF Announce
<1>5. CASE ChooseTier
  BY <1>5 DEF ChooseTier
<1>6. CASE Prepared
  BY <1>6 DEF Prepared
<1>7. CASE PrepareFails
  BY <1>7 DEF PrepareFails
<1>8. CASE ObeyQuit
  BY <1>8 DEF ObeyQuit
<1>9. CASE AcceptOffers
  <2>1. connection' \in BOOLEAN
    BY <1>9, Zenon DEF AcceptOffers
  <2>2. QED
    BY <1>9, <2>1 DEF AcceptOffers
<1>10. CASE FollowTier
  BY <1>10 DEF FollowTier
<1>11. CASE RestoreTier
  BY <1>11 DEF RestoreTier
<1>12. CASE Rebuilt
  BY <1>12 DEF Rebuilt
<1>13. CASE RebuildFails
  BY <1>13 DEF RebuildFails
<1>14. CASE Wait
  BY <1>14 DEF Wait
<1>15. CASE Retire
  BY <1>15 DEF Retire
<1>16. CASE TakeRequest
  BY <1>16 DEF TakeRequest
<1>17. CASE RejectRequest
  BY <1>17 DEF RejectRequest
<1>18. CASE BeginInference
  BY <1>18 DEF BeginInference
<1>19. CASE BeginReshape
  BY <1>19 DEF BeginReshape
<1>20. CASE Reshape
  BY <1>20 DEF Reshape
<1>21. CASE Infer
  BY <1>21 DEF Infer
<1>22. CASE CheckRequest
  BY <1>22 DEF CheckRequest
<1>23. CASE StampAnswer
  BY <1>23 DEF StampAnswer
<1>24. CASE ConfirmAnswer
  BY <1>24 DEF ConfirmAnswer
<1>25. CASE Respond
  BY <1>25 DEF Respond
<1>26. CASE Stop
  BY <1>26 DEF Stop
<1>27. CASE Fail
  BY <1>27 DEF Fail
<1>28. CASE ObeySignal
  BY <1>28 DEF ObeySignal
<1>29. CASE IdleOut
  BY <1>29 DEF IdleOut
<1>30. CASE Kill
  BY <1>30 DEF Kill
<1>31. QED
  BY <1>1, <1>2, <1>3, <1>4, <1>5, <1>6, <1>7, <1>8, <1>9, <1>10, <1>11, <1>12, <1>13, <1>14,
     <1>15, <1>16, <1>17, <1>18, <1>19, <1>20, <1>21, <1>22, <1>23, <1>24, <1>25, <1>26, <1>27,
     <1>28, <1>29, <1>30
     DEF Start, StartForConnection, RestartOnFailure, StartByHand, Work, Opening, Serving

(* A layer's actions keep every type. *)
LEMMA LayerTypes ==
  ASSUME TypeOK, NEW l \in Layers, Enter(l) \/ Present(l) \/ Crash(l)
  PROVE  TypeOK'
<1> USE SeqModAssumption, BoundAssumption
        DEF TypeOK, Seqs, Frames, LayerPCs, WaitingPCs, Leave, Goto, NextSeq,
            request, answer, controls, job, network, layer, manager, bounds
<1>1. CASE Enter(l)
  BY <1>1 DEF Enter
<1>2. CASE CheckHelper(l)
  <2>1. connection' \in BOOLEAN
    BY <1>2, Zenon DEF CheckHelper
  <2>2. QED
    BY <1>2, <2>1 DEF CheckHelper
<1>3. CASE CheckOutstanding(l)
  BY <1>3 DEF CheckOutstanding
<1>4. CASE Abandon(l)
  BY <1>4 DEF Abandon
<1>5. CASE BeginWrite(l)
  BY <1>5 DEF BeginWrite
<1>6. CASE EndWrite(l)
  BY <1>6 DEF EndWrite
<1>7. CASE Publish(l)
  BY <1>7 DEF Publish
<1>8. CASE Look(l)
  BY <1>8 DEF Look
<1>9. CASE SeeQuit(l)
  BY <1>9 DEF SeeQuit
<1>10. CASE GiveUp(l)
  BY <1>10 DEF GiveUp
<1>11. CASE Sleep(l)
  BY <1>11 DEF Sleep
<1>12. CASE Accept(l)
  BY <1>12 DEF Accept
<1>13. CASE Compose(l)
  BY <1>13 DEF Compose
<1>14. CASE Crash(l)
  BY <1>14 DEF Crash
<1>15. QED
  BY <1>1, <1>2, <1>3, <1>4, <1>5, <1>6, <1>7, <1>8, <1>9, <1>10, <1>11, <1>12, <1>13, <1>14 DEF Present

(* So do the controllers'. *)
LEMMA ControlTypes == TypeOK /\ Control => TypeOK'
<1> SUFFICES ASSUME TypeOK, Control PROVE TypeOK'
  OBVIOUS
<1> USE DEF TypeOK, request, answer, controls, job, network, layer, manager, bounds
<1>1. CASE RequestStop
  BY <1>1 DEF RequestStop
<1>2. CASE Resume
  <2>1. quit' \in BOOLEAN
    BY <1>2, Zenon DEF Resume
  <2>2. QED
    BY <1>2, <2>1 DEF Resume
<1>3. CASE StoreTier
  BY <1>3 DEF StoreTier
<1>4. QED
  BY <1>1, <1>2, <1>3 DEF Control

(* Every variable has its type, whatever the constants. *)
THEOREM TypeCorrect == Spec => []TypeOK
<1>1. Init => TypeOK
  <2> SUFFICES ASSUME Init PROVE TypeOK
    OBVIOUS
  <2>1. quit \in BOOLEAN /\ connection \in BOOLEAN /\ dead \in [Layers -> BOOLEAN]
    BY Zenon DEF Init
  <2>2. QED
    BY <2>1, SeqModAssumption, TierAssumption, BoundAssumption
       DEF Init, TypeOK, Seqs, Frames, WorkerPCs, LayerPCs, HelperStates, NoAnswer
<1>2. TypeOK /\ [Next]_vars => TypeOK'
  <2> SUFFICES ASSUME TypeOK, [Next]_vars PROVE TypeOK'
    OBVIOUS
  <2>1. CASE UNCHANGED vars
    BY <2>1 DEF TypeOK, vars, request, answer, controls, job, network, layer, manager, bounds
  <2>2. CASE Next
    BY <2>2, DaemonTypes, LayerTypes, ControlTypes DEF Next
  <2>3. QED
    BY <2>1, <2>2
<1>3. QED
  BY <1>1, <1>2, PTL DEF Spec

-----------------------------------------------------------------------------
(* The inductive invariant.                                                *)

(* Killed at any point, restarted at any time, or failing at any step, the *)
(* daemon keeps the invariant.                                             *)
LEMMA DaemonKeeps ==
  ASSUME TypeOK, IInv, Start \/ Work \/ ObeySignal \/ IdleOut \/ Kill
  PROVE  IInv'
<1> USE SeqModAssumption, ExtentAssumption
        DEF TypeOK, Seqs, NoAnswer, IInv, LockHeld, OneRequest, InStep, SlotContents, AnswerStands,
            ComposedIsOwn, HonestState, RunningWhileBusy, Outstanding, Usable, NextSeq,
            OpeningPCs, LoopPCs, BusyPCs, WaitingPCs,
            request, answer, controls, job, network, layer, manager, bounds
<1>1. CASE OpenMapping
  BY <1>1 DEF OpenMapping
<1>2. CASE ReadOldRequest
  BY <1>2 DEF ReadOldRequest
<1>3. CASE AnswerOldRequest
  BY <1>3 DEF AnswerOldRequest
<1>4. CASE Announce
  BY <1>4 DEF Announce
<1>5. CASE ChooseTier
  BY <1>5 DEF ChooseTier
<1>6. CASE Prepared
  BY <1>6 DEF Prepared
<1>7. CASE PrepareFails
  BY <1>7 DEF PrepareFails
<1>8. CASE ObeyQuit
  BY <1>8 DEF ObeyQuit
<1>9. CASE AcceptOffers
  BY <1>9 DEF AcceptOffers
<1>10. CASE FollowTier
  BY <1>10 DEF FollowTier
<1>11. CASE RestoreTier
  BY <1>11 DEF RestoreTier
<1>12. CASE Rebuilt
  BY <1>12 DEF Rebuilt
<1>13. CASE RebuildFails
  BY <1>13 DEF RebuildFails
<1>14. CASE Wait
  BY <1>14 DEF Wait
<1>15. CASE Retire
  BY <1>15 DEF Retire
<1>16. CASE TakeRequest
  BY <1>16 DEF TakeRequest
<1>17. CASE RejectRequest
  BY <1>17 DEF RejectRequest
<1>18. CASE BeginInference
  BY <1>18 DEF BeginInference
<1>19. CASE BeginReshape
  BY <1>19 DEF BeginReshape
<1>20. CASE Reshape
  BY <1>20 DEF Reshape
<1>21. CASE Infer
  BY <1>21 DEF Infer
<1>22. CASE CheckRequest
  BY <1>22 DEF CheckRequest
<1>23. CASE StampAnswer
  BY <1>23 DEF StampAnswer
<1>24. CASE ConfirmAnswer
  BY <1>24 DEF ConfirmAnswer
<1>25. CASE Respond
  BY <1>25 DEF Respond
<1>26. CASE Stop
  BY <1>26 DEF Stop
<1>27. CASE Fail
  BY <1>27 DEF Fail
<1>28. CASE ObeySignal
  BY <1>28 DEF ObeySignal
<1>29. CASE IdleOut
  BY <1>29 DEF IdleOut
<1>30. CASE Kill
  BY <1>30 DEF Kill
<1>31. QED
  BY <1>1, <1>2, <1>3, <1>4, <1>5, <1>6, <1>7, <1>8, <1>9, <1>10, <1>11, <1>12, <1>13, <1>14,
     <1>15, <1>16, <1>17, <1>18, <1>19, <1>20, <1>21, <1>22, <1>23, <1>24, <1>25, <1>26, <1>27,
     <1>28, <1>29, <1>30
     DEF Start, StartForConnection, RestartOnFailure, StartByHand, Work, Opening, Serving

(* So does a layer, which gives up or ends at any point. *)
LEMMA LayerKeeps ==
  ASSUME TypeOK, IInv, NEW l \in Layers, Enter(l) \/ Present(l) \/ Crash(l)
  PROVE  IInv'
<1> USE SeqModAssumption, LayerAssumption, BoundAssumption
        DEF TypeOK, Seqs, Frames, IInv, LockHeld, OneRequest, InStep, SlotContents, AnswerStands,
            ComposedIsOwn, HonestState, RunningWhileBusy, Outstanding, Usable, NextSeq,
            OpeningPCs, LoopPCs, BusyPCs, WaitingPCs, Leave, Goto,
            request, answer, controls, job, network, layer, manager, bounds
<1>1. CASE Enter(l)
  BY <1>1 DEF Enter
<1>2. CASE CheckHelper(l)
  BY <1>2 DEF CheckHelper
<1>3. CASE CheckOutstanding(l)
  BY <1>3 DEF CheckOutstanding
<1>4. CASE Abandon(l)
  BY <1>4 DEF Abandon
<1>5. CASE BeginWrite(l)
  BY <1>5 DEF BeginWrite
<1>6. CASE EndWrite(l)
  BY <1>6 DEF EndWrite
<1>7. CASE Publish(l)
  BY <1>7 DEF Publish
<1>8. CASE Look(l)
  BY <1>8 DEF Look
<1>9. CASE SeeQuit(l)
  BY <1>9 DEF SeeQuit
<1>10. CASE GiveUp(l)
  BY <1>10 DEF GiveUp
<1>11. CASE Sleep(l)
  BY <1>11 DEF Sleep
<1>12. CASE Accept(l)
  BY <1>12 DEF Accept
<1>13. CASE Compose(l)
  BY <1>13 DEF Compose
<1>14. CASE Crash(l)
  BY <1>14 DEF Crash
<1>15. QED
  BY <1>1, <1>2, <1>3, <1>4, <1>5, <1>6, <1>7, <1>8, <1>9, <1>10, <1>11, <1>12, <1>13, <1>14 DEF Present

(* And the controllers, which only ask. *)
LEMMA ControlKeeps == IInv /\ Control => IInv'
BY DEF Control, RequestStop, Resume, StoreTier, IInv, LockHeld, OneRequest, InStep, SlotContents,
       AnswerStands, ComposedIsOwn, HonestState, RunningWhileBusy, Outstanding, Usable,
       request, answer, controls, job, network, layer, manager, bounds

(* IInv holds in every reachable state: a request and what stands behind   *)
(* it agree, across timeouts, crashes and restarts.                        *)
THEOREM Invariance == Spec => []IInv
<1>1. Init => IInv
  BY LayerAssumption
     DEF Init, IInv, LockHeld, OneRequest, InStep, SlotContents, AnswerStands, ComposedIsOwn,
         HonestState, RunningWhileBusy, Outstanding, OpeningPCs, LoopPCs, BusyPCs, WaitingPCs
<1>2. TypeOK /\ IInv /\ [Next]_vars => IInv'
  <2> SUFFICES ASSUME TypeOK, IInv, [Next]_vars PROVE IInv'
    OBVIOUS
  <2>1. CASE UNCHANGED vars
    BY <2>1 DEF vars, IInv, LockHeld, OneRequest, InStep, SlotContents, AnswerStands,
                ComposedIsOwn, HonestState, RunningWhileBusy, Outstanding, Usable,
                request, answer, controls, job, network, layer, manager, bounds
  <2>2. CASE Next
    BY <2>2, DaemonKeeps, LayerKeeps, ControlKeeps DEF Next
  <2>3. QED
    BY <2>1, <2>2
<1>3. QED
  BY <1>1, <1>2, TypeCorrect, PTL DEF Spec

-----------------------------------------------------------------------------
(* What follows.                                                           *)

(* No layer writes a frame or copies an answer while the daemon reads and  *)
(* writes them: at inference a request is outstanding, which a layer in    *)
(* either place excludes.                                                  *)
THEOREM SlotsAreExclusive == Spec => []SlotExclusion
<1>1. IInv => SlotExclusion
  BY DEF IInv, OneRequest, InStep, SlotExclusion, Outstanding, BusyPCs, WaitingPCs
<1>2. QED
  BY <1>1, Invariance, PTL

(* A layer composes the answer to the very frame it asked about, except    *)
(* perhaps to a request numbered 0.                                        *)
THEOREM AnswersAreOwn == Spec => []ComposedIsOwn
<1>1. IInv => ComposedIsOwn
  BY DEF IInv
<1>2. QED
  BY <1>1, Invariance, PTL

(* Nothing comes between a request's being taken up and its answer. *)
THEOREM InferenceIsUndisturbed == Spec => []InferenceUndisturbed
<1>1. IInv => InferenceUndisturbed
  BY DEF IInv, InStep, SlotContents, InferenceUndisturbed, BusyPCs
<1>2. QED
  BY <1>1, Invariance, PTL

(* What the daemon says of itself is so. *)
THEOREM StateIsHonest == Spec => []HonestState
<1>1. IInv => HonestState
  BY DEF IInv
<1>2. QED
  BY <1>1, Invariance, PTL

(* The count of answers only ever catches up with that of requests. *)
THEOREM CatchingUp == Spec => AnswersCatchUp
<1>1. TypeOK /\ IInv /\ [Next]_vars => [seqResp' # seqResp => seqResp' = seqReq]_vars
  <2> SUFFICES ASSUME IInv, Next, seqResp' # seqResp PROVE seqResp' = seqReq
    OBVIOUS
  <2>1. AnswerOldRequest \/ Respond
    BY DEF Next, Start, StartForConnection, RestartOnFailure, StartByHand, OpenMapping, Work, Opening,
           ReadOldRequest, Announce, ChooseTier, Prepared, PrepareFails, Serving, ObeyQuit,
           AcceptOffers, FollowTier, RestoreTier, Rebuilt, RebuildFails, Wait, Retire, TakeRequest,
           RejectRequest, BeginInference, BeginReshape, Reshape, Infer, CheckRequest, StampAnswer,
           ConfirmAnswer, Stop, Fail, ObeySignal, IdleOut, Kill, Enter, Present, CheckHelper,
           CheckOutstanding, Abandon, BeginWrite, EndWrite, Publish, Look, SeeQuit, GiveUp, Sleep,
           Accept, Compose, Crash, Control, RequestStop, Resume, StoreTier,
           request, answer, controls, job, network, layer, manager, bounds
  <2>2. QED
    BY <2>1 DEF AnswerOldRequest, Respond, IInv, InStep, BusyPCs
<1>2. QED
  BY <1>1, TypeCorrect, Invariance, PTL DEF Spec, AnswersCatchUp

-----------------------------------------------------------------------------
(* The frame channel implements FrameExchange, until the count of requests *)
(* wraps: with fewer frames than sequence numbers no request is numbered   *)
(* 0, the number that stands for "no answer" in seq_ok.                    *)

(* The count of requests stays behind that of frames written, so it does   *)
(* not come back to 0.                                                     *)
Unwrapped ==
  /\ seqReq <= frames
  /\ \A l \in Layers :
       /\ lpc[l] \in {"writing", "written"} => seqReq < frames
       /\ lpc[l] \in WaitingPCs => lReq[l] # 0

(* No step makes the count outrun the frames written.                      *)
LEMMA UnwrappedStep ==
  ASSUME MaxFrames < SeqMod, TypeOK, IInv, Unwrapped, [Next]_vars
  PROVE  Unwrapped'
<1> USE SeqModAssumption, BoundAssumption
        DEF TypeOK, Seqs, Frames, Unwrapped, WaitingPCs, Leave, Goto, NextSeq,
            request, answer, controls, job, network, layer, manager, bounds
<1>1. CASE UNCHANGED <<request, layer, frames>>
  BY <1>1
<1>2. CASE \E l \in Layers : BeginWrite(l)
  BY <1>2 DEF BeginWrite
<1>3. ASSUME NEW l \in Layers, Publish(l) PROVE Unwrapped'
  <2>1. seqReq + 1 \in 1 .. SeqMod - 1 /\ seqReq + 1 <= frames
    BY <1>3 DEF Publish
  <2>2. seqReq' = seqReq + 1
    BY <1>3, <2>1 DEF Publish
  <2>3. QED
    BY <1>3, <2>1, <2>2 DEF Publish, IInv, LockHeld
<1>4. CASE \E l \in Layers : EndWrite(l) \/ Enter(l) \/ Crash(l)
  BY <1>4 DEF EndWrite, Enter, Crash
<1>5. ASSUME NEW l \in Layers,
             \/ CheckHelper(l) \/ CheckOutstanding(l) \/ Abandon(l) \/ Look(l) \/ SeeQuit(l)
             \/ GiveUp(l) \/ Sleep(l) \/ Accept(l) \/ Compose(l)
      PROVE  Unwrapped'
  BY <1>5 DEF CheckHelper, CheckOutstanding, Abandon, Look, SeeQuit, GiveUp, Sleep, Accept, Compose
<1>6. ASSUME Start \/ Work \/ ObeySignal \/ IdleOut \/ Kill \/ Control \/ UNCHANGED vars
      PROVE  UNCHANGED <<request, layer, frames>>
  BY <1>6
     DEF Start, StartForConnection, RestartOnFailure, StartByHand, OpenMapping, Work, Opening,
         ReadOldRequest, AnswerOldRequest, Announce, ChooseTier, Prepared, PrepareFails, Serving,
         ObeyQuit, AcceptOffers, FollowTier, RestoreTier, Rebuilt, RebuildFails, Wait, Retire,
         TakeRequest, RejectRequest, BeginInference, BeginReshape, Reshape, Infer, CheckRequest,
         StampAnswer, ConfirmAnswer, Respond, Stop, Fail, ObeySignal, IdleOut, Kill, Control,
         RequestStop, Resume, StoreTier, vars
<1>7. QED
  BY <1>1, <1>2, <1>3, <1>4, <1>5, <1>6 DEF Next, Present

(* With fewer frames than sequence numbers no waiting layer's request is   *)
(* numbered 0, the number a restarted daemon's cleared seq_ok matches.     *)
THEOREM NeverWraps == ASSUME MaxFrames < SeqMod PROVE Spec => []Unwrapped
<1>1. Init => Unwrapped
  BY DEF Init, Unwrapped, WaitingPCs
<1>2. TypeOK /\ IInv /\ Unwrapped /\ [Next]_vars => Unwrapped'
  BY UnwrappedStep
<1>3. QED
  BY <1>1, <1>2, TypeCorrect, Invariance, PTL DEF Spec

-----------------------------------------------------------------------------
(* The steps the exchange does not see: what it maps to stays.             *)
LEMMA Hidden ==
  ASSUME UNCHANGED <<seqReq, seqResp, input, extent, output, layer>>
  PROVE  UNCHANGED Exchange!vars
BY DEF Exchange!vars, Outstanding, layer

(* The daemon is seen only when it answers. *)
LEMMA DaemonSteps ==
  ASSUME TypeOK, IInv, Start \/ Work \/ ObeySignal \/ IdleOut \/ Kill
  PROVE  [Exchange!Next]_(Exchange!vars)
<1>1. CASE UNCHANGED <<seqReq, seqResp, input, extent, output, layer>>
  BY <1>1, Hidden
<1>2. CASE Infer \/ Kill
  <2>1. UNCHANGED <<seqReq, seqResp, input, extent, layer>>
    BY <1>2 DEF Infer, Kill, request, answer, layer
  <2>2. wpc = "inferring" \/ UNCHANGED output
    BY <1>2 DEF Infer, Kill
  <2>3. wpc = "inferring" => \A l \in Layers : lpc[l] # "composing"
    BY DEF IInv, InStep, OneRequest, Outstanding, BusyPCs, WaitingPCs
  <2>4. UNCHANGED Exchange!vars
    BY <2>1, <2>2, <2>3 DEF Exchange!vars, Outstanding, layer
  <2>5. QED
    BY <2>4
<1>3. CASE AnswerOldRequest \/ Respond
  <2>1. UNCHANGED <<seqReq, input, extent, output, layer>> /\ seqResp' = last
    BY <1>3 DEF AnswerOldRequest, Respond, request, layer
  <2>2. last \in {seqReq, seqResp}
    BY <1>3 DEF AnswerOldRequest, Respond, IInv, InStep, BusyPCs
  <2>3. CASE seqResp' = seqResp
    BY <2>1, <2>3, Hidden
  <2>4. CASE seqResp' # seqResp
    <3>1. Outstanding /\ ~Outstanding'
      BY <2>1, <2>2, <2>4 DEF Outstanding
    <3>2. <<input, extent>> # NoAnswer
      BY <3>1, ExtentAssumption DEF IInv, SlotContents, NoAnswer
    <3>3. Exchange!Settle
      BY <2>1, <3>1, <3>2 DEF Exchange!Settle, layer
    <3>4. QED
      BY <3>3 DEF Exchange!Next
  <2>5. QED
    BY <2>3, <2>4
<1>4. QED
  BY <1>1, <1>2, <1>3
     DEF Start, StartForConnection, RestartOnFailure, StartByHand, OpenMapping, Work, Opening,
         ReadOldRequest, Announce, ChooseTier, Prepared, PrepareFails, Serving, ObeyQuit, AcceptOffers,
         FollowTier, RestoreTier, Rebuilt, RebuildFails, Wait, Retire, TakeRequest, RejectRequest,
         BeginInference, BeginReshape, Reshape, CheckRequest, StampAnswer, ConfirmAnswer, Stop, Fail,
         ObeySignal, IdleOut, request, answer

(* A layer that leaves finishes what it held, if anything. *)
LEMMA LeavingFinishes ==
  ASSUME TypeOK, IInv, NEW l \in Layers, Leave(l),
         UNCHANGED <<seqReq, seqResp, input, extent, output>>
  PROVE  [Exchange!Next]_(Exchange!vars)
<1> USE DEF TypeOK, Leave
<1>1. CASE lpc[l] \in WaitingPCs
  <2>1. <<lFrame[l], lExtent[l]>> # NoAnswer
    BY <1>1, ExtentAssumption DEF IInv, SlotContents, NoAnswer
  <2>2. Exchange!Finish(l)
    BY <1>1, <2>1 DEF Exchange!Finish, WaitingPCs, Outstanding
  <2>3. QED
    BY <2>2 DEF Exchange!Next
<1>2. CASE lpc[l] \notin WaitingPCs
  <2>1. UNCHANGED Exchange!vars
    BY <1>2 DEF Exchange!vars, WaitingPCs, Outstanding
  <2>2. QED
    BY <2>1
<1>3. QED
  BY <1>1, <1>2

(* A layer is seen when it publishes, accepts an answer or leaves.         *)
LEMMA LayerSteps ==
  ASSUME TypeOK, IInv, Unwrapped, NEW l \in Layers, Enter(l) \/ Present(l) \/ Crash(l)
  PROVE  [Exchange!Next]_(Exchange!vars)
<1> USE DEF TypeOK
<1>1. CASE Leave(l) /\ UNCHANGED <<request, answer>>
  BY <1>1, LeavingFinishes DEF request, answer
<1>2. ASSUME NEW pc, Goto(l, pc), UNCHANGED <<request, answer>>,
             pc # "composing", lpc[l] # "composing", lpc[l] \in WaitingPCs <=> pc \in WaitingPCs
      PROVE  [Exchange!Next]_(Exchange!vars)
  <2>1. UNCHANGED Exchange!vars
    BY <1>2 DEF Goto, Exchange!vars, Outstanding, request, answer
  <2>2. QED
    BY <2>1
<1>3. CASE Enter(l)
  <2>1. UNCHANGED Exchange!vars
    BY <1>3 DEF Enter, Exchange!vars, Outstanding, WaitingPCs, request, answer
  <2>2. QED
    BY <2>1
<1>4. CASE BeginWrite(l) \/ EndWrite(l)
  <2>1. ~Outstanding /\ ~Outstanding' /\ lpc[l] \notin WaitingPCs /\ lpc'[l] \notin WaitingPCs
    BY <1>4 DEF BeginWrite, EndWrite, Goto, IInv, OneRequest, Outstanding, WaitingPCs, answer
  <2>2. UNCHANGED Exchange!vars
    BY <1>4, <2>1 DEF BeginWrite, EndWrite, Goto, Exchange!vars, WaitingPCs, answer
  <2>3. QED
    BY <2>2
<1>5. CASE Publish(l)
  <2>1. ~Outstanding /\ lpc[l] = "written"
    BY <1>5 DEF Publish, IInv, OneRequest, Outstanding
  <2>2. Outstanding'
    BY <1>5, <2>1, SeqModAssumption DEF Publish, Outstanding, NextSeq, Seqs, answer
  <2>3. \A m \in Layers : lpc[m] \notin WaitingPCs
    BY <2>1, LayerAssumption DEF IInv, LockHeld, WaitingPCs
  <2>4. input = lFrame[l] /\ extent = lExtent[l] /\ <<input, extent>> \in (1 .. MaxFrames) \X Extents
    BY <2>1, BoundAssumption DEF IInv, SlotContents, Frames
  <2>5. Exchange!Ask(l)
    <3>1. \A m \in Layers : lpc'[m] \in WaitingPCs <=> m = l
      BY <1>5, <2>3, Zenon DEF Publish, WaitingPCs, IInv, TypeOK
    <3>2. UNCHANGED <<lFrame, lExtent, input, extent, output>> /\ \A m \in Layers : lpc'[m] = "composing" <=> lpc[m] = "composing"
      BY <1>5, <2>1, <2>3, Zenon DEF Publish, WaitingPCs, answer
    <3> QED
      BY <2>1, <2>2, <2>3, <2>4, <3>1, <3>2, ZenonT(60) DEF Exchange!Ask
  <2>6. QED
    BY <2>5 DEF Exchange!Next
<1>6. CASE Accept(l) /\ Goto(l, "composing")
  <2>1. lpc[l] = "answered" /\ Usable(l) /\ UNCHANGED <<request, answer>>
    BY <1>6 DEF Accept, Goto, Leave
  <2>2. ~Outstanding /\ ~Outstanding'
    BY <2>1 DEF IInv, OneRequest, Outstanding, request, answer, WaitingPCs
  <2>3. output = <<lFrame[l], lExtent[l]>> /\ <<lFrame[l], lExtent[l]>> # NoAnswer
    BY <2>1, ExtentAssumption
       DEF IInv, OneRequest, AnswerStands, SlotContents, Unwrapped, WaitingPCs, NoAnswer
  <2>4. Exchange!Show(l)
    BY <1>6, <2>1, <2>2, <2>3 DEF Goto, Exchange!Show, WaitingPCs, request, answer
  <2>5. QED
    BY <2>4 DEF Exchange!Next
<1>7. QED
  BY <1>1, <1>2, <1>3, <1>4, <1>5, <1>6
     DEF Present, CheckHelper, CheckOutstanding, Abandon, Look, SeeQuit, GiveUp, Sleep, Accept, Compose,
         Crash, WaitingPCs

(* The frame channel implements the exchange. *)
THEOREM Implements == ASSUME MaxFrames < SeqMod PROVE Spec => ImplementsExchange
<1>1. Init => Exchange!Init
  BY DEF Init, Exchange!Init, Outstanding, WaitingPCs
<1>2. TypeOK /\ IInv /\ Unwrapped /\ [Next]_vars => [Exchange!Next]_(Exchange!vars)
  <2> SUFFICES ASSUME TypeOK, IInv, Unwrapped, [Next]_vars
               PROVE  [Exchange!Next]_(Exchange!vars)
    OBVIOUS
  <2>1. CASE Control \/ UNCHANGED vars
    BY <2>1, Hidden DEF Control, RequestStop, Resume, StoreTier, vars, request, answer
  <2>2. CASE Next
    BY <2>1, <2>2, DaemonSteps, LayerSteps DEF Next
  <2>3. QED
    BY <2>1, <2>2
<1>3. QED
  BY <1>1, <1>2, TypeCorrect, Invariance, NeverWraps, PTL DEF Spec, ImplementsExchange, Exchange!Spec
=============================================================================
