---------------------------- MODULE FrameChannel ----------------------------
(***************************************************************************)
(* The frame channel: one daemon (dlsslopd) and the Vulkan layers of any   *)
(* number of games share one header and one pair of frame slots.  A layer  *)
(* writes a frame, announces it by counting seq_req, and waits for the     *)
(* daemon to count seq_resp up to it; whatever goes wrong, it gives up and *)
(* presents the game's own frame.                                          *)
(*                                                                         *)
(* A step is what one actor does between two accesses of the shared state  *)
(* that another actor may come between.  Time is abstract: a deadline may  *)
(* pass at any step that looks at the clock.  Frames staged in host memory *)
(* are modelled here.                                                      *)
(*                                                                         *)
(* Operators called "Buggy..." are no part of the model: each is what a    *)
(* plausible bug would make of the definition after it, and shows that the *)
(* properties can fail.                                                    *)
(***************************************************************************)
EXTENDS Naturals

CONSTANTS
  Layers,         \* game devices that loaded the layer
  Extents,        \* the width x height pairs a layer may ask for
  NoExtent,       \* width and height 0: no answer stands behind them
  Tiers,          \* kNativeTiers, the heights a network can be built for
  BadTier,        \* a stored height that names no tier
  FirstTier,      \* kNativeDefaultTier, which a new channel also states
  SeqMod,         \* sequence numbers wrap at SeqMod (2^32 in the header)
  RebuildsForTier,\* E::rebuilds_for_tier: TRUE for HIP and identity
  Once,           \* Options.once: leave after the first answer
  MaxFrames,      \* bound: frames ever written to the slot
  MaxFaults       \* bound: daemon kills and game crashes

NoLayer == "none"

ASSUME LayerAssumption == NoLayer \notin Layers
ASSUME SeqModAssumption == SeqMod \in Nat /\ SeqMod > 1
ASSUME ExtentAssumption == NoExtent \notin Extents
ASSUME TierAssumption == FirstTier \in Tiers /\ BadTier \notin Tiers
ASSUME BoundAssumption == MaxFrames \in Nat /\ MaxFaults \in Nat
ASSUME OptionAssumption == RebuildsForTier \in BOOLEAN /\ Once \in BOOLEAN

VARIABLES
  (* The header and the frame slots, shared by every process. *)
  seqReq, seqResp, seqOk,
  extent,         \* width, height: of the latest request
  answered,       \* answeredW, answeredH: of the latest answer
  helperState,
  quit,
  nativeTier,     \* the tier controllers ask for
  input,          \* the frame in the proxy slot, 0 while it is being written
  output,         \* the answer in the answer slot: <<frame, extent>> it is for
  (* The daemon. *)
  wpc,            \* where it is; "down" when no process runs
  last,           \* the request it last took up
  wExtent,        \* the extent it read for that request
  wFrame,         \* the frame it read for that request
  outcome,        \* what became of that request
  built,          \* the extent a Vulkan network is built for
  tier,           \* engine.tier(): the tier the network runs at
  wanted,         \* the tier it read to run at next
  (* The layers. *)
  lpc,            \* where each is; "out" between presents
  producer,       \* who holds flock on the channel's .producer.lock
  lReq, lFrame, lExtent, \* its request's number, frame and extent
  dead,           \* ShmMap::dead: it never uses the channel again
  (* The service manager, and the bounds. *)
  connection,     \* a connection waits at the daemon's socket
  exit,           \* how the latest daemon ended
  frames, faults

request == <<seqReq, extent, input>>             \* what layers write
answer == <<seqResp, seqOk, answered, output>>   \* what the daemon writes
controls == <<quit, nativeTier>>                 \* what controllers write, too
job == <<last, wExtent, wFrame, outcome>>
network == <<built, tier, wanted>>
layer == <<lpc, producer, lReq, lFrame, lExtent, dead>>
manager == <<connection, exit>>
bounds == <<frames, faults>>
vars == <<request, answer, helperState, controls, wpc, job, network, layer, manager, bounds>>

NoAnswer == <<0, NoExtent>>
Seqs == 0 .. SeqMod - 1
Frames == 0 .. MaxFrames
NextSeq(n) == (n + 1) % SeqMod

(* Where the daemon can be.  It reads the frame slots only while inferring. *)
OpeningPCs == {"opened", "settling", "settled", "choosing", "preparing"}
BusyPCs == {"request", "reshaping", "inferring", "checking", "stamping", "confirming", "responding"}
LoopPCs == {"polling", "looking", "restoring", "rebuilding", "idling", "retiring"}
WorkerPCs == {"down", "stopping", "failing"} \cup OpeningPCs \cup LoopPCs \cup BusyPCs
(* Where a layer can be within one ProcessPresent. *)
WaitingPCs == {"waiting", "unanswered", "answered", "composing"}
LayerPCs == {"out", "entered", "serving", "admitted", "writing", "written"} \cup WaitingPCs
HelperStates == {"NotStarted", "Starting", "Running", "Stopped", "ModelFailed"}

(* Every variable has its type. *)
TypeOK ==
  /\ seqReq \in Seqs /\ seqResp \in Seqs /\ seqOk \in Seqs
  /\ extent \in Extents \cup {NoExtent} /\ answered \in Extents \cup {NoExtent}
  /\ helperState \in HelperStates /\ quit \in BOOLEAN
  /\ nativeTier \in Tiers \cup {BadTier}
  /\ input \in Frames /\ output \in Frames \X (Extents \cup {NoExtent})
  /\ wpc \in WorkerPCs /\ last \in Seqs
  /\ wExtent \in Extents \cup {NoExtent} /\ wFrame \in Frames
  /\ outcome \in {"ok", "rejected", "fault"}
  /\ built \in Extents \cup {NoExtent} /\ tier \in Tiers /\ wanted \in Tiers
  /\ lpc \in [Layers -> LayerPCs]
  /\ producer \in Layers \cup {NoLayer}
  /\ lReq \in [Layers -> Seqs] /\ lFrame \in [Layers -> Frames]
  /\ lExtent \in [Layers -> Extents \cup {NoExtent}]
  /\ dead \in [Layers -> BOOLEAN]
  /\ connection \in BOOLEAN /\ exit \in {"none", "clean", "quit", "failed", "terminated"}
  /\ frames \in Frames /\ faults \in 0 .. MaxFaults

(* A channel file a game or a controller just created; no daemon has run. *)
Init ==
  /\ seqReq = 0 /\ seqResp = 0 /\ seqOk = 0
  /\ extent = NoExtent /\ answered = NoExtent
  /\ helperState = "NotStarted" /\ quit = FALSE
  /\ nativeTier = FirstTier /\ tier = FirstTier /\ wanted = FirstTier
  /\ input = 0 /\ output = NoAnswer
  /\ wpc = "down" /\ last = 0 /\ wExtent = NoExtent /\ wFrame = 0
  /\ outcome = "ok" /\ built = NoExtent
  /\ lpc = [l \in Layers |-> "out"] /\ producer = NoLayer
  /\ lReq = [l \in Layers |-> 0] /\ lFrame = [l \in Layers |-> 0]
  /\ lExtent = [l \in Layers |-> NoExtent]
  /\ dead = [l \in Layers |-> FALSE]
  /\ connection = FALSE /\ exit = "none"
  /\ frames = 0 /\ faults = 0

-----------------------------------------------------------------------------
(* The service manager starts the daemon: dlsslop.socket for a waiting     *)
(* connection, dlsslop.service's Restart= after a failure, or a person or  *)
(* dlsslop-run at any time.  A start opens the mapping, under flock.       *)

OpenMapping ==
  /\ wpc = "down"
  /\ wpc' = "opened"
  /\ quit' = FALSE
  /\ seqOk' = 0
  /\ last' = 0 /\ wExtent' = NoExtent /\ wFrame' = 0 /\ outcome' = "ok" /\ built' = NoExtent
  /\ exit' = "none"
  /\ UNCHANGED <<request, seqResp, answered, output, helperState, nativeTier, tier, wanted, layer,
                 connection, bounds>>

StartForConnection == connection /\ OpenMapping
RestartOnFailure == exit = "failed" /\ OpenMapping
StartByHand == OpenMapping

(* Reads the request a predecessor left, if any. *)
ReadOldRequest ==
  /\ wpc = "opened"
  /\ last' = seqReq
  /\ wpc' = "settling"
  /\ UNCHANGED <<request, answer, helperState, controls, wExtent, wFrame, outcome, network, layer,
                 manager, bounds>>

(* Answers it, which with seq_ok cleared reads as failed. *)
AnswerOldRequest ==
  /\ wpc = "settling"
  /\ seqResp' = last
  /\ wpc' = "settled"
  /\ UNCHANGED <<request, seqOk, answered, output, helperState, controls, job, network, layer, manager,
                 bounds>>

(* Starting; and the channel's tier is read, which stays when it is usable. *)
Announce ==
  /\ wpc = "settled"
  /\ helperState' = "Starting"
  /\ wanted' = IF nativeTier \in Tiers THEN nativeTier ELSE FirstTier
  /\ wpc' = "choosing"
  /\ UNCHANGED <<request, answer, controls, job, built, tier, layer, manager, bounds>>

(* The tier chosen replaces whatever the channel says by now. *)
ChooseTier ==
  /\ wpc = "choosing"
  /\ nativeTier' = wanted
  /\ tier' = wanted
  /\ wpc' = "preparing"
  /\ UNCHANGED <<request, answer, helperState, quit, job, built, wanted, layer, manager, bounds>>

BuggyPrepared ==
  /\ wpc = "preparing"
  /\ helperState' = "Running"
  /\ last' = seqReq
  /\ wpc' = "polling"
  /\ UNCHANGED <<request, answer, controls, wExtent, wFrame, outcome, network, layer, manager, bounds>>

(* engine.prepare() done: ready, and in step with the channel. *)
Prepared ==
  /\ wpc = "preparing"
  /\ helperState' = "Running"
  /\ last' = seqResp
  /\ wpc' = "polling"
  /\ UNCHANGED <<request, answer, controls, wExtent, wFrame, outcome, network, layer, manager, bounds>>

PrepareFails ==
  /\ wpc = "preparing"
  /\ wpc' = "failing"
  /\ UNCHANGED <<request, answer, helperState, controls, job, network, layer, manager, bounds>>

(* The end of a worker that returns: ModelFailed for an error, otherwise   *)
(* Stopped.  A socket the service manager holds keeps its connections.     *)
Fail ==
  /\ wpc = "failing"
  /\ helperState' = "ModelFailed"
  /\ exit' = "failed"
  /\ wpc' = "down"
  /\ UNCHANGED <<request, answer, controls, job, network, layer, connection, bounds>>

Stop ==
  /\ wpc = "stopping"
  /\ helperState' = "Stopped"
  /\ wpc' = "down"
  /\ UNCHANGED <<request, answer, controls, job, network, layer, manager, bounds>>

-----------------------------------------------------------------------------
(* serve(): the loop.  Its condition is a signal or quit.                  *)

ObeySignal ==
  /\ wpc = "polling"
  /\ wpc' = "stopping"
  /\ exit' = "clean"
  /\ UNCHANGED <<request, answer, helperState, controls, job, network, layer, connection, bounds>>

ObeyQuit ==
  /\ wpc = "polling" /\ quit
  /\ wpc' = "stopping"
  /\ exit' = "quit"
  /\ UNCHANGED <<request, answer, helperState, controls, job, network, layer, connection, bounds>>

BuggyAcceptOffers ==
  /\ wpc = "polling"
  /\ connection' = FALSE
  /\ wpc' = "looking"
  /\ UNCHANGED <<request, answer, helperState, controls, job, network, layer, exit, bounds>>

(* accept_offers() takes every waiting connection. *)
AcceptOffers ==
  /\ wpc = "polling" /\ ~quit
  /\ connection' = FALSE
  /\ wpc' = "looking"
  /\ UNCHANGED <<request, answer, helperState, controls, job, network, layer, exit, bounds>>

(* No request waits: follow_tier(). *)
FollowTier ==
  /\ wpc = "looking"
  /\ seqReq = last
  /\ \/ /\ nativeTier = tier
        /\ wpc' = "idling"
        /\ UNCHANGED <<helperState, tier, wanted>>
     \/ /\ nativeTier \notin Tiers
        /\ wpc' = "restoring"
        /\ UNCHANGED <<helperState, tier, wanted>>
     \/ /\ nativeTier \in Tiers \ {tier} /\ ~RebuildsForTier
        /\ tier' = nativeTier /\ wanted' = nativeTier
        /\ wpc' = "idling"
        /\ UNCHANGED helperState
     \/ /\ nativeTier \in Tiers \ {tier} /\ RebuildsForTier
        /\ wanted' = nativeTier
        /\ helperState' = "Starting"
        /\ wpc' = "rebuilding"
        /\ UNCHANGED tier
  /\ UNCHANGED <<request, answer, controls, job, built, layer, manager, bounds>>

(* An unusable tier is overwritten with the active one. *)
RestoreTier ==
  /\ wpc = "restoring"
  /\ nativeTier' = tier
  /\ wpc' = "idling"
  /\ UNCHANGED <<request, answer, helperState, quit, job, network, layer, manager, bounds>>

(* engine.retier() returned, for the tier read before it. *)
Rebuilt ==
  /\ wpc = "rebuilding"
  /\ tier' = wanted
  /\ helperState' = "Running"
  /\ wpc' = "polling"
  /\ UNCHANGED <<request, answer, controls, job, built, wanted, layer, manager, bounds>>

RebuildFails ==
  /\ wpc = "rebuilding"
  /\ nativeTier' = tier
  /\ wpc' = "failing"
  /\ UNCHANGED <<request, answer, helperState, quit, job, network, layer, manager, bounds>>

(* The wait for a request, 100 ms at most. *)
Wait ==
  /\ wpc = "idling"
  /\ wpc' = "polling"
  /\ UNCHANGED <<request, answer, helperState, controls, job, network, layer, manager, bounds>>

(* --idle-exit: nothing asked for long enough.  Stopped is stored first,   *)
(* then seq_req is read again.                                             *)
IdleOut ==
  /\ wpc = "idling"
  /\ seqReq = last
  /\ helperState' = "Stopped"
  /\ wpc' = "retiring"
  /\ UNCHANGED <<request, answer, controls, job, network, layer, manager, bounds>>

Retire ==
  /\ wpc = "retiring"
  /\ \/ /\ seqReq = last
        /\ wpc' = "stopping"
        /\ exit' = "clean"
        /\ UNCHANGED helperState
     \/ /\ seqReq # last
        /\ wpc' = "polling"
        /\ helperState' = "Running"
        /\ UNCHANGED exit
  /\ UNCHANGED <<request, answer, controls, job, network, layer, connection, bounds>>

TakeRequest ==
  /\ wpc = "looking"
  /\ seqReq # last
  /\ last' = seqReq
  /\ wExtent' = extent
  /\ outcome' = "ok"
  /\ wpc' = "request"
  /\ UNCHANGED <<request, answer, helperState, controls, wFrame, network, layer, manager, bounds>>

(* read_request(): bad settings are the controllers' doing, so any request *)
(* may be rejected for them.                                               *)
RejectRequest ==
  /\ wpc = "request"
  /\ outcome' = "rejected"
  /\ wpc' = "stamping"
  /\ UNCHANGED <<request, answer, helperState, controls, last, wExtent, wFrame, network, layer, manager,
                 bounds>>

(* process(): a network built for the request's shape reads the frame. *)
Fits == RebuildsForTier \/ built = wExtent

BeginInference ==
  /\ wpc = "request" /\ Fits
  /\ wFrame' = input
  /\ wpc' = "inferring"
  /\ UNCHANGED <<request, answer, helperState, controls, last, wExtent, outcome, network, layer, manager,
                 bounds>>

BuggyBeginReshape ==
  /\ wpc = "request" /\ ~Fits
  /\ wpc' = "reshaping"
  /\ UNCHANGED <<request, answer, helperState, controls, job, network, layer, manager, bounds>>

(* Otherwise it is built first, while the layers present their own frames. *)
BeginReshape ==
  /\ wpc = "request" /\ ~Fits
  /\ helperState' = "Starting"
  /\ wpc' = "reshaping"
  /\ UNCHANGED <<request, answer, controls, job, network, layer, manager, bounds>>

Reshape ==
  /\ wpc = "reshaping"
  /\ \/ /\ built' = wExtent
        /\ helperState' = "Running"
        /\ wFrame' = input
        /\ wpc' = "inferring"
        /\ UNCHANGED outcome
     \/ /\ built' = NoExtent
        /\ outcome' = "fault"
        /\ wpc' = "stamping"
        /\ UNCHANGED <<helperState, wFrame>>
  /\ UNCHANGED <<request, answer, controls, last, wExtent, tier, wanted, layer, manager, bounds>>

(* engine.infer() returned: the answer is in its slot, or part of one is.  *)
Infer ==
  /\ wpc = "inferring"
  /\ \/ /\ output' = <<wFrame, wExtent>>
        /\ wpc' = "checking"
        /\ UNCHANGED outcome
     \/ /\ output' \in {output, NoAnswer}
        /\ outcome' \in {"rejected", "fault"}
        /\ wpc' = "stamping"
  /\ UNCHANGED <<request, seqResp, seqOk, answered, helperState, controls, last, wExtent, wFrame, network,
                 layer, manager, bounds>>

(* An answer to a request that changed meanwhile is discarded. *)
CheckRequest ==
  /\ wpc = "checking"
  /\ outcome' = IF seqReq = last THEN "ok" ELSE "rejected"
  /\ wpc' = "stamping"
  /\ UNCHANGED <<request, answer, helperState, controls, last, wExtent, wFrame, network, layer, manager,
                 bounds>>

(* The answer, in the order the layer relies on: what it is, that it is    *)
(* good, and only then that it is there.                                   *)
StampAnswer ==
  /\ wpc = "stamping"
  /\ answered' = IF outcome = "ok" THEN wExtent ELSE NoExtent
  /\ wpc' = IF outcome = "ok" THEN "confirming" ELSE "responding"
  /\ UNCHANGED <<request, seqResp, seqOk, output, helperState, controls, job, network, layer, manager,
                 bounds>>

ConfirmAnswer ==
  /\ wpc = "confirming"
  /\ seqOk' = last
  /\ wpc' = "responding"
  /\ UNCHANGED <<request, seqResp, answered, output, helperState, controls, job, network, layer, manager,
                 bounds>>

(* A rejection is answered and serving goes on; a fault ends it, as any    *)
(* failure does with --once, and with --once a good answer does.           *)
Respond ==
  /\ wpc = "responding"
  /\ seqResp' = last
  /\ LET failed == outcome = "fault" \/ (outcome = "rejected" /\ Once)
         done == outcome = "ok" /\ Once
     IN /\ wpc' = IF failed THEN "failing" ELSE IF done THEN "stopping" ELSE "polling"
        /\ exit' = IF done THEN "clean" ELSE exit
  /\ UNCHANGED <<request, seqOk, answered, output, helperState, controls, job, network, layer, connection,
                 bounds>>

(* SIGKILL or a crash; or, before serving, SIGTERM, and then the service   *)
(* manager restarts nothing.  The header keeps what a daemon last said, as *)
(* nothing is written.                                                     *)
Kill ==
  /\ wpc # "down"
  /\ faults < MaxFaults /\ faults' = faults + 1
  /\ wpc' = "down"
  /\ exit' \in {"failed"} \cup (IF wpc \in OpeningPCs THEN {"terminated"} ELSE {})
  /\ output' \in IF wpc = "inferring" THEN {output, NoAnswer} ELSE {output}
  /\ UNCHANGED <<request, seqResp, seqOk, answered, helperState, controls, job, network, layer,
                 connection, frames>>

-----------------------------------------------------------------------------
(* A layer's ProcessPresent.                                               *)

(* The frame is over for layer l, and its guard lets the lock go. *)
Leave(l) ==
  /\ lpc' = [lpc EXCEPT ![l] = "out"]
  /\ lReq' = [lReq EXCEPT ![l] = 0]
  /\ lFrame' = [lFrame EXCEPT ![l] = 0]
  /\ lExtent' = [lExtent EXCEPT ![l] = NoExtent]
  /\ producer' = NoLayer

Goto(l, pc) ==
  /\ lpc' = [lpc EXCEPT ![l] = pc]
  /\ UNCHANGED <<lReq, lFrame, lExtent, producer>>

BuggyEnter(l) ==
  /\ lpc[l] = "out"
  /\ producer' = l
  /\ lpc' = [lpc EXCEPT ![l] = "entered"]
  /\ UNCHANGED <<request, answer, helperState, controls, wpc, job, network, lReq, lFrame, lExtent, dead,
                 manager, bounds>>

(* NativeFrameGuard: a process that finds the lock taken presents its own. *)
Enter(l) ==
  /\ lpc[l] = "out" /\ producer = NoLayer
  /\ producer' = l
  /\ lpc' = [lpc EXCEPT ![l] = "entered"]
  /\ UNCHANGED <<request, answer, helperState, controls, wpc, job, network, lReq, lFrame, lExtent, dead,
                 manager, bounds>>

(* No worker serves: ask for one, and do not ask it for a frame.  (Every   *)
(* two seconds at most, so the connection may come later than here.)       *)
CheckHelper(l) ==
  /\ lpc[l] = "entered"
  /\ IF helperState = "Running"
     THEN Goto(l, "serving") /\ UNCHANGED connection
     ELSE Leave(l) /\ connection' = TRUE
  /\ UNCHANGED <<request, answer, helperState, controls, wpc, job, network, dead, exit, bounds>>

(* A request that timed out still owns the slots. *)
Outstanding == seqReq # seqResp

BuggyCheckOutstanding(l) ==
  /\ lpc[l] = "serving"
  /\ Goto(l, "admitted")
  /\ UNCHANGED <<request, answer, helperState, controls, wpc, job, network, dead, manager, bounds>>

CheckOutstanding(l) ==
  /\ lpc[l] = "serving"
  /\ IF Outstanding THEN Leave(l) ELSE Goto(l, "admitted")
  /\ UNCHANGED <<request, answer, helperState, controls, wpc, job, network, dead, manager, bounds>>

(* The composition cannot run here, its recording failed, the extent is    *)
(* out of bounds, or the channel is dead for this game.                    *)
Abandon(l) ==
  /\ lpc[l] = "admitted"
  /\ Leave(l)
  /\ UNCHANGED <<request, answer, helperState, controls, wpc, job, network, dead, manager, bounds>>

(* Leg 1: the proxy goes into its slot, and the header says what it is. *)
BeginWrite(l) ==
  /\ lpc[l] = "admitted" /\ ~dead[l]
  /\ frames < MaxFrames /\ frames' = frames + 1
  /\ \E e \in Extents : lExtent' = [lExtent EXCEPT ![l] = e]
  /\ lFrame' = [lFrame EXCEPT ![l] = frames + 1]
  /\ lpc' = [lpc EXCEPT ![l] = "writing"]
  /\ input' = 0
  /\ UNCHANGED <<seqReq, extent, answer, helperState, controls, wpc, job, network, producer, lReq, dead,
                 manager, faults>>

EndWrite(l) ==
  /\ lpc[l] = "writing"
  /\ input' = lFrame[l]
  /\ extent' = lExtent[l]
  /\ Goto(l, "written")
  /\ UNCHANGED <<seqReq, answer, helperState, controls, wpc, job, network, dead, manager, bounds>>

Publish(l) ==
  /\ lpc[l] = "written"
  /\ seqReq' = NextSeq(seqReq)
  /\ lReq' = [lReq EXCEPT ![l] = NextSeq(seqReq)]
  /\ lpc' = [lpc EXCEPT ![l] = "waiting"]
  /\ UNCHANGED <<extent, input, answer, helperState, controls, wpc, job, network, producer, lFrame,
                 lExtent, dead, manager, bounds>>

(* One look at seq_resp. *)
Look(l) ==
  /\ lpc[l] = "waiting"
  /\ Goto(l, IF seqResp = lReq[l] THEN "answered" ELSE "unanswered")
  /\ UNCHANGED <<request, answer, helperState, controls, wpc, job, network, dead, manager, bounds>>

(* Not answered yet.  With quit set the channel is dead for good; else the *)
(* layer gives up when its budget is spent, the worker no longer serves,   *)
(* or its heartbeat stalls; else it sleeps on the futex and looks again.   *)
SeeQuit(l) ==
  /\ lpc[l] = "unanswered" /\ quit
  /\ dead' = [dead EXCEPT ![l] = TRUE]
  /\ Leave(l)
  /\ UNCHANGED <<request, answer, helperState, controls, wpc, job, network, manager, bounds>>

BuggyGiveUp(l) ==
  /\ lpc[l] = "unanswered" /\ ~quit
  /\ helperState # "Running"
  /\ Leave(l)
  /\ UNCHANGED <<request, answer, helperState, controls, wpc, job, network, dead, manager, bounds>>

GiveUp(l) ==
  /\ lpc[l] = "unanswered" /\ ~quit
  /\ Leave(l)
  /\ UNCHANGED <<request, answer, helperState, controls, wpc, job, network, dead, manager, bounds>>

Sleep(l) ==
  /\ lpc[l] = "unanswered" /\ ~quit
  /\ helperState = "Running"
  /\ Goto(l, "waiting")
  /\ UNCHANGED <<request, answer, helperState, controls, wpc, job, network, dead, manager, bounds>>

BuggyUsable(l) == answered = lExtent[l]

(* The answer is good, and of the extent asked for. *)
Usable(l) == seqOk = lReq[l] /\ answered = lExtent[l]

Accept(l) ==
  /\ lpc[l] = "answered"
  /\ IF Usable(l) THEN Goto(l, "composing") ELSE Leave(l)
  /\ UNCHANGED <<request, answer, helperState, controls, wpc, job, network, dead, manager, bounds>>

(* The answer is copied out of its slot and composed onto the frame. *)
Compose(l) ==
  /\ lpc[l] = "composing"
  /\ Leave(l)
  /\ UNCHANGED <<request, answer, helperState, controls, wpc, job, network, dead, manager, bounds>>

(* The game ends anywhere; the kernel drops its lock. *)
Crash(l) ==
  /\ lpc[l] # "out"
  /\ faults < MaxFaults /\ faults' = faults + 1
  /\ Leave(l)
  /\ dead' = [dead EXCEPT ![l] = FALSE]
  /\ UNCHANGED <<request, answer, helperState, controls, wpc, job, network, manager, frames>>

-----------------------------------------------------------------------------
(* Controllers: dlsslopctl --quit, --resume and --tier, and the GUI's.     *)

RequestStop ==
  /\ quit' = TRUE
  /\ UNCHANGED <<request, answer, helperState, nativeTier, wpc, job, network, layer, manager, bounds>>

Resume ==
  /\ quit' = FALSE
  /\ UNCHANGED <<request, answer, helperState, nativeTier, wpc, job, network, layer, manager, bounds>>

StoreTier ==
  /\ nativeTier' \in Tiers \cup {BadTier}
  /\ UNCHANGED <<request, answer, helperState, quit, wpc, job, network, layer, manager, bounds>>

-----------------------------------------------------------------------------
Start == StartForConnection \/ RestartOnFailure \/ StartByHand

Opening == ReadOldRequest \/ AnswerOldRequest \/ Announce \/ ChooseTier \/ Prepared \/ PrepareFails

Serving ==
  \/ ObeyQuit \/ AcceptOffers \/ FollowTier \/ RestoreTier \/ Rebuilt \/ RebuildFails \/ Wait \/ Retire
  \/ TakeRequest \/ RejectRequest \/ BeginInference \/ BeginReshape \/ Reshape \/ Infer \/ CheckRequest
  \/ StampAnswer \/ ConfirmAnswer \/ Respond

(* What a running daemon does unless it is killed. *)
Work == Opening \/ Serving \/ Stop \/ Fail

Present(l) ==
  \/ CheckHelper(l) \/ CheckOutstanding(l) \/ Abandon(l) \/ BeginWrite(l) \/ EndWrite(l) \/ Publish(l)
  \/ Look(l) \/ SeeQuit(l) \/ GiveUp(l) \/ Sleep(l) \/ Accept(l) \/ Compose(l)

Control == RequestStop \/ Resume \/ StoreTier

Next ==
  \/ Start \/ Work \/ ObeySignal \/ IdleOut \/ Kill
  \/ \E l \in Layers : Enter(l) \/ Present(l) \/ Crash(l)
  \/ Control

Spec == Init /\ [][Next]_vars

(* A game that is presenting goes on, and the budget of a frame (10 s at   *)
(* most) runs out however often the layer looks.                           *)
LayerFairness ==
  \A l \in Layers : WF_vars(Present(l)) /\ SF_vars(GiveUp(l))

(* A daemon goes on, its builds and inferences end, some game presents     *)
(* again, and the service manager starts a daemon for a connection and     *)
(* after a failure.                                                        *)
SystemFairness ==
  /\ WF_vars(Work)
  /\ WF_vars(StartForConnection) /\ WF_vars(RestartOnFailure)
  /\ \A l \in Layers : WF_vars(Enter(l))

LayerSpec == Spec /\ LayerFairness
FairSpec == Spec /\ LayerFairness /\ SystemFairness

-----------------------------------------------------------------------------
(* Safety.                                                                 *)

(* The frame slots belong to one side at a time: no layer writes a frame   *)
(* or copies an answer while the daemon reads and writes them, across      *)
(* timeouts, crashes and restarts (ProcessPresent's seq_req = seq_resp     *)
(* test, and Mapping's answer to an old request).                          *)
SlotExclusion ==
  wpc = "inferring" => \A l \in Layers : lpc[l] \notin {"writing", "composing"}

(* What a layer composes onto its frame is the answer to that very frame,  *)
(* at that extent, unless its request is the one numbered 0, which the     *)
(* count reaches by wrapping (ShmProcessFrame's ok).                       *)
ComposedIsOwn ==
  \A l \in Layers :
    lpc[l] = "composing" /\ lReq[l] # 0 => output = <<lFrame[l], lExtent[l]>>

(* From the moment the daemon takes a request up until it is answered, no  *)
(* later one replaces it, and the frame and extent are those it read: the  *)
(* answer process() discards as "request changed" is never made.           *)
InferenceUndisturbed ==
  /\ wpc \in BusyPCs => seqReq = last /\ Outstanding
  /\ wpc \in {"inferring", "checking"} => input = wFrame /\ extent = wExtent

(* The daemon says it is running only while it serves, or when it was      *)
(* killed before it could say otherwise; while it builds a network it says *)
(* so, and a daemon that ended by itself says that.                        *)
HonestState ==
  /\ helperState = "Running" => wpc # "down" \/ exit \in {"failed", "terminated"}
  /\ wpc \in {"choosing", "preparing", "rebuilding", "reshaping"} => helperState = "Starting"
  /\ wpc \in LoopPCs \ {"rebuilding", "retiring"} => helperState = "Running"
  /\ wpc = "down" /\ exit \in {"clean", "quit"} => helperState = "Stopped"

(* The count of answers only ever moves to the latest request, so a layer  *)
(* that waits for equality cannot miss its answer.                         *)
AnswersCatchUp == [][seqResp' # seqResp => seqResp' = seqReq]_vars

(* The channel implements the exchange it promises, as long as the count   *)
(* of requests has not wrapped: a frame is with the daemon while its       *)
(* request is outstanding, and a game holds it from then until it leaves.  *)
Exchange == INSTANCE FrameExchange WITH
  Games <- Layers,
  Questions <- (1 .. MaxFrames) \X Extents,
  Nothing <- NoAnswer,
  pending <- IF Outstanding THEN <<input, extent>> ELSE NoAnswer,
  holds <- [l \in Layers |-> IF lpc[l] \in WaitingPCs THEN <<lFrame[l], lExtent[l]>> ELSE NoAnswer],
  shown <- [l \in Layers |-> IF lpc[l] = "composing" THEN output ELSE NoAnswer]

ImplementsExchange == Exchange!Spec

-----------------------------------------------------------------------------
(* Liveness.                                                               *)

(* A present always returns, whatever becomes of the daemon. *)
PresentReturns == \A l \in Layers : lpc[l] # "out" ~> lpc[l] = "out"

(* While games go on presenting, every request is answered, if only by the *)
(* next daemon, as failed: no crash, quit or idle exit leaves the slots    *)
(* taken for good.  Only SIGTERM can, sent to a daemon that starts after a *)
(* crash: its predecessor's Running stands, and nothing starts another.    *)
RequestsSettle == Outstanding ~> ~Outstanding \/ exit = "terminated"

(* A daemon told to quit ends, unless it is told otherwise. *)
QuitObeyed == quit ~> (~quit \/ wpc = "down")

=============================================================================
