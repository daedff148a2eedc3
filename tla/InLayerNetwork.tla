--------------------------- MODULE InLayerNetwork ---------------------------
(***************************************************************************)
(* The in-layer network: a game's device whose presented frames go through *)
(* a network on that device.  The game's present thread holds the device's *)
(* lock throughout a present; the network is built by a thread of its own, *)
(* whose submits take networkSubmit and, through the queue hooks, the      *)
(* device's lock; and another of the game's threads submits, waits for the *)
(* device and destroys swapchains, and at last the device.                 *)
(***************************************************************************)
EXTENDS NetworkRecorder, FiniteSets

CONSTANTS
  Swapchains,
  FramesOf(_),    \* the frames a swapchain may present
  Rejected,       \* settings read_settings() rejects
  MaxPresents,    \* bound: presents
  MaxUploads      \* bound: submits of one build

ASSUME BoundAssumption == MaxPresents \in Nat /\ MaxUploads \in Nat \ {0}

Nobody == "nobody"
NoSwapchain == "none"

ASSUME FramesAssumption ==
  /\ NoSwapchain \notin Swapchains
  /\ \A s \in Swapchains : FramesOf(s) \subseteq VulkanFrame
  /\ Rejected \notin VulkanFrame \cup {NoFrame}
  /\ NoFrame \notin [reset : BOOLEAN]

Threads == {"present", "builder", "game"}

VARIABLES
  (* The device. *)
  lock, networkSubmit,  \* who holds each mutex
  known,       \* g_devices finds the device by its queues
  lost,        \* the device is lost
  alive,       \* its swapchains
  graphics,    \* those that present on a queue that can run the network
  pending,     \* leg2Pending, of each swapchain
  gpu,         \* the runtime each swapchain's submitted frame still runs
  signalled,   \* leg2Done: signalled and not waited on
  (* The network. *)
  inLayer,     \* "none", "open" or, when closed, "closed"
  inLayerOff, inLayerLast,
  building, joinable, failed, target, prepared, recorder,
  builds, uploads, bpc,
  (* The present thread. *)
  ppc, todo,   \* where it is, and the present's swapchains still to see
  frame,       \* the frame the head of todo is to present
  cmd,         \* the network's part of the recorded frame, or NoFrame
  consumed, composedSem, waited, presents,
  (* The game's other thread, and the swapchain it destroys. *)
  gpc, dying,
  (* What the network's history is of, the last frame that ran; and whether a
     frame recorded since the history last started over failed to run. *)
  history, unsubmitted

device == <<lock, networkSubmit, known, lost, alive, graphics>>
queue == <<pending, gpu, signalled>>
module == <<inLayer, inLayerOff, inLayerLast>>
network == <<building, joinable, failed, target, prepared, recorder, builds, uploads, bpc>>
call == <<ppc, todo, frame, cmd, consumed, composedSem, waited, presents>>
other == <<gpc, dying>>
ran == <<history, unsubmitted>>
vars == <<device, queue, module, network, call, other, ran>>

PresentPCs == {"out", "next", "collect", "remote", "last", "prepare", "record", "submit",
               "salvage", "wait", "show"}
BuilderPCs == {"none", "start", "lock", "enter", "submitting", "finish", "clear", "ended"}
GamePCs == {"idle", "submitting", "waiting", "asked", "destroyWait", "free",
            "endWait", "close", "ended"}
Idle == NoRuntime

DeviceOK ==
  /\ lock \in Threads \cup {Nobody} /\ networkSubmit \in Threads \cup {Nobody}
  /\ known \in BOOLEAN /\ lost \in BOOLEAN
  /\ alive \subseteq Swapchains /\ graphics \subseteq Swapchains

QueueOK ==
  /\ pending \in [Swapchains -> BOOLEAN] /\ gpu \in [Swapchains -> Nat]
  /\ signalled \in [Swapchains -> BOOLEAN]

ModuleOK ==
  /\ inLayer \in {"none", "open", "closed"} /\ inLayerOff \in BOOLEAN
  /\ inLayerLast \in Swapchains \cup {NoSwapchain}

NetworkOK ==
  /\ building \in BOOLEAN /\ joinable \in BOOLEAN /\ failed \in BOOLEAN
  /\ target \in VulkanFrame \cup {NoFrame} /\ prepared \in VulkanFrame \cup {NoFrame}
  /\ recorder \in Recorder /\ builds \in Nat /\ uploads \in 0 .. MaxUploads
  /\ bpc \in BuilderPCs

CallOK ==
  /\ ppc \in PresentPCs /\ todo \in Seq(Swapchains)
  /\ frame \in VulkanFrame \cup {NoFrame, Rejected} /\ cmd \in [reset : BOOLEAN] \cup {NoFrame}
  /\ consumed \in BOOLEAN /\ composedSem \in Swapchains \cup {NoSwapchain}
  /\ waited \in Nat /\ presents \in 0 .. MaxPresents

OtherOK ==
  /\ gpc \in GamePCs /\ dying \in Swapchains \cup {NoSwapchain}
  /\ unsubmitted \in BOOLEAN

TypeOK == DeviceOK /\ QueueOK /\ ModuleOK /\ NetworkOK /\ CallOK /\ OtherOK

Init ==
  /\ lock = Nobody /\ networkSubmit = Nobody /\ known = TRUE /\ lost = FALSE
  /\ alive = Swapchains /\ graphics \in SUBSET Swapchains
  /\ pending = [s \in Swapchains |-> FALSE] /\ gpu = [s \in Swapchains |-> Idle]
  /\ signalled = [s \in Swapchains |-> FALSE]
  /\ inLayer = "none" /\ inLayerOff = FALSE /\ inLayerLast = NoSwapchain
  /\ building = FALSE /\ joinable = FALSE /\ failed = FALSE
  /\ target = NoFrame /\ prepared = NoFrame /\ recorder = NewRecorder
  /\ builds = 0 /\ uploads = 0 /\ bpc = "none"
  /\ ppc = "out" /\ todo = <<>> /\ frame = NoFrame /\ cmd = NoFrame
  /\ consumed = FALSE /\ composedSem = NoSwapchain /\ waited = 0 /\ presents = 0
  /\ gpc = "idle" /\ dying = NoSwapchain
  /\ history = NoFrame /\ unsubmitted = FALSE

(***************************************************************************)
(* The GPU runs what was submitted, or the device is lost, which ends      *)
(* whatever ran and fails every wait and submit from then on.              *)
(***************************************************************************)
Run ==
  /\ \E s \in Swapchains : gpu[s] # Idle /\ gpu' = [gpu EXCEPT ![s] = Idle]
  /\ UNCHANGED <<device, pending, signalled, module, network, call, other, ran>>

Lose ==
  /\ ~lost /\ known
  /\ lost' = TRUE
  /\ gpu' = [s \in Swapchains |-> Idle]
  /\ UNCHANGED <<lock, networkSubmit, known, alive, graphics, pending, signalled,
                 module, network, call, other, ran>>

GpuIdle == \A s \in Swapchains : gpu[s] = Idle

(***************************************************************************)
(* The builder.  It gives up what was built, makes images and a runtime,   *)
(* whose uploads it submits under networkSubmit and the device's lock, and *)
(* says how that went before it says that it is over.                      *)
(***************************************************************************)
BuilderOnly == UNCHANGED <<known, lost, alive, graphics, queue, module, joinable, target,
                           prepared, builds, call, other, ran>>

FailBuild ==
  /\ recorder' \in FailedBuilds(recorder, target)
  /\ failed' = TRUE /\ bpc' = "clear"

BuildStart ==
  /\ bpc = "start"
  /\ \/ FailBuild
     \/ /\ recorder' = [Dropped(recorder) EXCEPT !.colour = TRUE, !.half = target.fp16]
        /\ bpc' = "lock" /\ UNCHANGED failed
  /\ uploads' = 0
  /\ UNCHANGED <<lock, networkSubmit, building>> /\ BuilderOnly

BuilderLock ==
  /\ bpc = "lock" /\ networkSubmit = Nobody
  /\ networkSubmit' = "builder" /\ bpc' = "enter"
  /\ UNCHANGED <<lock, building, failed, recorder, uploads>> /\ BuilderOnly

(* The queue hooks look the device up by its queue, then take its lock. *)
BuilderEnter ==
  /\ bpc = "enter"
  /\ IF known
     THEN /\ lock = Nobody /\ lock' = "builder" /\ bpc' = "submitting"
          /\ UNCHANGED <<networkSubmit, recorder, failed>>
     ELSE FailBuild /\ networkSubmit' = Nobody /\ UNCHANGED lock
  /\ UNCHANGED <<building, uploads>> /\ BuilderOnly

BuilderSubmitted ==
  /\ bpc = "submitting"
  /\ lock' = Nobody /\ networkSubmit' = Nobody /\ uploads' = uploads + 1
  /\ \/ FailBuild
     \/ /\ ~lost
        /\ bpc' \in {"finish"} \cup IF uploads' < MaxUploads THEN {"lock"} ELSE {}
        /\ UNCHANGED <<recorder, failed>>
  /\ UNCHANGED building /\ BuilderOnly

BuildFinish ==
  /\ bpc = "finish"
  /\ recorder' = Built(recorder, target, builds) /\ bpc' = "clear"
  /\ UNCHANGED <<lock, networkSubmit, building, failed, uploads>> /\ BuilderOnly

BuildClear ==
  /\ bpc = "clear"
  /\ building' = FALSE /\ bpc' = "ended"
  /\ UNCHANGED <<lock, networkSubmit, failed, recorder, uploads>> /\ BuilderOnly

Builder == BuildStart \/ BuilderLock \/ BuilderEnter \/ BuilderSubmitted
           \/ BuildFinish \/ BuildClear

(***************************************************************************)
(* The present thread: a present of several swapchains, of which at most   *)
(* one is composed, all under the device's lock.                           *)
(***************************************************************************)
PresentOnly == UNCHANGED <<networkSubmit, known, lost, alive, graphics, other>>
Quiet == UNCHANGED <<queue, ran>>

(* The application destroys no swapchain that it presents. *)
PresentBegin ==
  /\ ppc = "out" /\ lock = Nobody /\ presents < MaxPresents
  /\ inLayer # "closed" /\ ~(gpc # "idle" /\ dying = NoSwapchain /\ gpc \notin {"submitting", "waiting"})
  /\ \E q \in {q \in UNION {[1 .. n -> alive \ {dying}] : n \in 1 .. 2} :
                 Cardinality({q[i] : i \in DOMAIN q}) = Len(q)} : todo' = q
  /\ lock' = "present" /\ ppc' = "next" /\ presents' = presents + 1
  /\ consumed' = FALSE /\ composedSem' = NoSwapchain /\ waited' = 0
  /\ UNCHANGED <<frame, cmd, module, network>> /\ PresentOnly /\ Quiet

(* On to the next swapchain, which the game's own frame or the composed one
   is presented on. *)
Return == ppc' = "next" /\ todo' = Tail(todo) /\ frame' = NoFrame /\ cmd' = NoFrame

(* Not the primary swapchain, or not one that can be composed now. *)
Skip ==
  /\ ppc = "next" /\ todo # <<>>
  /\ Return
  /\ UNCHANGED <<lock, consumed, composedSem, waited, presents, module, network>>
  /\ PresentOnly /\ Quiet

(* UseInLayerNetwork: the network opens once, for a swapchain on a queue that
   can run it; a module or memory that is missing turns it off for good, and
   one that knows no model opens failed. *)
Enter ==
  /\ ppc = "next" /\ todo # <<>> /\ composedSem = NoSwapchain
  /\ ppc' = "collect"
  /\ LET s == Head(todo) IN
     IF inLayerOff \/ s \notin graphics
     THEN UNCHANGED <<frame, inLayer, inLayerOff, failed>>
     ELSE \/ /\ inLayer = "none" /\ inLayerOff' = TRUE
             /\ UNCHANGED <<frame, inLayer, failed>>
          \/ /\ inLayer' = "open"
             /\ IF inLayer = "none" THEN failed' \in BOOLEAN ELSE UNCHANGED failed
             /\ frame' \in FramesOf(s) \cup {Rejected}
             /\ UNCHANGED inLayerOff
  /\ UNCHANGED <<lock, todo, cmd, consumed, composedSem, waited, presents, inLayerLast,
                 building, joinable, target, prepared, recorder, builds, uploads, bpc>>
  /\ PresentOnly /\ Quiet

(* CollectLeg2: the wait ends with the frame, and fails when the device is lost. *)
Collected(s) ==
  /\ ~lost /\ gpu[s] = Idle
  /\ pending' = [pending EXCEPT ![s] = FALSE]

(* A frame's surfaces and command buffer are the last one's. *)
Collect ==
  /\ ppc = "collect"
  /\ LET s == Head(todo) IN
     \/ pending[s] /\ lost /\ Return /\ UNCHANGED pending
     \/ /\ IF pending[s] THEN Collected(s) ELSE UNCHANGED pending
        /\ ppc' = IF frame = NoFrame THEN "remote" ELSE "last"
        /\ UNCHANGED <<todo, frame, cmd>>
  /\ UNCHANGED <<lock, consumed, composedSem, waited, presents, gpu, signalled, ran,
                 module, network>>
  /\ PresentOnly

BuggyTakeOver ==
  /\ ppc = "last"
  /\ inLayerLast' = Head(todo) /\ ppc' = "prepare"
  /\ UNCHANGED <<todo, frame, cmd, pending>>
  /\ UNCHANGED <<lock, consumed, composedSem, waited, presents, gpu, signalled, ran,
                 inLayer, inLayerOff, network>>
  /\ PresentOnly

(* A swapchain that takes over waits for its predecessor's last frame. *)
TakeOver ==
  /\ ppc = "last"
  /\ LET s == Head(todo)
         l == inLayerLast
         waits == l # NoSwapchain /\ l # s /\ pending[l]
     IN \/ waits /\ lost /\ Return /\ UNCHANGED <<pending, inLayerLast>>
        \/ /\ IF waits THEN Collected(l) ELSE UNCHANGED pending
           /\ inLayerLast' = s /\ ppc' = "prepare"
           /\ UNCHANGED <<todo, frame, cmd>>
  /\ UNCHANGED <<lock, consumed, composedSem, waited, presents, gpu, signalled, ran,
                 inLayer, inLayerOff, network>>
  /\ PresentOnly

(* A submit takes the present's wait semaphores, which a later one of the same
   present must not wait on again. *)
BuggyTakeWaits == consumed' = TRUE /\ waited' = waited + 1
TakeWaits == consumed' = TRUE /\ waited' = IF consumed THEN waited ELSE waited + 1

(* The frame through the daemon: it may fail before its first submit, or after
   it, or be composed by its second. *)
Remote ==
  /\ ppc = "remote"
  /\ LET s == Head(todo) IN
     \/ UNCHANGED <<consumed, waited, pending, signalled, composedSem>>
     \/ ~lost /\ TakeWaits /\ UNCHANGED <<pending, signalled, composedSem>>
     \/ /\ ~lost /\ TakeWaits
        /\ pending' = [pending EXCEPT ![s] = TRUE]
        /\ signalled' = [signalled EXCEPT ![s] = TRUE] /\ composedSem' = s
  /\ Return
  /\ UNCHANGED <<lock, presents, gpu, ran, module, network>> /\ PresentOnly

(* dlsslop_network_prepare: a build that is over is joined before its outcome
   is read; a frame of another shape starts one. *)
StartBuild ==
  /\ target' = frame /\ builds' = builds + 1
  /\ building' = TRUE /\ joinable' = TRUE /\ bpc' = "start"
  /\ UNCHANGED <<failed, inLayerOff>>

Off == inLayerOff' = TRUE

Prepare ==
  /\ ppc = "prepare"
  /\ IF building THEN UNCHANGED <<network, inLayerOff>> /\ Return
     ELSE IF failed
     THEN /\ Off /\ joinable' = FALSE /\ bpc' = "none" /\ Return
          /\ UNCHANGED <<building, failed, target, prepared, recorder, builds, uploads>>
     ELSE IF frame = Rejected
     THEN /\ joinable' = FALSE /\ bpc' = "none" /\ Return
          /\ UNCHANGED <<building, failed, target, prepared, recorder, builds, uploads, inLayerOff>>
     ELSE IF ~Differs(recorder, frame)
     THEN /\ prepared' = frame /\ ppc' = "record" /\ UNCHANGED <<todo, frame, cmd>>
          /\ joinable' = FALSE /\ bpc' = "none"
          /\ UNCHANGED <<building, failed, target, recorder, builds, uploads, inLayerOff>>
     ELSE /\ \/ StartBuild
             \/ /\ failed' = TRUE /\ Off /\ joinable' = FALSE /\ bpc' = "none"
                /\ UNCHANGED <<building, target, builds>>
          /\ Return /\ UNCHANGED <<prepared, recorder, uploads>>
  /\ UNCHANGED <<lock, consumed, composedSem, waited, presents, inLayer, inLayerLast>>
  /\ PresentOnly /\ Quiet

(* The capture, dlsslop_network_record and the composition, into one command
   buffer.  Past the capture, a failure submits what was recorded. *)
Record ==
  /\ ppc = "record"
  /\ \/ Return /\ UNCHANGED <<recorder, failed, inLayerOff>>
     \/ /\ failed' = TRUE /\ Off /\ ppc' = "salvage" /\ UNCHANGED <<recorder, cmd, todo, frame>>
     \/ /\ cmd' = [reset |-> Resets(recorder, prepared)]
        /\ recorder' = Recorded(recorder, prepared)
        /\ ppc' \in {"submit", "salvage"}
        /\ UNCHANGED <<failed, inLayerOff, todo, frame>>
  /\ UNCHANGED <<lock, consumed, composedSem, waited, presents, inLayer, inLayerLast,
                 building, joinable, target, prepared, builds, uploads, bpc>>
  /\ PresentOnly /\ Quiet

(* The queue runs frames in order, so a submitted frame's history is settled. *)
Submitted(s) ==
  /\ ~lost /\ TakeWaits
  /\ gpu' = [gpu EXCEPT ![s] = recorder.runtime]
  /\ history' = IF cmd # NoFrame /\ prepared.motion
                THEN [runtime |-> recorder.runtime, settings |-> SettingsOf(prepared)]
                ELSE history
  /\ unsubmitted' = (unsubmitted /\ ~(cmd # NoFrame /\ cmd.reset))

(* For want of memory, or on a lost device. *)
SubmitFails ==
  /\ unsubmitted' = (unsubmitted \/ cmd # NoFrame)
  /\ UNCHANGED <<consumed, waited, gpu, history>>

Submit ==
  /\ ppc = "submit"
  /\ LET s == Head(todo) IN
     \/ /\ Submitted(s)
        /\ pending' = [pending EXCEPT ![s] = TRUE]
        /\ signalled' = [signalled EXCEPT ![s] = TRUE] /\ composedSem' = s
     \/ SubmitFails /\ UNCHANGED <<pending, signalled, composedSem>>
  /\ Return
  /\ UNCHANGED <<lock, presents, module, network>> /\ PresentOnly

Salvage ==
  /\ ppc = "salvage"
  /\ \/ Submitted(Head(todo)) /\ ppc' = "wait" /\ UNCHANGED <<todo, frame, cmd>>
     \/ SubmitFails /\ Return
  /\ UNCHANGED <<lock, composedSem, presents, pending, signalled, module, network>>
  /\ PresentOnly

SalvageWait ==
  /\ ppc = "wait" /\ (lost \/ gpu[Head(todo)] = Idle)
  /\ Return
  /\ UNCHANGED <<lock, consumed, composedSem, waited, presents, module, network>>
  /\ PresentOnly /\ Quiet

(* The present itself waits for the composition, for the game's semaphores if
   nothing did, or for nothing. *)
Show ==
  /\ ppc = "next" /\ todo = <<>>
  /\ IF composedSem # NoSwapchain
     THEN signalled' = [signalled EXCEPT ![composedSem] = FALSE] /\ UNCHANGED waited
     ELSE waited' = (IF consumed THEN waited ELSE waited + 1) /\ UNCHANGED signalled
  /\ ppc' = "out" /\ lock' = Nobody
  /\ UNCHANGED <<todo, frame, cmd, consumed, composedSem, presents, pending, gpu, ran,
                 module, network>>
  /\ PresentOnly

Present == Skip \/ Enter \/ Collect \/ Remote \/ TakeOver \/ Prepare \/ Record \/ Submit
           \/ Salvage \/ SalvageWait \/ Show

(***************************************************************************)
(* The game's other thread.                                                *)
(***************************************************************************)
GameOnly == UNCHANGED <<lost, graphics, gpu, signalled, call, ran, building, failed,
                        target, prepared, builds, uploads, inLayerOff>>

(* A submit, or a device wait through the hook, under the device's lock.  The
   repaint's submits are of this kind too. *)
GameCall ==
  /\ gpc = "idle" /\ lock = Nobody /\ known
  /\ lock' = "game" /\ gpc' \in {"submitting", "waiting"}
  /\ UNCHANGED <<networkSubmit, known, alive, pending, inLayer, inLayerLast, joinable,
                 recorder, bpc, dying>> /\ GameOnly

WaitOver == lost \/ GpuIdle

GameReturn ==
  /\ \/ gpc = "submitting"
     \/ gpc = "waiting" /\ WaitOver
  /\ lock' = Nobody /\ gpc' = "idle"
  /\ UNCHANGED <<networkSubmit, known, alive, pending, inLayer, inLayerLast, joinable,
                 recorder, bpc, dying>> /\ GameOnly

(* Hook_DestroySwapchainKHR, which finds the swapchain under the lock, and
   Hook_DestroyDevice, once nothing else uses the device. *)
Destroy ==
  /\ gpc = "idle" /\ known /\ lock = Nobody
  /\ \/ dying' \in alive
     \/ ppc = "out" /\ dying' = NoSwapchain
  /\ gpc' = "asked"
  /\ UNCHANGED <<lock, networkSubmit, known, alive, pending, inLayer, inLayerLast, joinable,
                 recorder, bpc>> /\ GameOnly

BuggyDestroyWait ==
  /\ gpc = "asked"
  /\ gpc' = "destroyWait" /\ UNCHANGED networkSubmit
  /\ UNCHANGED <<lock, known, alive, pending, inLayer, inLayerLast, joinable, recorder, bpc,
                 dying>> /\ GameOnly

(* The layer's own device waits run outside the device's lock. *)
DestroyWait ==
  /\ gpc = "asked" /\ networkSubmit = Nobody
  /\ gpc' = "destroyWait" /\ networkSubmit' = "game"
  /\ UNCHANGED <<lock, known, alive, pending, inLayer, inLayerLast, joinable, recorder, bpc,
                 dying>> /\ GameOnly

BuggyDestroyWaited ==
  /\ gpc = "destroyWait" /\ WaitOver
  /\ IF dying = NoSwapchain THEN gpc' = "close" /\ UNCHANGED networkSubmit
     ELSE gpc' = "free" /\ networkSubmit' = Nobody
  /\ UNCHANGED <<lock, known, alive, pending, inLayer, inLayerLast, joinable, recorder, bpc,
                 dying>> /\ GameOnly

DestroyWaited ==
  /\ gpc = "destroyWait" /\ WaitOver
  /\ gpc' = IF dying = NoSwapchain THEN "close" ELSE "free"
  /\ networkSubmit' = Nobody
  /\ UNCHANGED <<lock, known, alive, pending, inLayer, inLayerLast, joinable, recorder, bpc,
                 dying>> /\ GameOnly

DestroySwapchain ==
  /\ gpc = "free" /\ lock = Nobody
  /\ alive' = alive \ {dying} /\ pending' = [pending EXCEPT ![dying] = FALSE]
  /\ inLayerLast' = IF inLayerLast = dying THEN NoSwapchain ELSE inLayerLast
  /\ gpc' = "idle" /\ dying' = NoSwapchain
  /\ UNCHANGED <<lock, networkSubmit, known, inLayer, joinable, recorder, bpc>> /\ GameOnly

(* dlsslop_network_close joins the builder while its submits still find the
   device. *)
Close ==
  /\ gpc = "close"
  /\ joinable => bpc = "ended"
  /\ inLayer' = IF inLayer = "open" THEN "closed" ELSE inLayer
  /\ joinable' = FALSE /\ bpc' = "none" /\ recorder' = NewRecorder
  /\ known' = FALSE /\ alive' = {} /\ gpc' = "ended"
  /\ UNCHANGED <<lock, networkSubmit, pending, inLayerLast, dying>> /\ GameOnly

(* The device is gone. *)
Ended == gpc = "ended" /\ UNCHANGED vars

GameWork == GameReturn \/ DestroyWait \/ DestroyWaited \/ DestroySwapchain \/ Close

Next == Run \/ Lose \/ Builder \/ PresentBegin \/ Present \/ GameCall \/ Destroy \/ GameWork
        \/ Ended

Spec == Init /\ [][Next]_vars

-----------------------------------------------------------------------------
(* No frame that the GPU still runs uses a runtime that a build, or a close,
   gave up, or the surfaces of a destroyed swapchain: the frame of another
   swapchain that presented last is waited for before a build at this one's
   shape, and a close follows a wait for the device.  And no destroyed
   swapchain is remembered as the one that presented last, whose frame a later
   present would wait for. *)
NothingFreedInUse ==
  /\ \A s \in Swapchains : gpu[s] # Idle => gpu[s] = recorder.runtime /\ s \in alive
  /\ known => inLayerLast \in alive \cup {NoSwapchain}

(* A frame is recorded only into a runtime and images of its shape, each in the
   layout its commands expect, while no builder touches them, however builds,
   failures and the frames of several swapchains follow each other. *)
RecordsWhatIsBuilt ==
  ppc \in {"record", "submit"} =>
    Serves(recorder, prepared) /\ LaidOut(prepared) /\ bpc = "none" /\ prepared = frame

(* A frame that does not start the network's history over continues one that a
   frame of this runtime and these settings left, unless a frame was recorded
   and then not submitted: the recorder takes it for the history's all the
   same. *)
HistoryFits ==
  ppc = "submit" /\ ~lost /\ ~unsubmitted /\ prepared.motion /\ ~cmd.reset =>
    history = [runtime |-> recorder.runtime, settings |-> SettingsOf(prepared)]

(* A present's wait semaphores are waited on exactly once, whichever of its
   swapchains, submits, failures and the present itself comes first; and it
   leaves no composition's semaphore signalled with nothing to wait on it. *)
WaitsAreOnce ==
  /\ waited <= 1
  /\ ppc = "out" /\ presents > 0 => waited = 1 \/ composedSem # NoSwapchain
  /\ ppc = "out" => \A s \in Swapchains : ~signalled[s]

Submitting(t) ==
  CASE t = "present" -> ppc \in {"submit", "salvage"}
    [] t = "builder" -> bpc = "submitting"
    [] t = "game" -> gpc = "submitting"

(* The builder's submits overlap no other submit to the queue and no device
   wait, the game's or the layer's own. *)
BuildSubmitsAlone ==
  Submitting("builder") =>
    /\ ~Submitting("present") /\ ~Submitting("game")
    /\ gpc \notin {"waiting", "destroyWait"}

(* No device wait overlaps a submit to any of its queues, as the comments on
   networkSubmit and on Hook_DeviceWaitIdle have it. *)
DeviceWaitsAlone ==
  gpc \in {"waiting", "destroyWait"} => \A t \in Threads : ~Submitting(t)

(* Whoever joins the builder lets it finish: the device's destruction holds
   neither mutex, and keeps the device known until then, and a present, which
   holds the device's lock, joins a builder that has nothing left to submit. *)
BuilderCanFinish ==
  /\ gpc = "close" => lock # "game" /\ networkSubmit # "game"
  /\ ppc = "prepare" /\ ~building => bpc \in {"none", "ended"}
  /\ bpc \in {"lock", "enter", "submitting"} => known
=============================================================================
