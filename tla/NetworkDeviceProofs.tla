------------------------ MODULE NetworkDeviceProofs ------------------------
(***************************************************************************)
(* That the in-layer network's steps are safe, for any swapchains and any  *)
(* frames: what holds of the mutexes, the builder, the destroyed swapchain *)
(* and the present's place, conjunct by conjunct of an inductive           *)
(* invariant, and the properties that follow from it.                      *)
(***************************************************************************)
EXTENDS NetworkDevice, TLAPS

(* Who holds a mutex is where it is held. *)
LocksHeld ==
  /\ lock = "present" <=> ppc # "out"
  /\ lock = "builder" <=> bpc = "submitting"
  /\ lock = "game" <=> gpc \in {"submitting", "waiting"}
  /\ networkSubmit = "builder" <=> bpc \in {"enter", "submitting"}
  /\ networkSubmit = "game" <=> gpc = "destroyWait"
  /\ networkSubmit # "present"

(* The builder runs while the network is building, and is joined once; while it
   runs the device is known. *)
Builds ==
  /\ building <=> bpc \notin {"none", "ended"}
  /\ joinable <=> bpc # "none"
  /\ bpc # "none" => known
  /\ bpc \in {"lock", "enter", "submitting"} => uploads < MaxUploads
  /\ building => target \in VulkanFrame
  /\ ppc \in {"record", "submit", "salvage"} => bpc = "none"

(* A swapchain that is destroyed is not presented, and nothing is while the
   device is. *)
Destroys ==
  /\ known <=> gpc # "ended"
  /\ gpc \in {"idle", "submitting", "waiting", "close", "ended"} => dying = NoSwapchain
  /\ gpc \in {"asked", "destroyWait"} => dying \in alive \cup {NoSwapchain}
  /\ gpc = "free" => dying \in alive
  /\ known => inLayerLast \in alive \cup {NoSwapchain}
  /\ gpc \in {"asked", "destroyWait", "close", "ended"} /\ dying = NoSwapchain => ppc = "out"

(* A present's swapchains exist, and the frame of the one it is at. *)
Presents ==
  /\ ppc # "out" => todo \in Seq(alive \ {dying})
  /\ ppc \notin {"out", "next"} => todo # <<>>
  /\ ppc \in {"out", "next"} => frame = NoFrame
  /\ ppc \in {"last", "prepare"} => frame \in VulkanFrame \cup {Rejected}
  /\ ppc \in {"out", "next", "collect", "remote", "last", "prepare", "record"} => cmd = NoFrame
  /\ ppc = "submit" => cmd # NoFrame

(* What is in flight is the last swapchain's last frame, and is waited for
   before another may be prepared, a build begin, or its swapchain go. *)
InFlight ==
  /\ lost => GpuIdle
  /\ \A s \in Swapchains : gpu[s] # Idle =>
       /\ gpu[s] = recorder.runtime /\ s \in alive /\ s = inLayerLast
       /\ pending[s] \/ (ppc = "wait" /\ s = Head(todo))
  /\ ppc \in {"remote", "last"} => gpu[Head(todo)] = Idle
  /\ ppc \in {"prepare", "record", "submit", "salvage"} => GpuIdle /\ inLayerLast = Head(todo)
  /\ building => GpuIdle
  /\ gpc = "free" => gpu[dying] = Idle
  /\ gpc \in {"close", "ended"} => GpuIdle

(* A runtime comes with its images, and with its shape; and what is recorded is
   of that shape. *)
Whole ==
  /\ recorder.runtime # NoRuntime =>
       /\ recorder.shape \in Shape
       /\ recorder.colour /\ recorder.half = recorder.shape.fp16
       /\ recorder.last # NoFrame => recorder.last.motion = recorder.shape.motion
  /\ ppc \in {"record", "submit", "salvage"} =>
       Serves(recorder, prepared) /\ prepared = frame /\ prepared \in VulkanFrame

Fitting(f) == [runtime |-> recorder.runtime, settings |-> SettingsOf(f)]

(* The recorder's last frame is the history's. *)
Continues ==
  /\ cmd # NoFrame /\ ppc \in {"submit", "salvage"} =>
       /\ recorder.last = prepared
       /\ ~unsubmitted /\ prepared.motion /\ ~cmd.reset => history = Fitting(prepared)
  /\ \/ cmd # NoFrame /\ ppc \in {"submit", "salvage"}
     \/ recorder.runtime = NoRuntime \/ recorder.last = NoFrame \/ ~recorder.last.motion \/ unsubmitted
     \/ history = Fitting(recorder.last)

(* A present's semaphores have been waited on once something was submitted, and
   only a composition that is submitted signals. *)
Waits ==
  /\ ppc # "out" => waited = IF consumed THEN 1 ELSE 0
  /\ ppc # "out" /\ composedSem # NoSwapchain => consumed
  /\ ppc \notin {"out", "next"} => composedSem = NoSwapchain
  /\ ppc # "out" => \A s \in Swapchains : signalled[s] => s = composedSem
  /\ ppc # "out" => presents > 0
  /\ WaitsAreOnce

IInv == TypeOK /\ LocksHeld /\ Builds /\ Destroys /\ Presents /\ InFlight /\ Whole /\ Continues /\ Waits

-----------------------------------------------------------------------------
(* The runtime, and what is recorded. *)

(* What a concatenation's places hold. *)
Join(s, t, q) ==
  /\ Len(q) = Len(s) + Len(t) /\ DOMAIN q = 1 .. Len(s) + Len(t)
  /\ \A i \in 1 .. Len(s) : q[i] = s[i]
  /\ \A i \in 1 .. Len(t) : q[Len(s) + i] = t[i]

(* A concatenation has both sequences' elements, in turn. *)
LEMMA Joining ==
  ASSUME NEW T, NEW s \in Seq(T), NEW t \in Seq(T)
  PROVE  s \o t \in Seq(T) /\ Join(s, t, s \o t)
BY DEF Join

Layouts == {"undefined", "dst", "src", "general"}
Command == [image : {"colour", "half"}, from : Layouts, to : Layouts]

(* What barriers and uses are of. *)
LEMMA Commanding ==
  ASSUME NEW i \in {"colour", "half"}, NEW a \in Layouts, NEW b \in Layouts
  PROVE  /\ To(i, a, b) \in Command
         /\ To(i, a, b).image = i /\ To(i, a, b).from = a /\ To(i, a, b).to = b
         /\ Use(i, a) \in Command
         /\ Use(i, a).image = i /\ Use(i, a).from = a /\ Use(i, a).to = a
BY DEF To, Use, Command

(* Every command of a frame, half or full precision, finds its image laid out as
   it expects. *)
LEMMA Laid == ASSUME NEW f, f.fp16 \in BOOLEAN PROVE LaidOut(f)
<1> DEFINE
      staged == IF f.fp16 THEN "half" ELSE "colour"
      widen == <<To("half", "dst", "src"), To("colour", "undefined", "dst"),
                 Use("half", "src"), Use("colour", "dst")>>
      narrow == <<To("half", "src", "dst"), Use("colour", "general"), Use("half", "dst"),
                  To("half", "dst", "src"), Use("half", "src")>>
      head == <<To(staged, "undefined", "dst"), Use(staged, "dst")>>
      mid == <<To("colour", "dst", "general"), Use("colour", "general")>>
      last == <<Use("colour", "general")>>
      q == Commands(f)
<1>1. /\ head \in Seq(Command) /\ Len(head) = 2
      /\ head[1] = To(staged, "undefined", "dst") /\ head[2] = Use(staged, "dst")
      /\ mid \in Seq(Command) /\ Len(mid) = 2
      /\ mid[1] = To("colour", "dst", "general") /\ mid[2] = Use("colour", "general")
      /\ last \in Seq(Command) /\ Len(last) = 1 /\ last[1] = Use("colour", "general")
      /\ <<>> \in Seq(Command) /\ Len(<<>>) = 0
  BY Commanding DEF Layouts
<1>2. /\ widen \in Seq(Command) /\ Len(widen) = 4
      /\ widen[1] = To("half", "dst", "src") /\ widen[2] = To("colour", "undefined", "dst")
      /\ widen[3] = Use("half", "src") /\ widen[4] = Use("colour", "dst")
  BY Commanding DEF Layouts
<1>3. /\ narrow \in Seq(Command) /\ Len(narrow) = 5
      /\ narrow[1] = To("half", "src", "dst") /\ narrow[2] = Use("colour", "general")
      /\ narrow[3] = Use("half", "dst") /\ narrow[4] = To("half", "dst", "src")
      /\ narrow[5] = Use("half", "src")
  BY Commanding DEF Layouts
<1>4. q = ((head \o (IF f.fp16 THEN widen ELSE <<>>)) \o mid)
          \o (IF f.fp16 THEN narrow ELSE last)
  BY DEF Commands
<1>5. staged = IF f.fp16 THEN "half" ELSE "colour"
  OBVIOUS
<1> DEFINE After(i, j) == /\ j \in 1 .. i - 1 /\ q[j].image = q[i].image /\ q[j].to = q[i].from
                          /\ \A k \in 1 .. i - 1 : q[k].image = q[i].image => k <= j
<1>10. (\A i \in DOMAIN q : q[i].from = "undefined" \/ \E j : After(i, j)) => LaidOut(f)
  <2> SUFFICES ASSUME \A i \in DOMAIN q : q[i].from = "undefined" \/ \E j : After(i, j),
                      NEW i \in DOMAIN q, q[i].from # "undefined"
               PROVE  LET Before == {j \in 1 .. i - 1 : q[j].image = q[i].image}
                      IN \E j \in Before : q[j].to = q[i].from /\ \A k \in Before : k <= j
    BY DEF LaidOut
  <2>1. PICK j : After(i, j)
    OBVIOUS
  <2> HIDE DEF q
  <2> QED
    BY <2>1
<1> HIDE DEF head, mid, last, widen, narrow, q, staged
<1>6. CASE f.fp16
  <2> DEFINE start == head \o widen
             most == start \o mid
  <2>1. start \in Seq(Command) /\ Join(head, widen, start)
    BY <1>1, <1>2, Joining
  <2> HIDE DEF start
  <2>2. most \in Seq(Command) /\ Join(start, mid, most)
    BY <1>1, <2>1, Joining
  <2>3. q = most \o narrow
    BY <1>4, <1>6 DEF start
  <2> HIDE DEF most
  <2>4. Join(most, narrow, q)
    BY <1>3, <2>2, <2>3, Joining
  <2>5. /\ start[1] = head[1] /\ start[2] = head[2] /\ Len(start) = 6
        /\ start[3] = widen[1] /\ start[4] = widen[2] /\ start[5] = widen[3] /\ start[6] = widen[4]
    BY <1>1, <1>2, <2>1 DEF Join
  <2>6. /\ \A i \in 1 .. 6 : most[i] = start[i]
        /\ Len(most) = 8 /\ most[7] = mid[1] /\ most[8] = mid[2]
    BY <1>1, <2>2, <2>5 DEF Join
  <2>7. /\ DOMAIN q = 1 .. 13 /\ \A i \in 1 .. 8 : q[i] = most[i]
        /\ q[9] = narrow[1] /\ q[10] = narrow[2] /\ q[11] = narrow[3] /\ q[12] = narrow[4]
        /\ q[13] = narrow[5]
    BY <1>3, <2>4, <2>6 DEF Join
  <2>8. /\ q[1] = To("half", "undefined", "dst") /\ q[2] = Use("half", "dst")
        /\ q[3] = To("half", "dst", "src") /\ q[4] = To("colour", "undefined", "dst")
        /\ q[5] = Use("half", "src") /\ q[6] = Use("colour", "dst")
        /\ q[7] = To("colour", "dst", "general") /\ q[8] = Use("colour", "general")
        /\ q[9] = To("half", "src", "dst") /\ q[10] = Use("colour", "general")
        /\ q[11] = Use("half", "dst") /\ q[12] = To("half", "dst", "src")
        /\ q[13] = Use("half", "src")
    BY <1>1, <1>2, <1>3, <1>5, <1>6, <2>5, <2>6, <2>7
  <2>9. /\ q[1].image = "half" /\ q[1].from = "undefined" /\ q[1].to = "dst"
        /\ q[2].image = "half" /\ q[2].from = "dst" /\ q[2].to = "dst"
        /\ q[3].image = "half" /\ q[3].from = "dst" /\ q[3].to = "src"
        /\ q[4].image = "colour" /\ q[4].from = "undefined" /\ q[4].to = "dst"
        /\ q[5].image = "half" /\ q[5].from = "src" /\ q[5].to = "src"
        /\ q[6].image = "colour" /\ q[6].from = "dst" /\ q[6].to = "dst"
        /\ q[7].image = "colour" /\ q[7].from = "dst" /\ q[7].to = "general"
        /\ q[8].image = "colour" /\ q[8].from = "general" /\ q[8].to = "general"
        /\ q[9].image = "half" /\ q[9].from = "src" /\ q[9].to = "dst"
        /\ q[10].image = "colour" /\ q[10].from = "general" /\ q[10].to = "general"
        /\ q[11].image = "half" /\ q[11].from = "dst" /\ q[11].to = "dst"
        /\ q[12].image = "half" /\ q[12].from = "dst" /\ q[12].to = "src"
        /\ q[13].image = "half" /\ q[13].from = "src"
    BY <2>8, Commanding DEF Layouts
  <2>10. /\ After(2, 1) /\ After(3, 2) /\ After(5, 3) /\ After(6, 4) /\ After(7, 6)
         /\ After(8, 7)
    BY <2>9
  <2>11. After(9, 5) /\ After(10, 8) /\ After(11, 9) /\ After(12, 11) /\ After(13, 12)
    BY <2>9
  <2> HIDE DEF After
  <2>12. \A i \in 1 .. 13 : i \in {1, 4} \/ \E j : After(i, j)
    BY <2>10, <2>11
  <2>13. \A i \in DOMAIN q : q[i].from = "undefined" \/ \E j : After(i, j)
    BY <2>7, <2>9, <2>12
  <2> QED
    BY <1>10, <2>13, Zenon
<1>7. CASE ~f.fp16
  <2> DEFINE most == head \o mid
  <2>1. most \in Seq(Command) /\ Join(head, mid, most)
    BY <1>1, Joining
  <2>2. q = most \o last
    BY <1>1, <1>4, <1>7
  <2> HIDE DEF most
  <2>3. Join(most, last, q)
    BY <1>1, <2>1, <2>2, Joining
  <2>4. Len(most) = 4 /\ most[1] = head[1] /\ most[2] = head[2] /\ most[3] = mid[1] /\ most[4] = mid[2]
    BY <1>1, <2>1 DEF Join
  <2>5. DOMAIN q = 1 .. 5 /\ (\A i \in 1 .. 4 : q[i] = most[i]) /\ q[5] = last[1]
    BY <1>1, <2>3, <2>4 DEF Join
  <2>6. /\ q[1] = To("colour", "undefined", "dst") /\ q[2] = Use("colour", "dst")
        /\ q[3] = To("colour", "dst", "general") /\ q[4] = Use("colour", "general")
        /\ q[5] = Use("colour", "general")
    BY <1>1, <1>5, <1>7, <2>4, <2>5
  <2>7. /\ \A i \in 1 .. 5 : q[i].image = "colour"
        /\ q[1].from = "undefined" /\ q[1].to = "dst" /\ q[2].from = "dst" /\ q[2].to = "dst"
        /\ q[3].from = "dst" /\ q[3].to = "general" /\ q[4].from = "general" /\ q[4].to = "general"
        /\ q[5].from = "general"
    BY <2>6, Commanding DEF Layouts
  <2>8. \A i \in 2 .. 5 : After(i, i - 1)
    BY <2>7
  <2> HIDE DEF After
  <2>9. \A i \in DOMAIN q : i = 1 \/ i \in 2 .. 5
    BY <2>5
  <2>10. \A i \in DOMAIN q : q[i].from = "undefined" \/ \E j : After(i, j)
    BY <2>7, <2>8, <2>9
  <2> QED
    BY <1>10, <2>10, Zenon
<1> QED
  BY <1>6, <1>7


(* The passes a runtime is built for are few enough. *)
LEMMA Passing == ASSUME NEW f \in VulkanFrame PROVE Passes(f) \in 1 .. KMaxPasses
BY PassAssumption DEF Passes, VulkanFrame

(* A build that fails leaves no runtime, and the history's frame. *)
LEMMA Dropping ==
  ASSUME NEW r \in Recorder, NEW f \in VulkanFrame, NEW d \in FailedBuilds(r, f)
  PROVE  d \in Recorder /\ d.runtime = NoRuntime /\ d.last = r.last
<1> USE DEF Dropped, Recorder, NoRuntime
<1>1. CASE d = Dropped(r)
  BY <1>1
<1>2. CASE d = [Dropped(r) EXCEPT !.colour = TRUE]
  BY <1>2
<1>3. CASE d = [Dropped(r) EXCEPT !.colour = TRUE, !.half = f.fp16]
  BY <1>3 DEF VulkanFrame
<1> QED
  BY <1>1, <1>2, <1>3 DEF FailedBuilds

(* And one that goes on has, so far, made what one that fails may leave. *)
LEMMA StartingABuild == BuildStart => recorder' \in FailedBuilds(recorder, target)
BY DEF BuildStart, FailBuild, FailedBuilds

(* A build that succeeds makes everything anew, for one shape. *)
LEMMA Building ==
  ASSUME NEW r \in Recorder, NEW f \in VulkanFrame, NEW id \in Nat
  PROVE  LET b == Built(r, f, id)
         IN /\ b \in Recorder /\ b.last = NoFrame
            /\ b.shape \in Shape /\ b.colour /\ b.half = b.shape.fp16
<1> DEFINE shape == [extent |-> f.extent, fp16 |-> f.fp16, motion |-> f.motion, passes |-> Passes(f),
                     stages |-> f.stages]
<1>1. shape \in Shape /\ shape.fp16 = f.fp16 /\ f.fp16 \in BOOLEAN
  BY Passing DEF VulkanFrame, Shape
<1>2. Built(r, f, id) = [Dropped(r) EXCEPT !.runtime = id, !.colour = TRUE, !.half = f.fp16, !.shape = shape,
                                           !.last = NoFrame]
  BY DEF Built
<1> HIDE DEF shape
<1> QED
  BY <1>1, <1>2 DEF Recorder, Dropped

(* Recording a frame changes only the history's frame. *)
LEMMA Recording ==
  ASSUME NEW r \in Recorder, NEW f \in VulkanFrame
  PROVE  LET n == Recorded(r, f)
         IN /\ n \in Recorder /\ n.last = f /\ n.runtime = r.runtime /\ n.colour = r.colour
            /\ n.half = r.half /\ n.shape = r.shape
            /\ \A g : Serves(r, g) => Serves(n, g)
BY DEF Recorded, Recorder, Serves

(* A runtime that need not be built again serves the frame. *)
LEMMA Serving ==
  ASSUME NEW r \in Recorder, NEW f \in VulkanFrame, ~Differs(r, f),
         r.shape \in Shape, r.colour, r.half = r.shape.fp16
  PROVE  Serves(r, f)
BY Passing DEF Differs, Serves, Shape, VulkanFrame

(* A new recorder has no runtime and no history. *)
LEMMA Starting ==
  NewRecorder \in Recorder /\ NewRecorder.runtime = NoRuntime /\ NewRecorder.last = NoFrame
BY DEF NewRecorder, Recorder, NoRuntime

-----------------------------------------------------------------------------
(* A present's steps. *)

(* Going on to the next swapchain. *)
LEMMA Returning ==
  ASSUME CallOK, Return, todo # <<>>
  PROVE  /\ ppc' \in PresentPCs /\ todo' \in Seq(Swapchains)
         /\ frame' \in VulkanFrame \cup {NoFrame, Rejected} /\ cmd' \in [reset : BOOLEAN] \cup {NoFrame}
<1>1. todo' \in Seq(Swapchains)
  BY DEF CallOK, Return
<1> QED
  BY <1>1 DEF Return, PresentPCs

(* Taking the present's wait semaphores. *)
LEMMA Taking ==
  ASSUME CallOK, TakeWaits
  PROVE  consumed' \in BOOLEAN /\ waited' \in Nat
BY DEF CallOK, TakeWaits

(* Collecting a swapchain's last frame. *)
LEMMA Collecting ==
  ASSUME QueueOK, NEW s, pending' = pending \/ Collected(s), UNCHANGED <<gpu, signalled>>
  PROVE  QueueOK'
<1>1. pending' = pending \/ pending' = [pending EXCEPT ![s] = FALSE]
  BY DEF Collected
<1> QED
  BY <1>1 DEF QueueOK

(* The swapchain a present is at. *)
LEMMA Ahead ==
  ASSUME CallOK, todo # <<>> PROVE Head(todo) \in Swapchains
BY DEF CallOK

(* The swapchain a present is at exists, and so do those after it. *)
LEMMA Seeing ==
  ASSUME IInv, ppc # "out", todo # <<>>
  PROVE  /\ Head(todo) \in alive \ {dying} /\ Head(todo) \in Swapchains
         /\ Tail(todo) \in Seq(alive \ {dying})
<1>1. todo \in Seq(alive \ {dying}) /\ alive \subseteq Swapchains
  BY DEF IInv, TypeOK, DeviceOK, Presents
<1> QED
  BY <1>1

(* Submitting a frame, or failing to. *)
LEMMA Ran ==
  ASSUME QueueOK, CallOK, unsubmitted \in BOOLEAN, NEW s \in Swapchains, recorder \in Recorder,
         Submitted(s) \/ SubmitFails
  PROVE  /\ gpu' \in [Swapchains -> Nat] /\ unsubmitted' \in BOOLEAN
         /\ consumed' \in BOOLEAN /\ waited' \in Nat
<1>1. CASE Submitted(s)
  <2>1. gpu' = [gpu EXCEPT ![s] = recorder.runtime] /\ recorder.runtime \in Nat
    BY <1>1 DEF Submitted, Recorder
  <2>2. gpu' \in [Swapchains -> Nat]
    BY <2>1 DEF QueueOK
  <2>3. unsubmitted' \in BOOLEAN
    BY <1>1 DEF Submitted
  <2>4. consumed' \in BOOLEAN /\ waited' \in Nat
    BY <1>1, Taking DEF Submitted
  <2> QED
    BY <2>2, <2>3, <2>4
<1>2. CASE SubmitFails
  <2>1. unsubmitted' \in BOOLEAN
    BY <1>2 DEF SubmitFails
  <2> QED
    BY <1>2, <2>1 DEF SubmitFails, QueueOK, CallOK
<1> QED
  BY <1>1, <1>2

-----------------------------------------------------------------------------
(* The GPU's steps keep the invariant. *)

LEMMA RunKeeps == ASSUME IInv, Run PROVE IInv'
<1>1. \E s \in Swapchains : gpu' = [gpu EXCEPT ![s] = Idle]
  BY DEF Run
<1>2. UNCHANGED <<device, pending, signalled, module, network, call, other, ran>>
  BY DEF Run
<1>3. QueueOK'
  BY <1>1, <1>2 DEF IInv, TypeOK, QueueOK, Idle, NoRuntime
<1>4. InFlight'
  BY <1>1, <1>2 DEF IInv, TypeOK, QueueOK, InFlight, GpuIdle, device, module, network, call,
     other
<1>5. /\ DeviceOK' /\ ModuleOK' /\ NetworkOK' /\ CallOK' /\ OtherOK' /\ LocksHeld'
      /\ Builds' /\ Destroys' /\ Presents' /\ Whole' /\ Continues' /\ Waits'
  BY <1>1, <1>2 DEF IInv, TypeOK, DeviceOK, ModuleOK, NetworkOK, CallOK, OtherOK, LocksHeld,
     Builds, Destroys, Presents, Whole, Continues, Waits, WaitsAreOnce, Fitting, device,
     module, network, call, other, ran
<1> QED
  BY <1>3, <1>4, <1>5 DEF IInv, TypeOK

LEMMA LoseKeeps == ASSUME IInv, Lose PROVE IInv'
<1>1. lost' = TRUE /\ gpu' = [s \in Swapchains |-> Idle] /\ lost = FALSE
  BY DEF IInv, TypeOK, Lose, DeviceOK
<1>2. /\ UNCHANGED <<lock, networkSubmit, known, alive, graphics, pending, signalled>>
      /\ UNCHANGED <<module, network, call, other, ran>>
  BY DEF Lose
<1>3. todo # <<>> => Head(todo) \in Swapchains
  BY Ahead DEF IInv, TypeOK
<1>4. DeviceOK' /\ QueueOK'
  BY <1>1, <1>2 DEF IInv, TypeOK, DeviceOK, QueueOK, Idle, NoRuntime
<1>5. InFlight'
  BY <1>1, <1>2, <1>3 DEF IInv, TypeOK, DeviceOK, InFlight, GpuIdle, OtherOK, Destroys,
     Presents, module, network, call, other
<1>6. /\ ModuleOK' /\ NetworkOK' /\ CallOK' /\ OtherOK' /\ LocksHeld' /\ Builds'
      /\ Destroys' /\ Presents' /\ Whole' /\ Continues' /\ Waits'
  BY <1>1, <1>2, <1>3 DEF IInv, TypeOK, ModuleOK, NetworkOK, CallOK, OtherOK, LocksHeld,
     Builds, Destroys, Presents, Whole, Continues, Waits, WaitsAreOnce, Fitting, module,
     network, call, other, ran
<1> QED
  BY <1>4, <1>5, <1>6 DEF IInv, TypeOK

-----------------------------------------------------------------------------
(* The builder's steps. *)

LEMMA BuildStartKeeps == ASSUME IInv, BuildStart PROVE IInv'
<1>1. NetworkOK'
  <2>1. NetworkOK /\ Builds
    BY DEF IInv, TypeOK
  <2>2. target \in VulkanFrame
    BY <2>1 DEF BuildStart, Builds
  <2>3. recorder' \in Recorder
    BY <2>1, <2>2, Dropping, StartingABuild DEF NetworkOK
  <2>4. failed' \in BOOLEAN /\ uploads' = 0 /\ bpc' \in {"clear", "lock"}
    BY <2>1 DEF NetworkOK, BuildStart, FailBuild
  <2>5. UNCHANGED <<building, joinable, target, prepared, builds>>
    BY DEF BuildStart, BuilderOnly
  <2> QED
    BY <2>1, <2>3, <2>4, <2>5, BoundAssumption DEF NetworkOK, BuilderPCs
<1>2. bpc = "start" /\ bpc' \in {"clear", "lock"} /\ uploads' = 0
  BY DEF BuildStart, FailBuild
<1>3. UNCHANGED <<lock, networkSubmit, building>> /\ BuilderOnly
  BY DEF BuildStart
<1>4. recorder' \in FailedBuilds(recorder, target) /\ target \in VulkanFrame /\ GpuIdle
  BY <1>2, StartingABuild DEF IInv, Builds, InFlight
<1>5. recorder'.runtime = NoRuntime
  BY <1>4, Dropping DEF IInv, TypeOK, NetworkOK
<1>6. LocksHeld' /\ Builds'
  BY <1>2, <1>3, BoundAssumption DEF IInv, LocksHeld, Builds, BuilderOnly, call, other
<1>7. InFlight'
  BY <1>2, <1>3, <1>4 DEF IInv, Builds, InFlight, GpuIdle, BuilderOnly, queue, module, call,
     other
<1>8. Whole' /\ Continues'
  BY <1>2, <1>3, <1>5 DEF IInv, Builds, Presents, Whole, Continues, BuilderOnly, call
<1>9. DeviceOK' /\ QueueOK' /\ ModuleOK' /\ CallOK' /\ OtherOK' /\ Destroys' /\ Presents' /\ Waits'
  BY <1>2, <1>3, <1>4, <1>5 DEF IInv, TypeOK, DeviceOK, QueueOK, ModuleOK, CallOK, OtherOK,
     Destroys, Presents, Waits, WaitsAreOnce, BuilderOnly, queue, module, call, other, ran
<1> QED
  BY <1>1, <1>6, <1>7, <1>8, <1>9 DEF IInv, TypeOK

LEMMA BuilderLockKeeps == ASSUME IInv, BuilderLock PROVE IInv'
<1>1. bpc = "lock" /\ networkSubmit = Nobody /\ networkSubmit' = "builder" /\ bpc' = "enter"
  BY DEF BuilderLock
<1>2. UNCHANGED <<lock, building, failed, recorder, uploads>> /\ BuilderOnly
  BY DEF BuilderLock
<1>3. DeviceOK' /\ NetworkOK'
  BY <1>1, <1>2 DEF IInv, TypeOK, DeviceOK, NetworkOK, Threads, BuilderPCs, BuilderOnly
<1>4. LocksHeld' /\ Builds'
  BY <1>1, <1>2 DEF IInv, LocksHeld, Builds, Nobody, BuilderOnly, call, other
<1>5. /\ QueueOK' /\ ModuleOK' /\ CallOK' /\ OtherOK' /\ Destroys' /\ Presents'
      /\ InFlight' /\ Whole' /\ Continues' /\ Waits'
  BY <1>1, <1>2 DEF IInv, TypeOK, QueueOK, ModuleOK, CallOK, OtherOK, Destroys, Presents,
     InFlight, Whole, Continues, Waits, GpuIdle, WaitsAreOnce, Fitting, BuilderOnly, queue,
     module, call, other, ran
<1> QED
  BY <1>3, <1>4, <1>5 DEF IInv, TypeOK

LEMMA BuilderEnterKeeps == ASSUME IInv, BuilderEnter PROVE IInv'
<1>1. NetworkOK'
  <2>1. NetworkOK /\ target \in VulkanFrame
    BY DEF IInv, TypeOK, Builds, BuilderEnter
  <2>2. recorder' \in FailedBuilds(recorder, target) \cup {recorder}
    BY DEF BuilderEnter, FailBuild
  <2>3. recorder' \in Recorder
    BY <2>1, <2>2, Dropping DEF NetworkOK
  <2>4. failed' \in BOOLEAN
    BY <2>1 DEF NetworkOK, BuilderEnter, FailBuild
  <2>5. bpc' \in {"clear", "submitting"}
    BY DEF BuilderEnter, FailBuild
  <2>6. UNCHANGED <<building, joinable, target, prepared, builds, uploads>>
    BY DEF BuilderEnter, BuilderOnly
  <2> QED
    BY <2>1, <2>3, <2>4, <2>5, <2>6 DEF NetworkOK, BuilderPCs
<1>2. /\ bpc = "enter" /\ building /\ bpc' \in {"submitting", "clear"}
      /\ bpc' = "submitting" =>
           /\ lock = Nobody /\ lock' = "builder"
           /\ UNCHANGED <<networkSubmit, recorder>>
      /\ bpc' = "clear" =>
           /\ networkSubmit' = Nobody /\ lock' = lock
           /\ recorder' \in FailedBuilds(recorder, target)
  BY DEF IInv, Builds, BuilderEnter, FailBuild
<1>3. UNCHANGED <<building, uploads>> /\ BuilderOnly
  BY DEF BuilderEnter
<1>4. GpuIdle /\ ppc \notin {"record", "submit", "salvage"}
  BY <1>2 DEF IInv, Builds, InFlight
<1>5. bpc' = "clear" => recorder'.runtime = NoRuntime
  BY <1>2, Dropping DEF IInv, TypeOK, NetworkOK, Builds
<1>6. DeviceOK' /\ LocksHeld' /\ Builds'
  BY <1>2, <1>3 DEF IInv, TypeOK, DeviceOK, LocksHeld, Builds, Nobody, Threads, BuilderOnly,
     call, other
<1>7. InFlight'
  BY <1>2, <1>3, <1>4 DEF IInv, InFlight, GpuIdle, BuilderOnly, queue, module, call, other
<1>8. Whole' /\ Continues'
  BY <1>2, <1>3, <1>4, <1>5 DEF IInv, Presents, Whole, Continues, Fitting, BuilderOnly,
     call, ran
<1>9. QueueOK' /\ ModuleOK' /\ CallOK' /\ OtherOK' /\ Destroys' /\ Presents' /\ Waits'
  BY <1>2, <1>3, <1>4, <1>5 DEF IInv, TypeOK, QueueOK, ModuleOK, CallOK, OtherOK, Destroys,
     Presents, Waits, WaitsAreOnce, BuilderOnly, queue, module, call, other, ran
<1> QED
  BY <1>1, <1>6, <1>7, <1>8, <1>9 DEF IInv, TypeOK

LEMMA BuilderSubmittedKeeps == ASSUME IInv, BuilderSubmitted PROVE IInv'
<1>1. NetworkOK'
  <2>1. NetworkOK /\ target \in VulkanFrame
    BY DEF IInv, TypeOK, Builds, BuilderSubmitted
  <2>2. recorder' \in FailedBuilds(recorder, target) \cup {recorder}
    BY DEF BuilderSubmitted, FailBuild
  <2>3. recorder' \in Recorder
    BY <2>1, <2>2, Dropping DEF NetworkOK
  <2>4. failed' \in BOOLEAN
    BY <2>1 DEF NetworkOK, BuilderSubmitted, FailBuild
  <2>5. bpc' \in {"clear", "finish", "lock"}
    BY DEF BuilderSubmitted, FailBuild
  <2>6. uploads' \in 0 .. MaxUploads
    BY <2>1, BoundAssumption DEF IInv, NetworkOK, Builds, BuilderSubmitted
  <2>7. UNCHANGED <<building, joinable, target, prepared, builds>>
    BY DEF BuilderSubmitted, BuilderOnly
  <2> QED
    BY <2>1, <2>3, <2>4, <2>5, <2>6, <2>7 DEF NetworkOK, BuilderPCs
<1>2. /\ bpc = "submitting" /\ building /\ lock' = Nobody /\ networkSubmit' = Nobody
      /\ bpc' \in {"lock", "finish", "clear"} /\ (bpc' = "lock" => uploads' < MaxUploads)
      /\ IF bpc' = "clear" THEN recorder' \in FailedBuilds(recorder, target)
         ELSE recorder' = recorder
  BY DEF IInv, Builds, BuilderSubmitted, FailBuild
<1>3. UNCHANGED building /\ BuilderOnly
  BY DEF BuilderSubmitted
<1>4. GpuIdle /\ ppc \notin {"record", "submit", "salvage"}
  BY <1>2 DEF IInv, Builds, InFlight
<1>5. bpc' = "clear" => recorder'.runtime = NoRuntime
  BY <1>2, Dropping DEF IInv, TypeOK, NetworkOK, Builds
<1>6. DeviceOK' /\ LocksHeld' /\ Builds'
  BY <1>2, <1>3 DEF IInv, TypeOK, DeviceOK, LocksHeld, Builds, Nobody, Threads, BuilderOnly,
     call, other
<1>7. InFlight'
  BY <1>2, <1>3, <1>4 DEF IInv, InFlight, GpuIdle, BuilderOnly, queue, module, call, other
<1>8. Whole' /\ Continues'
  BY <1>2, <1>3, <1>4, <1>5 DEF IInv, Presents, Whole, Continues, Fitting, BuilderOnly,
     call, ran
<1>9. QueueOK' /\ ModuleOK' /\ CallOK' /\ OtherOK' /\ Destroys' /\ Presents' /\ Waits'
  BY <1>2, <1>3, <1>4, <1>5 DEF IInv, TypeOK, QueueOK, ModuleOK, CallOK, OtherOK, Destroys,
     Presents, Waits, WaitsAreOnce, BuilderOnly, queue, module, call, other, ran
<1> QED
  BY <1>1, <1>6, <1>7, <1>8, <1>9 DEF IInv, TypeOK

LEMMA BuildFinishKeeps == ASSUME IInv, BuildFinish PROVE IInv'
<1>1. NetworkOK /\ target \in VulkanFrame /\ building /\ GpuIdle /\ ppc \notin {"record", "submit", "salvage"}
  BY DEF IInv, TypeOK, Builds, InFlight, BuildFinish
<1>2. bpc = "finish" /\ bpc' = "clear" /\ recorder' = Built(recorder, target, builds)
  BY DEF BuildFinish
<1>3. UNCHANGED <<lock, networkSubmit, building, failed, uploads>> /\ BuilderOnly
  BY DEF BuildFinish
<1>4. /\ recorder' \in Recorder /\ recorder'.last = NoFrame
      /\ recorder'.shape \in Shape /\ recorder'.colour /\ recorder'.half = recorder'.shape.fp16
  BY <1>1, <1>2, Building DEF NetworkOK
<1>5. NetworkOK'
  BY <1>1, <1>2, <1>3, <1>4 DEF NetworkOK, BuilderPCs, BuilderOnly
<1>6. LocksHeld' /\ Builds'
  BY <1>2, <1>3 DEF IInv, LocksHeld, Builds, BuilderOnly, call, other
<1>7. InFlight'
  BY <1>1, <1>2, <1>3 DEF IInv, InFlight, GpuIdle, BuilderOnly, queue, module, call, other
<1>8. Whole' /\ Continues'
  BY <1>1, <1>2, <1>3, <1>4 DEF IInv, Presents, Whole, Continues, BuilderOnly, call
<1>9. DeviceOK' /\ QueueOK' /\ ModuleOK' /\ CallOK' /\ OtherOK' /\ Destroys' /\ Presents' /\ Waits'
  BY <1>1, <1>2, <1>3, <1>4 DEF IInv, TypeOK, DeviceOK, QueueOK, ModuleOK, CallOK, OtherOK,
     Destroys, Presents, Waits, WaitsAreOnce, BuilderOnly, queue, module, call, other, ran
<1> QED
  BY <1>5, <1>6, <1>7, <1>8, <1>9 DEF IInv, TypeOK

LEMMA BuildClearKeeps == ASSUME IInv, BuildClear PROVE IInv'
<1>1. bpc = "clear" /\ bpc' = "ended" /\ building' = FALSE
  BY DEF BuildClear
<1>2. UNCHANGED <<lock, networkSubmit, failed, recorder, uploads>> /\ BuilderOnly
  BY DEF BuildClear
<1>3. NetworkOK'
  BY <1>1, <1>2 DEF IInv, TypeOK, NetworkOK, BuilderPCs, BuilderOnly
<1>4. LocksHeld' /\ Builds'
  BY <1>1, <1>2 DEF IInv, LocksHeld, Builds, BuilderOnly, call, other
<1>5. InFlight'
  BY <1>1, <1>2 DEF IInv, InFlight, GpuIdle, BuilderOnly, queue, module, call, other
<1>6. /\ DeviceOK' /\ QueueOK' /\ ModuleOK' /\ CallOK' /\ OtherOK' /\ Destroys'
      /\ Presents' /\ Whole' /\ Continues' /\ Waits'
  BY <1>1, <1>2 DEF IInv, TypeOK, DeviceOK, QueueOK, ModuleOK, CallOK, OtherOK, Destroys,
     Presents, Whole, Continues, Waits, WaitsAreOnce, Fitting, BuilderOnly, queue, module,
     call, other, ran
<1> QED
  BY <1>3, <1>4, <1>5, <1>6 DEF IInv, TypeOK

-----------------------------------------------------------------------------
(* The present thread's. *)

LEMMA PresentBeginKeeps == ASSUME IInv, PresentBegin PROVE IInv'
<1>1. /\ ppc = "out" /\ lock = Nobody /\ lock' = "present" /\ ppc' = "next" /\ presents < MaxPresents
      /\ presents' = presents + 1 /\ consumed' = FALSE /\ composedSem' = NoSwapchain /\ waited' = 0
      /\ ~(gpc # "idle" /\ dying = NoSwapchain /\ gpc \notin {"submitting", "waiting"})
  BY DEF PresentBegin
<1>2. UNCHANGED <<frame, cmd, module, network>> /\ PresentOnly /\ Quiet
  BY DEF PresentBegin
<1>3. todo' \in Seq(alive \ {dying}) /\ todo' \in Seq(Swapchains)
  <2>1. PICK n \in 1 .. 2 : todo' \in [1 .. n -> alive \ {dying}]
    BY DEF PresentBegin
  <2>2. alive \subseteq Swapchains
    BY DEF IInv, TypeOK, DeviceOK
  <2> QED
    BY <2>1, <2>2
<1>4. DeviceOK'
  BY <1>1, <1>2 DEF IInv, TypeOK, DeviceOK, Threads, PresentOnly
<1>5. CallOK'
  <2>1. CallOK
    BY DEF IInv, TypeOK
  <2>2. presents' \in 0 .. MaxPresents
    BY <1>1, <2>1, BoundAssumption DEF CallOK
  <2> QED
    BY <1>1, <1>2, <1>3, <2>1, <2>2 DEF CallOK, PresentPCs
<1>6. LocksHeld' /\ Builds' /\ Destroys'
  BY <1>1, <1>2 DEF IInv, LocksHeld, Builds, Destroys, Nobody, PresentOnly, module, network,
     other
<1>7. Presents' /\ Whole' /\ Continues'
  BY <1>1, <1>2, <1>3 DEF IInv, Presents, Whole, Continues, Fitting, PresentOnly, Quiet,
     network, other, ran
<1>8. InFlight'
  BY <1>1, <1>2 DEF IInv, InFlight, GpuIdle, PresentOnly, Quiet, queue, module, network,
     other
<1>9. Waits'
  BY <1>1, <1>2, BoundAssumption DEF IInv, TypeOK, CallOK, Waits, WaitsAreOnce, Quiet, queue
<1>10. QueueOK' /\ ModuleOK' /\ NetworkOK' /\ OtherOK'
  BY <1>1, <1>2, <1>3 DEF IInv, TypeOK, QueueOK, ModuleOK, NetworkOK, OtherOK, module,
     network, PresentOnly, Quiet, other, queue, ran
<1> QED
  BY <1>4, <1>5, <1>6, <1>7, <1>8, <1>9, <1>10 DEF IInv, TypeOK

LEMMA SkipKeeps == ASSUME IInv, Skip PROVE IInv'
<1>1. ppc = "next" /\ todo # <<>> /\ ppc' = "next" /\ todo' = Tail(todo) /\ frame' = NoFrame /\ cmd' = NoFrame
  BY DEF Skip, Return
<1>2. UNCHANGED <<lock, consumed, composedSem, waited, presents, module, network>> /\ PresentOnly /\ Quiet
  BY DEF Skip
<1>3. Tail(todo) \in Seq(alive \ {dying})
  BY <1>1, Seeing
<1>4. CallOK'
  BY <1>1, <1>2, Returning DEF IInv, TypeOK, CallOK, Return
<1>5. LocksHeld' /\ Builds' /\ Destroys'
  BY <1>1, <1>2 DEF IInv, LocksHeld, Builds, Destroys, PresentOnly, module, network, other
<1>6. Presents' /\ Whole' /\ Continues'
  BY <1>1, <1>2, <1>3 DEF IInv, Presents, Whole, Continues, Fitting, PresentOnly, Quiet,
     network, other, ran
<1>7. InFlight'
  BY <1>1, <1>2 DEF IInv, InFlight, GpuIdle, PresentOnly, Quiet, queue, module, network,
     other
<1>8. Waits'
  BY <1>1, <1>2 DEF IInv, Waits, WaitsAreOnce, Quiet, queue
<1>9. DeviceOK' /\ QueueOK' /\ ModuleOK' /\ NetworkOK' /\ OtherOK'
  BY <1>1, <1>2, <1>3 DEF IInv, TypeOK, DeviceOK, QueueOK, ModuleOK, NetworkOK, OtherOK,
     module, network, PresentOnly, Quiet, other, queue, ran
<1> QED
  BY <1>4, <1>5, <1>6, <1>7, <1>8, <1>9 DEF IInv, TypeOK

LEMMA EnterKeeps == ASSUME IInv, Enter PROVE IInv'
<1>1. ppc = "next" /\ todo # <<>> /\ composedSem = NoSwapchain /\ ppc' = "collect"
  BY DEF Enter
<1>2. /\ UNCHANGED <<lock, todo, cmd, consumed, composedSem, waited, presents, inLayerLast>>
      /\ UNCHANGED <<building, joinable, target, prepared, recorder, builds, uploads, bpc>>
      /\ PresentOnly /\ Quiet
  BY DEF Enter
<1>3. /\ inLayer' \in {inLayer, "open"} /\ inLayerOff' \in {inLayerOff, TRUE}
      /\ failed' \in {failed, TRUE, FALSE}
  BY DEF Enter
<1>4. frame' \in VulkanFrame \cup {NoFrame, Rejected}
  <2>1. CallOK /\ Head(todo) \in Swapchains
    BY <1>1, Ahead DEF IInv, TypeOK
  <2>2. frame' \in FramesOf(Head(todo)) \cup {frame, Rejected}
    BY DEF Enter
  <2> QED
    BY <2>1, <2>2, FramesAssumption DEF CallOK
<1>5. ModuleOK' /\ NetworkOK'
  BY <1>2, <1>3 DEF IInv, TypeOK, ModuleOK, NetworkOK
<1>6. CallOK'
  BY <1>1, <1>2, <1>4 DEF IInv, TypeOK, CallOK, PresentPCs
<1>7. LocksHeld' /\ Builds' /\ Destroys'
  BY <1>1, <1>2 DEF IInv, LocksHeld, Builds, Destroys, PresentOnly, module, network, other
<1>8. Presents' /\ Whole' /\ Continues'
  BY <1>1, <1>2 DEF IInv, Presents, Whole, Continues, Fitting, PresentOnly, Quiet, other,
     ran
<1>9. InFlight'
  BY <1>1, <1>2 DEF IInv, InFlight, GpuIdle, PresentOnly, Quiet, queue, module, other
<1>10. Waits'
  BY <1>1, <1>2 DEF IInv, Waits, WaitsAreOnce, Quiet, queue
<1>11. DeviceOK' /\ QueueOK' /\ OtherOK'
  BY <1>1, <1>2, <1>3, <1>4 DEF IInv, TypeOK, DeviceOK, QueueOK, OtherOK, PresentOnly,
     Quiet, other, queue, ran
<1> QED
  BY <1>5, <1>6, <1>7, <1>8, <1>9, <1>10, <1>11 DEF IInv, TypeOK

LEMMA CollectKeeps == ASSUME IInv, Collect PROVE IInv'
<1>1. /\ ppc = "collect" /\ todo # <<>> /\ QueueOK /\ CallOK
      /\ Head(todo) \in Swapchains /\ Tail(todo) \in Seq(alive \ {dying})
  BY Seeing DEF IInv, TypeOK, Presents, Collect
<1>2. UNCHANGED <<lock, consumed, composedSem, waited, presents, gpu, signalled, ran>>
      /\ UNCHANGED <<module, network>> /\ PresentOnly
  BY DEF Collect
<1>3. \/ Return /\ UNCHANGED pending
      \/ /\ pending' = pending \/ Collected(Head(todo))
         /\ pending[Head(todo)] => Collected(Head(todo))
         /\ ppc' = IF frame = NoFrame THEN "remote" ELSE "last"
         /\ UNCHANGED <<todo, frame, cmd>>
  BY DEF Collect
<1>4. QueueOK'
  BY <1>1, <1>2, <1>3, Collecting
<1>5. CallOK'
  <2>1. CASE Return
    BY <1>1, <1>2, <1>3, <2>1, Returning DEF CallOK
  <2>2. CASE ~Return
    BY <1>1, <1>2, <1>3, <2>2 DEF CallOK, PresentPCs
  <2> QED
    BY <2>1, <2>2
<1>6. LocksHeld' /\ Builds' /\ Destroys'
  BY <1>1, <1>2, <1>3 DEF IInv, LocksHeld, Builds, Destroys, Return, PresentOnly, module,
     network, other
<1>7. Presents' /\ Whole' /\ Continues'
  BY <1>1, <1>2, <1>3 DEF IInv, TypeOK, CallOK, Presents, Whole, Continues, Fitting, Return,
     PresentOnly, network, other, ran
<1>8. InFlight'
  BY <1>1, <1>2, <1>3 DEF IInv, QueueOK, InFlight, GpuIdle, Collected, Return, PresentOnly,
     module, network, other
<1>9. Waits'
  BY <1>1, <1>2, <1>3 DEF IInv, Waits, WaitsAreOnce, Return
<1>10. DeviceOK' /\ ModuleOK' /\ NetworkOK' /\ OtherOK'
  BY <1>1, <1>2, <1>3 DEF IInv, TypeOK, DeviceOK, ModuleOK, NetworkOK, OtherOK, module,
     network, ran, PresentOnly, other
<1> QED
  BY <1>4, <1>5, <1>6, <1>7, <1>8, <1>9, <1>10 DEF IInv, TypeOK

LEMMA RemoteKeeps == ASSUME IInv, Remote PROVE IInv'
<1>1. /\ ppc = "remote" /\ todo # <<>> /\ QueueOK /\ CallOK /\ NoSwapchain \notin Swapchains
      /\ Head(todo) \in Swapchains /\ Tail(todo) \in Seq(alive \ {dying})
  BY Seeing, FramesAssumption DEF IInv, TypeOK, Presents, Remote
<1>2. UNCHANGED <<lock, presents, gpu, ran, module, network>> /\ PresentOnly /\ Return
  BY DEF Remote
<1>3. \/ UNCHANGED <<consumed, waited, pending, signalled, composedSem>>
      \/ TakeWaits /\ UNCHANGED <<pending, signalled, composedSem>>
      \/ /\ TakeWaits
         /\ pending' = [pending EXCEPT ![Head(todo)] = TRUE]
         /\ signalled' = [signalled EXCEPT ![Head(todo)] = TRUE] /\ composedSem' = Head(todo)
  BY DEF Remote
<1>4. QueueOK'
  BY <1>1, <1>2, <1>3 DEF QueueOK
<1>5. CallOK'
  <2>1. consumed' \in BOOLEAN /\ waited' \in Nat
    BY <1>1, <1>3, Taking DEF CallOK
  <2> QED
    BY <1>1, <1>2, <1>3, <2>1, Returning DEF CallOK
<1>6. LocksHeld' /\ Builds' /\ Destroys'
  BY <1>1, <1>2 DEF IInv, LocksHeld, Builds, Destroys, Return, PresentOnly, module, network,
     other
<1>7. Presents' /\ Whole' /\ Continues'
  BY <1>1, <1>2 DEF IInv, Presents, Whole, Continues, Fitting, Return, PresentOnly, network,
     other, ran
<1>8. InFlight'
  BY <1>1, <1>2, <1>3 DEF IInv, QueueOK, InFlight, GpuIdle, Return, PresentOnly, module,
     network, other
<1>9. Waits'
  BY <1>1, <1>2, <1>3 DEF IInv, QueueOK, CallOK, Waits, WaitsAreOnce, Return, TakeWaits
<1>10. DeviceOK' /\ ModuleOK' /\ NetworkOK' /\ OtherOK'
  BY <1>1, <1>2, <1>3 DEF IInv, TypeOK, DeviceOK, ModuleOK, NetworkOK, OtherOK, module,
     network, ran, PresentOnly, other
<1> QED
  BY <1>4, <1>5, <1>6, <1>7, <1>8, <1>9, <1>10 DEF IInv, TypeOK

LEMMA TakeOverKeeps == ASSUME IInv, TakeOver PROVE IInv'
<1>1. /\ ppc = "last" /\ todo # <<>> /\ QueueOK /\ ModuleOK /\ CallOK
      /\ Head(todo) \in alive /\ Head(todo) \in Swapchains /\ Tail(todo) \in Seq(alive \ {dying})
  BY Seeing DEF IInv, TypeOK, Presents, TakeOver
<1>2. UNCHANGED <<lock, consumed, composedSem, waited, presents, gpu, signalled, ran>>
      /\ UNCHANGED <<inLayer, inLayerOff, network>> /\ PresentOnly
  BY DEF TakeOver
<1>3. \/ Return /\ UNCHANGED <<pending, inLayerLast>>
      \/ /\ pending' = pending \/ Collected(inLayerLast)
         /\ inLayerLast \in Swapchains /\ inLayerLast # Head(todo) /\ pending[inLayerLast] =>
              Collected(inLayerLast)
         /\ inLayerLast' = Head(todo) /\ ppc' = "prepare" /\ UNCHANGED <<todo, frame, cmd>>
  BY FramesAssumption DEF TakeOver
<1>4. QueueOK'
  BY <1>1, <1>2, <1>3, Collecting
<1>5. ModuleOK'
  BY <1>1, <1>2, <1>3 DEF ModuleOK
<1>6. CallOK'
  <2>1. CASE Return
    BY <1>1, <1>2, <1>3, <2>1, Returning DEF CallOK
  <2>2. CASE ~Return
    BY <1>1, <1>2, <1>3, <2>2 DEF CallOK, PresentPCs
  <2> QED
    BY <2>1, <2>2
<1>7. LocksHeld' /\ Builds' /\ Destroys'
  BY <1>1, <1>2, <1>3 DEF IInv, LocksHeld, Builds, Destroys, Return, PresentOnly, network,
     other
<1>8. Presents' /\ Whole' /\ Continues'
  BY <1>1, <1>2, <1>3 DEF IInv, TypeOK, CallOK, Presents, Whole, Continues, Fitting, Return,
     PresentOnly, network, other, ran
<1>9. InFlight'
  BY <1>1, <1>2, <1>3 DEF IInv, QueueOK, InFlight, GpuIdle, Collected, Return, PresentOnly,
     network, other
<1>10. Waits'
  BY <1>1, <1>2, <1>3 DEF IInv, Waits, WaitsAreOnce, Return
<1>11. DeviceOK' /\ NetworkOK' /\ OtherOK'
  BY <1>1, <1>2, <1>3 DEF IInv, TypeOK, DeviceOK, NetworkOK, OtherOK, network, ran,
     PresentOnly, other
<1> QED
  BY <1>4, <1>5, <1>6, <1>7, <1>8, <1>9, <1>10, <1>11 DEF IInv, TypeOK

LEMMA PrepareKeeps == ASSUME IInv, Prepare PROVE IInv'
<1>1. /\ ppc = "prepare" /\ todo # <<>> /\ ModuleOK /\ NetworkOK /\ CallOK
      /\ frame \in VulkanFrame \cup {Rejected} /\ Tail(todo) \in Seq(alive \ {dying})
  BY Seeing DEF IInv, TypeOK, Presents, Prepare
<1>2. /\ UNCHANGED <<lock, consumed, composedSem, waited, presents, inLayer, inLayerLast>>
      /\ PresentOnly /\ Quiet
  BY DEF Prepare
<1>3. /\ building' \in {building, TRUE} /\ failed' \in {failed, TRUE}
      /\ joinable' \in {joinable, FALSE, TRUE} /\ bpc' \in {bpc, "none", "start"}
      /\ inLayerOff' \in {inLayerOff, TRUE}
  BY DEF Prepare, StartBuild, Off, network
<1>4. /\ recorder' = recorder /\ uploads' = uploads /\ builds' \in {builds, builds + 1}
      /\ target' = target \/ (target' = frame /\ frame # Rejected)
      /\ prepared' = prepared \/ (prepared' = frame /\ frame # Rejected)
  BY DEF Prepare, StartBuild, network
<1>5. \/ Return
      \/ /\ ppc' = "record" /\ prepared' = frame /\ UNCHANGED <<todo, frame, cmd>>
         /\ frame # Rejected /\ ~Differs(recorder, frame)
  BY DEF Prepare
<1>6. \/ UNCHANGED <<building, joinable, target, bpc>> /\ building /\ Return
      \/ building = FALSE /\ building' = FALSE /\ joinable' = FALSE /\ bpc' = "none"
      \/ /\ building = FALSE /\ building' = TRUE /\ joinable' = TRUE /\ bpc' = "start" /\ Return
         /\ target' = frame /\ frame # Rejected
  BY <1>1 DEF NetworkOK, Prepare, StartBuild, network
<1>7. ModuleOK'
  BY <1>1, <1>2, <1>3 DEF ModuleOK
<1>8. NetworkOK'
  <2>1. target' \in VulkanFrame \cup {NoFrame} /\ prepared' \in VulkanFrame \cup {NoFrame}
    BY <1>1, <1>4 DEF NetworkOK
  <2>2. recorder' \in Recorder /\ builds' \in Nat /\ uploads' \in 0 .. MaxUploads
    BY <1>1, <1>4 DEF NetworkOK
  <2> QED
    BY <1>1, <1>3, <2>1, <2>2 DEF NetworkOK, BuilderPCs
<1>9. CallOK'
  <2>1. CASE Return
    BY <1>1, <1>2, <1>5, <2>1, Returning DEF CallOK
  <2>2. CASE ~Return
    BY <1>1, <1>2, <1>5, <2>2 DEF CallOK, PresentPCs
  <2> QED
    BY <2>1, <2>2
<1>10. LocksHeld' /\ Builds' /\ Destroys'
  BY <1>1, <1>2, <1>4, <1>5, <1>6 DEF IInv, LocksHeld, Builds, Destroys, Return,
     PresentOnly, other
<1>11. Presents'
  BY <1>1, <1>2, <1>4, <1>5 DEF IInv, Presents, Return, PresentOnly, other
<1>12. InFlight'
  BY <1>1, <1>2, <1>4, <1>5, <1>6 DEF IInv, InFlight, GpuIdle, Return, PresentOnly, Quiet,
     queue, other
<1>13. Whole'
  <2>1. ppc' # "next" => Serves(recorder, frame)
    BY <1>1, <1>5, Serving DEF IInv, NetworkOK, Whole, Differs, Return
  <2> QED
    BY <1>1, <1>4, <1>5, <2>1 DEF IInv, Whole, Return
<1>14. Continues'
  BY <1>1, <1>2, <1>4, <1>5 DEF IInv, Presents, Continues, Fitting, Return, Quiet, ran
<1>15. Waits'
  BY <1>1, <1>2, <1>5 DEF IInv, Waits, WaitsAreOnce, Return, Quiet, queue
<1>16. DeviceOK' /\ QueueOK' /\ OtherOK'
  BY <1>1, <1>2, <1>3, <1>4, <1>5, <1>6 DEF IInv, TypeOK, DeviceOK, QueueOK, OtherOK,
     network, PresentOnly, Quiet, other, queue, ran
<1> QED
  BY <1>7, <1>8, <1>9, <1>10, <1>11, <1>12, <1>13, <1>14, <1>15, <1>16 DEF IInv, TypeOK

LEMMA RecordKeeps == ASSUME IInv, Record PROVE IInv'
<1>1. /\ ppc = "record" /\ todo # <<>> /\ ModuleOK /\ NetworkOK /\ CallOK
      /\ Tail(todo) \in Seq(alive \ {dying}) /\ cmd = NoFrame /\ GpuIdle
      /\ prepared \in VulkanFrame /\ prepared = frame /\ Serves(recorder, prepared)
  BY Seeing DEF IInv, TypeOK, InFlight, Presents, Whole, Record
<1>2. /\ UNCHANGED <<lock, consumed, composedSem, waited, presents, inLayer, inLayerLast>>
      /\ UNCHANGED <<building, joinable, target, prepared, builds, uploads, bpc>>
      /\ PresentOnly /\ Quiet
  BY DEF Record
<1>3. inLayerOff' \in {inLayerOff, TRUE} /\ failed' \in {failed, TRUE}
  BY DEF Record, Off
<1>4. \/ Return /\ recorder' = recorder
      \/ ppc' = "salvage" /\ UNCHANGED <<recorder, cmd, todo, frame>>
      \/ /\ cmd' = [reset |-> Resets(recorder, prepared)]
         /\ recorder' = Recorded(recorder, prepared)
         /\ ppc' \in {"submit", "salvage"} /\ UNCHANGED <<todo, frame>>
  BY DEF Record
<1>5. recorder' # recorder =>
        /\ recorder'.last = prepared /\ recorder'.shape = recorder.shape
        /\ recorder'.colour = recorder.colour /\ recorder'.half = recorder.half
  BY <1>1, <1>4, Recording DEF NetworkOK
<1>6. recorder' \in Recorder /\ recorder'.runtime = recorder.runtime
  BY <1>1, <1>4, Recording DEF NetworkOK
<1>7. ModuleOK' /\ NetworkOK'
  BY <1>1, <1>2, <1>3, <1>6 DEF ModuleOK, NetworkOK
<1>8. cmd' \in [reset : BOOLEAN] \cup {NoFrame}
  <2>1. Resets(recorder, prepared) \in BOOLEAN
    BY DEF Resets
  <2> QED
    BY <1>1, <1>4, <2>1 DEF Return
<1>9. CallOK'
  <2>1. CASE Return
    BY <1>1, <1>2, <2>1, Returning DEF CallOK
  <2>2. CASE ~Return
    BY <1>1, <1>2, <1>4, <1>8, <2>2 DEF CallOK, PresentPCs
  <2> QED
    BY <2>1, <2>2
<1>10. LocksHeld' /\ Builds' /\ Destroys'
  BY <1>1, <1>2, <1>4 DEF IInv, LocksHeld, Builds, Destroys, Return, PresentOnly, other
<1>11. Presents' /\ Whole' /\ Continues'
  <2>1. /\ Presents /\ Whole /\ Continues /\ recorder \in Recorder
        /\ todo \in Seq(alive \ {dying}) /\ UNCHANGED <<alive, dying, prepared, unsubmitted, history>>
    BY <1>1, <1>2 DEF IInv, NetworkOK, Presents, PresentOnly, Quiet, other, ran
  <2>2. CASE Return /\ recorder' = recorder
    BY <1>1, <2>1, <2>2 DEF Return, Presents, Whole, Continues, Fitting
  <2>3. CASE ppc' = "salvage" /\ UNCHANGED <<recorder, cmd, todo, frame>>
    BY <1>1, <2>1, <2>3 DEF Presents, Whole, Continues, Fitting
  <2>4. CASE /\ cmd' = [reset |-> Resets(recorder, prepared)]
             /\ recorder' = Recorded(recorder, prepared)
             /\ ppc' \in {"submit", "salvage"} /\ UNCHANGED <<todo, frame>>
    <3>1. cmd' \in [reset : BOOLEAN] /\ cmd'.reset = Resets(recorder, prepared)
      <4>1. Resets(recorder, prepared) \in BOOLEAN
        BY DEF Resets
      <4> QED
        BY <2>4, <4>1
    <3>2. cmd' # NoFrame
      BY <3>1, FramesAssumption
    <3>3. Presents'
      BY <1>1, <2>1, <2>4, <3>2 DEF Presents
    <3>4. /\ recorder'.last = prepared /\ recorder'.runtime = recorder.runtime
          /\ recorder'.colour = recorder.colour /\ recorder'.half = recorder.half
          /\ recorder'.shape = recorder.shape /\ Serves(recorder', prepared)
      BY <1>1, <2>1, <2>4, Recording
    <3>5. recorder.shape.motion = prepared.motion /\ recorder.runtime # NoRuntime
      BY <1>1 DEF Serves
    <3>6. Whole'
      BY <1>1, <2>1, <2>4, <3>4, <3>5 DEF Whole
    <3>7. Fitting(prepared)' = Fitting(prepared)
      BY <2>1, <3>4 DEF Fitting
    <3>8. ~unsubmitted /\ prepared.motion /\ ~cmd'.reset => history = Fitting(prepared)
      <4>1. ~cmd'.reset => /\ recorder.last # NoFrame
                           /\ SettingsOf(recorder.last) = SettingsOf(prepared)
        BY <3>1 DEF Resets
      <4>2. recorder.last # NoFrame => recorder.last.motion = prepared.motion
        BY <2>1, <3>5 DEF Whole
      <4>3. SettingsOf(recorder.last) = SettingsOf(prepared) =>
              Fitting(recorder.last) = Fitting(prepared)
        BY DEF Fitting
      <4> QED
        BY <1>1, <2>1, <3>5, <4>1, <4>2, <4>3 DEF Continues
    <3>9. Continues'
      BY <2>1, <2>4, <3>2, <3>4, <3>7, <3>8 DEF Continues
    <3> QED
      BY <3>3, <3>6, <3>9
  <2> QED
    BY <1>4, <2>2, <2>3, <2>4
<1>12. InFlight'
  BY <1>1, <1>2, <1>4, <1>6 DEF IInv, InFlight, GpuIdle, Return, PresentOnly, Quiet, queue,
     other
<1>13. Waits'
  BY <1>1, <1>2, <1>4 DEF IInv, Waits, WaitsAreOnce, Return, Quiet, queue
<1>14. DeviceOK' /\ QueueOK' /\ OtherOK'
  BY <1>1, <1>2, <1>3, <1>4, <1>5, <1>6, <1>8 DEF IInv, TypeOK, DeviceOK, QueueOK, OtherOK,
     PresentOnly, Quiet, other, queue, ran
<1> QED
  BY <1>7, <1>9, <1>10, <1>11, <1>12, <1>13, <1>14 DEF IInv, TypeOK

LEMMA SubmitKeeps == ASSUME IInv, Submit PROVE IInv'
<1>1. /\ ppc = "submit" /\ todo # <<>> /\ QueueOK /\ CallOK /\ OtherOK /\ NoSwapchain \notin Swapchains
      /\ Head(todo) \in alive /\ Head(todo) \in Swapchains /\ Tail(todo) \in Seq(alive \ {dying})
      /\ GpuIdle /\ inLayerLast = Head(todo) /\ recorder \in Recorder /\ prepared \in VulkanFrame
  BY Seeing, FramesAssumption DEF IInv, TypeOK, NetworkOK, InFlight, Presents, Whole, Submit
<1>2. UNCHANGED <<lock, presents, module, network>> /\ PresentOnly /\ Return
  BY DEF Submit
<1>3. \/ /\ Submitted(Head(todo)) /\ pending' = [pending EXCEPT ![Head(todo)] = TRUE]
         /\ signalled' = [signalled EXCEPT ![Head(todo)] = TRUE] /\ composedSem' = Head(todo)
      \/ SubmitFails /\ UNCHANGED <<pending, signalled, composedSem>>
  BY DEF Submit
<1>4. /\ gpu' \in [Swapchains -> Nat] /\ unsubmitted' \in BOOLEAN
      /\ consumed' \in BOOLEAN /\ waited' \in Nat
  BY <1>1, <1>3, Ran DEF OtherOK
<1>5. QueueOK'
  BY <1>1, <1>3, <1>4 DEF QueueOK
<1>6. CallOK'
  BY <1>1, <1>2, <1>3, <1>4, Returning DEF CallOK
<1>7. OtherOK'
  BY <1>1, <1>2, <1>4 DEF OtherOK, PresentOnly, other
<1>8. LocksHeld' /\ Builds' /\ Destroys'
  BY <1>1, <1>2 DEF IInv, LocksHeld, Builds, Destroys, Return, PresentOnly, module, network,
     other
<1>9. Presents' /\ Whole'
  BY <1>1, <1>2 DEF IInv, Presents, Whole, Return, PresentOnly, network, other
<1>10. InFlight'
  <2>1. ~building /\ gpc \notin {"close", "ended"} /\ (gpc = "free" => dying \in Swapchains)
    BY <1>1 DEF IInv, TypeOK, DeviceOK, Builds, Destroys
  <2>2. gpu' # gpu =>
          /\ ~lost /\ gpu' = [gpu EXCEPT ![Head(todo)] = recorder.runtime]
          /\ pending' = [pending EXCEPT ![Head(todo)] = TRUE]
    BY <1>3 DEF Submitted, SubmitFails
  <2>3. \A s \in Swapchains : gpu'[s] # Idle =>
          s = Head(todo) /\ gpu'[s] = recorder.runtime /\ pending'[s]
    BY <1>1, <2>2 DEF QueueOK, GpuIdle
  <2>4. lost => gpu' = gpu
    BY <2>2
  <2> QED
    BY <1>1, <1>2, <2>1, <2>3, <2>4
       DEF IInv, InFlight, GpuIdle, Return, PresentOnly, module, network, other
<1>11. Continues'
  BY <1>1, <1>2, <1>3 DEF IInv, Presents, Whole, Continues, Fitting, Submitted, SubmitFails,
     Return, network
<1>12. Waits'
  BY <1>1, <1>2, <1>3 DEF IInv, QueueOK, CallOK, Waits, WaitsAreOnce, Submitted,
     SubmitFails, TakeWaits, Return
<1>13. DeviceOK' /\ ModuleOK' /\ NetworkOK'
  BY <1>1, <1>2, <1>3, <1>4 DEF IInv, TypeOK, DeviceOK, ModuleOK, NetworkOK, module,
     network, PresentOnly, other
<1> QED
  BY <1>5, <1>6, <1>7, <1>8, <1>9, <1>10, <1>11, <1>12, <1>13 DEF IInv, TypeOK

LEMMA SalvageKeeps == ASSUME IInv, Salvage PROVE IInv'
<1>1. /\ ppc = "salvage" /\ todo # <<>> /\ QueueOK /\ CallOK /\ OtherOK /\ NoSwapchain \notin Swapchains
      /\ Head(todo) \in alive /\ Head(todo) \in Swapchains /\ Tail(todo) \in Seq(alive \ {dying})
      /\ GpuIdle /\ inLayerLast = Head(todo) /\ recorder \in Recorder /\ prepared \in VulkanFrame
  BY Seeing, FramesAssumption DEF IInv, TypeOK, NetworkOK, InFlight, Presents, Whole,
     Salvage
<1>2. UNCHANGED <<lock, composedSem, presents, pending, signalled, module, network>> /\ PresentOnly
  BY DEF Salvage
<1>3. \/ Submitted(Head(todo)) /\ ppc' = "wait" /\ UNCHANGED <<todo, frame, cmd>>
      \/ SubmitFails /\ Return
  BY DEF Salvage
<1>4. /\ gpu' \in [Swapchains -> Nat] /\ unsubmitted' \in BOOLEAN
      /\ consumed' \in BOOLEAN /\ waited' \in Nat
  BY <1>1, <1>3, Ran DEF OtherOK
<1>5. QueueOK'
  BY <1>1, <1>2, <1>4 DEF QueueOK
<1>6. CallOK'
  <2>1. CASE Return
    BY <1>1, <1>2, <1>3, <1>4, <2>1, Returning DEF CallOK
  <2>2. CASE ~Return
    BY <1>1, <1>2, <1>3, <1>4, <2>2 DEF CallOK, PresentPCs
  <2> QED
    BY <2>1, <2>2
<1>7. OtherOK'
  BY <1>1, <1>2, <1>4 DEF OtherOK, PresentOnly, other
<1>8. LocksHeld' /\ Builds' /\ Destroys'
  BY <1>1, <1>2, <1>3 DEF IInv, LocksHeld, Builds, Destroys, Return, PresentOnly, module,
     network, other
<1>9. Presents' /\ Whole'
  BY <1>1, <1>2, <1>3 DEF IInv, Presents, Whole, Return, PresentOnly, network, other
<1>10. InFlight'
  <2>1. ~building /\ gpc \notin {"close", "ended"} /\ (gpc = "free" => dying \in Swapchains)
    BY <1>1 DEF IInv, TypeOK, DeviceOK, Builds, Destroys
  <2>2. gpu' # gpu =>
          /\ ~lost /\ gpu' = [gpu EXCEPT ![Head(todo)] = recorder.runtime]
          /\ ppc' = "wait" /\ todo' = todo
    BY <1>3 DEF Submitted, SubmitFails
  <2>3. \A s \in Swapchains : gpu'[s] # Idle =>
          s = Head(todo) /\ gpu'[s] = recorder.runtime /\ ppc' = "wait" /\ todo' = todo
    BY <1>1, <2>2 DEF QueueOK, GpuIdle
  <2>4. lost => gpu' = gpu
    BY <2>2
  <2> QED
    BY <1>1, <1>2, <1>3, <2>1, <2>3, <2>4
       DEF IInv, InFlight, GpuIdle, Return, PresentOnly, module, network, other
<1>11. Continues'
  BY <1>1, <1>2, <1>3 DEF IInv, Presents, Whole, Continues, Fitting, Submitted, SubmitFails,
     Return, network
<1>12. Waits'
  BY <1>1, <1>2, <1>3 DEF IInv, CallOK, Waits, WaitsAreOnce, Submitted, SubmitFails,
     TakeWaits, Return
<1>13. DeviceOK' /\ ModuleOK' /\ NetworkOK'
  BY <1>1, <1>2, <1>3, <1>4 DEF IInv, TypeOK, DeviceOK, ModuleOK, NetworkOK, module,
     network, PresentOnly, other
<1> QED
  BY <1>5, <1>6, <1>7, <1>8, <1>9, <1>10, <1>11, <1>12, <1>13 DEF IInv, TypeOK

LEMMA SalvageWaitKeeps == ASSUME IInv, SalvageWait PROVE IInv'
<1>1. /\ ppc = "wait" /\ todo # <<>> /\ (lost \/ gpu[Head(todo)] = Idle) /\ CallOK
      /\ Tail(todo) \in Seq(alive \ {dying})
  BY Seeing DEF IInv, TypeOK, Presents, SalvageWait
<1>2. UNCHANGED <<lock, consumed, composedSem, waited, presents, module, network>>
      /\ PresentOnly /\ Quiet /\ Return
  BY DEF SalvageWait
<1>3. CallOK'
  BY <1>1, <1>2, Returning DEF CallOK
<1>4. LocksHeld' /\ Builds' /\ Destroys'
  BY <1>1, <1>2 DEF IInv, LocksHeld, Builds, Destroys, Return, PresentOnly, module, network,
     other
<1>5. Presents' /\ Whole' /\ Continues'
  BY <1>1, <1>2 DEF IInv, Presents, Whole, Continues, Fitting, Return, PresentOnly, Quiet,
     network, other, ran
<1>6. InFlight'
  BY <1>1, <1>2 DEF IInv, InFlight, GpuIdle, Return, PresentOnly, Quiet, queue, module,
     network, other
<1>7. Waits'
  BY <1>1, <1>2 DEF IInv, Waits, WaitsAreOnce, Return, Quiet, queue
<1>8. DeviceOK' /\ QueueOK' /\ ModuleOK' /\ NetworkOK' /\ OtherOK'
  BY <1>1, <1>2 DEF IInv, TypeOK, DeviceOK, QueueOK, ModuleOK, NetworkOK, OtherOK, module,
     network, PresentOnly, Quiet, other, queue, ran
<1> QED
  BY <1>3, <1>4, <1>5, <1>6, <1>7, <1>8 DEF IInv, TypeOK

LEMMA ShowKeeps == ASSUME IInv, Show PROVE IInv'
<1>1. /\ ppc = "next" /\ todo = <<>> /\ ppc' = "out" /\ lock' = Nobody
      /\ DeviceOK /\ QueueOK /\ CallOK
  BY DEF IInv, TypeOK, Show
<1>2. UNCHANGED <<todo, frame, cmd, consumed, composedSem, presents, pending, gpu, ran>>
      /\ UNCHANGED <<module, network>> /\ PresentOnly
  BY DEF Show
<1>3. IF composedSem # NoSwapchain
      THEN signalled' = [signalled EXCEPT ![composedSem] = FALSE] /\ waited' = waited
      ELSE signalled' = signalled /\ waited' = IF consumed THEN waited ELSE waited + 1
  BY DEF Show
<1>4. DeviceOK'
  BY <1>1, <1>2 DEF DeviceOK, Threads, PresentOnly
<1>5. QueueOK'
  BY <1>1, <1>2, <1>3 DEF QueueOK
<1>6. CallOK'
  BY <1>1, <1>2, <1>3 DEF CallOK, PresentPCs
<1>7. LocksHeld' /\ Builds' /\ Destroys'
  BY <1>1, <1>2 DEF IInv, LocksHeld, Builds, Destroys, Nobody, PresentOnly, module, network,
     other
<1>8. Presents' /\ Whole' /\ Continues'
  BY <1>1, <1>2 DEF IInv, Presents, Whole, Continues, Fitting, PresentOnly, network, other,
     ran
<1>9. InFlight'
  BY <1>1, <1>2 DEF IInv, InFlight, GpuIdle, PresentOnly, module, network, other
<1>10. Waits'
  <2>1. waited' <= 1 /\ (waited' = 1 \/ composedSem' # NoSwapchain)
    BY <1>1, <1>2, <1>3 DEF IInv, CallOK, Waits
  <2>2. \A s \in Swapchains : ~signalled'[s]
    BY <1>1, <1>3, FramesAssumption DEF IInv, QueueOK, Waits
  <2> QED
    BY <1>1, <2>1, <2>2 DEF Waits, WaitsAreOnce
<1>11. ModuleOK' /\ NetworkOK' /\ OtherOK'
  BY <1>1, <1>2, <1>3 DEF IInv, TypeOK, ModuleOK, NetworkOK, OtherOK, module, network, ran,
     PresentOnly, other
<1> QED
  BY <1>4, <1>5, <1>6, <1>7, <1>8, <1>9, <1>10, <1>11 DEF IInv, TypeOK

-----------------------------------------------------------------------------
(* The game's other thread's. *)

LEMMA GameCallKeeps == ASSUME IInv, GameCall PROVE IInv'
<1>1. gpc = "idle" /\ lock = Nobody /\ lock' = "game" /\ gpc' \in {"submitting", "waiting"}
  BY DEF GameCall
<1>2. /\ UNCHANGED <<networkSubmit, known, alive, pending, inLayer, inLayerLast, joinable>>
      /\ UNCHANGED <<recorder, bpc, dying>> /\ GameOnly
  BY DEF GameCall
<1>3. DeviceOK' /\ OtherOK'
  BY <1>1, <1>2 DEF IInv, TypeOK, DeviceOK, OtherOK, Threads, GamePCs, GameOnly, ran
<1>4. LocksHeld' /\ Destroys' /\ Builds'
  BY <1>1, <1>2 DEF IInv, LocksHeld, Builds, Destroys, Nobody, call, GameOnly
<1>5. InFlight'
  BY <1>1, <1>2 DEF IInv, InFlight, GpuIdle, call, GameOnly
<1>6. QueueOK' /\ ModuleOK' /\ NetworkOK' /\ CallOK' /\ Presents' /\ Whole' /\ Continues' /\ Waits'
  BY <1>1, <1>2 DEF IInv, TypeOK, QueueOK, ModuleOK, NetworkOK, CallOK, Presents, Whole,
     Continues, Waits, WaitsAreOnce, Fitting, GameOnly, call, ran
<1> QED
  BY <1>3, <1>4, <1>5, <1>6 DEF IInv, TypeOK

LEMMA GameReturnKeeps == ASSUME IInv, GameReturn PROVE IInv'
<1>1. gpc \in {"submitting", "waiting"} /\ lock' = Nobody /\ gpc' = "idle"
  BY DEF GameReturn
<1>2. /\ UNCHANGED <<networkSubmit, known, alive, pending, inLayer, inLayerLast, joinable>>
      /\ UNCHANGED <<recorder, bpc, dying>> /\ GameOnly
  BY DEF GameReturn
<1>3. DeviceOK' /\ OtherOK'
  BY <1>1, <1>2 DEF IInv, TypeOK, DeviceOK, OtherOK, Threads, GamePCs, GameOnly, ran
<1>4. LocksHeld' /\ Destroys' /\ Builds'
  BY <1>1, <1>2 DEF IInv, LocksHeld, Builds, Destroys, Nobody, call, GameOnly
<1>5. InFlight'
  BY <1>1, <1>2 DEF IInv, InFlight, GpuIdle, call, GameOnly
<1>6. QueueOK' /\ ModuleOK' /\ NetworkOK' /\ CallOK' /\ Presents' /\ Whole' /\ Continues' /\ Waits'
  BY <1>1, <1>2 DEF IInv, TypeOK, QueueOK, ModuleOK, NetworkOK, CallOK, Presents, Whole,
     Continues, Waits, WaitsAreOnce, Fitting, GameOnly, call, ran
<1> QED
  BY <1>3, <1>4, <1>5, <1>6 DEF IInv, TypeOK

LEMMA DestroyKeeps == ASSUME IInv, Destroy PROVE IInv'
<1>1. /\ gpc = "idle" /\ lock = Nobody /\ gpc' = "asked"
      /\ dying' \in alive \/ (ppc = "out" /\ dying' = NoSwapchain)
  BY DEF Destroy
<1>2. /\ UNCHANGED <<lock, networkSubmit, known, alive, pending, inLayer, inLayerLast>>
      /\ UNCHANGED <<joinable, recorder, bpc>> /\ GameOnly
  BY DEF Destroy
<1>3. ppc = "out"
  BY <1>1 DEF IInv, LocksHeld, Nobody
<1>4. OtherOK'
  BY <1>1, <1>2 DEF IInv, TypeOK, DeviceOK, OtherOK, GamePCs, GameOnly, ran
<1>5. LocksHeld' /\ Destroys' /\ Presents'
  BY <1>1, <1>2, <1>3 DEF IInv, LocksHeld, Destroys, Presents, call, GameOnly
<1>6. InFlight'
  BY <1>1, <1>2 DEF IInv, InFlight, GpuIdle, call, GameOnly
<1>7. /\ DeviceOK' /\ QueueOK' /\ ModuleOK' /\ NetworkOK' /\ CallOK' /\ Builds'
      /\ Whole' /\ Continues' /\ Waits'
  BY <1>1, <1>2, <1>3 DEF IInv, TypeOK, DeviceOK, QueueOK, ModuleOK, NetworkOK, CallOK,
     Builds, Whole, Continues, Waits, WaitsAreOnce, Fitting, GameOnly, call, ran
<1> QED
  BY <1>4, <1>5, <1>6, <1>7 DEF IInv, TypeOK

LEMMA DestroyWaitKeeps == ASSUME IInv, DestroyWait PROVE IInv'
<1>1. gpc = "asked" /\ networkSubmit = Nobody /\ gpc' = "destroyWait" /\ networkSubmit' = "game"
  BY DEF DestroyWait
<1>2. /\ UNCHANGED <<lock, known, alive, pending, inLayer, inLayerLast, joinable>>
      /\ UNCHANGED <<recorder, bpc, dying>> /\ GameOnly
  BY DEF DestroyWait
<1>3. DeviceOK' /\ OtherOK'
  BY <1>1, <1>2 DEF IInv, TypeOK, DeviceOK, OtherOK, Threads, GamePCs, GameOnly, ran
<1>4. LocksHeld' /\ Destroys'
  BY <1>1, <1>2 DEF IInv, LocksHeld, Destroys, Nobody, call, GameOnly
<1>5. InFlight'
  BY <1>1, <1>2 DEF IInv, InFlight, GpuIdle, call, GameOnly
<1>6. /\ QueueOK' /\ ModuleOK' /\ NetworkOK' /\ CallOK' /\ Builds' /\ Presents'
      /\ Whole' /\ Continues' /\ Waits'
  BY <1>1, <1>2 DEF IInv, TypeOK, QueueOK, ModuleOK, NetworkOK, CallOK, Builds, Presents,
     Whole, Continues, Waits, WaitsAreOnce, Fitting, GameOnly, call, ran
<1> QED
  BY <1>3, <1>4, <1>5, <1>6 DEF IInv, TypeOK

LEMMA DestroyWaitedKeeps == ASSUME IInv, DestroyWaited PROVE IInv'
<1>1. /\ gpc = "destroyWait" /\ GpuIdle /\ networkSubmit' = Nobody /\ dying \in alive \cup {NoSwapchain}
      /\ gpc' = IF dying = NoSwapchain THEN "close" ELSE "free"
  BY DEF IInv, Destroys, InFlight, DestroyWaited, WaitOver
<1>2. /\ UNCHANGED <<lock, known, alive, pending, inLayer, inLayerLast, joinable>>
      /\ UNCHANGED <<recorder, bpc, dying>> /\ GameOnly
  BY DEF DestroyWaited
<1>3. DeviceOK' /\ OtherOK'
  BY <1>1, <1>2 DEF IInv, TypeOK, DeviceOK, OtherOK, Threads, GamePCs, GameOnly, ran
<1>4. LocksHeld' /\ Destroys'
  BY <1>1, <1>2 DEF IInv, LocksHeld, Destroys, Nobody, call, GameOnly
<1>5. InFlight'
  BY <1>1, <1>2 DEF IInv, TypeOK, DeviceOK, InFlight, GpuIdle, call, GameOnly
<1>6. /\ QueueOK' /\ ModuleOK' /\ NetworkOK' /\ CallOK' /\ Builds' /\ Presents'
      /\ Whole' /\ Continues' /\ Waits'
  BY <1>1, <1>2 DEF IInv, TypeOK, QueueOK, ModuleOK, NetworkOK, CallOK, Builds, Presents,
     Whole, Continues, Waits, WaitsAreOnce, Fitting, GameOnly, call, ran
<1> QED
  BY <1>3, <1>4, <1>5, <1>6 DEF IInv, TypeOK

LEMMA DestroySwapchainKeeps == ASSUME IInv, DestroySwapchain PROVE IInv'
<1>1. /\ gpc = "free" /\ lock = Nobody /\ alive' = alive \ {dying} /\ dying \in alive
      /\ pending' = [pending EXCEPT ![dying] = FALSE] /\ gpc' = "idle" /\ dying' = NoSwapchain
      /\ inLayerLast' = IF inLayerLast = dying THEN NoSwapchain ELSE inLayerLast
  BY DEF IInv, Destroys, DestroySwapchain
<1>2. UNCHANGED <<lock, networkSubmit, known, inLayer, joinable, recorder, bpc>> /\ GameOnly
  BY DEF DestroySwapchain
<1>3. ppc = "out"
  BY <1>1 DEF IInv, LocksHeld, Nobody
<1>4. DeviceOK' /\ ModuleOK' /\ OtherOK'
  BY <1>1, <1>2 DEF IInv, TypeOK, DeviceOK, ModuleOK, OtherOK, GamePCs, GameOnly, ran
<1>5. QueueOK'
  BY <1>1, <1>2 DEF IInv, TypeOK, QueueOK, GameOnly
<1>6. LocksHeld' /\ Destroys' /\ Presents'
  BY <1>1, <1>2, <1>3 DEF IInv, LocksHeld, Destroys, Presents, call, GameOnly
<1>7. InFlight'
  BY <1>1, <1>2, <1>3 DEF IInv, TypeOK, QueueOK, InFlight, GpuIdle, call, GameOnly
<1>8. NetworkOK' /\ CallOK' /\ Builds' /\ Whole' /\ Continues' /\ Waits'
  BY <1>1, <1>2, <1>3 DEF IInv, TypeOK, NetworkOK, CallOK, Builds, Whole, Continues, Waits,
     WaitsAreOnce, Fitting, GameOnly, call, ran
<1> QED
  BY <1>4, <1>5, <1>6, <1>7, <1>8 DEF IInv, TypeOK

LEMMA CloseKeeps == ASSUME IInv, Close PROVE IInv'
<1>1. /\ gpc = "close" /\ gpc' = "ended" /\ known' = FALSE /\ alive' = {} /\ GpuIdle /\ ppc = "out"
      /\ dying = NoSwapchain /\ bpc \in {"none", "ended"} /\ building = FALSE
  BY DEF IInv, TypeOK, NetworkOK, Builds, Destroys, InFlight, Close
<1>2. joinable' = FALSE /\ bpc' = "none" /\ recorder' = NewRecorder /\ inLayer' \in {inLayer, "closed"}
  BY DEF Close
<1>3. UNCHANGED <<lock, networkSubmit, pending, inLayerLast, dying>> /\ GameOnly
  BY DEF Close
<1>4. DeviceOK' /\ ModuleOK' /\ OtherOK'
  BY <1>1, <1>2, <1>3 DEF IInv, TypeOK, DeviceOK, ModuleOK, OtherOK, GamePCs, GameOnly, ran
<1>5. NetworkOK'
  BY <1>2, <1>3, Starting DEF IInv, TypeOK, NetworkOK, BuilderPCs, GameOnly
<1>6. LocksHeld' /\ Builds' /\ Destroys'
  BY <1>1, <1>2, <1>3 DEF IInv, LocksHeld, Builds, Destroys, call, GameOnly
<1>7. Presents'
  BY <1>1, <1>3 DEF IInv, Presents, call, GameOnly
<1>8. InFlight'
  BY <1>1, <1>2, <1>3 DEF IInv, InFlight, GpuIdle, call, GameOnly
<1>9. Whole' /\ Continues'
  BY <1>1, <1>2, <1>3, Starting DEF IInv, Presents, Whole, Continues, call, GameOnly
<1>10. QueueOK' /\ CallOK' /\ Waits'
  BY <1>1, <1>2, <1>3 DEF IInv, TypeOK, QueueOK, CallOK, Waits, WaitsAreOnce, GameOnly,
     call, ran
<1> QED
  BY <1>4, <1>5, <1>6, <1>7, <1>8, <1>9, <1>10 DEF IInv, TypeOK

-----------------------------------------------------------------------------
(* The invariant, and what follows from it. *)

LEMMA InitKeeps == ASSUME Init PROVE IInv
<1>1. TypeOK
  <2>1. DeviceOK /\ OtherOK /\ ModuleOK
    BY DEF Init, DeviceOK, OtherOK, ModuleOK, GamePCs
  <2>2. QueueOK
    BY DEF Init, QueueOK, Idle, NoRuntime
  <2>3. NetworkOK
    <3>1. recorder \in Recorder
      BY Starting DEF Init
    <3>2. 0 \in 0 .. MaxUploads
      BY BoundAssumption
    <3> QED
      BY <3>1, <3>2 DEF Init, NetworkOK, BuilderPCs
  <2>4. CallOK
    <3>1. 0 \in 0 .. MaxPresents
      BY BoundAssumption
    <3>2. ppc \in PresentPCs /\ todo \in Seq(Swapchains)
      BY DEF Init, PresentPCs
    <3>3. frame = NoFrame /\ cmd = NoFrame /\ composedSem = NoSwapchain
      BY DEF Init
    <3>4. consumed \in BOOLEAN /\ waited \in Nat /\ presents = 0
      BY DEF Init
    <3> QED
      BY <3>1, <3>2, <3>3, <3>4 DEF CallOK
  <2> QED
    BY <2>1, <2>2, <2>3, <2>4 DEF TypeOK
<1>2. LocksHeld /\ Builds /\ Destroys /\ Presents
  BY DEF Init, LocksHeld, Builds, Destroys, Presents, Nobody
<1>3. InFlight
  BY DEF Init, InFlight, GpuIdle
<1>4. Waits
  BY DEF Init, Waits, WaitsAreOnce
<1>5. Whole /\ Continues
  BY Starting DEF Init, Whole, Continues
<1> QED
  BY <1>1, <1>2, <1>3, <1>4, <1>5 DEF IInv

LEMMA StutterKeeps == ASSUME IInv, UNCHANGED vars PROVE IInv'
BY DEF vars, device, queue, module, network, call, other, ran, IInv, TypeOK, DeviceOK, QueueOK,
       ModuleOK, NetworkOK, CallOK, OtherOK, LocksHeld, Builds, Destroys, Presents, InFlight,
       GpuIdle, Whole, Continues, Fitting, Waits, WaitsAreOnce

(* A device made with the network behaves as the in-layer network does, and one
   made without does not move. *)
THEOREM RunsTheNetwork == DeviceSpec => Spec
<1>1. DeviceInit => Init
  BY DEF DeviceInit
<1>2. [DeviceNext]_<<vars, request>> => [Next]_vars
  BY DEF DeviceNext, CreateDevice
<1> QED
  BY <1>1, <1>2, PTL DEF DeviceSpec, Spec

(* The in-layer network's invariant: whatever the game's threads, the builder
   and the GPU do in whatever order, and the device is lost. *)
THEOREM Invariance == Spec => []IInv
<1>1. IInv /\ [Next]_vars => IInv'
  <2> SUFFICES ASSUME IInv, [Next]_vars PROVE IInv'
    OBVIOUS
  <2>1. CASE Run \/ Lose
    BY <2>1, RunKeeps, LoseKeeps
  <2>2. CASE Builder
    BY <2>2, BuildStartKeeps, BuilderLockKeeps, BuilderEnterKeeps, BuilderSubmittedKeeps,
       BuildFinishKeeps, BuildClearKeeps DEF Builder
  <2>3. CASE PresentBegin
    BY <2>3, PresentBeginKeeps
  <2>4. CASE Present
    BY <2>4, SkipKeeps, EnterKeeps, CollectKeeps, RemoteKeeps, TakeOverKeeps, PrepareKeeps,
       RecordKeeps, SubmitKeeps, SalvageKeeps, SalvageWaitKeeps, ShowKeeps DEF Present
  <2>5. CASE GameCall \/ Destroy
    BY <2>5, GameCallKeeps, DestroyKeeps
  <2>6. CASE GameWork
    BY <2>6, GameReturnKeeps, DestroyWaitKeeps, DestroyWaitedKeeps, DestroySwapchainKeeps,
       CloseKeeps DEF GameWork
  <2>7. CASE UNCHANGED vars
    BY <2>7, StutterKeeps
  <2> QED
    BY <2>1, <2>2, <2>3, <2>4, <2>5, <2>6, <2>7 DEF Next, Ended
<1> QED
  BY <1>1, InitKeeps, PTL DEF Spec

LEMMA DeviceInvariance == DeviceSpec => []IInv
BY RunsTheNetwork, Invariance, PTL

(* The types of the in-layer network's state. *)
THEOREM Types == DeviceSpec => []TypeOK
<1>1. IInv => TypeOK
  BY DEF IInv
<1> QED
  BY <1>1, DeviceInvariance, PTL

(* Nothing that the GPU still uses is freed: a build, a close or a swapchain's
   destruction waits for whatever frame might be running (ProcessInLayer,
   Hook_DestroySwapchainKHR, dlsslop_network_prepare). *)
THEOREM NothingFreed == DeviceSpec => []NothingFreedInUse
<1>1. IInv => NothingFreedInUse
  BY DEF IInv, InFlight, Destroys, NothingFreedInUse
<1> QED
  BY <1>1, DeviceInvariance, PTL

(* Whatever precision the frames have and whatever was built before, a frame is
   recorded into images of its own shape, each laid out as its commands expect
   (dlsslop_network_record). *)
THEOREM RecordsIntoItsShape == DeviceSpec => []RecordsWhatIsBuilt
<1>1. IInv => RecordsWhatIsBuilt
  <2> SUFFICES ASSUME IInv, ppc \in {"record", "submit"}
               PROVE  /\ Serves(recorder, prepared) /\ LaidOut(prepared)
                      /\ bpc = "none" /\ prepared = frame
    BY DEF RecordsWhatIsBuilt
  <2>1. Serves(recorder, prepared) /\ prepared = frame /\ bpc = "none"
    BY DEF IInv, Builds, Whole
  <2>2. prepared.fp16 \in BOOLEAN
    BY DEF IInv, Whole, VulkanFrame
  <2> QED
    BY <2>1, <2>2, Laid
<1> QED
  BY <1>1, DeviceInvariance, PTL

(* The history a frame continues is that of a frame of its own runtime and
   settings, however frames, failures and builds follow each other. *)
THEOREM HistoryFollows == DeviceSpec => []HistoryFits
<1>1. IInv => HistoryFits
  BY DEF IInv, Presents, Continues, Fitting, HistoryFits
<1> QED
  BY <1>1, DeviceInvariance, PTL

(* A present waits on its semaphores exactly once (Hook_QueuePresentKHR). *)
THEOREM WaitsOnce == DeviceSpec => []WaitsAreOnce
<1>1. IInv => WaitsAreOnce
  BY DEF IInv, Waits
<1> QED
  BY <1>1, DeviceInvariance, PTL

(* The builder's submits are alone on their queue: no other submit, and no wait
   for the device, overlaps one (DlsslopNetworkDevice). *)
THEOREM BuilderSubmitsAlone == DeviceSpec => []BuildSubmitsAlone
<1>1. IInv => BuildSubmitsAlone
  <2> SUFFICES ASSUME IInv, Submitting("builder")
               PROVE  /\ ~Submitting("present") /\ ~Submitting("game")
                      /\ gpc \notin {"waiting", "destroyWait"}
    BY DEF BuildSubmitsAlone
  <2>1. bpc = "submitting" /\ (Submitting("present") => ppc \in {"submit", "salvage"})
        /\ (Submitting("game") => gpc = "submitting")
    BY DEF Submitting
  <2> QED
    BY <2>1 DEF IInv, LocksHeld
<1> QED
  BY <1>1, DeviceInvariance, PTL

(* Whoever waits for the builder holds nothing that the builder needs
   (dlsslop_network_close, dlsslop_network_prepare). *)
THEOREM BuilderIsFree == DeviceSpec => []BuilderCanFinish
<1>1. IInv => BuilderCanFinish
  BY DEF IInv, TypeOK, NetworkOK, BuilderPCs, LocksHeld, Builds, BuilderCanFinish
<1> QED
  BY <1>1, DeviceInvariance, PTL

-----------------------------------------------------------------------------
(* A device's request: for chains of any length.                             *)

(* No structure twice. *)
Unique(chain) == \A i, j \in DOMAIN chain : i # j => chain[i].type # chain[j].type

LEMMA Features ==
  /\ \A f \in NetworkFeatures :
       /\ f.type \in NetworkFeatureChain /\ f.type # "features2"
       /\ f.core \notin NetworkFeatureChain
       /\ f.name # Formatless
  /\ \A e, f \in NetworkFeatures : e.type = f.type => e.core = f.core
<1>1. \A f \in NetworkFeatures :
       /\ f.type \in NetworkFeatureChain /\ f.type # "features2"
       /\ f.name # Formatless
  BY DEF NetworkFeatures, Feature, NetworkFeatureChain, Formatless
<1>2. \A f \in NetworkFeatures :
       \/ f.type \in {"matrix", "float8", "layout"} /\ f.core = NoCore
       \/ f.type = "storage16" /\ f.core = "core11"
       \/ f.type \in {"storage8", "float16int8", "memoryModel"} /\ f.core = "core12"
       \/ f.type \in {"subgroupSize", "sync2"} /\ f.core = "core13"
  BY DEF NetworkFeatures, Feature
<1> QED
  BY <1>1, <1>2 DEF NetworkFeatureChain, NoCore

(* Structures a game or the layer may chain. *)
Linkable == [type : STRING \cup NetworkFeatureChain,
             bits : SUBSET (STRING \cup Names(NetworkFeatures) \cup {Formatless})]

(* Requests with the layer's extensions too. *)
Asking == [chain : Seq(Structure), legacy : 0 .. NoLegacy,
           extensions : SUBSET (STRING \cup NetworkExtensions)]

LEMMA Finding ==
  ASSUME NEW chain \in Seq(Linkable), Unique(chain), NEW type
  PROVE  /\ \/ FindStructure(chain, type) \in DOMAIN chain /\ chain[FindStructure(chain, type)].type = type
            \/ FindStructure(chain, type) = 0 /\ \A i \in DOMAIN chain : chain[i].type # type
         /\ \A i \in DOMAIN chain : chain[i].type = type => FindStructure(chain, type) = i
<1>1. ASSUME NEW i \in DOMAIN chain, chain[i].type = type PROVE IsFirst(chain, type, i)
  BY <1>1 DEF IsFirst, Unique
<1>2. \A i \in DOMAIN chain : IsFirst(chain, type, i) => chain[i].type = type
  BY DEF IsFirst
<1>3. CASE \E i \in DOMAIN chain : IsFirst(chain, type, i)
  <2>1. FindStructure(chain, type) \in DOMAIN chain /\ IsFirst(chain, type, FindStructure(chain, type))
    BY <1>3 DEF FindStructure
  <2>2. \A i \in DOMAIN chain : chain[i].type = type => FindStructure(chain, type) = i
    BY <1>2, <2>1 DEF Unique
  <2> QED
    BY <1>2, <2>1, <2>2
<1>4. CASE ~\E i \in DOMAIN chain : IsFirst(chain, type, i)
  BY <1>1, <1>4 DEF FindStructure
<1> QED
  BY <1>3, <1>4

(* A chain with the layer's structures of the types, N in all, ahead of the
   game's. *)
ChainedBy(n, r, allowed, types, chain) ==
  /\ chain \in Seq(Linkable) /\ Len(chain) = n + Len(r.chain)
  /\ \A i \in 1 .. Len(r.chain) : chain[n + i] = Changed(r, allowed)[i]
  /\ \A j \in 1 .. n : /\ chain[j].type \in types /\ OwnBits(r, allowed, chain[j].type) # {}
                       /\ chain[j].bits = OwnBits(r, allowed, chain[j].type)
  /\ \A i, j \in 1 .. n : i # j => chain[i].type # chain[j].type
  /\ \A t \in types : OwnBits(r, allowed, t) # {} => \E j \in 1 .. n : chain[j].type = t
Chained(r, allowed, types, chain) == \E n \in Nat : ChainedBy(n, r, allowed, types, chain)

LEMMA OwnBitsType ==
  ASSUME NEW r, NEW allowed, NEW t PROVE OwnBits(r, allowed, t) \in SUBSET Names(NetworkFeatures)
BY DEF OwnBits, Names, Missing

LEMMA InFront ==
  ASSUME NEW S, NEW e \in S, NEW s \in Seq(S)
  PROVE  /\ <<e>> \o s \in Seq(S) /\ Len(<<e>> \o s) = Len(s) + 1 /\ (<<e>> \o s)[1] = e
         /\ \A j \in 1 .. Len(s) : (<<e>> \o s)[j + 1] = s[j]
<1>1. <<e>> \in Seq(S) /\ Len(<<e>>) = 1 /\ <<e>>[1] = e
  OBVIOUS
<1>2. <<e>> \o s \in Seq(S) /\ Len(<<e>> \o s) = Len(s) + 1
  BY <1>1
<1>3. (<<e>> \o s)[1] = e
  BY <1>1
<1>4. \A j \in 1 .. Len(s) : (<<e>> \o s)[j + 1] = s[j]
  BY <1>1
<1> QED
  BY <1>2, <1>3, <1>4

LEMMA Linking ==
  ASSUME NEW r \in Asking, NEW allowed, NEW types, NEW t \in NetworkFeatureChain \ types, NEW chain,
         Chained(r, allowed, types, chain)
  PROVE  Chained(r, allowed, types \cup {t}, Own(r, allowed, t, chain))
<1> PICK n \in Nat : ChainedBy(n, r, allowed, types, chain)
  BY DEF Chained
<1>1. CASE OwnBits(r, allowed, t) = {}
  <2>1. Own(r, allowed, t, chain) = chain
    BY <1>1 DEF Own
  <2>2. ChainedBy(n, r, allowed, types \cup {t}, chain)
    BY <1>1 DEF ChainedBy
  <2> QED
    BY <2>1, <2>2 DEF Chained
<1>2. CASE OwnBits(r, allowed, t) # {}
  <2> DEFINE own == [type |-> t, bits |-> OwnBits(r, allowed, t)]
             linked == <<own>> \o chain
  <2>1. own \in Linkable /\ own.type = t /\ own.bits = OwnBits(r, allowed, t)
    BY OwnBitsType DEF Linkable
  <2>2. Own(r, allowed, t, chain) = linked
    BY <1>2 DEF Own
  <2> HIDE DEF own
  <2>3. chain \in Seq(Linkable) /\ Len(chain) = n + Len(r.chain) /\ Len(r.chain) \in Nat
    BY DEF ChainedBy, Asking
  <2>4. /\ linked \in Seq(Linkable) /\ Len(linked) = n + 1 + Len(r.chain) /\ linked[1] = own
        /\ \A j \in 1 .. n + Len(r.chain) : linked[j + 1] = chain[j]
    <3>1. /\ linked \in Seq(Linkable) /\ Len(linked) = Len(chain) + 1 /\ linked[1] = own
          /\ \A j \in 1 .. Len(chain) : linked[j + 1] = chain[j]
      BY <2>1, <2>3, InFront
    <3> HIDE DEF linked
    <3>2. Len(linked) = n + 1 + Len(r.chain)
      <4>1. Len(linked) = Len(chain) + 1 /\ Len(chain) = n + Len(r.chain) /\ Len(r.chain) \in Nat
        BY <2>3, <3>1
      <4>2. \A a, b \in Nat : (a + b) + 1 = a + 1 + b
        OBVIOUS
      <4>3. (n + Len(r.chain)) + 1 = n + 1 + Len(r.chain)
        BY <4>1, <4>2, Zenon
      <4> QED
        BY <4>1, <4>3, Zenon
    <3>3. 1 .. n + Len(r.chain) = 1 .. Len(chain)
      BY <2>3
    <3> QED
      BY <3>1, <3>2, <3>3
  <2> HIDE DEF linked
  <2>5. \A j \in 1 .. n + 1 : j = 1 \/ (j - 1 \in 1 .. n /\ linked[j] = chain[j - 1])
    <3> SUFFICES ASSUME NEW j \in 1 .. n + 1, j # 1 PROVE j - 1 \in 1 .. n /\ linked[j] = chain[j - 1]
      OBVIOUS
    <3>1. j - 1 \in 1 .. n /\ j - 1 \in 1 .. n + Len(r.chain) /\ (j - 1) + 1 = j
      BY <2>3
    <3> QED
      BY <2>4, <3>1
  <2>6. \A i \in 1 .. Len(r.chain) : linked[n + 1 + i] = Changed(r, allowed)[i]
    <3> SUFFICES ASSUME NEW i \in 1 .. Len(r.chain) PROVE linked[n + 1 + i] = Changed(r, allowed)[i]
      OBVIOUS
    <3>1. n + i \in 1 .. n + Len(r.chain) /\ n + 1 + i = (n + i) + 1
      BY <2>3
    <3> QED
      BY <2>4, <3>1 DEF ChainedBy
  <2>7. \A j \in 1 .. n + 1 : /\ linked[j].type \in types \cup {t} /\ OwnBits(r, allowed, linked[j].type) # {}
                              /\ linked[j].bits = OwnBits(r, allowed, linked[j].type)
    <3> SUFFICES ASSUME NEW j \in 1 .. n + 1
                 PROVE  /\ linked[j].type \in types \cup {t} /\ OwnBits(r, allowed, linked[j].type) # {}
                        /\ linked[j].bits = OwnBits(r, allowed, linked[j].type)
      OBVIOUS
    <3>1. CASE j = 1
      BY <1>2, <2>1, <2>4, <3>1
    <3>2. CASE j # 1
      <4>1. j - 1 \in 1 .. n /\ linked[j] = chain[j - 1]
        BY <2>5, <3>2
      <4> QED
        BY <4>1 DEF ChainedBy
    <3> QED
      BY <3>1, <3>2
  <2>8. \A i, j \in 1 .. n + 1 : i # j => linked[i].type # linked[j].type
    <3>1. ASSUME NEW j \in 1 .. n + 1, j # 1 PROVE linked[j].type # t
      <4>1. j - 1 \in 1 .. n /\ linked[j] = chain[j - 1]
        BY <2>5, <3>1
      <4> QED
        BY <4>1 DEF ChainedBy
    <3>2. ASSUME NEW i \in 1 .. n + 1, NEW j \in 1 .. n + 1, i # j, i # 1, j # 1
          PROVE  linked[i].type # linked[j].type
      <4>1. i - 1 \in 1 .. n /\ j - 1 \in 1 .. n /\ i - 1 # j - 1
        BY <3>2, <2>5
      <4>2. linked[i] = chain[i - 1] /\ linked[j] = chain[j - 1]
        BY <2>5, <3>2
      <4>3. \A k, l \in 1 .. n : k # l => chain[k].type # chain[l].type
        BY DEF ChainedBy
      <4>4. chain[i - 1].type # chain[j - 1].type
        BY <4>1, <4>3, Zenon
      <4> QED
        BY <4>2, <4>4, Zenon
    <3> QED
      BY <2>1, <2>4, <3>1, <3>2
  <2>9. \A u \in types \cup {t} : OwnBits(r, allowed, u) # {} => \E j \in 1 .. n + 1 : linked[j].type = u
    <3>1. 1 \in 1 .. n + 1 /\ linked[1].type = t
      BY <2>1, <2>4
    <3>2. ASSUME NEW j \in 1 .. n PROVE j + 1 \in 1 .. n + 1 /\ linked[j + 1] = chain[j]
      <4>1. j \in 1 .. n + Len(r.chain) /\ j + 1 \in 1 .. n + 1
        BY <2>3
      <4> QED
        BY <2>4, <4>1
    <3>3. ASSUME NEW u \in types, OwnBits(r, allowed, u) # {}
          PROVE  \E j \in 1 .. n + 1 : linked[j].type = u
      <4>1. PICK j \in 1 .. n : chain[j].type = u
        BY <3>3 DEF ChainedBy
      <4> QED
        BY <3>2, <4>1
    <3> QED
      BY <3>1, <3>3
  <2>10. ChainedBy(n + 1, r, allowed, types \cup {t}, linked)
    BY <2>4, <2>6, <2>7, <2>8, <2>9 DEF ChainedBy
  <2>11. n + 1 \in Nat
    OBVIOUS
  <2> QED
    BY <2>2, <2>10, <2>11 DEF Chained
<1> QED
  BY <1>1, <1>2

(* The bits the layer sets in a structure of the game's. *)
SetBits(r, allowed, i) == {c[2] : c \in {d \in Needed(r, allowed) : d[1] = i}}

LEMMA ChangedType ==
  ASSUME NEW r \in Asking, NEW allowed
  PROVE  /\ Changed(r, allowed) \in Seq(Linkable) /\ Len(Changed(r, allowed)) = Len(r.chain)
         /\ \A i \in 1 .. Len(r.chain) :
              /\ Changed(r, allowed)[i].type = r.chain[i].type
              /\ Changed(r, allowed)[i].bits = r.chain[i].bits \cup SetBits(r, allowed, i)
         /\ \A i : SetBits(r, allowed, i) \subseteq Names(NetworkFeatures) \cup {Formatless}
<1>1. r.chain \in Seq(Structure) /\ DOMAIN r.chain = 1 .. Len(r.chain) /\ Len(r.chain) \in Nat
  BY DEF Asking
<1>2. \A c \in Needed(r, allowed) : c[2] \in Names(NetworkFeatures) \cup {Formatless}
  BY DEF Needed, Changes, Names
<1>3. \A i : SetBits(r, allowed, i) \subseteq Names(NetworkFeatures) \cup {Formatless}
  BY <1>2 DEF SetBits
<1>4. Changed(r, allowed) =
        [i \in 1 .. Len(r.chain) |-> [r.chain[i] EXCEPT !.bits = @ \cup SetBits(r, allowed, i)]]
  BY <1>1 DEF Changed, SetBits
<1>5. ASSUME NEW i \in 1 .. Len(r.chain)
      PROVE  /\ Changed(r, allowed)[i] \in Linkable
             /\ Changed(r, allowed)[i].type = r.chain[i].type
             /\ Changed(r, allowed)[i].bits = r.chain[i].bits \cup SetBits(r, allowed, i)
  <2>1. r.chain[i] \in Structure
    BY <1>1, <1>5
  <2>2. Changed(r, allowed)[i] = [r.chain[i] EXCEPT !.bits = @ \cup SetBits(r, allowed, i)]
    BY <1>4, <1>5
  <2> QED
    BY <1>3, <2>1, <2>2 DEF Structure, Linkable
<1>6. Changed(r, allowed) \in Seq(Linkable) /\ Len(Changed(r, allowed)) = Len(r.chain)
  <2>1. Changed(r, allowed) \in [1 .. Len(r.chain) -> Linkable]
    BY <1>4, <1>5
  <2> QED
    BY <1>1, <2>1
<1> QED
  BY <1>3, <1>5, <1>6

LEMMA EnabledIs ==
  ASSUME NEW r \in Asking, NEW allowed
  PROVE  /\ Chained(r, allowed, NetworkFeatureChain, Enabled(r, allowed).chain)
         /\ Enabled(r, allowed).extensions = r.extensions
         /\ Enabled(r, allowed).legacy =
              IF FindStructure(r.chain, "features2") = 0 /\ ~HasFormatlessStorageWrites(r) THEN 1 ELSE r.legacy
<1> DEFINE layout == Own(r, allowed, "layout", Changed(r, allowed))
           sync2 == Own(r, allowed, "sync2", layout)
           subgroupSize == Own(r, allowed, "subgroupSize", sync2)
           memoryModel == Own(r, allowed, "memoryModel", subgroupSize)
           float16int8 == Own(r, allowed, "float16int8", memoryModel)
           storage8 == Own(r, allowed, "storage8", float16int8)
           storage16 == Own(r, allowed, "storage16", storage8)
           float8 == Own(r, allowed, "float8", storage16)
           matrix == Own(r, allowed, "matrix", float8)
<1>1. Enabled(r, allowed) =
        [r EXCEPT !.chain = matrix,
                  !.legacy = IF FindStructure(r.chain, "features2") = 0 /\ ~HasFormatlessStorageWrites(r)
                             THEN 1 ELSE @]
  BY DEF Enabled
<1>2. ChainedBy(0, r, allowed, {}, Changed(r, allowed))
  BY ChangedType DEF ChainedBy, Asking
<1>3. Chained(r, allowed, {}, Changed(r, allowed))
  BY <1>2 DEF Chained
<1>4. \A t \in {"layout", "sync2", "subgroupSize", "memoryModel", "float16int8", "storage8",
                "storage16", "float8", "matrix"} : t \in NetworkFeatureChain
  BY DEF NetworkFeatureChain
<1>5. Chained(r, allowed, {} \cup {"layout"}, layout)
  BY <1>3, <1>4, Linking
<1> HIDE DEF layout
<1>6. Chained(r, allowed, {"layout"} \cup {"sync2"}, sync2)
  BY <1>5, <1>4, Linking
<1> HIDE DEF sync2
<1>7. Chained(r, allowed, {"layout", "sync2"} \cup {"subgroupSize"}, subgroupSize)
  BY <1>6, <1>4, Linking
<1> HIDE DEF subgroupSize
<1>8. Chained(r, allowed, {"layout", "sync2", "subgroupSize"} \cup {"memoryModel"}, memoryModel)
  BY <1>7, <1>4, Linking
<1> HIDE DEF memoryModel
<1>9. Chained(r, allowed, {"layout", "sync2", "subgroupSize", "memoryModel"}
                          \cup {"float16int8"}, float16int8)
  BY <1>8, <1>4, Linking
<1> HIDE DEF float16int8
<1>10. Chained(r, allowed, {"layout", "sync2", "subgroupSize", "memoryModel", "float16int8"}
                          \cup {"storage8"}, storage8)
  BY <1>9, <1>4, Linking
<1> HIDE DEF storage8
<1>11. Chained(r, allowed, {"layout", "sync2", "subgroupSize", "memoryModel", "float16int8", "storage8"}
                          \cup {"storage16"}, storage16)
  BY <1>10, <1>4, Linking
<1> HIDE DEF storage16
<1>12. Chained(r, allowed, {"layout", "sync2", "subgroupSize", "memoryModel", "float16int8",
                             "storage8", "storage16"}
                          \cup {"float8"}, float8)
  BY <1>11, <1>4, Linking
<1> HIDE DEF float8
<1>13. Chained(r, allowed, {"layout", "sync2", "subgroupSize", "memoryModel", "float16int8",
                             "storage8", "storage16", "float8"}
                          \cup {"matrix"}, matrix)
  BY <1>12, <1>4, Linking
<1> HIDE DEF matrix
<1>14. {"layout", "sync2", "subgroupSize", "memoryModel", "float16int8", "storage8", "storage16", "float8"}
       \cup {"matrix"} = NetworkFeatureChain
  BY DEF NetworkFeatureChain
<1> QED
  BY <1>1, <1>13, <1>14 DEF Asking

(* Every structure is the layer's or the game's. *)
LEMMA Places ==
  ASSUME NEW n \in Nat, NEW m \in Nat, NEW k \in 1 .. n + m
  PROVE  k \in 1 .. n \/ \E i \in 1 .. m : k = n + i
<1>1. CASE k <= n
  BY <1>1
<1>2. CASE k > n
  <2>1. k - n \in 1 .. m /\ k = n + (k - n)
    BY <1>2
  <2> QED
    BY <2>1
<1> QED
  BY <1>1, <1>2

LEMMA ChainType ==
  ASSUME NEW r \in Asking
  PROVE  r.chain \in Seq(Linkable) /\ DOMAIN r.chain = 1 .. Len(r.chain) /\ Len(r.chain) \in Nat
<1>1. r.chain \in Seq(Structure)
  BY DEF Asking
<1>2. \A s \in Structure : s \in Linkable
  BY DEF Structure, Linkable
<1>3. r.chain \in [1 .. Len(r.chain) -> Linkable] /\ Len(r.chain) \in Nat
  BY <1>1, <1>2
<1> QED
  BY <1>3

(* A structure of the layer's own conflicts with none of the game's. *)
LEMMA Apart ==
  ASSUME NEW r \in Asking, Unique(r.chain), NEW allowed, NEW t, OwnBits(r, allowed, t) # {},
         NEW i \in 1 .. Len(r.chain)
  PROVE  ~Conflict(t, r.chain[i].type) /\ ~Conflict(r.chain[i].type, t)
<1>1. PICK f \in NetworkFeatures : f \in Missing(r, allowed) /\ f.type = t
  BY DEF OwnBits, Names, Missing
<1>2. r.chain \in Seq(Linkable) /\ DOMAIN r.chain = 1 .. Len(r.chain)
  BY ChainType
<1>3. FindStructure(r.chain, f.type) = 0 /\ FindStructure(r.chain, f.core) = 0
  BY <1>1 DEF Missing, NetworkFeatureIn
<1>4. r.chain[i].type # f.type /\ r.chain[i].type # f.core
  <2>1. i # 0
    OBVIOUS
  <2> QED
    BY <1>2, <1>3, <2>1, Finding
<1> QED
  BY <1>1, <1>4, Features DEF Conflict

(* Where the structure of a type is: the game's, the layer's or none. *)
Lies(n, r, allowed, chain, t) ==
  \/ /\ FindStructure(r.chain, t) # 0
     /\ FindStructure(chain, t) = n + FindStructure(r.chain, t)
  \/ OwnBits(r, allowed, t) # {} /\ FindStructure(chain, t) \in 1 .. n
  \/ /\ OwnBits(r, allowed, t) = {}
     /\ FindStructure(chain, t) = 0 /\ FindStructure(r.chain, t) = 0

LEMMA Found ==
  ASSUME NEW r \in Asking, Unique(r.chain), NEW allowed, NEW n \in Nat, NEW chain,
         ChainedBy(n, r, allowed, NetworkFeatureChain, chain)
  PROVE  /\ Unique(chain)
         /\ \A i \in 1 .. Len(r.chain) : FindStructure(chain, r.chain[i].type) = n + i
         /\ \A t : Lies(n, r, allowed, chain, t)
<1>1. /\ chain \in Seq(Linkable) /\ Len(chain) = n + Len(r.chain) /\ Len(r.chain) \in Nat
      /\ DOMAIN chain = 1 .. n + Len(r.chain) /\ DOMAIN r.chain = 1 .. Len(r.chain)
      /\ r.chain \in Seq(Linkable)
  BY ChainType DEF ChainedBy
<1>2. ASSUME NEW i \in 1 .. Len(r.chain)
      PROVE  n + i \in DOMAIN chain /\ n + i \notin 1 .. n /\ chain[n + i].type = r.chain[i].type
  <2>1. n + i \in DOMAIN chain /\ n + i \notin 1 .. n
    BY <1>1
  <2>2. chain[n + i] = Changed(r, allowed)[i]
    BY DEF ChainedBy
  <2> QED
    BY <2>1, <2>2, ChangedType
<1>3. ASSUME NEW j \in 1 .. n
      PROVE  /\ j \in DOMAIN chain /\ OwnBits(r, allowed, chain[j].type) # {}
             /\ \A i \in 1 .. Len(r.chain) : r.chain[i].type # chain[j].type
  <2>1. j \in DOMAIN chain /\ OwnBits(r, allowed, chain[j].type) # {}
    BY <1>1 DEF ChainedBy
  <2> QED
    BY <2>1, Apart DEF Conflict
<1>4. Unique(chain)
  <2> SUFFICES ASSUME NEW j \in DOMAIN chain, NEW k \in DOMAIN chain, j # k
               PROVE  chain[j].type # chain[k].type
    BY DEF Unique
  <2> j \in 1 .. n + Len(r.chain) /\ k \in 1 .. n + Len(r.chain)
    BY <1>1
  <2>1. j \in 1 .. n \/ \E i \in 1 .. Len(r.chain) : j = n + i
    BY <1>1, Places
  <2>2. k \in 1 .. n \/ \E i \in 1 .. Len(r.chain) : k = n + i
    BY <1>1, Places
  <2>3. CASE j \in 1 .. n /\ k \in 1 .. n
    BY <2>3 DEF ChainedBy
  <2>4. ASSUME NEW a \in 1 .. n, NEW i \in 1 .. Len(r.chain) PROVE chain[a].type # chain[n + i].type
    BY <1>2, <1>3
  <2>5. ASSUME NEW a \in 1 .. Len(r.chain), NEW i \in 1 .. Len(r.chain), a # i
        PROVE  chain[n + a].type # chain[n + i].type
    <3>1. r.chain[a].type # r.chain[i].type
      BY <1>1, <2>5 DEF Unique
    <3> QED
      BY <1>2, <3>1
  <2> QED
    BY <2>1, <2>2, <2>3, <2>4, <2>5
<1>5. \A i \in 1 .. Len(r.chain) : FindStructure(chain, r.chain[i].type) = n + i
  BY <1>1, <1>2, <1>4, Finding
<1>6. ASSUME NEW t PROVE Lies(n, r, allowed, chain, t)
  <2>1. CASE \E i \in 1 .. Len(r.chain) : r.chain[i].type = t
    <3>1. PICK i \in 1 .. Len(r.chain) : r.chain[i].type = t
      BY <2>1
    <3>2. FindStructure(r.chain, t) = i /\ i # 0
      BY <1>1, <3>1, Finding
    <3> QED
      BY <1>5, <3>1, <3>2 DEF Lies
  <2>2. CASE ~\E i \in 1 .. Len(r.chain) : r.chain[i].type = t
    <3>1. FindStructure(r.chain, t) = 0
      BY <1>1, <2>2, Finding
    <3>2. CASE OwnBits(r, allowed, t) # {}
      <4>1. t \in NetworkFeatureChain
        BY <3>2, Features DEF OwnBits, Names, Missing
      <4>2. PICK j \in 1 .. n : chain[j].type = t
        BY <3>2, <4>1 DEF ChainedBy
      <4>3. FindStructure(chain, t) = j
        BY <1>1, <1>3, <1>4, <4>2, Finding
      <4> QED
        BY <3>2, <4>3 DEF Lies
    <3>3. CASE OwnBits(r, allowed, t) = {}
      <4>1. \A k \in DOMAIN chain : chain[k].type # t
        <5> SUFFICES ASSUME NEW k \in 1 .. n + Len(r.chain) PROVE chain[k].type # t
          BY <1>1
        <5>1. k \in 1 .. n \/ \E i \in 1 .. Len(r.chain) : k = n + i
          BY <1>1, Places
        <5> QED
          BY <1>2, <1>3, <2>2, <3>3, <5>1
      <4>2. FindStructure(chain, t) = 0
        BY <1>1, <1>4, <4>1, Finding
      <4> QED
        BY <3>1, <3>3, <4>2 DEF Lies
    <3> QED
      BY <3>2, <3>3
  <2> QED
    BY <2>1, <2>2
<1> QED
  BY <1>4, <1>5, <1>6

(* What Enable() was to set is set, and without the network nothing else is. *)
LEMMA Setting ==
  ASSUME NEW r \in Asking, NEW allowed \in BOOLEAN
  PROVE  /\ allowed => \A f \in NetworkFeatures :
              LET i == NetworkFeatureIn(r.chain, f)
              IN i # 0 => f.name \in r.chain[i].bits \cup SetBits(r, allowed, i)
         /\ LET i == FindStructure(r.chain, "features2")
            IN i # 0 => Formatless \in r.chain[i].bits \cup SetBits(r, allowed, i)
         /\ ~allowed => \A i : SetBits(r, allowed, i) \subseteq {Formatless} /\ OwnBits(r, allowed, i) = {}
<1>1. ASSUME NEW i, NEW bit, <<i, bit>> \in Changes(r, allowed), i # 0
      PROVE  bit \in r.chain[i].bits \cup SetBits(r, allowed, i)
  <2>1. CASE bit \in r.chain[i].bits
    BY <2>1
  <2>2. CASE bit \notin r.chain[i].bits
    <3>1. <<i, bit>> \in Needed(r, allowed)
      BY <1>1, <2>2 DEF Needed
    <3>2. bit \in SetBits(r, allowed, i)
      BY <3>1 DEF SetBits
    <3> QED
      BY <3>2
  <2> QED
    BY <2>1, <2>2
<1>2. ASSUME allowed, NEW f \in NetworkFeatures
      PROVE  <<NetworkFeatureIn(r.chain, f), f.name>> \in Changes(r, allowed)
  BY <1>2 DEF Changes
<1>3. LET i == FindStructure(r.chain, "features2")
      IN i # 0 => Formatless \in r.chain[i].bits \cup SetBits(r, allowed, i)
  <2> DEFINE i == FindStructure(r.chain, "features2")
  <2>1. CASE i # 0 /\ ~HasFormatlessStorageWrites(r)
    <3>1. <<i, Formatless>> \in Changes(r, allowed)
      BY <2>1 DEF Changes
    <3> QED
      BY <1>1, <2>1, <3>1
  <2>2. CASE i # 0 /\ HasFormatlessStorageWrites(r)
    BY <2>2 DEF HasFormatlessStorageWrites
  <2> QED
    BY <2>1, <2>2
<1>4. ASSUME ~allowed, NEW i PROVE SetBits(r, allowed, i) \subseteq {Formatless} /\ OwnBits(r, allowed, i) = {}
  <2>1. \A c \in Needed(r, allowed) : c[2] = Formatless
    BY <1>4 DEF Needed, Changes
  <2> QED
    BY <1>4, <2>1 DEF SetBits, OwnBits, Names, Missing
<1> QED
  BY <1>1, <1>2, <1>3, <1>4

(* The structures of the layer's request, N of them its own. *)
Structures(n, r, allowed) ==
  /\ ChainedBy(n, r, allowed, NetworkFeatureChain, Enabled(r, allowed).chain)
  /\ Unique(Enabled(r, allowed).chain)
  /\ DOMAIN Enabled(r, allowed).chain = 1 .. n + Len(r.chain)
  /\ \A i \in 1 .. Len(r.chain) :
       /\ FindStructure(Enabled(r, allowed).chain, r.chain[i].type) = n + i
       /\ Enabled(r, allowed).chain[n + i].type = r.chain[i].type
       /\ Enabled(r, allowed).chain[n + i].bits = r.chain[i].bits \cup SetBits(r, allowed, i)
  /\ \A t :
       /\ FindStructure(r.chain, t) # 0 => FindStructure(r.chain, t) \in 1 .. Len(r.chain)
       /\ FindStructure(Enabled(r, allowed).chain, t) \in 1 .. n =>
            Enabled(r, allowed).chain[FindStructure(Enabled(r, allowed).chain, t)].bits
              = OwnBits(r, allowed, t)
       /\ Lies(n, r, allowed, Enabled(r, allowed).chain, t)

LEMMA Enabling ==
  ASSUME NEW r \in Asking, Unique(r.chain), NEW allowed
  PROVE  \E n \in Nat : Structures(n, r, allowed)
<1> DEFINE chain == Enabled(r, allowed).chain
<1>1. PICK n \in Nat : ChainedBy(n, r, allowed, NetworkFeatureChain, chain)
  BY EnabledIs DEF Chained
<1>2. chain \in Seq(Linkable) /\ DOMAIN chain = 1 .. n + Len(r.chain)
  BY <1>1 DEF ChainedBy
<1>3. r.chain \in Seq(Linkable) /\ DOMAIN r.chain = 1 .. Len(r.chain)
  BY ChainType
<1> HIDE DEF chain
<1>4. /\ Unique(chain)
      /\ \A i \in 1 .. Len(r.chain) : FindStructure(chain, r.chain[i].type) = n + i
      /\ \A t : Lies(n, r, allowed, chain, t)
  <2> USE <1>1
  <2>1. ChainedBy(n, r, allowed, NetworkFeatureChain, chain)
    BY DEF chain
  <2> QED
    BY <2>1, Found, Zenon
<1>5. ASSUME NEW i \in 1 .. Len(r.chain)
      PROVE  /\ chain[n + i].type = r.chain[i].type
             /\ chain[n + i].bits = r.chain[i].bits \cup SetBits(r, allowed, i)
  BY <1>1, ChangedType DEF ChainedBy
<1>6. ASSUME NEW t
      PROVE  /\ FindStructure(r.chain, t) # 0 => FindStructure(r.chain, t) \in 1 .. Len(r.chain)
             /\ FindStructure(chain, t) \in 1 .. n =>
                  chain[FindStructure(chain, t)].bits = OwnBits(r, allowed, t)
  <2>1. FindStructure(r.chain, t) = 0 \/ FindStructure(r.chain, t) \in 1 .. Len(r.chain)
    BY <1>3, Finding
  <2>2. FindStructure(chain, t) # 0 => chain[FindStructure(chain, t)].type = t
    BY <1>2, <1>4, Finding
  <2> QED
    BY <1>1, <2>1, <2>2 DEF ChainedBy
<1>7. Structures(n, r, allowed)
  BY <1>1, <1>2, <1>4, <1>5, <1>6 DEF Structures, chain
<1> QED
  BY <1>7

(* Vulkan takes the layer's request where it takes the game's. *)
LEMMA Taken ==
  ASSUME NEW physical, NEW r \in Asking, NEW allowed \in BOOLEAN, Accepts(physical, r),
         Formatless \in physical.features, allowed => Names(NetworkFeatures) \subseteq physical.features
  PROVE  Accepts(physical, Enabled(r, allowed))
<1> DEFINE e == Enabled(r, allowed)
<1>1. /\ Unique(r.chain) /\ DOMAIN r.chain = 1 .. Len(r.chain)
      /\ \A i, j \in 1 .. Len(r.chain) : i # j => ~Conflict(r.chain[i].type, r.chain[j].type)
  BY ChainType DEF Accepts, Unique, Conflict
<1>2. PICK n \in Nat : Structures(n, r, allowed)
  BY <1>1, Enabling
<1>3. e.extensions \subseteq physical.extensions
  BY EnabledIs DEF Accepts
<1>4. \A i \in 1 .. Len(r.chain) : SetBits(r, allowed, i) \subseteq physical.features
  <2>1. CASE allowed
    <3>1. Names(NetworkFeatures) \cup {Formatless} \subseteq physical.features
      BY <2>1
    <3>2. \A i : SetBits(r, allowed, i) \subseteq Names(NetworkFeatures) \cup {Formatless}
      BY ChangedType
    <3> QED
      BY <3>1, <3>2
  <2>2. CASE ~allowed
    BY <2>2, Setting
  <2> QED
    BY <2>1, <2>2
<1>5. \A t : OwnBits(r, allowed, t) \subseteq physical.features
  BY OwnBitsType, Setting
<1>6. /\ DOMAIN e.chain = 1 .. n + Len(r.chain)
      /\ \A i \in 1 .. Len(r.chain) : /\ e.chain[n + i].type = r.chain[i].type
                                      /\ e.chain[n + i].bits = r.chain[i].bits \cup SetBits(r, allowed, i)
      /\ \A j \in 1 .. n : /\ OwnBits(r, allowed, e.chain[j].type) # {}
                           /\ e.chain[j].bits = OwnBits(r, allowed, e.chain[j].type)
                           /\ e.chain[j].type \in NetworkFeatureChain
      /\ \A i, j \in 1 .. n : i # j => e.chain[i].type # e.chain[j].type
  BY <1>2 DEF Structures, ChainedBy
<1>7. ASSUME NEW k \in 1 .. n + Len(r.chain) PROVE k \in 1 .. n \/ \E i \in 1 .. Len(r.chain) : k = n + i
  BY ChainType, Places
<1> HIDE DEF e
<1>8. ASSUME NEW k \in DOMAIN e.chain PROVE e.chain[k].bits \subseteq physical.features
  <2>1. ASSUME NEW i \in 1 .. Len(r.chain) PROVE e.chain[n + i].bits \subseteq physical.features
    BY <1>1, <1>4, <1>6 DEF Accepts
  <2>2. ASSUME NEW j \in 1 .. n PROVE e.chain[j].bits \subseteq physical.features
    BY <1>5, <1>6
  <2> QED
    BY <1>6, <1>7, <2>1, <2>2
<1>9. ASSUME NEW k \in DOMAIN e.chain, NEW l \in DOMAIN e.chain, k # l
      PROVE  ~Conflict(e.chain[k].type, e.chain[l].type)
  <2>1. ASSUME NEW i \in 1 .. Len(r.chain), NEW j \in 1 .. n
        PROVE  /\ ~Conflict(e.chain[n + i].type, e.chain[j].type)
               /\ ~Conflict(e.chain[j].type, e.chain[n + i].type)
    <3>1. OwnBits(r, allowed, e.chain[j].type) # {}
      BY <1>6
    <3>2. /\ ~Conflict(e.chain[j].type, r.chain[i].type)
          /\ ~Conflict(r.chain[i].type, e.chain[j].type)
      BY <1>1, <3>1, Apart, Zenon
    <3> QED
      BY <1>6, <3>2
  <2>2. ASSUME NEW i \in 1 .. n, NEW j \in 1 .. n, i # j
        PROVE  ~Conflict(e.chain[i].type, e.chain[j].type)
    BY <1>6, <2>2, Features DEF Conflict
  <2>3. ASSUME NEW i \in 1 .. Len(r.chain), NEW j \in 1 .. Len(r.chain), i # j
        PROVE  ~Conflict(e.chain[n + i].type, e.chain[n + j].type)
    BY <1>1, <1>6, <2>3
  <2>4. k \in 1 .. n \/ \E i \in 1 .. Len(r.chain) : k = n + i
    BY <1>6, <1>7
  <2>5. l \in 1 .. n \/ \E i \in 1 .. Len(r.chain) : l = n + i
    BY <1>6, <1>7
  <2>6. CASE k \in 1 .. n
    BY <1>9, <2>1, <2>2, <2>5, <2>6, Zenon
  <2>7. CASE \E i \in 1 .. Len(r.chain) : k = n + i
    BY <1>9, <2>1, <2>3, <2>5, <2>7, Zenon
  <2> QED
    BY <2>4, <2>6, <2>7
<1>10. FindStructure(r.chain, "features2") = 0 => FindStructure(e.chain, "features2") = 0
  <2>1. OwnBits(r, allowed, "features2") = {}
    BY Features DEF OwnBits, Names, Missing
  <2> QED
    BY <1>2, <2>1 DEF Structures, Lies, e
<1>11. /\ e.legacy # NoLegacy => FindStructure(e.chain, "features2") = 0
       /\ e.legacy = 1 => Formatless \in physical.features
  <2>1. r.legacy # NoLegacy => FindStructure(r.chain, "features2") = 0
    BY DEF Accepts
  <2> QED
    BY <1>10, <2>1, EnabledIs DEF e
<1>12. Accepts(physical, e)
  BY <1>3, <1>8, <1>9, <1>11 DEF Accepts
<1> QED
  BY <1>12 DEF e

(* The game has in it what it asked for, in its order. *)
LEMMA Keeping ==
  ASSUME NEW r \in Asking, Unique(r.chain), NEW allowed PROVE GameKeeps(r, Enabled(r, allowed))
<1>1. PICK n \in Nat : Structures(n, r, allowed)
  BY Enabling
<1>2. DOMAIN r.chain = 1 .. Len(r.chain) /\ Len(r.chain) \in Nat
  BY ChainType
<1>3. ASSUME NEW i \in DOMAIN r.chain
      PROVE  LET j == FindStructure(Enabled(r, allowed).chain, r.chain[i].type)
             IN /\ j # 0 /\ r.chain[i].bits \subseteq Enabled(r, allowed).chain[j].bits
                /\ \A k \in 1 .. i - 1 : FindStructure(Enabled(r, allowed).chain, r.chain[k].type) < j
  <2>1. FindStructure(Enabled(r, allowed).chain, r.chain[i].type) = n + i /\ n + i # 0
    BY <1>1, <1>2 DEF Structures
  <2>2. r.chain[i].bits \subseteq Enabled(r, allowed).chain[n + i].bits
    BY <1>1, <1>2 DEF Structures
  <2>3. ASSUME NEW k \in 1 .. i - 1
        PROVE  FindStructure(Enabled(r, allowed).chain, r.chain[k].type) < n + i
    <3>1. k \in 1 .. Len(r.chain) /\ n + k < n + i
      BY <1>2
    <3> QED
      BY <1>1, <3>1 DEF Structures
  <2> QED
    BY <2>1, <2>2, <2>3
<1>4. r.legacy # NoLegacy => Enabled(r, allowed).legacy >= r.legacy
  BY EnabledIs DEF Asking, NoLegacy
<1> QED
  BY <1>3, <1>4, EnabledIs DEF GameKeeps

(* What is to be on is on. *)
LEMMA SwitchedOn ==
  ASSUME NEW r \in Asking, Unique(r.chain), NEW allowed \in BOOLEAN
  PROVE  /\ HasFormatlessStorageWrites(Enabled(r, allowed))
         /\ allowed /\ NetworkExtensions \subseteq r.extensions => NetworkEnabled(Enabled(r, allowed))
         /\ ~allowed /\ NetworkEnabled(Enabled(r, allowed)) => NetworkEnabled(r)
<1> DEFINE e == Enabled(r, allowed)
<1>1. PICK n \in Nat : Structures(n, r, allowed)
  BY Enabling
<1>2. /\ \A t : /\ FindStructure(r.chain, t) # 0 => FindStructure(r.chain, t) \in 1 .. Len(r.chain)
                /\ FindStructure(e.chain, t) \in 1 .. n =>
                     e.chain[FindStructure(e.chain, t)].bits = OwnBits(r, allowed, t)
                /\ Lies(n, r, allowed, e.chain, t)
      /\ \A i \in 1 .. Len(r.chain) : e.chain[n + i].bits = r.chain[i].bits \cup SetBits(r, allowed, i)
  BY <1>1 DEF Structures
<1>3. /\ e.extensions = r.extensions
      /\ e.legacy = IF FindStructure(r.chain, "features2") = 0 /\ ~HasFormatlessStorageWrites(r)
                    THEN 1 ELSE r.legacy
  BY EnabledIs
<1>4. Len(r.chain) \in Nat
  BY ChainType
<1> HIDE DEF e
<1>5. HasFormatlessStorageWrites(e)
  <2>1. OwnBits(r, allowed, "features2") = {}
    BY Features DEF OwnBits, Names, Missing
  <2>2. CASE FindStructure(r.chain, "features2") = 0
    BY <1>2, <1>3, <2>1, <2>2 DEF Lies, HasFormatlessStorageWrites
  <2>3. CASE FindStructure(r.chain, "features2") # 0
    <3> DEFINE i == FindStructure(r.chain, "features2")
    <3>1. i \in 1 .. Len(r.chain) /\ FindStructure(e.chain, "features2") = n + i
      BY <1>2, <2>1, <2>3 DEF Lies
    <3>2. Formatless \in e.chain[n + i].bits /\ n + i # 0
      BY <1>2, <2>3, <3>1, Setting
    <3> QED
      BY <3>1, <3>2 DEF HasFormatlessStorageWrites
  <2> QED
    BY <2>2, <2>3
<1>6. ASSUME allowed, NEW f \in NetworkFeatures
      PROVE  LET i == NetworkFeatureIn(e.chain, f) IN i # 0 /\ f.name \in e.chain[i].bits
  <2>1. CASE NetworkFeatureIn(r.chain, f) = 0
    <3>1. f \in Missing(r, allowed)
      BY <1>6, <2>1 DEF Missing
    <3>2. f.name \in OwnBits(r, allowed, f.type)
      BY <3>1 DEF OwnBits, Names
    <3>3. FindStructure(r.chain, f.type) = 0
      BY <2>1 DEF NetworkFeatureIn
    <3>4. FindStructure(e.chain, f.type) \in 1 .. n
      BY <1>2, <3>2, <3>3 DEF Lies
    <3>5. f.name \in e.chain[FindStructure(e.chain, f.type)].bits /\ FindStructure(e.chain, f.type) # 0
      BY <1>2, <3>2, <3>4
    <3> QED
      BY <3>5 DEF NetworkFeatureIn
  <2>2. CASE NetworkFeatureIn(r.chain, f) # 0
    <3> DEFINE i == NetworkFeatureIn(r.chain, f)
    <3>1. OwnBits(r, allowed, f.type) = {} /\ OwnBits(r, allowed, f.core) = {}
      <4>1. ASSUME NEW g \in Missing(r, allowed) PROVE g.type # f.type /\ g.type # f.core
        BY <2>2, Features DEF Missing, NetworkFeatureIn
      <4> QED
        BY <4>1 DEF OwnBits, Names
    <3>2. i \in 1 .. Len(r.chain) /\ NetworkFeatureIn(e.chain, f) = n + i
      BY <1>2, <1>4, <2>2, <3>1 DEF Lies, NetworkFeatureIn
    <3>3. f.name \in r.chain[i].bits \cup SetBits(r, allowed, i)
      BY <1>6, <2>2, Setting
    <3> QED
      BY <1>2, <3>2, <3>3
  <2> QED
    BY <2>1, <2>2
<1>7. ASSUME ~allowed, NetworkEnabled(e) PROVE NetworkEnabled(r)
  <2>1. NetworkExtensions \subseteq r.extensions
    BY <1>3, <1>7 DEF NetworkEnabled
  <2>2. ASSUME NEW f \in NetworkFeatures
        PROVE  LET i == NetworkFeatureIn(r.chain, f) IN i # 0 /\ f.name \in r.chain[i].bits
    <3> DEFINE i == NetworkFeatureIn(r.chain, f)
    <3>1. NetworkFeatureIn(e.chain, f) # 0 /\ f.name \in e.chain[NetworkFeatureIn(e.chain, f)].bits
      BY <1>7 DEF NetworkEnabled
    <3>2. OwnBits(r, allowed, f.type) = {} /\ OwnBits(r, allowed, f.core) = {}
      BY <1>7, Setting
    <3>3. i \in 1 .. Len(r.chain) /\ NetworkFeatureIn(e.chain, f) = n + i
      BY <1>2, <1>4, <3>1, <3>2 DEF Lies, NetworkFeatureIn
    <3>4. f.name \in r.chain[i].bits \cup SetBits(r, allowed, i)
      BY <1>2, <3>1, <3>3
    <3>5. f.name \notin SetBits(r, allowed, i)
      BY <1>7, Setting, Features
    <3> QED
      BY <3>3, <3>4, <3>5
  <2> QED
    BY <2>1, <2>2 DEF NetworkEnabled
<1>8. allowed /\ NetworkExtensions \subseteq r.extensions => NetworkEnabled(e)
  BY <1>3, <1>6 DEF NetworkEnabled
<1> QED
  BY <1>5, <1>7, <1>8 DEF e

(* For every request and every physical that takes it. *)
LEMMA Holds ==
  ASSUME NEW physical, NEW r \in Request, NEW wanted \in BOOLEAN, Accepts(physical, r)
  PROVE  RequestHolds(physical, r, wanted)
<1> DEFINE allowed == wanted /\ ~NetworkUnavailable(physical)
           modified == IF allowed THEN AddNetworkExtensions(r) ELSE r
           effective == Effective(physical, r, wanted)
           copyable == \A i \in DOMAIN r.chain : r.chain[i].type \in CopyNode
<1>1. r \in Asking /\ Unique(r.chain) /\ allowed \in BOOLEAN
  <2>1. r \in Asking
    BY DEF Request, Asking
  <2> QED
    BY <2>1, ChainType DEF Accepts, Unique, Conflict
<1>2. /\ modified \in Asking /\ modified.chain = r.chain /\ modified.legacy = r.legacy
      /\ r.extensions \subseteq modified.extensions
      /\ allowed => NetworkExtensions \subseteq modified.extensions
      /\ ~allowed => modified = r
  BY <1>1 DEF AddNetworkExtensions, Asking
<1>3. allowed => /\ NetworkExtensions \subseteq physical.extensions
                 /\ Names(NetworkFeatures) \subseteq physical.features
  BY DEF NetworkUnavailable, NetworkUnsupported
<1>4. modified.extensions \subseteq physical.extensions
  BY <1>3 DEF AddNetworkExtensions, Accepts, Request
<1>5. Accepts(physical, modified)
  BY <1>2, <1>4 DEF Accepts
<1>6. GameKeeps(r, modified)
  <2>1. \A i \in DOMAIN r.chain : FindStructure(r.chain, r.chain[i].type) = i
    BY <1>1, ChainType, Finding
  <2>2. DOMAIN r.chain = 1 .. Len(r.chain) /\ Len(r.chain) \in Nat /\ r.legacy \in 0 .. NoLegacy
    BY <1>1, ChainType DEF Asking
  <2>3. \A i \in DOMAIN r.chain : \A k \in 1 .. i - 1 : k \in DOMAIN r.chain /\ k < i
    BY <2>2
  <2>4. \A i \in DOMAIN r.chain : i # 0
    BY <2>2
  <2>5. r.legacy >= r.legacy
    BY <2>2 DEF NoLegacy
  <2> QED
    BY <1>2, <2>1, <2>3, <2>4, <2>5 DEF GameKeeps
<1>7. ASSUME NEW n \in BOOLEAN, n => allowed, Formatless \in physical.features
      PROVE  /\ Accepts(physical, Enabled(modified, n)) /\ GameKeeps(r, Enabled(modified, n))
             /\ HasFormatlessStorageWrites(Enabled(modified, n))
             /\ n => NetworkEnabled(Enabled(modified, n))
             /\ ~allowed /\ NetworkEnabled(Enabled(modified, n)) => NetworkEnabled(r)
  <2>1. Accepts(physical, Enabled(modified, n))
    BY <1>2, <1>3, <1>5, <1>7, Taken
  <2>2. GameKeeps(modified, Enabled(modified, n))
    BY <1>1, <1>2, Keeping
  <2>3. GameKeeps(r, Enabled(modified, n))
    BY <1>2, <2>2 DEF GameKeeps
  <2> QED
    BY <1>1, <1>2, <1>7, <2>1, <2>3, SwitchedOn
<1>8. copyable => CanEnable(modified, allowed)
  BY <1>2 DEF CanEnable
<1>9. \/ effective = modified /\ (Formatless \notin physical.features \/ ~CanEnable(modified, allowed))
      \/ Formatless \in physical.features /\ effective = Enabled(modified, allowed)
      \/ /\ allowed /\ ~CanEnable(modified, allowed)
         /\ Formatless \in physical.features /\ effective = Enabled(modified, FALSE)
  BY <1>1 DEF Effective
<1> DEFINE Fine == /\ Accepts(physical, effective) /\ GameKeeps(r, effective)
                   /\ copyable /\ Formatless \in physical.features =>
                        HasFormatlessStorageWrites(effective) /\ (allowed => NetworkEnabled(effective))
                   /\ NetworkEnabled(effective) => NetworkEnabled(r) \/ allowed
<1>10. Fine
  <2>1. CASE effective = modified /\ (Formatless \notin physical.features \/ ~CanEnable(modified, allowed))
    <3> HIDE DEF effective, allowed, modified, copyable
    <3> QED
      BY <1>2, <1>5, <1>6, <1>8, <2>1
  <2>2. CASE Formatless \in physical.features /\ effective = Enabled(modified, allowed)
    <3>1. allowed => allowed
      OBVIOUS
    <3> HIDE DEF effective, allowed, modified, copyable
    <3> QED
      BY <1>1, <1>7, <2>2, <3>1
  <2>3. CASE /\ allowed /\ ~CanEnable(modified, allowed)
             /\ Formatless \in physical.features /\ effective = Enabled(modified, FALSE)
    <3> HIDE DEF effective, allowed, modified, copyable
    <3>1. FALSE \in BOOLEAN /\ (FALSE => allowed)
      OBVIOUS
    <3> QED
      BY <1>7, <1>8, <2>3, <3>1
  <2> QED
    BY <1>9, <2>1, <2>2, <2>3
<1> HIDE DEF effective, allowed
<1>11. CreatedFrom(physical, r, wanted) = effective
  BY <1>10 DEF CreatedFrom, effective
<1> QED
  BY <1>10, <1>11 DEF RequestHolds, effective, allowed

(* Whatever the game chains in its request, and wherever the driver takes it,
   the request the layer makes of it is taken too, has all the game asked for,
   and has the network where it can run (Hook_CreateDevice, Enable). *)
THEOREM RequestsAreHeard == DeviceSpec => []RequestsHold
<1> DEFINE Game == Asked => /\ request.device \in Devices /\ request.info \in Requests
                            /\ request.wanted \in BOOLEAN
                            /\ Accepts(request.device, request.info)
<1>1. DeviceInit => Game
  BY DEF DeviceInit
<1>2. Game /\ [DeviceNext]_<<vars, request>> => Game'
  <2> SUFFICES ASSUME Game, [DeviceNext]_<<vars, request>> PROVE Game'
    OBVIOUS
  <2>1. request' \in {With, Without} \/ request' = request
    BY DEF DeviceNext, CreateDevice
  <2>2. CASE request' \in {With, Without}
    BY <2>2 DEF Asked
  <2>3. CASE request' = request
    BY <2>3 DEF Asked
  <2> QED
    BY <2>1, <2>2, <2>3
<1>3. Game => RequestsHold
  BY RequestsAssumption, Holds DEF RequestsHold
<1> QED
  BY <1>1, <1>2, <1>3, PTL DEF DeviceSpec
=============================================================================
