-------------------------- MODULE NetworkRecorder --------------------------
(***************************************************************************)
(* The Vulkan network on one device: the runtime it builds for one frame   *)
(* shape at a time, the images the runtime works in, and the frame whose   *)
(* history the runtime keeps.  The in-layer network and the daemon's       *)
(* Vulkan engine each drive one; their modules extend this one.            *)
(***************************************************************************)
EXTENDS Naturals, Sequences

CONSTANTS
  Extents,    \* the widths and heights of frames
  Controls,   \* the settings of the network's own controls, intensity to mask
  KMaxPasses, \* kMaxPasses
  NoFrame     \* no frame, and no shape

ASSUME PassAssumption == KMaxPasses \in Nat \ {0}

NoRuntime == 0

(* What a frame is processed with; passes as the caller states them. *)
VulkanFrame == [extent : Extents, fp16 : BOOLEAN, motion : BOOLEAN,
                passes : Nat, controls : Controls, stages : BOOLEAN]

Passes(f) == IF f.passes = 0 THEN 1
             ELSE IF f.passes > KMaxPasses THEN KMaxPasses ELSE f.passes

(* What a built runtime serves. *)
Shape == [extent : Extents, fp16 : BOOLEAN, motion : BOOLEAN,
          passes : 1 .. KMaxPasses, stages : BOOLEAN]

ASSUME NoFrameAssumption == NoFrame \notin VulkanFrame \cup Shape

(* What is kept between frames: the runtime by the number of its build, its
   images, what they were made for, and the history's frame. *)
Recorder == [runtime : Nat, colour : BOOLEAN, half : BOOLEAN,
             shape : Shape \cup {NoFrame}, last : VulkanFrame \cup {NoFrame}]

NewRecorder == [runtime |-> NoRuntime, colour |-> FALSE, half |-> FALSE,
                shape |-> NoFrame, last |-> NoFrame]

BuggyDiffers(r, f) ==
  \/ r.runtime = NoRuntime
  \/ r.shape.extent # f.extent
  \/ r.shape.motion # f.motion
  \/ r.shape.passes < Passes(f)
  \/ f.stages /\ ~r.shape.stages

(* shape() would build: for more passes or stages, never for fewer. *)
Differs(r, f) ==
  \/ r.runtime = NoRuntime
  \/ r.shape.extent # f.extent
  \/ r.shape.fp16 # f.fp16
  \/ r.shape.motion # f.motion
  \/ r.shape.passes < Passes(f)
  \/ f.stages /\ ~r.shape.stages

(* A build first gives up what was built. *)
Dropped(r) == [r EXCEPT !.runtime = NoRuntime, !.colour = FALSE, !.half = FALSE,
                        !.shape = NoFrame]

(* ... then can fail at either image, or in the runtime, with what it made
   so far left for the next build, or the end, to drop. *)
FailedBuilds(r, f) ==
  {Dropped(r), [Dropped(r) EXCEPT !.colour = TRUE],
   [Dropped(r) EXCEPT !.colour = TRUE, !.half = f.fp16]}

BuggyBuilt(r, f, id) ==
  [Dropped(r) EXCEPT
     !.runtime = id, !.colour = TRUE, !.half = f.fp16,
     !.shape = [extent |-> f.extent, fp16 |-> f.fp16, motion |-> f.motion,
                passes |-> Passes(f), stages |-> f.stages]]

Built(r, f, id) ==
  [Dropped(r) EXCEPT
     !.runtime = id, !.colour = TRUE, !.half = f.fp16,
     !.shape = [extent |-> f.extent, fp16 |-> f.fp16, motion |-> f.motion,
                passes |-> Passes(f), stages |-> f.stages],
     !.last = NoFrame]

(* The history starts over unless the last frame had these. *)
SettingsOf(f) == [passes |-> f.passes, controls |-> f.controls]

Resets(r, f) == r.last = NoFrame \/ SettingsOf(r.last) # SettingsOf(f)

(* A recorded frame is the history's, before anything submits it. *)
Recorded(r, f) == [r EXCEPT !.last = f]

(* The images' part of a frame's commands: barriers, which move an image from
   one layout to another, and copies, blits and the network's own work, which
   expect one. *)
To(image, from, to) == [image |-> image, from |-> from, to |-> to]
Use(image, layout) == [image |-> image, from |-> layout, to |-> layout]

Commands(f) ==
  LET staged == IF f.fp16 THEN "half" ELSE "colour"
      widen == <<To("half", "dst", "src"), To("colour", "undefined", "dst"),
                 Use("half", "src"), Use("colour", "dst")>>
      narrow == <<To("half", "src", "dst"), Use("colour", "general"), Use("half", "dst"),
                  To("half", "dst", "src"), Use("half", "src")>>
  IN <<To(staged, "undefined", "dst"), Use(staged, "dst")>>
     \o (IF f.fp16 THEN widen ELSE <<>>)
     \o <<To("colour", "dst", "general"), Use("colour", "general")>>
     \o (IF f.fp16 THEN narrow ELSE <<Use("colour", "general")>>)

(* Each command finds its image in the layout it expects. *)
LaidOut(f) ==
  LET q == Commands(f)
      Before(i) == {j \in 1 .. i - 1 : q[j].image = q[i].image}
  IN \A i \in DOMAIN q :
       \/ q[i].from = "undefined"
       \/ \E j \in Before(i) : q[j].to = q[i].from /\ \A k \in Before(i) : k <= j

(* The runtime and the images a frame is recorded into are those of its shape. *)
Serves(r, f) ==
  /\ r.runtime # NoRuntime /\ r.colour
  /\ r.half = f.fp16
  /\ r.shape.extent = f.extent /\ r.shape.motion = f.motion
  /\ Passes(f) <= r.shape.passes
  /\ f.stages => r.shape.stages
=============================================================================
