----------------------------- MODULE HipEngine -----------------------------
(***************************************************************************)
(* The HIP engine: one thread that queues a frame's kernels on one stream, *)
(* pass after pass, over a handful of device buffers.  With motion, each   *)
(* pass is also given its own answer for the previous frame, warped along  *)
(* the flow between the two frames' luma.  Any call may fail, which ends   *)
(* the daemon; a rejection fails the frame only, and the next frame finds  *)
(* the engine as this one left it.                                         *)
(*                                                                         *)
(* A buffer is known by what it holds, so that a kernel's output is right  *)
(* when what it read was.  Kernels take effect in the order they are       *)
(* queued, as one stream runs them.                                        *)
(***************************************************************************)
EXTENDS Naturals, Sequences

CONSTANTS
  Settings,   \* the settings and geometries of frames: see SettingsAssumption
  MaxPasses,  \* kMaxPasses
  Imports,    \* kSlots, by their numbers
  MaxFrames   \* bound: frames ever asked for

(* tuned and colored say whether the frame's tuning and colour are not the  *)
(* defaults; look is their values and the precisions; shape is what sizes  *)
(* the buffers, motion's quality and grid included; place is where the     *)
(* picture is in the raster.                                               *)
ASSUME SettingsAssumption ==
  \A s \in Settings : /\ DOMAIN s = {"motion", "tuned", "colored", "look", "passes", "shape", "place"}
                      /\ {s.motion, s.tuned, s.colored} \subseteq BOOLEAN
                      /\ s.passes \in 1 .. MaxPasses
ASSUME PassesAssumption == MaxPasses \in Nat \ {0}
ASSUME FramesAssumption == MaxFrames \in Nat

VARIABLES
  pc,        \* where the frame is; "down" without an engine
  cpu,       \* options_.cpu_codec
  frame,     \* the frame in work, or the last
  cur,       \* its settings
  pass,      \* the pass in work, from 1
  answer,    \* the buffer of the latest pass's answer
  given,     \* the pass is given history
  previous,  \* previous_settings_
  mem,       \* what each device buffer holds
  host,      \* neural_: the answer a CPU codec read back
  live,      \* what is allocated
  held,      \* what the engine has a pointer to
  busy,      \* the stream may still have work
  invalid,   \* *invalid_, the codec's status word
  (* GpuTemporal. *)
  geo,       \* geometry_, quality_, grid_ and passes_
  configured, valid, pending, completed,
  (* History, for the properties. *)
  launched,  \* the buffers of the last kernel
  tainted,   \* samples of this frame were not finite where the codec reads them
  answered   \* the last frame whose infer() succeeded, and its settings

temporal == <<geo, configured, valid, pending, completed>>
buffers == <<mem, host, launched>>
heap == <<live, held>>
work == <<cur, pass, answer, given>>
local == <<work, launched, tainted>>
vars == <<pc, cpu, frame, work, previous, buffers, heap, busy, invalid, temporal, tainted, answered>>

-----------------------------------------------------------------------------
(* Buffers and what they hold.                                             *)

Input == <<"input", 0>>
Feedback == <<"feedback", 0>>
Output == <<"output", 0>>
Scratch == <<"scratch", 0>>
Warped == <<"warped", 0>>
Current == <<"current", 0>>
Previous == <<"previous", 0>>  \* the levels' luma
History(p) == <<"history", p>>
Network == <<"network", 0>>
Module == <<"module", 0>>
Status == <<"status", 0>>
Proxy == <<"proxy", 0>>
Pinned(size) == {<<"pinnedInput", size>>, <<"pinnedOutput", size>>}     \* page-locked ranges
Pairs(s) == {<<"pair", 2 * s>>, <<"pair", 2 * s + 1>>}                  \* a slot's old pair and its new

TemporalBuffers(passes) == {Warped, Current, Previous} \cup {History(p) : p \in 1 .. passes}
Memory == {Input, Feedback, Output, Scratch} \cup TemporalBuffers(MaxPasses)
Everything ==
  Memory \cup {Network, Module, Status, Proxy}
  \cup (UNION {Pinned(n) : n \in 1 .. 2}) \cup (UNION {Pairs(s) : s \in Imports})

Garbage == <<"garbage", 0, 0>>
Encoded(f) == <<"encoded", f, 0>>
Fed(f, p) == <<"fed", f, p>>
Luma(f) == <<"luma", f, 0>>
Past(f, p) == <<"past", f, p>>
Raw(f, p) == <<"raw", f, p>>
Tuned(f, p) == <<"tuned", f, p>>
Colored(f, p) == <<"colored", f, p>>

(* The final answer of a pass, as its settings make it. *)
Final(s, f, p) == IF s.colored THEN Colored(f, p) ELSE IF s.tuned THEN Tuned(f, p) ELSE Raw(f, p)

Contents ==
  {"garbage", "encoded", "fed", "luma", "past", "raw", "tuned", "colored"} \X (0 .. MaxFrames) \X (0 .. MaxPasses)

NoSettings == [motion |-> FALSE]

TypeOK ==
  /\ pc \in {"down", "idle", "encode", "begin", "pass", "history", "network", "tune", "colour", "answer",
             "end", "decode", "finish", "failed"}
  /\ {cpu, given, busy, invalid, configured, valid, pending, tainted} \subseteq BOOLEAN
  /\ frame \in 0 .. MaxFrames /\ completed \in 0 .. MaxPasses
  /\ pass \in 0 .. MaxPasses /\ answer \in Memory
  /\ mem \in [Memory -> Contents] /\ host \in Contents
  /\ live \subseteq Everything /\ held \subseteq Everything
  /\ answered.frame \in 0 .. MaxFrames
  /\ launched.writes \in Memory /\ launched.reads \subseteq Memory

InFrame == pc \notin {"down", "idle", "failed"}

-----------------------------------------------------------------------------
(* Allocation, and kernels.                                                *)

Allocate(S) == live' = live \cup S /\ held' = held \cup S

(* Freed and forgotten. *)
Free(S) == live' = live \ S /\ held' = held \ S

(* A kernel that reads some buffers and writes content to another one.     *)
Launch(reads, b, content) ==
  /\ launched' = [reads |-> reads, writes |-> b]
  /\ mem' = [mem EXCEPT ![b] = content]
  /\ busy' = TRUE

(* What a kernel makes of inputs that are, or are not, what it needs. *)
From(good, content) == IF good THEN content ELSE Garbage

Nothing == [reads |-> {}, writes |-> Output]

(* The frame is over, as next says, and so are infer()'s locals. *)
Return(next) ==
  /\ pc' = next
  /\ cur' = NoSettings /\ pass' = 0 /\ answer' = Output /\ given' = FALSE
  /\ launched' = Nothing /\ tainted' = FALSE

-----------------------------------------------------------------------------
(* The engine.                                                             *)

Init ==
  /\ pc = "down" /\ cpu \in BOOLEAN
  /\ frame = 0 /\ cur = NoSettings /\ pass = 0 /\ answer = Output /\ given = FALSE
  /\ previous = NoSettings
  /\ mem = [b \in Memory |-> Garbage] /\ host = Garbage
  /\ launched = Nothing
  /\ live = {} /\ held = {}
  /\ busy = FALSE /\ invalid = FALSE
  /\ geo = NoSettings /\ configured = FALSE /\ valid = FALSE /\ pending = FALSE /\ completed = 0
  /\ tainted = FALSE /\ answered = [frame |-> 0, with |-> NoSettings]

(* The network first, then the kernels' module, which is unloaded again    *)
(* where it lacks a kernel, the codec's status word, and two buffers.  The *)
(* warm-up is waited for.                                                  *)
Codec == IF cpu THEN {} ELSE {Status}
Parts == <<{Network}, {Module}, Codec, {Input}, {Output}>>
Made(n) == UNION {Parts[i] : i \in 1 .. n}

(* Where one part fails the rest is not made. *)
Prepare ==
  /\ pc = "down"
  /\ \E n \in 0 .. Len(Parts) :
       /\ Allocate(Made(n))
       /\ pc' = "failed" \/ (n = Len(Parts) /\ pc' = "idle")
  /\ UNCHANGED <<cpu, frame, work, previous, buffers, busy, invalid, temporal, tainted, answered>>

(* release(): the stream is waited for, then everything goes.  Without a   *)
(* network nothing was made.                                               *)
Release ==
  IF Network \in held
  THEN Free(held) /\ previous' = NoSettings
  ELSE UNCHANGED <<heap, previous>>

(* The engine is destroyed with the daemon, or makes a network for another *)
(* tier; its temporal state goes either way.                               *)
End ==
  /\ pc \in {"idle", "failed"}
  /\ pc' = "down"
  /\ Release
  /\ busy' = FALSE /\ invalid' = FALSE
  /\ geo' = NoSettings /\ configured' = FALSE /\ valid' = FALSE /\ pending' = FALSE /\ completed' = 0
  /\ mem' = [b \in Memory |-> Garbage] /\ host' = Garbage
  /\ UNCHANGED <<cpu, frame, work, launched, tainted, answered>>

Replaced(s) == Pairs(s) \cap held

(* import_into(): a slot's pair is replaced once both frames of the new one *)
(* are imported and mapped; before, what was imported of it is released.   *)
Import(s) ==
  /\ pc = "idle" /\ ~cpu
  /\ \E pair \in Pairs(s) \ held :
       live' = (live \ Replaced(s)) \cup {pair} /\ held' = (held \ Pairs(s)) \cup {pair}
  /\ UNCHANGED <<pc, cpu, frame, work, previous, buffers, busy, invalid, temporal, tainted, answered>>

(* What unpin() unpins. *)
PinnedNow == held \cap UNION {Pinned(n) : n \in 1 .. 2}

(* pin(): a longer prefix of both of the channel's slots is page-locked in *)
(* place of the shorter, or neither is.                                    *)
Pin(size) ==
  /\ pc = "idle" /\ ~cpu
  /\ \A n \in 1 .. 2 : Pinned(n) \subseteq held => n < size
  /\ \E ranges \in {Pinned(size), {}} :
       /\ held' = (held \ PinnedNow) \cup ranges
       /\ live' = (live \ PinnedNow) \cup ranges
  /\ UNCHANGED <<pc, cpu, frame, work, previous, buffers, busy, invalid, temporal, tainted, answered>>

-----------------------------------------------------------------------------
(* A frame.                                                                *)

(* A rejection before anything is touched: ViT caching, or FP16 with a CPU *)
(* composition.                                                            *)
Refuse ==
  /\ pc = "idle"
  /\ frame < MaxFrames /\ frame' = frame + 1
  /\ UNCHANGED <<pc, cpu, work, previous, buffers, heap, busy, invalid, temporal, tainted, answered>>

(* The codec's copy of the frame, made anew for a larger one. *)
Reserved == IF cpu THEN {} ELSE {Proxy}

(* What this frame needs besides, made once. *)
Needed(s) ==
  (IF s.tuned \/ s.colored THEN {Scratch} ELSE {}) \cup (IF s.passes > 1 THEN {Feedback} ELSE {}) \cup Reserved

StartFrame(s) ==
  /\ pc = "idle"
  /\ frame < MaxFrames /\ frame' = frame + 1
  /\ cur' = s /\ pass' = 0 /\ tainted' = FALSE
  /\ Allocate(Needed(s))
  /\ pc' = "encode"
  /\ UNCHANGED <<cpu, answer, given, previous, buffers, busy, invalid, temporal, answered>>

(* Nonfinite samples of the frame set the GPU codec's status word, to be   *)
(* read at the end; the CPU codec rejects the frame.                       *)
Encode(nonfinite) ==
  /\ pc = "encode"
  /\ IF cpu /\ nonfinite
     THEN Return("idle") /\ UNCHANGED <<mem, busy, invalid>>
     ELSE /\ Launch({}, Input, Encoded(frame))
          /\ invalid' = nonfinite /\ tainted' = nonfinite
          /\ pc' = "begin"
          /\ UNCHANGED work
  /\ UNCHANGED <<cpu, frame, host, previous, heap, temporal, answered>>

(* A history made with other settings is not the same network's.           *)
Differs == ~previous.motion \/ previous.look # cur.look
           \/ previous.tuned # cur.tuned \/ previous.colored # cur.colored

Sizes(s) == <<s.shape, s.passes>>
OldBuffers == held \cap TemporalBuffers(MaxPasses)   \* what release_buffers() frees

BuggyMoved == FALSE
Moved == geo.place # cur.place

(* GpuTemporal::configure(): buffers for this shape and number of passes,  *)
(* empty when they are new.                                                *)
Configure ==
  IF configured /\ Sizes(geo) = Sizes(cur)
  THEN /\ valid' = (valid /\ ~Moved /\ ~Differs)
       /\ UNCHANGED <<heap, configured>>
  ELSE /\ held' = (held \ OldBuffers) \cup TemporalBuffers(cur.passes)
       /\ live' = (live \ OldBuffers) \cup TemporalBuffers(cur.passes)
       /\ configured' = TRUE /\ valid' = FALSE

(* begin(): the frame's luma; with history, the flow from the last one's.  *)
(* Until the frame completes there is none to start the next from.         *)
Begin ==
  /\ pc = "begin" /\ cur.motion
  /\ previous' = [previous EXCEPT !.motion = FALSE]
  /\ IF pending
     THEN Return("failed") /\ UNCHANGED <<mem, heap, busy, temporal>>
     ELSE /\ Configure
          /\ geo' = cur /\ pending' = TRUE /\ completed' = 0
          /\ Launch({Input}, Current, From(mem[Input] = Encoded(frame), Luma(frame)))
          /\ pc' = "pass"
          /\ UNCHANGED <<work, tainted>>
  /\ UNCHANGED <<cpu, frame, host, invalid, answered>>

(* Without motion the history ends. *)
Still ==
  /\ pc = "begin" /\ ~cur.motion
  /\ valid' = FALSE /\ pending' = FALSE /\ completed' = 0
  /\ pc' = "pass"
  /\ UNCHANGED <<cpu, frame, work, previous, buffers, heap, busy, invalid, geo, configured, tainted, answered>>

BuggyRecorded(nonfinite) == nonfinite

(* The status word is cleared by the frame's encode only. *)
Recorded(nonfinite) == invalid \/ nonfinite

PassInput(p) == IF p = 1 THEN Input ELSE Feedback
PassContent(p) == IF p = 1 THEN Encoded(frame) ELSE Fed(frame, p)

(* A later pass takes the answer before it.  The CPU codec's check of its  *)
(* samples is a failure, so that the temporal state need not survive it.   *)
StartPass(nonfinite) ==
  /\ pc = "pass" /\ pass < cur.passes
  /\ \/ /\ pass = 0 /\ ~nonfinite
        /\ pass' = 1 /\ pc' = "history"
        /\ UNCHANGED <<cur, answer, given, mem, launched, busy, invalid, tainted>>
     \/ /\ pass > 0
        /\ IF (cpu /\ nonfinite) \/ (~cpu /\ answer = Feedback)
           THEN Return("failed") /\ UNCHANGED <<mem, busy, invalid>>
           ELSE /\ Launch({answer}, Feedback,
                          From((IF cpu THEN host ELSE mem[answer]) = Final(cur, frame, pass), Fed(frame, pass + 1)))
                /\ invalid' = Recorded(nonfinite) /\ tainted' = (tainted \/ nonfinite)
                /\ pass' = pass + 1 /\ pc' = "history"
                /\ UNCHANGED <<cur, answer, given>>
  /\ UNCHANGED <<cpu, frame, host, previous, heap, temporal, answered>>

InOrder == pending /\ pass = completed + 1 /\ pass <= geo.passes

(* The frame the previous luma is of; 0 when there is none. *)
Before == IF \E f \in 1 .. MaxFrames : mem[Previous] = Luma(f)
          THEN CHOOSE f \in 1 .. MaxFrames : mem[Previous] = Luma(f) ELSE 0

(* history() warps the pass's answer for the last frame along the flow from *)
(* that frame; target() has this frame's answer written in its place.      *)
TakeHistory ==
  /\ pc = "history"
  /\ IF cur.motion /\ ~InOrder
     THEN Return("failed") /\ UNCHANGED <<mem, busy, completed>>
     ELSE /\ given' = (cur.motion /\ valid)
          /\ completed' = IF cur.motion THEN completed + 1 ELSE completed
          /\ pc' = "network"
          /\ IF given'
             THEN Launch({Current, Previous, History(pass), PassInput(pass)}, Warped,
                         From(/\ mem[History(pass)] \in {Raw(Before, pass), Tuned(Before, pass), Colored(Before, pass)}
                              /\ mem[Current] = Luma(frame), Past(Before, pass)))
             ELSE UNCHANGED <<mem, launched, busy>>
          /\ UNCHANGED <<cur, pass, answer, tainted>>
  /\ UNCHANGED <<cpu, frame, previous, host, heap, invalid, geo, configured, valid, pending, answered>>

Steps == (IF cur.tuned THEN 1 ELSE 0) + (IF cur.colored THEN 1 ELSE 0)

BuggyStage(i) == IF cur.motion /\ i = Steps THEN History(pass) ELSE Output

(* Where the pass's stages go: two buffers in turn, and the last to the    *)
(* pass's history.                                                         *)
Stage(i) == IF cur.motion /\ i = Steps THEN History(pass) ELSE IF i = 1 THEN Scratch ELSE Output

Evaluate ==
  /\ pc = "network"
  /\ Launch({PassInput(pass)} \cup (IF given THEN {Warped} ELSE {}), Stage(0),
            From(mem[PassInput(pass)] = PassContent(pass), Raw(frame, pass)))
  /\ pc' = "tune"
  /\ UNCHANGED <<cpu, frame, work, previous, host, heap, invalid, temporal, tainted, answered>>

TuneReads == {PassInput(pass), Stage(0)}

(* Tuning and colour read neighbours, and fail where they would write what *)
(* they read.                                                              *)
Tune ==
  /\ pc = "tune"
  /\ \/ /\ ~cur.tuned
        /\ pc' = "colour" /\ UNCHANGED <<work, mem, launched, busy, tainted>>
     \/ /\ cur.tuned
        /\ IF Stage(1) \in TuneReads
           THEN Return("failed") /\ UNCHANGED <<mem, busy>>
           ELSE /\ Launch(TuneReads, Stage(1),
                          From(/\ mem[PassInput(pass)] = PassContent(pass)
                               /\ mem[Stage(0)] = Raw(frame, pass), Tuned(frame, pass)))
                /\ pc' = "colour" /\ UNCHANGED <<work, tainted>>
  /\ UNCHANGED <<cpu, frame, host, previous, heap, invalid, temporal, answered>>

Uncolored == IF cur.tuned THEN 1 ELSE 0
ColourReads == {Input, Stage(Uncolored)}

(* Colour is preserved from the frame, not from the pass's input. *)
Colour ==
  /\ pc = "colour"
  /\ \/ /\ ~cur.colored
        /\ pc' = "answer" /\ UNCHANGED <<work, mem, launched, busy, tainted>>
     \/ /\ cur.colored
        /\ IF Stage(Uncolored + 1) \in ColourReads
           THEN Return("failed") /\ UNCHANGED <<mem, busy>>
           ELSE /\ Launch(ColourReads, Stage(Uncolored + 1),
                          From(/\ mem[Input] = Encoded(frame)
                               /\ mem[Stage(Uncolored)] = Final([cur EXCEPT !.colored = FALSE], frame, pass),
                               Colored(frame, pass)))
                /\ pc' = "answer" /\ UNCHANGED <<work, tainted>>
  /\ UNCHANGED <<cpu, frame, host, previous, heap, invalid, temporal, answered>>

BuggyAnswerBuffer == Stage(IF cur.tuned THEN 1 ELSE 0)
AnswerBuffer == Stage(Steps)

(* The CPU codec waits for the answer and reads it back. *)
FinishPass ==
  /\ pc = "answer"
  /\ answer' = AnswerBuffer
  /\ IF cpu THEN host' = mem[answer'] /\ busy' = FALSE ELSE UNCHANGED <<host, busy>>
  /\ pc' = IF pass = cur.passes THEN "end" ELSE "pass"
  /\ UNCHANGED <<cpu, frame, cur, pass, given, previous, mem, launched, heap, invalid, temporal, tainted, answered>>

(* end(): this frame's luma is the next one's previous. *)
EndTemporal ==
  /\ pc = "end"
  /\ IF cur.motion /\ ~(pending /\ completed = geo.passes)
     THEN Return("failed") /\ UNCHANGED <<valid, pending, mem>>
     ELSE /\ IF cur.motion
             THEN /\ valid' = TRUE /\ pending' = FALSE
                  /\ mem' = [mem EXCEPT ![Current] = mem[Previous], ![Previous] = mem[Current]]
             ELSE UNCHANGED <<valid, pending, mem>>
          /\ pc' = "decode"
          /\ UNCHANGED local
  /\ UNCHANGED <<cpu, frame, previous, host, heap, busy, invalid, geo, configured, completed, answered>>

(* The answer to the frame: the GPU codec's into the status word and on, or *)
(* the CPU codec's, which rejects what is not finite.                      *)
Decode(nonfinite) ==
  /\ pc = "decode"
  /\ IF cpu /\ nonfinite
     THEN Return("idle") /\ UNCHANGED <<busy, invalid>>
     ELSE /\ pc' = "finish"
          /\ busy' = (busy \/ ~cpu)
          /\ invalid' = Recorded(nonfinite) /\ tainted' = (tainted \/ nonfinite)
          /\ UNCHANGED <<work, launched>>
  /\ UNCHANGED <<cpu, frame, mem, host, previous, heap, temporal, answered>>

(* finish() waits for the stream, and then the status word counts. *)
Finish ==
  /\ pc = "finish"
  /\ busy' = FALSE
  /\ IF invalid /\ ~cpu
     THEN UNCHANGED <<previous, answered>>
     ELSE previous' = cur /\ answered' = [frame |-> frame, with |-> cur]
  /\ Return("idle")
  /\ UNCHANGED <<cpu, frame, mem, host, heap, invalid, temporal>>

(* Any call fails: the daemon ends. *)
Fail ==
  /\ InFrame
  /\ Return("failed")
  /\ UNCHANGED <<cpu, frame, mem, host, previous, heap, busy, invalid, temporal, answered>>

-----------------------------------------------------------------------------
Next ==
  \/ Prepare \/ End \/ (\E s \in Imports : Import(s)) \/ (\E size \in 1 .. 2 : Pin(size))
  \/ Refuse \/ \E s \in Settings : StartFrame(s)
  \/ \E nonfinite \in BOOLEAN : Encode(nonfinite) \/ StartPass(nonfinite) \/ Decode(nonfinite)
  \/ Begin \/ Still \/ TakeHistory \/ Evaluate \/ Tune \/ Colour \/ FinishPass \/ EndTemporal \/ Finish \/ Fail

Spec == Init /\ [][Next]_vars

-----------------------------------------------------------------------------
(* The history a pass is given is its own answer for the last frame that   *)
(* was answered, under the same settings and in the same place, and the    *)
(* flow it was warped along is measured from that same frame's luma, never *)
(* from one that was rejected or failed (hip_engine.cpp, configure, begin). *)
HistoryIsLastAnswer ==
  pc = "network" /\ given =>
    /\ answered.frame > 0
    /\ mem[Warped] = Past(answered.frame, pass)
    /\ \A field \in {"motion", "tuned", "colored", "look", "passes", "shape", "place"} :
         answered.with[field] = cur[field]

(* What is decoded is the last pass's final answer to this frame, through  *)
(* every stage its settings ask for (infer()'s buffers).                   *)
AnswerIsOwn == pc = "decode" => (IF cpu THEN host ELSE mem[answer]) = Final(cur, frame, cur.passes)

(* A frame with samples that are not finite is never answered: they are    *)
(* recorded until the end, whichever pass they came up in.                 *)
NonfiniteIsRejected == [][answered' # answered => ~tainted]_vars

(* Between frames nothing is under way: the stream is idle, so that the    *)
(* host may write the status word, pin and free; no frame's history is     *)
(* pending, so that the next frame's begin() does not fail; and every      *)
(* allocation has one owner.  Without an engine there is none.             *)
QuietBetweenFrames ==
  /\ pc = "idle" => ~busy /\ ~pending /\ Network \in held
  /\ live = held
  /\ pc = "down" => live = {}

(* No kernel writes what it reads or touches what is not allocated, so no  *)
(* frame fails for buffers that gpu_tune, gpu_preserve_color or feedback   *)
(* find the same; and the temporal calls come in the order GpuTemporal     *)
(* asks for, so none of them fails either, whatever was rejected before;   *)
(* and no allocation leaks, or is freed with work on the stream.           *)
NoMisuse ==
  /\ launched.writes \notin launched.reads
  /\ launched # Nothing => launched.reads \cup {launched.writes} \subseteq live
  /\ pc = "begin" => ~pending
  /\ pc = "pass" /\ pass \in 1 .. cur.passes - 1 => answer # Feedback
  /\ pc = "history" /\ cur.motion => InOrder
  /\ pc = "tune" /\ cur.tuned => Stage(1) \notin TuneReads
  /\ pc = "colour" /\ cur.colored => Stage(Uncolored + 1) \notin ColourReads
  /\ pc = "end" /\ cur.motion => pending /\ completed = geo.passes
  /\ QuietBetweenFrames

=============================================================================
