-------------------------- MODULE HipFramesProofs --------------------------
(***************************************************************************)
(* The HIP engine's frames, for any settings, passes and imports: each is  *)
(* answered with its own answer, under the history that is its own;        *)
(* geometry() makes a picture of every source, of every extent the code    *)
(* takes and in every tier; and its samples, and any answer's, become the  *)
(* nearest binary16.                                                       *)
(***************************************************************************)
EXTENDS HipFrames, Integers, TLAPS

-----------------------------------------------------------------------------
(* The engine.                                                             *)

Fields == {"motion", "tuned", "colored", "look", "passes", "shape", "place"}

(* Where a frame's kernels are, and where temporal calls are owed.         *)
StagePCs == {"history", "network", "tune", "colour", "answer"}
LatePCs == {"pass", "end"} \cup StagePCs      \* after begin(), before end()
EarlyPCs == {"down", "idle", "encode", "begin"}

(* What the engine keeps is of settings that frames had.                   *)
Settled ==
  /\ InFrame => cur \in Settings /\ frame \in 1 .. MaxFrames
  /\ "motion" \in DOMAIN previous /\ previous.motion \in BOOLEAN /\ (previous.motion => previous \in Settings)
  /\ configured => geo \in Settings

(* What a kernel touches is there, and has one owner.                      *)
Owned ==
  /\ live = held
  /\ Network \in held \/ held = {}
  /\ pc = "down" => held = {}
  /\ pc \notin {"down", "failed"} => {Network, Input, Output} \subseteq held
  /\ InFrame => Needed(cur) \subseteq held
  /\ configured => TemporalBuffers(geo.passes) \subseteq held
  /\ launched # Nothing => launched.reads \cup {launched.writes} \subseteq held
  /\ launched.writes \notin launched.reads
  /\ ~InFrame => launched = Nothing

(* The passes, and GpuTemporal's calls, come in their order.               *)
InTurn ==
  /\ pc \in EarlyPCs \cup {"decode", "finish"} => ~pending
  /\ pc \in LatePCs => /\ pending = cur.motion
                       /\ cur.motion => /\ configured /\ geo = cur
                                        /\ completed = IF pc = "history" THEN pass - 1 ELSE pass
  /\ pc \in {"encode", "begin"} => pass = 0
  /\ pc = "pass" => pass \in 0 .. cur.passes - 1
  /\ pc \in StagePCs => pass \in 1 .. cur.passes
  /\ pc \in {"end", "decode"} => pass = cur.passes
  /\ pc \in {"down", "idle", "encode"} => ~busy
  /\ cpu /\ pc \in {"end", "decode"} => ~busy
  /\ cpu => ~tainted
  /\ tainted => invalid /\ pc \notin {"down", "idle", "failed"}

(* A pass's stages each find what the one before left them.                *)
Chained ==
  /\ pc \in LatePCs \cup {"begin"} => mem[Input] = Encoded(frame)
  /\ pc \in StagePCs \ {"answer"} => mem[PassInput(pass)] = PassContent(pass)
  /\ pc = "tune" => mem[Stage(0)] = Raw(frame, pass)
  /\ pc = "colour" => mem[Stage(Uncolored)] = Final([cur EXCEPT !.colored = FALSE], frame, pass)
  /\ pc = "answer" => mem[AnswerBuffer] = Final(cur, frame, pass)
  /\ pc \in {"end", "decode"} \/ (pc = "pass" /\ pass > 0) =>
       /\ answer = AnswerBuffer
       /\ (IF cpu THEN host ELSE mem[answer]) = Final(cur, frame, pass)

(* Frame f, with settings s, left its luma, and the answers of some passes. *)
Left(s, f, passes) == \A p \in passes : mem[History(p)] = Final(s, f, p)

(* Between frames, a history that the next one may continue is that of the *)
(* last frame answered.                                                    *)
Kept ==
  pc \in EarlyPCs /\ valid /\ previous.motion =>
    /\ answered.frame \in 1 .. MaxFrames /\ answered.with = previous
    /\ configured /\ geo = previous
    /\ mem[Previous] = Luma(answered.frame)
    /\ Left(previous, answered.frame, 1 .. previous.passes)

(* In a frame, the last one's history is there for every pass to come, and *)
(* the answers of this one's for every pass before.                        *)
Passed == IF pc \in {"pass", "answer", "end"} THEN pass ELSE pass - 1

Continued ==
  /\ pc \in LatePCs /\ valid =>
       /\ cur.motion
       /\ answered.frame \in 1 .. MaxFrames
       /\ \A field \in Fields : answered.with[field] = cur[field]
       /\ mem[Previous] = Luma(answered.frame)
       /\ Left(cur, answered.frame, completed + 1 .. cur.passes)
  /\ pc \in LatePCs /\ cur.motion =>
       /\ mem[Current] = Luma(frame)
       /\ Left(cur, frame, 1 .. Passed)
  /\ pc \in LatePCs \cup {"decode", "finish"} => (cur.motion => ~previous.motion)
  /\ pc \in {"decode", "finish"} =>
       IF cur.motion
       THEN valid /\ configured /\ geo = cur /\ mem[Previous] = Luma(frame) /\ Left(cur, frame, 1 .. cur.passes)
       ELSE ~valid
  /\ given /\ pc = "network" => valid /\ mem[Warped] = Past(answered.frame, pass)

IInv == TypeOK /\ Settled /\ Owned /\ InTurn /\ Chained /\ Kept /\ Continued

(* The buffers are all different.                                          *)
LEMMA Distinct ==
  /\ \A p : History(p) \notin {Input, Feedback, Output, Scratch, Warped, Current, Previous}
  /\ \A p, q : History(p) = History(q) => p = q
  /\ Input \notin {Feedback, Output, Scratch, Warped, Current, Previous}
  /\ Feedback \notin {Output, Scratch, Warped, Current, Previous}
  /\ Output \notin {Scratch, Warped, Current, Previous}
  /\ Scratch \notin {Warped, Current, Previous}
  /\ Warped \notin {Current, Previous}
  /\ Current # Previous
BY SMT DEF History, Input, Feedback, Output, Scratch, Warped, Current, Previous

(* Kernels only touch device buffers.                                      *)
LEMMA InMemory ==
  /\ {Input, Feedback, Output, Scratch, Warped, Current, Previous} \subseteq Memory
  /\ \A p \in 1 .. MaxPasses : History(p) \in Memory
BY PassesAssumption DEF Memory, TemporalBuffers

(* What is not a kernel's buffer.                                          *)
LEMMA Others ==
  /\ \A passes : TemporalBuffers(passes) \cap {Network, Module, Status, Proxy, Input, Output, Feedback, Scratch} = {}
  /\ \A n : Pinned(n) \cap (Memory \cup {Network, Module, Status, Proxy}) = {}
  /\ \A s : Pairs(s) \cap (Memory \cup {Network, Module, Status, Proxy}) = {}
<1> USE DEF TemporalBuffers, Memory, History, Input, Feedback, Output, Scratch, Warped, Current, Previous,
            Network, Module, Status, Proxy, Pinned, Pairs
<1>1. \A passes : TemporalBuffers(passes) \cap {Network, Module, Status, Proxy, Input, Output, Feedback, Scratch} = {}
  BY SMT
<1>2. \A n : Pinned(n) \cap (Memory \cup {Network, Module, Status, Proxy}) = {}
  BY SMT
<1>3. \A s : Pairs(s) \cap (Memory \cup {Network, Module, Status, Proxy}) = {}
  BY SMT
<1> QED
  BY <1>1, <1>2, <1>3

(* What a buffer may be given to hold.                                     *)
LEMMA Holding ==
  ASSUME NEW f \in 0 .. MaxFrames, NEW p \in 0 .. MaxPasses
  PROVE  {Garbage, Encoded(f), Luma(f), Fed(f, p), Past(f, p), Raw(f, p), Tuned(f, p), Colored(f, p)} \subseteq Contents
BY FramesAssumption, PassesAssumption, SMT
   DEF Contents, Garbage, Encoded, Luma, Fed, Past, Raw, Tuned, Colored

(* A luma is of one frame.                                                 *)
LEMMA OneLuma == \A e, f : Luma(e) = Luma(f) => e = f
BY SMT DEF Luma

(* What a frame's settings are.                                            *)
LEMMA SettingsFacts ==
  ASSUME NEW s \in Settings
  PROVE  /\ {s.motion, s.tuned, s.colored} \subseteq BOOLEAN
         /\ s.passes \in 1 .. MaxPasses /\ MaxPasses \in Nat
         /\ DOMAIN s = Fields
BY SettingsAssumption, PassesAssumption DEF Fields

(* Stages write the pass's history last, and the two buffers in turn before. *)
LEMMA StageFacts ==
  ASSUME cur \in Settings, pass \in 1 .. cur.passes
  PROVE  /\ pass \in 1 .. MaxPasses /\ pass \in Nat
         /\ {Stage(0), Stage(1), Stage(2)} \subseteq Memory
         /\ Stage(0) \in {Output, History(pass)} /\ Stage(1) \in {Scratch, History(pass)} /\ Stage(2) \in {Output, History(pass)}
         /\ \A i \in 0 .. 2 : Stage(i) = History(pass) <=> cur.motion /\ i = Steps
         /\ \A i \in 0 .. 2 : Stage(i) \notin {Input, Feedback, Warped, Current, Previous}
         /\ \A i \in 0 .. 2 : i + 1 \in 0 .. 2 => Stage(i) # Stage(i + 1)
         /\ PassInput(pass) \in {Input, Feedback} /\ PassInput(pass) \in Memory
         /\ PassInput(pass) = Feedback => pass > 1
         /\ Steps \in 0 .. 2 /\ Uncolored \in 0 .. 1
         /\ cur.tuned => Uncolored = 1 /\ Steps >= 1
         /\ cur.colored => Steps = Uncolored + 1
         /\ ~cur.colored => Steps = Uncolored
<1>1. pass \in 1 .. MaxPasses /\ pass \in Nat /\ {cur.motion, cur.tuned, cur.colored} \subseteq BOOLEAN
  BY SettingsFacts
<1>2. /\ Steps \in 0 .. 2 /\ Uncolored \in 0 .. 1
      /\ cur.tuned => Uncolored = 1 /\ Steps >= 1
      /\ cur.colored => Steps = Uncolored + 1
      /\ ~cur.colored => Steps = Uncolored
  BY <1>1 DEF Steps, Uncolored
<1>3. \A i \in 0 .. 2 : Stage(i) = IF cur.motion /\ i = Steps THEN History(pass) ELSE IF i = 1 THEN Scratch ELSE Output
  BY DEF Stage
<1>4. /\ History(pass) \notin {Input, Feedback, Output, Scratch, Warped, Current, Previous}
      /\ History(pass) \in Memory
  BY <1>1, Distinct, InMemory
<1>5. PassInput(pass) \in {Input, Feedback} /\ PassInput(pass) \in Memory /\ (PassInput(pass) = Feedback => pass > 1)
  BY <1>1, InMemory, Distinct DEF PassInput
<1>6. \A i \in 0 .. 2 : Stage(i) = History(pass) <=> cur.motion /\ i = Steps
  BY <1>3, <1>4
<1>7. \A i \in 0 .. 2 : Stage(i) \notin {Input, Feedback, Warped, Current, Previous}
  BY <1>3, <1>4, Distinct
<1>8. \A i \in 0 .. 2 : i + 1 \in 0 .. 2 => Stage(i) # Stage(i + 1)
  <2> TAKE i \in 0 .. 2
  <2> HAVE i + 1 \in 0 .. 2
  <2>1. i \in 0 .. 1
    OBVIOUS
  <2> QED
    BY <1>2, <1>3, <1>4, <2>1, Distinct
<1> QED
  BY <1>1, <1>2, <1>3, <1>4, <1>5, <1>6, <1>7, <1>8, InMemory

(* What a stage of a pass has at hand.                                     *)
LEMMA AtHand ==
  ASSUME IInv, pc \in StagePCs
  PROVE  /\ cur \in Settings /\ frame \in 1 .. MaxFrames /\ frame \in 0 .. MaxFrames
         /\ pass \in 1 .. cur.passes /\ pass \in 1 .. MaxPasses /\ pass \in 0 .. MaxPasses /\ pass \in Nat
         /\ cur.passes \in 1 .. MaxPasses /\ MaxPasses \in Nat
         /\ {cur.motion, cur.tuned, cur.colored} \subseteq BOOLEAN
         /\ mem \in [Memory -> Contents] /\ mem[Input] = Encoded(frame)
         /\ {Input, PassInput(pass)} \subseteq held
         /\ \A i \in 0 .. Steps : Stage(i) \in held
         /\ cur.motion => {Warped, Current, Previous, History(pass)} \subseteq held
<1>1. /\ cur \in Settings /\ frame \in 1 .. MaxFrames /\ pass \in 1 .. cur.passes /\ mem \in [Memory -> Contents]
      /\ mem[Input] = Encoded(frame) /\ Needed(cur) \subseteq held /\ {Input, Output} \subseteq held
      /\ cur.motion => configured /\ geo = cur
  BY DEF IInv, TypeOK, Settled, Owned, InTurn, Chained, InFrame, LatePCs, StagePCs
<1>2. /\ cur.passes \in 1 .. MaxPasses /\ MaxPasses \in Nat /\ {cur.motion, cur.tuned, cur.colored} \subseteq BOOLEAN
      /\ frame \in 0 .. MaxFrames
  BY <1>1, SettingsFacts, FramesAssumption
<1>3. cur.motion => {Warped, Current, Previous, History(pass)} \subseteq held
  BY <1>1, <1>2 DEF IInv, Owned, TemporalBuffers
<1>4. PassInput(pass) \in held
  BY <1>1, <1>2 DEF PassInput, Needed
<1>5. \A i \in 0 .. Steps : Stage(i) \in held
  <2>1. (\E i \in 0 .. Steps : i = 1) => Scratch \in held
    BY <1>1, <1>2 DEF Steps, Needed
  <2> QED
    BY <1>1, <1>3, <2>1 DEF Stage, Steps
<1> QED
  BY <1>1, <1>2, <1>3, <1>4, <1>5

(* One stage of a pass: a kernel that writes to a stage's buffer.          *)
LEMMA StageKeeps ==
  ASSUME IInv, pc \in StagePCs \ {"history", "answer"}, pc' \in {"tune", "colour", "answer"},
         NEW b \in {Scratch, Output, History(pass)},
         mem' \in [Memory -> Contents], \A d \in Memory : d # b => mem'[d] = mem[d],
         launched'.writes \in Memory, launched'.writes \notin launched'.reads, launched'.reads \subseteq Memory,
         launched'.reads \cup {launched'.writes} \subseteq held, busy' \in BOOLEAN,
         UNCHANGED <<cpu, frame, work, previous, host, heap, invalid, temporal, tainted, answered>>,
         pc' = "answer" /\ cur.motion => mem'[History(pass)] = Final(cur, frame, pass)
  PROVE  TypeOK' /\ Settled' /\ Owned' /\ InTurn' /\ Kept' /\ Continued'
<1>1. TypeOK'
  BY DEF IInv, TypeOK, work, heap, temporal
<1>2. Settled'
  BY DEF IInv, Settled, InFrame, work, heap, temporal, StagePCs
<1>3. Owned'
  BY DEF IInv, Owned, InFrame, Needed, Reserved, StagePCs, work, heap, temporal, TemporalBuffers
<1>4. InTurn' /\ Kept'
  BY DEF IInv, InTurn, Kept, EarlyPCs, LatePCs, StagePCs, work, heap, temporal
<1>5. Continued'
  <2>1. /\ pc \in LatePCs /\ pc' \in LatePCs /\ pc' # "network" /\ pc \notin {"pass", "end"}
        /\ pc' \notin {"decode", "finish"} /\ Passed = pass - 1
        /\ cur.motion => completed = pass
        /\ UNCHANGED <<cur, pass, frame, previous, completed, valid, answered>>
    BY DEF IInv, InTurn, LatePCs, StagePCs, Passed, work, temporal
  <2>2. /\ cur.passes \in 1 .. MaxPasses /\ MaxPasses \in Nat /\ pass \in 1 .. cur.passes
        /\ mem'[Previous] = mem[Previous] /\ mem'[Current] = mem[Current]
    BY AtHand, InMemory, Distinct
  <2>3. /\ cur.motion /\ valid => /\ answered.frame \in 1 .. MaxFrames
                                  /\ \A field \in Fields : answered.with[field] = cur[field]
                                  /\ mem'[Previous] = Luma(answered.frame)
                                  /\ \A p \in completed + 1 .. cur.passes : mem'[History(p)] = Final(cur, answered.frame, p)
        /\ valid => cur.motion
    <3>1. SUFFICES ASSUME valid PROVE /\ cur.motion
                                      /\ answered.frame \in 1 .. MaxFrames
                                      /\ \A field \in Fields : answered.with[field] = cur[field]
                                      /\ mem'[Previous] = Luma(answered.frame)
                                      /\ \A p \in completed + 1 .. cur.passes : mem'[History(p)] = Final(cur, answered.frame, p)
      OBVIOUS
    <3>2. /\ cur.motion
          /\ answered.frame \in 1 .. MaxFrames
          /\ \A field \in Fields : answered.with[field] = cur[field]
          /\ mem'[Previous] = Luma(answered.frame)
          /\ Left(cur, answered.frame, completed + 1 .. cur.passes)
      BY <2>1, <2>2, <3>1 DEF IInv, Continued
    <3>3. /\ completed + 1 .. cur.passes \in SUBSET (1 .. MaxPasses)
          /\ \A p \in completed + 1 .. cur.passes : History(p) # b
      BY <2>1, <2>2, <3>2, Distinct
    <3> QED
      BY <3>2, <3>3, InMemory DEF Left
  <2>4. cur.motion => mem'[Current] = Luma(frame) /\ \A p \in 1 .. Passed' : mem'[History(p)] = Final(cur, frame, p)
    <3>1. SUFFICES ASSUME cur.motion
                   PROVE  mem'[Current] = Luma(frame) /\ \A p \in 1 .. Passed' : mem'[History(p)] = Final(cur, frame, p)
      OBVIOUS
    <3>2. mem'[Current] = Luma(frame) /\ Left(cur, frame, 1 .. pass - 1)
      BY <2>1, <2>2, <3>1 DEF IInv, Continued
    <3>3. 1 .. pass - 1 \in SUBSET (1 .. MaxPasses) /\ \A p \in 1 .. pass - 1 : History(p) # b
      BY <2>2, Distinct
    <3>4. \A p \in 1 .. pass - 1 : mem'[History(p)] = Final(cur, frame, p)
      BY <3>2, <3>3, InMemory DEF Left
    <3>5. Passed' = pass - 1 \/ (Passed' = pass /\ pc' = "answer")
      BY <2>1 DEF Passed
    <3> QED
      BY <2>2, <3>1, <3>2, <3>4, <3>5
  <2>5. cur.motion => ~previous.motion
    BY <2>1 DEF IInv, Continued
  <2> QED
    BY <2>1, <2>3, <2>4, <2>5 DEF Continued, Left
<1> QED
  BY <1>1, <1>2, <1>3, <1>4, <1>5

LEMMA EvaluateStep == ASSUME IInv, Evaluate PROVE IInv'
<1> DEFINE b == Stage(0)
           reads == {PassInput(pass)} \cup (IF given THEN {Warped} ELSE {})
<1>1. pc = "network" /\ pc \in StagePCs /\ mem[PassInput(pass)] = PassContent(pass) /\ (given => cur.motion)
  BY DEF IInv, Chained, Continued, LatePCs, Evaluate, StagePCs
<1>2. /\ pc' = "tune" /\ busy' = TRUE /\ launched' = [reads |-> reads, writes |-> b]
      /\ mem' = [mem EXCEPT ![b] = Raw(frame, pass)]
      /\ UNCHANGED <<cpu, frame, work, previous, host, heap, invalid, temporal, tainted, answered>>
  BY <1>1 DEF Evaluate, Launch, From
<1>3. /\ b \in Memory /\ b \in {Output, Scratch, History(pass)} /\ reads \subseteq Memory /\ b \notin reads
      /\ reads \cup {b} \subseteq held /\ Raw(frame, pass) \in Contents /\ b \notin {Input, Feedback}
  <2>1. 0 \in 0 .. Steps
    BY <1>1, AtHand, StageFacts
  <2> QED
    BY <1>1, <2>1, AtHand, StageFacts, InMemory, Holding
<1>4. /\ mem' \in [Memory -> Contents] /\ mem'[b] = Raw(frame, pass)
      /\ \A d \in Memory : d # b => mem'[d] = mem[d]
  BY <1>1, <1>2, <1>3, AtHand
<1>5. TypeOK' /\ Settled' /\ Owned' /\ InTurn' /\ Kept' /\ Continued'
  <2> HIDE DEF b, reads
  <2> QED
    BY <1>1, <1>2, <1>3, <1>4, StageKeeps
<1>6. Chained'
  BY <1>1, <1>2, <1>3, <1>4, AtHand, StageFacts, InMemory
     DEF IInv, Chained, LatePCs, StagePCs, work, Stage, Steps, PassInput, PassContent
<1> QED
  BY <1>5, <1>6 DEF IInv

(* What was launched last is in use by nobody else.                        *)
LEMMA LastLaunch ==
  ASSUME IInv, pc \in StagePCs
  PROVE  /\ launched.writes \in Memory /\ launched.reads \subseteq Memory /\ launched.writes \notin launched.reads
         /\ launched.reads \cup {launched.writes} \subseteq held /\ busy \in BOOLEAN
BY AtHand DEF IInv, TypeOK, Owned, Nothing, StagePCs

LEMMA TuneStep == ASSUME IInv, Tune PROVE IInv'
<1>1. /\ pc = "tune" /\ pc \in StagePCs
      /\ mem[PassInput(pass)] = PassContent(pass) /\ mem[Stage(0)] = Raw(frame, pass)
  BY DEF IInv, Chained, Tune, StagePCs
<1>2. CASE ~cur.tuned
  <2>1. /\ pc' = "colour"
        /\ UNCHANGED <<mem, launched, busy, cpu, frame, work, previous, host, heap, invalid, temporal, tainted, answered>>
    BY <1>2 DEF Tune
  <2>2. TypeOK' /\ Settled' /\ Owned' /\ InTurn' /\ Kept' /\ Continued'
    BY <1>1, <2>1, LastLaunch, AtHand, StageKeeps
  <2>3. Chained'
    <3>1. Uncolored = 0 /\ Final([cur EXCEPT !.colored = FALSE], frame, pass) = Raw(frame, pass)
      BY <1>1, <1>2, AtHand, SettingsFacts DEF Uncolored, Final, Fields
    <3> QED
      BY <1>1, <1>2, <2>1, <3>1, AtHand
         DEF IInv, Chained, LatePCs, StagePCs, work, Stage, Steps, PassInput, PassContent, Uncolored
  <2> QED
    BY <2>2, <2>3 DEF IInv
<1>3. CASE cur.tuned
  <2> DEFINE b == Stage(1)
             reads == {PassInput(pass), Stage(0)}
  <2>1. /\ b \in Memory /\ b \in {Output, Scratch, History(pass)} /\ reads \subseteq Memory /\ b \notin reads
        /\ reads \cup {b} \subseteq held /\ Tuned(frame, pass) \in Contents /\ b \notin {Input, Feedback}
    <3>1. 0 \in 0 .. Steps /\ 1 \in 0 .. Steps /\ Stage(0) # Stage(1) /\ Stage(1) \notin {Input, Feedback}
      BY <1>1, <1>3, AtHand, StageFacts
    <3> QED
      BY <1>1, <3>1, AtHand, StageFacts, InMemory, Holding
  <2>2. /\ pc' = "colour" /\ busy' = TRUE /\ launched' = [reads |-> reads, writes |-> b]
        /\ mem' = [mem EXCEPT ![b] = Tuned(frame, pass)]
        /\ UNCHANGED <<cpu, frame, work, previous, host, heap, invalid, temporal, tainted, answered>>
    BY <1>1, <1>3, <2>1 DEF Tune, TuneReads, Launch, From
  <2>3. /\ mem' \in [Memory -> Contents] /\ mem'[b] = Tuned(frame, pass)
        /\ \A d \in Memory : d # b => mem'[d] = mem[d]
    BY <1>1, <2>1, <2>2, AtHand
  <2>4. TypeOK' /\ Settled' /\ Owned' /\ InTurn' /\ Kept' /\ Continued'
    <3> HIDE DEF b, reads
    <3> QED
      BY <1>1, <2>1, <2>2, <2>3, StageKeeps
  <2>5. Chained'
    <3>1. Uncolored = 1 /\ Final([cur EXCEPT !.colored = FALSE], frame, pass) = Tuned(frame, pass)
      BY <1>1, <1>3, AtHand, SettingsFacts DEF Uncolored, Final, Fields
    <3> QED
      BY <1>1, <1>3, <2>1, <2>2, <2>3, <3>1, AtHand, InMemory
         DEF IInv, Chained, LatePCs, StagePCs, work, Stage, Steps, PassInput, PassContent, Uncolored
  <2> QED
    BY <2>4, <2>5 DEF IInv
<1> QED
  BY <1>1, <1>2, <1>3, AtHand

LEMMA ColourStep == ASSUME IInv, Colour PROVE IInv'
<1>1. /\ pc = "colour" /\ pc \in StagePCs
      /\ mem[Stage(Uncolored)] = Final([cur EXCEPT !.colored = FALSE], frame, pass)
  BY DEF IInv, Chained, Colour, StagePCs
<1>2. CASE ~cur.colored
  <2>1. /\ pc' = "answer"
        /\ UNCHANGED <<mem, launched, busy, cpu, frame, work, previous, host, heap, invalid, temporal, tainted, answered>>
    BY <1>2 DEF Colour
  <2>2. AnswerBuffer = Stage(Uncolored) /\ mem[AnswerBuffer] = Final(cur, frame, pass)
    BY <1>1, <1>2, AtHand, StageFacts, SettingsFacts DEF AnswerBuffer, Final, Fields
  <2>3. cur.motion => mem'[History(pass)] = Final(cur, frame, pass)
    BY <1>1, <2>1, <2>2, AtHand, StageFacts DEF AnswerBuffer
  <2>4. TypeOK' /\ Settled' /\ Owned' /\ InTurn' /\ Kept' /\ Continued'
    BY <1>1, <2>1, <2>3, LastLaunch, AtHand, StageKeeps
  <2>5. Chained'
    BY <1>1, <2>1, <2>2, AtHand DEF IInv, Chained, LatePCs, StagePCs, work, AnswerBuffer, Stage, Steps
  <2> QED
    BY <2>4, <2>5 DEF IInv
<1>3. CASE cur.colored
  <2> DEFINE b == Stage(Uncolored + 1)
             reads == {Input, Stage(Uncolored)}
  <2>1. /\ b \in Memory /\ b \in {Output, Scratch, History(pass)} /\ reads \subseteq Memory /\ b \notin reads
        /\ reads \cup {b} \subseteq held /\ Colored(frame, pass) \in Contents /\ b # Input
        /\ AnswerBuffer = b /\ (cur.motion => b = History(pass))
    <3>1. /\ Uncolored \in 0 .. Steps /\ Uncolored + 1 \in 0 .. Steps /\ Steps = Uncolored + 1
          /\ Uncolored \in 0 .. 1 /\ Uncolored + 1 \in 1 .. 2
      BY <1>1, <1>3, AtHand, StageFacts
    <3>2. b # Stage(Uncolored) /\ b # Input /\ AnswerBuffer = b /\ (cur.motion => b = History(pass))
      BY <1>1, <3>1, AtHand, StageFacts DEF AnswerBuffer
    <3>3. /\ {b, Stage(Uncolored)} \subseteq held
          /\ {b, Stage(Uncolored)} \subseteq Memory /\ b \in {Output, Scratch, History(pass)}
      BY <1>1, <3>1, AtHand, StageFacts
    <3> QED
      BY <1>1, <3>2, <3>3, AtHand, InMemory, Holding
  <2>2. /\ pc' = "answer" /\ busy' = TRUE /\ launched' = [reads |-> reads, writes |-> b]
        /\ mem' = [mem EXCEPT ![b] = Colored(frame, pass)]
        /\ UNCHANGED <<cpu, frame, work, previous, host, heap, invalid, temporal, tainted, answered>>
    BY <1>1, <1>3, <2>1, AtHand DEF Colour, ColourReads, Launch, From
  <2>3. /\ mem' \in [Memory -> Contents] /\ mem'[b] = Colored(frame, pass)
        /\ \A d \in Memory : d # b => mem'[d] = mem[d]
    BY <1>1, <2>1, <2>2, AtHand
  <2>4. Final(cur, frame, pass) = Colored(frame, pass)
    BY <1>3 DEF Final
  <2>5. TypeOK' /\ Settled' /\ Owned' /\ InTurn' /\ Kept' /\ Continued'
    <3> HIDE DEF b, reads
    <3> QED
      BY <1>1, <2>1, <2>2, <2>3, <2>4, StageKeeps
  <2>6. Chained'
    BY <1>1, <2>1, <2>2, <2>3, <2>4, AtHand, InMemory
       DEF IInv, Chained, LatePCs, StagePCs, work, AnswerBuffer, Stage, Steps
  <2> QED
    BY <2>5, <2>6 DEF IInv
<1> QED
  BY <1>1, <1>2, <1>3, AtHand

LEMMA FinishPassStep == ASSUME IInv, FinishPass PROVE IInv'
<1>1. /\ pc = "answer" /\ pc \in StagePCs /\ mem[AnswerBuffer] = Final(cur, frame, pass)
      /\ AnswerBuffer \in Memory /\ AnswerBuffer' = AnswerBuffer
      /\ (cur.motion => AnswerBuffer = History(pass))
  <2>1. pc = "answer" /\ pc \in StagePCs /\ mem[AnswerBuffer] = Final(cur, frame, pass)
    BY DEF IInv, Chained, FinishPass, StagePCs
  <2>2. AnswerBuffer' = AnswerBuffer
    BY DEF FinishPass, AnswerBuffer, Stage, Steps
  <2> QED
    BY <2>1, <2>2, AtHand, StageFacts DEF AnswerBuffer
<1>2. /\ pc' \in {"pass", "end"} /\ (pc' = "end" <=> pass = cur.passes) /\ answer' = AnswerBuffer
      /\ IF cpu THEN host' = mem[AnswerBuffer] /\ ~busy' /\ busy' \in BOOLEAN ELSE UNCHANGED <<host, busy>>
      /\ UNCHANGED <<cpu, frame, cur, pass, given, previous, mem, launched, heap, invalid, temporal, tainted, answered>>
  BY <1>1 DEF FinishPass
<1>3. TypeOK'
  BY <1>1, <1>2, AtHand DEF IInv, TypeOK, heap, temporal
<1>4. Settled' /\ Owned'
  BY <1>1, <1>2 DEF IInv, Settled, Owned, InFrame, Needed, Reserved, heap, temporal, TemporalBuffers
<1>5. InTurn' /\ Kept'
  BY <1>1, <1>2, AtHand DEF IInv, InTurn, Kept, EarlyPCs, LatePCs, StagePCs, heap, temporal
<1>6. Chained'
  BY <1>1, <1>2 DEF IInv, Chained, LatePCs, StagePCs, heap, temporal
<1>7. Continued'
  <2>1. Passed = pass /\ Passed' = pass
    BY <1>1, <1>2 DEF Passed
  <2> QED
    BY <1>1, <1>2, <2>1 DEF IInv, Continued, Left, LatePCs, StagePCs, heap, temporal
<1> QED
  BY <1>3, <1>4, <1>5, <1>6, <1>7 DEF IInv

LEMMA TakeHistoryStep == ASSUME IInv, TakeHistory PROVE IInv'
<1>1. /\ pc = "history" /\ pc \in StagePCs /\ pc \in LatePCs
      /\ mem[PassInput(pass)] = PassContent(pass)
      /\ cur.motion => /\ pending /\ configured /\ geo = cur /\ completed = pass - 1
                       /\ mem[Current] = Luma(frame)
  BY DEF IInv, InTurn, Chained, Continued, TakeHistory, StagePCs, LatePCs
<1>2. completed \in Nat /\ (cur.motion => completed + 1 = pass)
  BY <1>1, AtHand DEF IInv, TypeOK
<1>3. cur.motion => InOrder
  BY <1>1, <1>2, AtHand DEF InOrder
<1>4. /\ pc' = "network" /\ given' = (cur.motion /\ valid)
      /\ completed' = IF cur.motion THEN pass ELSE completed
      /\ UNCHANGED <<cpu, frame, cur, pass, answer, previous, host, heap, invalid, tainted, answered>>
      /\ UNCHANGED <<geo, configured, valid, pending>>
  BY <1>1, <1>2, <1>3 DEF TakeHistory
<1>5. given' \in BOOLEAN
  BY <1>4, AtHand, <1>1 DEF IInv, TypeOK
<1>6. Passed = pass - 1 /\ Passed' = pass - 1
  BY <1>1, <1>4 DEF Passed
<1>7. CASE ~(cur.motion /\ valid)
  <2>1. UNCHANGED <<mem, launched, busy>>
    BY <1>1, <1>3, <1>4, <1>7 DEF TakeHistory
  <2>2. TypeOK'
    BY <1>1, <1>4, <1>5, <2>1, AtHand DEF IInv, TypeOK, heap
  <2>3. Settled' /\ Owned'
    BY <1>1, <1>4, <2>1 DEF IInv, Settled, Owned, InFrame, Needed, Reserved, heap, TemporalBuffers
  <2>4. InTurn' /\ Kept'
    BY <1>1, <1>2, <1>4, <2>1 DEF IInv, InTurn, Kept, EarlyPCs, LatePCs, StagePCs
  <2>5. Chained'
    BY <1>1, <1>4, <2>1, AtHand DEF IInv, Chained, LatePCs, StagePCs, PassInput, PassContent
  <2>6. Continued'
    BY <1>1, <1>4, <1>6, <1>7, <2>1 DEF IInv, Continued, Left, LatePCs, StagePCs
  <2> QED
    BY <2>2, <2>3, <2>4, <2>5, <2>6 DEF IInv
<1>8. CASE cur.motion /\ valid
  <2>1. /\ answered.frame \in 1 .. MaxFrames
        /\ \A field \in Fields : answered.with[field] = cur[field]
        /\ mem[Previous] = Luma(answered.frame)
        /\ Left(cur, answered.frame, completed + 1 .. cur.passes) /\ Left(cur, frame, 1 .. pass - 1)
        /\ ~previous.motion
    BY <1>1, <1>6, <1>8 DEF IInv, Continued
  <2>2. Before = answered.frame
    BY <2>1, OneLuma DEF Before
  <2>3. mem[History(pass)] \in {Raw(Before, pass), Tuned(Before, pass), Colored(Before, pass)}
    <3>1. pass \in completed + 1 .. cur.passes
      BY <1>1, <1>2, <1>8, AtHand
    <3> QED
      BY <2>1, <2>2, <3>1 DEF Left, Final
  <2> DEFINE reads == {Current, Previous, History(pass), PassInput(pass)}
             new == Past(answered.frame, pass)
  <2>4. /\ mem' = [mem EXCEPT ![Warped] = new] /\ busy' = TRUE
        /\ launched' = [reads |-> reads, writes |-> Warped]
    BY <1>1, <1>3, <1>4, <1>8, <2>2, <2>3 DEF TakeHistory, Launch, From
  <2>5. /\ reads \subseteq Memory /\ Warped \in Memory /\ Warped \notin reads /\ reads \cup {Warped} \subseteq held
        /\ new \in Contents
    <3>1. answered.frame \in 0 .. MaxFrames
      BY <2>1, FramesAssumption
    <3> QED
      BY <1>1, <1>8, <2>1, <3>1, AtHand, StageFacts, InMemory, Distinct, Holding
  <2>6. mem' \in [Memory -> Contents] /\ mem'[Warped] = new /\ \A d \in Memory : d # Warped => mem'[d] = mem[d]
    BY <1>1, <2>4, <2>5, AtHand
  <2> HIDE DEF reads, new
  <2>7. TypeOK'
    BY <1>1, <1>4, <1>5, <2>4, <2>5, <2>6, AtHand DEF IInv, TypeOK, heap
  <2>8. Settled'
    BY <1>1, <1>4 DEF IInv, Settled, InFrame
  <2>9. Owned'
    BY <1>1, <1>4, <2>4, <2>5 DEF IInv, Owned, InFrame, Needed, Reserved, heap, TemporalBuffers
  <2>10. InTurn' /\ Kept'
    BY <1>1, <1>2, <1>4, <2>4 DEF IInv, InTurn, Kept, EarlyPCs, LatePCs, StagePCs
  <2>11. Chained'
    BY <1>1, <1>4, <2>6, AtHand, StageFacts, InMemory, Distinct
       DEF IInv, Chained, LatePCs, StagePCs, PassInput, PassContent
  <2>12. Continued'
    <3>1. /\ mem'[Previous] = Luma(answered.frame)
          /\ mem'[Current] = Luma(frame) /\ mem'[Warped] = Past(answered.frame, pass)
      BY <1>1, <1>8, <2>1, <2>6, InMemory, Distinct DEF new
    <3>2. \A p \in 1 .. MaxPasses : mem'[History(p)] = mem[History(p)]
      BY <2>6, InMemory, Distinct
    <3>3. completed' = completed + 1 /\ completed' = pass /\ 1 .. pass - 1 \subseteq 1 .. MaxPasses
      BY <1>2, <1>4, <1>8, AtHand, <1>1
    <3>4. /\ \A p \in completed' + 1 .. cur.passes : mem'[History(p)] = Final(cur, answered.frame, p)
          /\ \A p \in 1 .. pass - 1 : mem'[History(p)] = Final(cur, frame, p)
      BY <1>1, <1>2, <2>1, <3>2, <3>3, AtHand DEF Left
    <3> QED
      BY <1>4, <1>6, <1>8, <2>1, <3>1, <3>4 DEF Continued, Left, LatePCs, StagePCs
  <2> QED
    BY <2>7, <2>8, <2>9, <2>10, <2>11, <2>12 DEF IInv
<1> QED
  BY <1>7, <1>8

(* What infer() returns to.                                                *)
LEMMA Back == /\ Output \in Memory /\ Nothing.writes = Output /\ Nothing.reads = {} /\ 0 \in 0 .. MaxPasses
BY InMemory, PassesAssumption DEF Nothing

(* A frame that fails leaves an engine that is only destroyed.             *)
LEMMA Failing ==
  ASSUME IInv, InFrame, Return("failed"),
         UNCHANGED <<cpu, frame, mem, host, previous, heap, busy, invalid, temporal, answered>>
  PROVE  IInv'
<1>1. /\ pc' = "failed" /\ cur' = NoSettings /\ pass' = 0 /\ answer' = Output /\ given' = FALSE
      /\ launched' = Nothing /\ tainted' = FALSE
  BY DEF Return
<1>2. TypeOK'
  BY <1>1, Back DEF IInv, TypeOK, heap, temporal
<1>3. Settled' /\ Owned'
  BY <1>1 DEF IInv, Settled, Owned, InFrame, Nothing, heap, temporal, TemporalBuffers
<1>4. InTurn' /\ Chained' /\ Kept' /\ Continued'
  BY <1>1 DEF IInv, InTurn, Chained, Kept, Continued, EarlyPCs, LatePCs, StagePCs
<1> QED
  BY <1>2, <1>3, <1>4 DEF IInv

LEMMA FailStep == ASSUME IInv, Fail PROVE IInv'
BY Failing DEF Fail

LEMMA EndTemporalStep == ASSUME IInv, EndTemporal PROVE IInv'
<1>1. /\ pc = "end" /\ pass = cur.passes /\ pending = cur.motion /\ (cpu => ~busy)
      /\ cur \in Settings /\ frame \in 1 .. MaxFrames /\ mem \in [Memory -> Contents]
      /\ answer = AnswerBuffer /\ (IF cpu THEN host ELSE mem[answer]) = Final(cur, frame, pass)
      /\ cur.motion => /\ configured /\ geo = cur /\ completed = geo.passes
                       /\ mem[Current] = Luma(frame) /\ Left(cur, frame, 1 .. cur.passes) /\ ~previous.motion
  BY DEF IInv, TypeOK, Settled, InTurn, Chained, Continued, Passed, EndTemporal, InFrame, LatePCs, StagePCs
<1>2. cur.motion \in BOOLEAN /\ cur.passes \in 1 .. MaxPasses /\ MaxPasses \in Nat
  BY <1>1, SettingsFacts
<1>3. /\ pc' = "decode"
      /\ UNCHANGED local
      /\ UNCHANGED <<cpu, frame, previous, host, heap, busy, invalid, geo, configured, completed, answered>>
      /\ IF cur.motion
         THEN /\ valid' = TRUE /\ pending' = FALSE
              /\ mem' = [mem EXCEPT ![Current] = mem[Previous], ![Previous] = mem[Current]]
         ELSE UNCHANGED <<valid, pending, mem>>
  BY <1>1 DEF EndTemporal
<1>4. /\ mem' \in [Memory -> Contents] /\ \A d \in Memory \ {Current, Previous} : mem'[d] = mem[d]
      /\ cur.motion => mem'[Previous] = Luma(frame)
  BY <1>1, <1>3, InMemory, Distinct
<1>5. answer \in Memory \ {Current, Previous} /\ AnswerBuffer' = AnswerBuffer
  <2>1. pass \in 1 .. cur.passes
    BY <1>1, <1>2
  <2>2. AnswerBuffer' = AnswerBuffer
    BY <1>3 DEF AnswerBuffer, Stage, Steps, local, work
  <2> QED
    BY <1>1, <2>1, <2>2, StageFacts DEF AnswerBuffer
<1>6. TypeOK'
  BY <1>3, <1>4 DEF IInv, TypeOK, local, work, heap
<1>7. Settled' /\ Owned'
  BY <1>1, <1>3 DEF IInv, Settled, Owned, InFrame, Needed, Reserved, local, work, heap, TemporalBuffers
<1>8. InTurn' /\ Kept'
  BY <1>1, <1>2, <1>3 DEF IInv, InTurn, Kept, EarlyPCs, LatePCs, StagePCs, local, work
<1>9. Chained'
  BY <1>1, <1>3, <1>4, <1>5 DEF IInv, Chained, LatePCs, StagePCs, local, work
<1>10. Continued'
  <2>1. cur.motion => \A p \in 1 .. cur.passes : mem'[History(p)] = Final(cur, frame, p)
    BY <1>1, <1>2, <1>4, InMemory, Distinct DEF Left
  <2>2. ~cur.motion => ~valid
    BY <1>1 DEF IInv, Continued, LatePCs
  <2> QED
    BY <1>1, <1>2, <1>3, <1>4, <2>1, <2>2 DEF Continued, Left, LatePCs, StagePCs, local, work
<1> QED
  BY <1>6, <1>7, <1>8, <1>9, <1>10 DEF IInv

(* A rejected frame leaves nothing that the next would take for history.   *)
LEMMA Rejecting ==
  ASSUME IInv, InFrame, Return("idle"), ~busy', ~pending, busy' \in BOOLEAN, invalid' \in BOOLEAN,
         valid /\ previous.motion => pc = "encode",
         UNCHANGED <<cpu, frame, mem, host, previous, heap, temporal, answered>>
  PROVE  IInv'
<1>1. /\ pc' = "idle" /\ cur' = NoSettings /\ pass' = 0 /\ answer' = Output /\ given' = FALSE
      /\ launched' = Nothing /\ tainted' = FALSE
  BY DEF Return
<1>2. TypeOK'
  BY <1>1, Back DEF IInv, TypeOK, heap, temporal
<1>3. Settled' /\ Owned'
  BY <1>1 DEF IInv, Settled, Owned, InFrame, Nothing, heap, temporal, TemporalBuffers
<1>4. InTurn' /\ Chained' /\ Kept' /\ Continued'
  BY <1>1 DEF IInv, InTurn, Chained, Kept, Continued, Left, EarlyPCs, LatePCs, StagePCs, temporal
<1> QED
  BY <1>2, <1>3, <1>4 DEF IInv

LEMMA DecodeStep == ASSUME IInv, NEW nonfinite \in BOOLEAN, Decode(nonfinite) PROVE IInv'
<1>1. /\ pc = "decode" /\ (cpu => ~busy) /\ ~pending /\ cpu \in BOOLEAN /\ invalid \in BOOLEAN /\ tainted \in BOOLEAN
      /\ busy \in BOOLEAN /\ InFrame /\ (valid => ~previous.motion) /\ (cpu => ~tainted) /\ (tainted => invalid)
  <2>1. pc = "decode" /\ InFrame /\ cur.motion \in BOOLEAN
    BY SettingsFacts DEF IInv, Settled, Decode, InFrame
  <2> QED
    BY <2>1 DEF IInv, TypeOK, InTurn, Continued
<1>2. CASE cpu /\ nonfinite
  BY <1>1, <1>2, Rejecting DEF Decode
<1>3. CASE ~(cpu /\ nonfinite)
  <2>1. /\ pc' = "finish" /\ busy' \in BOOLEAN
        /\ invalid' = (invalid \/ nonfinite) /\ tainted' = (tainted \/ nonfinite)
        /\ UNCHANGED <<work, launched>>
        /\ UNCHANGED <<cpu, frame, mem, host, previous, heap, temporal, answered>>
    BY <1>1, <1>3 DEF Decode, Recorded
  <2>2. TypeOK'
    BY <1>1, <2>1 DEF IInv, TypeOK, work, heap, temporal
  <2>3. Settled' /\ Owned'
    BY <1>1, <2>1 DEF IInv, Settled, Owned, InFrame, Needed, Reserved, work, heap, temporal, TemporalBuffers
  <2>4. InTurn'
    <3>1. cpu' => ~tainted'
      BY <1>1, <1>3, <2>1
    <3>2. tainted' => invalid'
      BY <1>1, <2>1
    <3> QED
      BY <1>1, <2>1, <3>1, <3>2 DEF InTurn, EarlyPCs, LatePCs, StagePCs, work, temporal
  <2>5. Chained' /\ Kept' /\ Continued'
    BY <1>1, <2>1 DEF IInv, Chained, Kept, Continued, Left, EarlyPCs, LatePCs, StagePCs, work, temporal
  <2> QED
    BY <2>2, <2>3, <2>4, <2>5 DEF IInv
<1> QED
  BY <1>2, <1>3

LEMMA FinishStep == ASSUME IInv, Finish PROVE IInv'
<1>1. /\ pc = "finish" /\ InFrame /\ ~pending /\ invalid \in BOOLEAN /\ cur \in Settings /\ cur.motion \in BOOLEAN
      /\ frame \in 1 .. MaxFrames /\ (cur.motion => ~previous.motion)
      /\ IF cur.motion
         THEN valid /\ configured /\ geo = cur /\ mem[Previous] = Luma(frame) /\ Left(cur, frame, 1 .. cur.passes)
         ELSE ~valid
  <2>1. pc = "finish" /\ InFrame /\ cur \in Settings /\ cur.motion \in BOOLEAN
    BY SettingsFacts DEF IInv, Settled, Finish, InFrame
  <2> QED
    BY <2>1 DEF IInv, TypeOK, Settled, InTurn, Continued
<1>2. CASE invalid /\ ~cpu
  BY <1>1, <1>2, Rejecting DEF Finish
<1>3. CASE ~(invalid /\ ~cpu)
  <2>1. /\ pc' = "idle" /\ cur' = NoSettings /\ pass' = 0 /\ answer' = Output /\ given' = FALSE
        /\ launched' = Nothing /\ tainted' = FALSE /\ busy' = FALSE
        /\ previous' = cur /\ answered' = [frame |-> frame, with |-> cur]
        /\ UNCHANGED <<cpu, frame, mem, host, heap, invalid, temporal>>
    BY <1>3 DEF Finish, Return
  <2>2. TypeOK'
    <3>1. answered'.frame \in 0 .. MaxFrames
      BY <1>1, <2>1, FramesAssumption
    <3> QED
      BY <2>1, <3>1, Back DEF IInv, TypeOK, heap, temporal
  <2>3. Settled' /\ Owned'
    <3>1. "motion" \in DOMAIN cur
      BY <1>1, SettingsFacts DEF Fields
    <3> QED
      BY <1>1, <2>1, <3>1 DEF IInv, Settled, Owned, InFrame, Nothing, heap, temporal, TemporalBuffers
  <2>4. InTurn' /\ Chained' /\ Kept' /\ Continued'
    BY <1>1, <2>1 DEF IInv, InTurn, Chained, Kept, Continued, Left, EarlyPCs, LatePCs, StagePCs, temporal
  <2> QED
    BY <2>2, <2>3, <2>4 DEF IInv
<1> QED
  BY <1>2, <1>3

(* Whatever is allocated is one of the engine's allocations.               *)
LEMMA Allocated ==
  /\ \A passes \in 1 .. MaxPasses : TemporalBuffers(passes) \subseteq Everything \cap TemporalBuffers(MaxPasses)
  /\ {Network, Module, Status, Proxy, Input, Output, Feedback, Scratch} \subseteq Everything
  /\ \A n \in 1 .. 2 : Pinned(n) \subseteq Everything
  /\ \A s \in Imports : Pairs(s) \subseteq Everything
<1>1. \A passes \in 1 .. MaxPasses : TemporalBuffers(passes) \subseteq TemporalBuffers(MaxPasses)
  BY PassesAssumption DEF TemporalBuffers
<1>2. TemporalBuffers(MaxPasses) \subseteq Everything /\ {Input, Output, Feedback, Scratch} \subseteq Everything
  BY DEF Everything, Memory
<1>3. {Network, Module, Status, Proxy} \subseteq Everything
  BY DEF Everything
<1>4. \A n \in 1 .. 2 : Pinned(n) \subseteq Everything
  BY DEF Everything
<1>5. \A s \in Imports : Pairs(s) \subseteq Everything
  BY DEF Everything
<1> QED
  BY <1>1, <1>2, <1>3, <1>4, <1>5

LEMMA EncodeStep == ASSUME IInv, NEW nonfinite \in BOOLEAN, Encode(nonfinite) PROVE IInv'
<1>1. /\ pc = "encode" /\ InFrame /\ ~busy /\ ~pending /\ busy \in BOOLEAN /\ invalid \in BOOLEAN
      /\ cur \in Settings /\ frame \in 1 .. MaxFrames /\ frame \in 0 .. MaxFrames /\ mem \in [Memory -> Contents]
      /\ {Input, Output} \subseteq held /\ pass = 0 /\ cpu \in BOOLEAN
  <2>1. pc = "encode" /\ InFrame
    BY DEF Encode, InFrame
  <2> QED
    BY <2>1, FramesAssumption DEF IInv, TypeOK, Settled, Owned, InTurn, EarlyPCs
<1>2. CASE cpu /\ nonfinite
  BY <1>1, <1>2, Rejecting DEF Encode
<1>3. CASE ~(cpu /\ nonfinite)
  <2>1. /\ pc' = "begin" /\ busy' = TRUE /\ launched' = [reads |-> {}, writes |-> Input]
        /\ mem' = [mem EXCEPT ![Input] = Encoded(frame)]
        /\ invalid' = nonfinite /\ tainted' = nonfinite
        /\ UNCHANGED work /\ UNCHANGED <<cpu, frame, host, previous, heap, temporal, answered>>
    BY <1>3 DEF Encode, Launch
  <2>2. 0 \in 0 .. MaxPasses /\ Encoded(frame) \in Contents
    BY <1>1, PassesAssumption, Holding
  <2>3. /\ mem' \in [Memory -> Contents] /\ mem'[Input] = Encoded(frame)
        /\ \A d \in Memory : d # Input => mem'[d] = mem[d]
    BY <1>1, <2>1, <2>2, InMemory
  <2>4. TypeOK'
    BY <2>1, <2>3, InMemory DEF IInv, TypeOK, work, heap, temporal
  <2>5. Settled' /\ Owned'
    BY <1>1, <2>1 DEF IInv, Settled, Owned, InFrame, Needed, Reserved, work, heap, temporal, TemporalBuffers
  <2>6. InTurn'
    BY <1>1, <1>3, <2>1 DEF IInv, InTurn, EarlyPCs, LatePCs, StagePCs, work, temporal
  <2>7. Chained' /\ Continued'
    BY <1>1, <2>1, <2>3 DEF Chained, Continued, LatePCs, StagePCs
  <2>8. Kept'
    <3>1. mem'[Previous] = mem[Previous] /\ \A p \in 1 .. MaxPasses : mem'[History(p)] = mem[History(p)]
      BY <2>3, InMemory, Distinct
    <3>2. previous.motion => 1 .. previous.passes \subseteq 1 .. MaxPasses
      BY SettingsFacts DEF IInv, Settled
    <3> QED
      BY <1>1, <2>1, <3>1, <3>2 DEF IInv, Kept, Left, EarlyPCs, temporal
  <2> QED
    BY <2>4, <2>5, <2>6, <2>7, <2>8 DEF IInv
<1> QED
  BY <1>2, <1>3

LEMMA StillStep == ASSUME IInv, Still PROVE IInv'
<1>1. /\ pc = "begin" /\ ~cur.motion /\ pass = 0 /\ cur \in Settings /\ mem[Input] = Encoded(frame)
      /\ cur.passes \in 1 .. MaxPasses /\ MaxPasses \in Nat
  <2>1. pc = "begin" /\ cur \in Settings
    BY DEF IInv, Still, Settled, InFrame
  <2> QED
    BY <2>1, SettingsFacts DEF IInv, InTurn, Chained, Still
<1>2. /\ pc' = "pass" /\ valid' = FALSE /\ pending' = FALSE /\ completed' = 0
      /\ UNCHANGED <<cpu, frame, work, previous, buffers, heap, busy, invalid, geo, configured, tainted, answered>>
  BY DEF Still
<1>3. TypeOK'
  BY <1>1, <1>2, Back DEF IInv, TypeOK, work, buffers, heap
<1>4. Settled' /\ Owned'
  BY <1>1, <1>2 DEF IInv, Settled, Owned, InFrame, Needed, Reserved, work, buffers, heap, TemporalBuffers
<1>5. InTurn' /\ Chained' /\ Kept' /\ Continued'
  <2>1. 0 \in 0 .. cur.passes - 1 /\ 1 .. 0 = {} /\ cur.motion' = FALSE
    BY <1>1, <1>2, SettingsFacts DEF work
  <2>2. InTurn' /\ Kept'
    BY <1>1, <1>2, <2>1 DEF IInv, InTurn, Kept, EarlyPCs, LatePCs, StagePCs, work
  <2>3. Chained'
    BY <1>1, <1>2 DEF Chained, LatePCs, StagePCs, work, buffers
  <2>4. Continued'
    BY <1>1, <1>2, <2>1 DEF Continued, LatePCs, StagePCs, work
  <2> QED
    BY <2>2, <2>3, <2>4
<1> QED
  BY <1>3, <1>4, <1>5 DEF IInv

LEMMA BeginStep == ASSUME IInv, Begin PROVE IInv'
<1>1. /\ pc = "begin" /\ cur.motion /\ cur.motion \in BOOLEAN /\ pass = 0 /\ cur \in Settings /\ ~pending
      /\ frame \in 1 .. MaxFrames /\ frame \in 0 .. MaxFrames
      /\ mem \in [Memory -> Contents] /\ mem[Input] = Encoded(frame)
      /\ cur.passes \in 1 .. MaxPasses /\ MaxPasses \in Nat
      /\ "motion" \in DOMAIN previous /\ previous.motion \in BOOLEAN /\ configured \in BOOLEAN /\ valid \in BOOLEAN
      /\ {Network, Input, Output} \subseteq held /\ Needed(cur) \subseteq held /\ live = held
      /\ held \subseteq Everything
  <2>1. pc = "begin" /\ cur \in Settings
    BY DEF IInv, Begin, Settled, InFrame
  <2> QED
    BY <2>1, SettingsFacts, FramesAssumption
       DEF IInv, TypeOK, Settled, Owned, InTurn, Chained, Begin, EarlyPCs, InFrame
<1>2. /\ pc' = "pass" /\ geo' = cur /\ pending' = TRUE /\ completed' = 0 /\ busy' = TRUE
      /\ launched' = [reads |-> {Input}, writes |-> Current]
      /\ mem' = [mem EXCEPT ![Current] = Luma(frame)]
      /\ Configure /\ previous' = [previous EXCEPT !.motion = FALSE]
      /\ UNCHANGED <<work, tainted>> /\ UNCHANGED <<cpu, frame, host, invalid, answered>>
  BY <1>1 DEF Begin, Launch, From
<1>3. Luma(frame) \in Contents
  BY <1>1, Back, Holding
<1>4. /\ mem' \in [Memory -> Contents] /\ mem'[Current] = Luma(frame)
      /\ \A d \in Memory : d # Current => mem'[d] = mem[d]
  BY <1>1, <1>2, <1>3, InMemory
<1>5. "motion" \in DOMAIN previous' /\ previous'.motion = FALSE
  BY <1>1, <1>2
<1>6. /\ configured' = TRUE /\ held' \subseteq Everything /\ live' = held'
      /\ {Network, Input, Output} \subseteq held' /\ Needed(cur) \subseteq held' /\ TemporalBuffers(cur.passes) \subseteq held'
      /\ valid' \in BOOLEAN
      /\ valid' => /\ configured /\ Sizes(geo) = Sizes(cur) /\ valid /\ ~Moved /\ ~Differs
  <2>1. CASE configured /\ Sizes(geo) = Sizes(cur)
    <3>1. geo.passes = cur.passes
      BY <2>1 DEF Sizes
    <3>2. /\ configured' = configured /\ held' = held /\ live' = live /\ valid' = (valid /\ ~Moved /\ ~Differs)
      BY <1>2, <2>1 DEF Configure, heap
    <3>3. TemporalBuffers(cur.passes) \subseteq held
      BY <2>1, <3>1 DEF IInv, Owned
    <3> QED
      BY <1>1, <2>1, <3>2, <3>3
  <2>2. CASE ~(configured /\ Sizes(geo) = Sizes(cur))
    <3>1. /\ held' = (held \ OldBuffers) \cup TemporalBuffers(cur.passes)
          /\ live' = (live \ OldBuffers) \cup TemporalBuffers(cur.passes)
          /\ configured' = TRUE /\ valid' = FALSE
      BY <1>2, <2>2 DEF Configure
    <3>2. OldBuffers \cap {Network, Module, Status, Proxy, Input, Output, Feedback, Scratch} = {}
      BY Others DEF OldBuffers
    <3>3. Needed(cur) \subseteq {Scratch, Feedback, Proxy}
      BY DEF Needed, Reserved
    <3> QED
      BY <1>1, <3>1, <3>2, <3>3, Allocated
  <2> QED
    BY <2>1, <2>2
<1>7. TypeOK'
  BY <1>1, <1>2, <1>4, <1>6, Back, InMemory DEF IInv, TypeOK, work
<1>8. Settled'
  BY <1>1, <1>2, <1>5 DEF IInv, Settled, InFrame, work
<1>9. Owned'
  <2>1. Current \in held' /\ Current # Input
    BY <1>6, Distinct DEF TemporalBuffers
  <2>2. Needed(cur)' = Needed(cur) /\ TemporalBuffers(geo.passes)' = TemporalBuffers(cur.passes)
    BY <1>2 DEF Needed, Reserved, TemporalBuffers, work
  <2> QED
    BY <1>1, <1>2, <1>6, <2>1, <2>2 DEF Owned, InFrame
<1>10. InTurn' /\ Chained'
  <2>1. 0 \in 0 .. cur.passes - 1 /\ Input # Current /\ Input \in Memory
    BY <1>1, Distinct, InMemory
  <2>2. InTurn'
    <3>1. pending' = cur.motion'
      BY <1>1, <1>2 DEF work
    <3> QED
      BY <1>1, <1>2, <1>6, <2>1, <3>1 DEF IInv, InTurn, EarlyPCs, LatePCs, StagePCs, work
  <2>3. Chained'
    BY <1>1, <1>2, <1>4, <2>1 DEF Chained, LatePCs, StagePCs, work
  <2> QED
    BY <2>2, <2>3
<1>11. Kept'
  BY <1>2 DEF Kept, EarlyPCs
<1>12. Continued'
  <2>1. ASSUME valid'
        PROVE  /\ answered.frame \in 1 .. MaxFrames
               /\ \A field \in Fields : answered.with[field] = cur[field]
               /\ mem'[Previous] = Luma(answered.frame)
               /\ \A p \in 1 .. cur.passes : mem'[History(p)] = Final(cur, answered.frame, p)
    <3>1. /\ previous.motion = cur.motion /\ previous.tuned = cur.tuned /\ previous.colored = cur.colored
          /\ previous.look = cur.look
      BY <1>1, <1>6, <2>1 DEF Differs
    <3>2. /\ answered.frame \in 1 .. MaxFrames /\ answered.with = previous /\ geo = previous
          /\ mem[Previous] = Luma(answered.frame)
          /\ Left(previous, answered.frame, 1 .. previous.passes)
      BY <1>1, <1>6, <2>1, <3>1 DEF IInv, Kept, EarlyPCs
    <3>3. previous.shape = cur.shape /\ previous.passes = cur.passes /\ previous.place = cur.place
      BY <1>6, <2>1, <3>2 DEF Sizes, Moved
    <3>4. \A p : Final(previous, answered.frame, p) = Final(cur, answered.frame, p)
      BY <3>1 DEF Final
    <3>5. \A p \in 1 .. cur.passes : mem'[History(p)] = mem[History(p)]
      BY <1>1, <1>4, InMemory, Distinct
    <3>6. mem'[Previous] = mem[Previous]
      BY <1>4, InMemory, Distinct
    <3>7. \A p \in 1 .. cur.passes : mem[History(p)] = Final(previous, answered.frame, p)
      BY <3>2, <3>3 DEF Left
    <3> QED
      BY <3>1, <3>2, <3>3, <3>4, <3>5, <3>6, <3>7 DEF Fields
  <2>2. Passed' = 0 /\ completed' + 1 = 1 /\ 1 .. 0 = {}
    BY <1>1, <1>2 DEF Passed, work
  <2> QED
    BY <1>1, <1>2, <1>4, <1>5, <2>1, <2>2 DEF Continued, Left, LatePCs, StagePCs, work
<1> QED
  BY <1>7, <1>8, <1>9, <1>10, <1>11, <1>12 DEF IInv

LEMMA StartPassStep == ASSUME IInv, NEW nonfinite \in BOOLEAN, StartPass(nonfinite) PROVE IInv'
<1>1. /\ pc = "pass" /\ InFrame /\ cur \in Settings /\ pass \in 0 .. cur.passes - 1 /\ pass \in Nat
      /\ frame \in 1 .. MaxFrames /\ frame \in 0 .. MaxFrames /\ cpu \in BOOLEAN /\ invalid \in BOOLEAN
      /\ cur.passes \in 1 .. MaxPasses /\ MaxPasses \in Nat /\ mem \in [Memory -> Contents]
      /\ mem[Input] = Encoded(frame) /\ tainted \in BOOLEAN /\ (tainted => invalid) /\ (cpu => ~tainted)
      /\ pending = cur.motion /\ (cur.motion => configured /\ geo = cur /\ completed = pass)
  <2>1. pc = "pass" /\ cur \in Settings
    BY DEF IInv, StartPass, Settled, InFrame
  <2>2. cur.passes \in 1 .. MaxPasses /\ MaxPasses \in Nat
    BY <2>1, SettingsFacts
  <2> QED
    BY <2>1, <2>2, FramesAssumption DEF IInv, TypeOK, Settled, InTurn, Chained, InFrame, LatePCs
<1>2. CASE pass = 0
  <2>1. /\ pc' = "history" /\ pass' = 1
        /\ UNCHANGED <<cur, answer, given, mem, launched, busy, invalid, tainted>>
        /\ UNCHANGED <<cpu, frame, host, previous, heap, temporal, answered>>
    BY <1>2 DEF StartPass
  <2>2. 1 \in 1 .. cur.passes /\ 1 \in 0 .. MaxPasses
    BY <1>1
  <2>3. TypeOK'
    BY <2>1, <2>2 DEF IInv, TypeOK, heap, temporal
  <2>4. Settled' /\ Owned'
    BY <1>1, <2>1 DEF IInv, Settled, Owned, InFrame, Needed, Reserved, heap, temporal, TemporalBuffers
  <2>5. InTurn' /\ Kept'
    BY <1>1, <1>2, <2>1, <2>2 DEF IInv, InTurn, Kept, EarlyPCs, LatePCs, StagePCs, temporal
  <2>6. Chained'
    BY <1>1, <2>1 DEF Chained, LatePCs, StagePCs, PassInput, PassContent
  <2>7. Continued'
    <3>1. Passed' = 0 /\ Passed = 0
      BY <1>1, <1>2, <2>1 DEF Passed
    <3> QED
      BY <1>1, <2>1, <3>1 DEF IInv, Continued, Left, LatePCs, StagePCs, temporal
  <2> QED
    BY <2>3, <2>4, <2>5, <2>6, <2>7 DEF IInv
<1>3. CASE pass > 0
  <2>1. /\ answer = AnswerBuffer /\ (IF cpu THEN host ELSE mem[answer]) = Final(cur, frame, pass)
        /\ pass \in 1 .. cur.passes
    BY <1>1, <1>3 DEF IInv, Chained
  <2>2. AnswerBuffer # Feedback /\ AnswerBuffer \in Memory /\ AnswerBuffer \in held
    <3>1. /\ {Input, Output} \subseteq held /\ Needed(cur) \subseteq held
          /\ cur.motion => TemporalBuffers(cur.passes) \subseteq held
      BY <1>1 DEF IInv, Owned, InFrame
    <3>2. cur.motion \in BOOLEAN /\ Steps \in 0 .. 2 /\ (Steps = 1 => cur.tuned \/ cur.colored)
      BY <1>1, SettingsFacts DEF Steps
    <3>3. AnswerBuffer = IF cur.motion THEN History(pass) ELSE IF Steps = 1 THEN Scratch ELSE Output
      BY DEF AnswerBuffer, Stage
    <3>4. pass \in 1 .. MaxPasses
      BY <1>1, <2>1
    <3> QED
      BY <2>1, <3>1, <3>2, <3>3, <3>4, InMemory, Distinct DEF Needed, TemporalBuffers
  <2>3. CASE cpu /\ nonfinite
    BY <1>1, <1>3, <2>3, Failing DEF StartPass
  <2>4. CASE ~(cpu /\ nonfinite)
    <3>1. /\ pc' = "history" /\ pass' = pass + 1 /\ busy' = TRUE
          /\ launched' = [reads |-> {AnswerBuffer}, writes |-> Feedback]
          /\ mem' = [mem EXCEPT ![Feedback] = Fed(frame, pass + 1)]
          /\ invalid' = (invalid \/ nonfinite) /\ tainted' = (tainted \/ nonfinite)
          /\ UNCHANGED <<cur, answer, given>>
          /\ UNCHANGED <<cpu, frame, host, previous, heap, temporal, answered>>
      BY <1>1, <1>3, <2>1, <2>2, <2>4 DEF StartPass, Launch, From, Recorded
    <3>2. /\ pass + 1 \in 1 .. cur.passes /\ pass + 1 \in 0 .. MaxPasses /\ cur.passes > 1 /\ pass + 1 # 1
          /\ (pass + 1) - 1 = pass
      BY <1>1, <1>3
    <3>3. Fed(frame, pass + 1) \in Contents /\ Feedback \in Memory /\ Feedback \in held
      <4>1. Feedback \in held
        BY <1>1, <3>2 DEF IInv, Owned, Needed, InFrame
      <4> QED
        BY <1>1, <3>2, <4>1, Holding, InMemory
    <3>4. /\ mem' \in [Memory -> Contents] /\ mem'[Feedback] = Fed(frame, pass + 1)
          /\ \A d \in Memory : d # Feedback => mem'[d] = mem[d]
      BY <1>1, <3>1, <3>3
    <3>5. TypeOK'
      BY <1>1, <2>2, <3>1, <3>2, <3>3, <3>4 DEF IInv, TypeOK, heap, temporal
    <3>6. Settled'
      BY <1>1, <3>1 DEF IInv, Settled, InFrame, temporal
    <3>7. Owned'
      BY <1>1, <2>2, <3>1, <3>3 DEF IInv, Owned, InFrame, Needed, Reserved, heap, temporal, TemporalBuffers
    <3>8. InTurn'
      <4>1. (cpu' => ~tainted') /\ (tainted' => invalid')
        BY <1>1, <2>4, <3>1
      <4> QED
        BY <1>1, <3>1, <3>2, <4>1 DEF InTurn, EarlyPCs, LatePCs, StagePCs, temporal
    <3>9. Chained'
      <4>1. /\ mem'[Input] = Encoded(frame)
            /\ PassInput(pass + 1) = Feedback /\ PassContent(pass + 1) = Fed(frame, pass + 1)
        BY <1>1, <3>2, <3>4, InMemory, Distinct DEF PassInput, PassContent
      <4>2. PassInput(pass)' = PassInput(pass + 1) /\ PassContent(pass)' = PassContent(pass + 1)
        BY <3>1 DEF PassInput, PassContent
      <4> QED
        BY <3>1, <3>4, <4>1, <4>2 DEF Chained, LatePCs, StagePCs
    <3>10. Kept'
      BY <3>1 DEF Kept, EarlyPCs
    <3>11. Continued'
      <4>1. Passed = pass /\ Passed' = pass
        BY <1>1, <3>1, <3>2 DEF Passed
      <4>2. /\ mem'[Current] = mem[Current] /\ mem'[Previous] = mem[Previous]
            /\ \A p \in 1 .. MaxPasses : mem'[History(p)] = mem[History(p)]
        BY <3>4, InMemory, Distinct
      <4>3. /\ completed + 1 .. cur.passes \subseteq 1 .. MaxPasses
            /\ 1 .. pass \subseteq 1 .. MaxPasses
        BY <1>1 DEF IInv, TypeOK
      <4> QED
        BY <1>1, <3>1, <4>1, <4>2, <4>3 DEF IInv, Continued, Left, LatePCs, StagePCs, temporal
    <3> QED
      BY <3>5, <3>6, <3>7, <3>8, <3>9, <3>10, <3>11 DEF IInv
  <2> QED
    BY <2>3, <2>4
<1> QED
  BY <1>1, <1>2, <1>3

LEMMA RefuseStep == ASSUME IInv, Refuse PROVE IInv'
<1>1. /\ pc = "idle" /\ frame' \in 0 .. MaxFrames
      /\ UNCHANGED <<pc, cpu, work, previous, buffers, heap, busy, invalid, temporal, tainted, answered>>
  BY FramesAssumption DEF IInv, TypeOK, Refuse
<1>2. TypeOK'
  BY <1>1 DEF IInv, TypeOK, work, buffers, heap, temporal
<1>3. Settled' /\ Owned'
  BY <1>1 DEF IInv, Settled, Owned, InFrame, work, buffers, heap, temporal, TemporalBuffers
<1>4. InTurn' /\ Chained' /\ Kept' /\ Continued'
  BY <1>1 DEF IInv, InTurn, Chained, Kept, Continued, Left, EarlyPCs, LatePCs, StagePCs, work, buffers, temporal
<1> QED
  BY <1>2, <1>3, <1>4 DEF IInv

LEMMA StartFrameStep == ASSUME IInv, NEW s \in Settings, StartFrame(s) PROVE IInv'
<1>1. /\ pc = "idle" /\ pc' = "encode" /\ frame' \in 1 .. MaxFrames /\ frame' \in 0 .. MaxFrames
      /\ cur' = s /\ pass' = 0 /\ tainted' = FALSE
      /\ live' = live \cup Needed(s) /\ held' = held \cup Needed(s)
      /\ UNCHANGED <<cpu, answer, given, previous, buffers, busy, invalid, temporal, answered>>
  BY FramesAssumption DEF IInv, TypeOK, StartFrame, Allocate
<1>2. Needed(s) \subseteq Everything /\ Needed(cur)' = Needed(s)
  <2>1. Needed(s) \subseteq {Scratch, Feedback, Proxy}
    BY DEF Needed, Reserved
  <2> QED
    BY <1>1, <2>1, Allocated DEF Needed, Reserved
<1>3. TypeOK'
  BY <1>1, <1>2, Back DEF IInv, TypeOK, buffers, temporal
<1>4. Settled'
  BY <1>1 DEF IInv, Settled, temporal
<1>5. Owned'
  BY <1>1, <1>2 DEF IInv, Owned, InFrame, buffers, temporal, TemporalBuffers
<1>6. InTurn' /\ Chained' /\ Kept' /\ Continued'
  BY <1>1 DEF IInv, InTurn, Chained, Kept, Continued, Left, EarlyPCs, LatePCs, StagePCs, buffers, temporal
<1> QED
  BY <1>3, <1>4, <1>5, <1>6 DEF IInv

(* Importing and pinning change only their own allocations.                *)
LEMMA Exchanging ==
  ASSUME IInv, pc = "idle", NEW old, NEW new \in SUBSET Everything,
         old \cap (Memory \cup {Network, Module, Status, Proxy}) = {},
         held' = (held \ old) \cup new, live' = held',
         UNCHANGED <<pc, cpu, frame, work, previous, buffers, busy, invalid, temporal, tainted, answered>>
  PROVE  IInv'
<1>1. TypeOK' /\ Settled'
  BY DEF IInv, TypeOK, Settled, InFrame, work, buffers, temporal
<1>2. InTurn' /\ Chained' /\ Kept' /\ Continued'
  BY DEF IInv, InTurn, Chained, Kept, Continued, Left, EarlyPCs, LatePCs, StagePCs, work, buffers, temporal
<1>3. Owned'
  <2>1. {Network, Input, Output} \cap old = {}
    BY InMemory
  <2>2. configured => TemporalBuffers(geo.passes) \subseteq held'
    <3>1. configured => TemporalBuffers(geo.passes) \subseteq held /\ geo.passes \in 1 .. MaxPasses
      BY SettingsFacts DEF IInv, Settled, Owned
    <3>2. TemporalBuffers(MaxPasses) \subseteq Memory
      BY DEF Memory
    <3> QED
      BY <3>1, <3>2, Allocated
  <2> QED
    BY <2>1, <2>2 DEF IInv, Owned, InFrame, buffers, temporal, TemporalBuffers
<1> QED
  BY <1>1, <1>2, <1>3 DEF IInv

LEMMA ImportStep == ASSUME IInv, NEW s \in Imports, Import(s) PROVE IInv'
<1>1. PICK pair \in Pairs(s) : /\ live' = (live \ Replaced(s)) \cup {pair} /\ held' = (held \ Pairs(s)) \cup {pair}
                               /\ pc = "idle"
                               /\ UNCHANGED <<pc, cpu, frame, work, previous, buffers, busy, invalid, temporal, tainted, answered>>
  BY DEF Import
<1>2. live' = held' /\ {pair} \in SUBSET Everything
  BY <1>1, Allocated DEF IInv, Owned, Replaced
<1> QED
  BY <1>1, <1>2, Others, Exchanging

LEMMA PinStep == ASSUME IInv, NEW size \in 1 .. 2, Pin(size) PROVE IInv'
<1>1. PICK ranges \in {Pinned(size), {}} :
        /\ held' = (held \ PinnedNow) \cup ranges /\ live' = (live \ PinnedNow) \cup ranges
        /\ pc = "idle"
        /\ UNCHANGED <<pc, cpu, frame, work, previous, buffers, busy, invalid, temporal, tainted, answered>>
  BY DEF Pin
<1>2. live' = held' /\ ranges \in SUBSET Everything
  BY <1>1, Allocated DEF IInv, Owned
<1>3. PinnedNow \cap (Memory \cup {Network, Module, Status, Proxy}) = {}
  BY Others DEF PinnedNow
<1> QED
  BY <1>1, <1>2, <1>3, Exchanging

LEMMA PrepareStep == ASSUME IInv, Prepare PROVE IInv'
<1>1. PICK n \in 0 .. Len(Parts) :
        /\ pc = "down" /\ held' = held \cup Made(n) /\ live' = live \cup Made(n)
        /\ pc' = "failed" \/ (n = Len(Parts) /\ pc' = "idle")
        /\ UNCHANGED <<cpu, frame, work, previous, buffers, busy, invalid, temporal, tainted, answered>>
  BY DEF Prepare, Allocate
<1>2. Len(Parts) = 5 /\ \A i \in 1 .. 5 : Parts[i] \subseteq {Network, Module, Status, Input, Output}
  BY DEF Parts, Codec
<1>3. /\ Made(n) \subseteq {Network, Module, Status, Input, Output}
      /\ Made(n) = {} \/ Network \in Made(n)
      /\ n = 5 => {Network, Input, Output} \subseteq Made(n)
  <2>1. Made(n) \subseteq {Network, Module, Status, Input, Output}
    BY <1>1, <1>2 DEF Made
  <2>2. Parts[1] = {Network} /\ Parts[4] = {Input} /\ Parts[5] = {Output}
    BY DEF Parts
  <2>3. n = 0 => Made(n) = {}
    BY DEF Made
  <2>4. n > 0 => Network \in Made(n)
    BY <1>1, <1>2, <2>2 DEF Made
  <2>5. n = 5 => {Network, Input, Output} \subseteq Made(n)
    BY <2>2 DEF Made
  <2> QED
    BY <1>1, <1>2, <2>1, <2>3, <2>4, <2>5
<1>4. TypeOK'
  BY <1>1, <1>3, Allocated DEF IInv, TypeOK, work, buffers, temporal
<1>5. Settled'
  BY <1>1 DEF IInv, Settled, InFrame, temporal
<1>6. Owned'
  BY <1>1, <1>2, <1>3 DEF IInv, Owned, InFrame, buffers, temporal, TemporalBuffers
<1>7. InTurn' /\ Chained' /\ Kept' /\ Continued'
  BY <1>1 DEF IInv, InTurn, Chained, Kept, Continued, Left, EarlyPCs, LatePCs, StagePCs, work, buffers, temporal
<1> QED
  BY <1>4, <1>5, <1>6, <1>7 DEF IInv

LEMMA EndStep == ASSUME IInv, End PROVE IInv'
<1>1. /\ pc \in {"idle", "failed"} /\ pc' = "down" /\ busy' = FALSE /\ invalid' = FALSE
      /\ geo' = NoSettings /\ configured' = FALSE /\ valid' = FALSE /\ pending' = FALSE /\ completed' = 0
      /\ mem' = [b \in Memory |-> Garbage] /\ host' = Garbage
      /\ UNCHANGED <<cpu, frame, work, launched, tainted, answered>>
      /\ Release
  BY DEF End
<1>2. live' = {} /\ held' = {} /\ (previous' = NoSettings \/ previous' = previous)
  BY <1>1 DEF Release, Free, IInv, Owned, heap
<1>3. Garbage \in Contents
  BY Back, Holding, FramesAssumption
<1>4. TypeOK'
  BY <1>1, <1>2, <1>3, Back DEF IInv, TypeOK, work
<1>5. Settled'
  <2>1. "motion" \in DOMAIN NoSettings /\ NoSettings.motion = FALSE
    BY DEF NoSettings
  <2> QED
    BY <1>1, <1>2, <2>1 DEF IInv, Settled, InFrame
<1>8. Owned'
  BY <1>1, <1>2 DEF IInv, Owned, InFrame
<1>6. InTurn'
  BY <1>1 DEF IInv, InTurn, EarlyPCs, LatePCs, StagePCs
<1>7. Chained' /\ Kept' /\ Continued'
  BY <1>1 DEF Chained, Kept, Continued, EarlyPCs, LatePCs, StagePCs
<1> QED
  BY <1>4, <1>5, <1>6, <1>7, <1>8 DEF IInv

LEMMA Starts == Init => IInv
<1>1. SUFFICES ASSUME Init PROVE IInv
  OBVIOUS
<1>2. /\ pc = "down" /\ frame = 0 /\ cur = NoSettings /\ pass = 0 /\ answer = Output /\ given = FALSE
      /\ previous = NoSettings /\ mem = [b \in Memory |-> Garbage] /\ host = Garbage /\ launched = Nothing
      /\ live = {} /\ held = {} /\ busy = FALSE /\ invalid = FALSE /\ configured = FALSE /\ valid = FALSE
      /\ pending = FALSE /\ completed = 0 /\ tainted = FALSE /\ answered = [frame |-> 0, with |-> NoSettings]
      /\ cpu \in BOOLEAN
  BY <1>1 DEF Init
<1>3. Garbage \in Contents /\ 0 \in 0 .. MaxFrames /\ 0 \in 0 .. MaxPasses
  BY Back, Holding, FramesAssumption
<1>4. "motion" \in DOMAIN NoSettings /\ NoSettings.motion = FALSE
  BY DEF NoSettings
<1>5. TypeOK
  BY <1>2, <1>3, Back DEF TypeOK
<1>6. Settled /\ InTurn /\ Chained /\ Kept /\ Continued
  BY <1>2, <1>4 DEF Settled, InTurn, Chained, Kept, Continued, InFrame, EarlyPCs, LatePCs, StagePCs
<1>7. Owned
  BY <1>2, Back DEF Owned, InFrame
<1> QED
  BY <1>5, <1>6, <1>7 DEF IInv

LEMMA Stuttering == ASSUME IInv, UNCHANGED vars PROVE IInv'
BY DEF IInv, TypeOK, Settled, Owned, InTurn, Chained, Kept, Continued, Left, Passed, InFrame, Needed, Reserved,
       TemporalBuffers, EarlyPCs, LatePCs, StagePCs, PassInput, PassContent, Stage, Steps, Uncolored, AnswerBuffer,
       vars, work, buffers, heap, temporal

LEMMA Stepping == IInv /\ [Next]_vars => IInv'
<1>1. SUFFICES ASSUME IInv, [Next]_vars PROVE IInv'
  OBVIOUS
<1>2. CASE Prepare \/ End \/ (\E s \in Imports : Import(s)) \/ (\E size \in 1 .. 2 : Pin(size))
  BY <1>1, <1>2, PrepareStep, EndStep, ImportStep, PinStep
<1>3. CASE Refuse \/ \E s \in Settings : StartFrame(s)
  BY <1>1, <1>3, RefuseStep, StartFrameStep
<1>4. CASE \E nonfinite \in BOOLEAN : Encode(nonfinite) \/ StartPass(nonfinite) \/ Decode(nonfinite)
  BY <1>1, <1>4, EncodeStep, StartPassStep, DecodeStep
<1>5. CASE Begin \/ Still \/ TakeHistory \/ Evaluate \/ Tune \/ Colour \/ FinishPass \/ EndTemporal \/ Finish \/ Fail
  BY <1>1, <1>5, BeginStep, StillStep, TakeHistoryStep, EvaluateStep, TuneStep, ColourStep, FinishPassStep,
     EndTemporalStep, FinishStep, FailStep
<1>6. CASE UNCHANGED vars
  BY <1>1, <1>6, Stuttering
<1> QED
  BY <1>1, <1>2, <1>3, <1>4, <1>5, <1>6 DEF Next

(* The invariant holds for any settings, passes, imports and frames: what  *)
(* each stage finds, what temporal state outlives a frame, and who owns    *)
(* the buffers.                                                            *)
THEOREM Invariance == Spec => []IInv
BY Starts, Stepping, PTL DEF Spec

(* Every variable keeps its type.                                          *)
THEOREM TypeCorrect == Spec => []TypeOK
<1>1. IInv => TypeOK
  BY DEF IInv
<1> QED
  BY <1>1, Invariance, PTL

(* No frame is given another history than that of the last frame answered, *)
(* of the same settings (GpuTemporal::configure and begin, infer()).       *)
THEOREM HistoryIsOwn == Spec => []HistoryIsLastAnswer
<1>1. IInv => HistoryIsLastAnswer
  <2>1. SUFFICES ASSUME IInv, pc = "network", given
                 PROVE /\ answered.frame > 0
                       /\ mem[Warped] = Past(answered.frame, pass)
                       /\ \A field \in Fields : answered.with[field] = cur[field]
    BY DEF HistoryIsLastAnswer, Fields
  <2>2. valid /\ mem[Warped] = Past(answered.frame, pass)
    BY <2>1 DEF IInv, Continued
  <2> QED
    BY <2>1, <2>2 DEF IInv, Continued, LatePCs, StagePCs
<1> QED
  BY <1>1, Invariance, PTL

(* What is decoded is the frame's own answer, whatever stages and passes   *)
(* its settings ask for (infer()).                                         *)
THEOREM AnswersAreOwn == Spec => []AnswerIsOwn
<1>1. IInv => AnswerIsOwn
  BY DEF IInv, InTurn, Chained, AnswerIsOwn
<1> QED
  BY <1>1, Invariance, PTL

(* A frame with samples that are not finite is not answered, whatever pass *)
(* they came up in (finish()).                                             *)
THEOREM NonfiniteRejected == Spec => NonfiniteIsRejected
<1>1. IInv /\ [Next]_vars => [answered' # answered => ~tainted]_vars
  <2>1. SUFFICES ASSUME IInv, Next, answered' # answered PROVE ~tainted
    OBVIOUS
  <2>2. CASE Finish
    BY <2>1, <2>2 DEF IInv, InTurn, Finish
  <2>3. CASE Prepare \/ End \/ (\E s \in Imports : Import(s)) \/ (\E size \in 1 .. 2 : Pin(size))
    BY <2>1, <2>3 DEF Prepare, End, Import, Pin
  <2>4. CASE Refuse \/ \E s \in Settings : StartFrame(s)
    BY <2>1, <2>4 DEF Refuse, StartFrame
  <2>5. CASE \E nonfinite \in BOOLEAN : Encode(nonfinite) \/ StartPass(nonfinite) \/ Decode(nonfinite)
    BY <2>1, <2>5 DEF Encode, StartPass, Decode
  <2>6. CASE Begin \/ Still \/ TakeHistory \/ Evaluate \/ Tune \/ Colour \/ FinishPass \/ EndTemporal \/ Fail
    BY <2>1, <2>6 DEF Begin, Still, TakeHistory, Evaluate, Tune, Colour, FinishPass, EndTemporal, Fail
  <2> QED
    BY <2>1, <2>2, <2>3, <2>4, <2>5, <2>6 DEF Next
<1> QED
  BY <1>1, Invariance, PTL DEF Spec, NonfiniteIsRejected

(* The kernels and GpuTemporal are never misused, nothing leaks, and       *)
(* between frames the stream is idle (HipEngine, GpuTemporal, release()).  *)
THEOREM NeverMisused == Spec => []NoMisuse
<1>1. IInv => NoMisuse
  <2>1. SUFFICES ASSUME IInv PROVE NoMisuse
    OBVIOUS
  <2>2. QuietBetweenFrames
    BY <2>1 DEF IInv, Owned, InTurn, EarlyPCs, QuietBetweenFrames
  <2>3. /\ launched.writes \notin launched.reads
        /\ launched # Nothing => launched.reads \cup {launched.writes} \subseteq live
        /\ pc = "begin" => ~pending
    BY <2>1 DEF IInv, Owned, InTurn, EarlyPCs
  <2>4. pc = "pass" /\ pass \in 1 .. cur.passes - 1 => answer # Feedback
    <3>1. SUFFICES ASSUME pc = "pass", pass \in 1 .. cur.passes - 1 PROVE answer # Feedback
      OBVIOUS
    <3>2. cur \in Settings /\ answer = AnswerBuffer
      BY <2>1, <3>1 DEF IInv, Settled, Chained, InFrame
    <3>3. pass \in 1 .. cur.passes
      BY <3>1, <3>2, SettingsFacts
    <3> QED
      BY <3>2, <3>3, StageFacts DEF AnswerBuffer
  <2>5. pc \in StagePCs => /\ pc = "history" /\ cur.motion => InOrder
                           /\ pc = "tune" /\ cur.tuned => Stage(1) \notin TuneReads
                           /\ pc = "colour" /\ cur.colored => Stage(Uncolored + 1) \notin ColourReads
    <3>1. SUFFICES ASSUME pc \in StagePCs
                   PROVE  /\ pc = "history" /\ cur.motion => InOrder
                          /\ pc = "tune" /\ cur.tuned => Stage(1) \notin TuneReads
                          /\ pc = "colour" /\ cur.colored => Stage(Uncolored + 1) \notin ColourReads
      OBVIOUS
    <3>2. pc = "history" /\ cur.motion => InOrder
      BY <2>1, <3>1, AtHand DEF IInv, TypeOK, InTurn, LatePCs, StagePCs, InOrder
    <3>3. Stage(1) \notin {PassInput(pass), Stage(0)}
      BY <2>1, <3>1, AtHand, StageFacts
    <3>4. cur.colored => Stage(Uncolored + 1) \notin {Input, Stage(Uncolored)}
      <4>1. Uncolored = 0 \/ Uncolored = 1
        BY DEF Uncolored
      <4> QED
        BY <2>1, <3>1, <4>1, AtHand, StageFacts
    <3> QED
      BY <3>2, <3>3, <3>4 DEF TuneReads, ColourReads
  <2>6. pc = "end" /\ cur.motion => pending /\ completed = geo.passes
    BY <2>1 DEF IInv, InTurn, LatePCs
  <2> QED
    BY <2>2, <2>3, <2>4, <2>5, <2>6 DEF NoMisuse, StagePCs
<1> QED
  BY <1>1, Invariance, PTL

(* The frames that a codec's picture is fitted for are the engine's: what  *)
(* holds of the engine holds of them.                                      *)
THEOREM RunsTheEngine == FramesSpec => Spec
<1>1. FramesInit => Init
  BY DEF FramesInit
<1>2. [FramesNext]_<<vars, picture>> => [Next]_vars
  BY DEF FramesNext, PictureStep, EngineStep
<1> QED
  BY <1>1, <1>2, PTL DEF FramesSpec, Spec

-----------------------------------------------------------------------------
(* The codec's geometry.                                                   *)

(* What the proofs need of a tier. *)
Tiers == {Picture!NativeTiers[i] : i \in 1 .. 3}

LEMMA TierFacts ==
  ASSUME NEW t \in Tiers
  PROVE /\ t.width \in 1280 .. 1920 /\ t.height \in 720 .. 1080 /\ t.networkHeight \in t.height .. 2 * t.height - 1
        /\ \A u \in Tiers : u.height = t.height => u = t
        /\ t.height # 0
BY SMT DEF Tiers, Picture!NativeTiers

LEMMA TierOfSource ==
  ASSUME NEW s, ~Picture!Refused(s)
  PROVE /\ Picture!Tier(s) \in Tiers
        /\ s.tier # 0 => Picture!Tier(s).height = s.tier
<1>1. CASE s.tier = 0
  BY <1>1, SMT DEF Picture!Tier, Picture!Automatic, Tiers, Picture!NativeTiers, Picture!Holds
<1>2. CASE s.tier # 0
  <2>1. PICK t \in Tiers : t.height = s.tier
    BY <1>2, SMT DEF Picture!Refused, Tiers, Picture!NativeTiers
  <2>2. Picture!Tier(s) = CHOOSE u \in Tiers : u.height = s.tier
    BY <1>2 DEF Picture!Tier, Tiers
  <2> QED
    BY <2>1, <2>2, Zenon
<1> QED
  BY <1>1, <1>2

(* The tier a geometry names is the tier it was made for. *)
LEMMA NamedTier ==
  ASSUME NEW t \in Tiers, NEW s, s.tier = t.height, ~Picture!Refused(s)
  PROVE Picture!Tier(s) = t
<1>1. Picture!Tier(s) \in Tiers /\ Picture!Tier(s).height = s.tier
  BY TierOfSource, TierFacts
<1> QED
  BY <1>1, TierFacts

(* Division, rounded to nearest. *)
LEMMA RoundedFacts ==
  ASSUME NEW a \in Nat, NEW b \in Nat \ {0}
  PROVE /\ Picture!Rounded(a, b) \in Nat
        /\ 2 * (Picture!Rounded(a, b) * b - a) <= b
        /\ 2 * (a - Picture!Rounded(a, b) * b) <= b
<1> DEFINE n == a + b \div 2
           q == n \div b
<1>1. n \in Nat /\ 2 * n <= 2 * a + b /\ 2 * n >= 2 * a + b - 1
  BY SMT
<1>2. q \in Nat /\ n = b * q + (n % b) /\ n % b \in 0 .. b - 1
  BY <1>1, SMT
<1>3. q * b \in Int /\ q * b = b * q
  BY <1>2, SMT
<1>4. q * b <= n /\ n - q * b <= b - 1
  BY <1>1, <1>2, <1>3, SMT
<1>5. 2 * (q * b - a) <= b /\ 2 * (a - q * b) <= b
  BY <1>1, <1>3, <1>4, SMT
<1> QED
  BY <1>2, <1>5 DEF Picture!Rounded

(* What is fitted into the other side of the viewport is no larger than it. *)
LEMMA RoundedFits ==
  ASSUME NEW a \in Nat, NEW b \in Nat \ {0}, NEW w \in Nat, a <= b * w
  PROVE Picture!Rounded(a, b) <= w
<1> DEFINE q == Picture!Rounded(a, b)
<1>1. q \in Nat /\ 2 * (q * b - a) <= b
  BY RoundedFacts
<1>2. SUFFICES ASSUME q >= w + 1 PROVE FALSE
  BY <1>1, SMT
<1>3. PICK d \in Nat : q = w + 1 + d
  <2>1. q - w - 1 \in Nat /\ q = w + 1 + (q - w - 1)
    BY <1>1, <1>2, SMT
  <2> QED
    BY <2>1
<1>4. q * b = b * w + b + b * d /\ b * d >= 0 /\ b * w \in Nat /\ b * d \in Nat
  BY <1>3, SMT
<1> HIDE DEF q
<1> QED
  BY <1>1, <1>4, SMT

LEMMA Positive ==
  ASSUME NEW n \in 1 .. Picture!MaxSource
  PROVE n \in Nat \ {0}
BY SMT DEF Picture!MaxSource

(* What is fitted is put in the middle. *)
LEMMA Centred ==
  ASSUME NEW w \in Nat, NEW f \in 1 .. w, NEW x, x = (w - f) \div 2
  PROVE x \in 0 .. w - 1 /\ (w - f) - 2 * x \in {0, 1} /\ x + f <= w /\ f <= w - x
BY SMT

(* The fitted extent, for a source that is not refused and a tier. *)
LEMMA FitFacts ==
  ASSUME NEW s, ~Picture!Refused(s), NEW t \in Tiers
  PROVE LET fw == Picture!FitWidth(s, t.width, t.height)
            fh == Picture!FitHeight(s, t.width, t.height)
        IN /\ fw \in 1 .. t.width /\ fh \in 1 .. t.height
           /\ \/ fw = t.width /\ Picture!IsAspect(fh, t.width * s.height, s.width)
              \/ fh = t.height /\ Picture!IsAspect(fw, t.height * s.width, s.height)
<1> DEFINE w == t.width
           h == t.height
           sw == s.width
           sh == s.height
<1>1. sw \in Nat \ {0} /\ sh \in Nat \ {0}
  <2>1. sw \in 1 .. Picture!MaxSource /\ sh \in 1 .. Picture!MaxSource
    BY Zenon DEF Picture!Refused
  <2> QED
    BY <2>1, Positive
<1>2. w \in Nat \ {0} /\ h \in Nat \ {0}
  <2>1. w \in 1280 .. 1920 /\ h \in 720 .. 1080
    BY TierFacts
  <2> QED
    BY <2>1, SMTT(60)
<1>3. sw * h \in Nat /\ sh * w \in Nat /\ w * sh = sh * w /\ h * sw = sw * h
  BY <1>1, <1>2, SMT
<1>4. CASE sw * h >= sh * w
  <2> DEFINE q == Picture!Rounded(sh * w, sw)
  <2>1. Picture!FitWidth(s, w, h) = w /\ Picture!FitHeight(s, w, h) = Picture!AtLeastOne(q)
    BY <1>2, <1>4, Zenon DEF Picture!FitWidth, Picture!FitHeight, Picture!AtLeastOne
  <2>2. q \in Nat /\ q <= h /\ 2 * (q * sw - sh * w) <= sw /\ 2 * (sh * w - q * sw) <= sw
    BY <1>1, <1>2, <1>3, <1>4, RoundedFacts, RoundedFits
  <2> HIDE DEF q
  <2>3. Picture!AtLeastOne(q) \in 1 .. h /\ Picture!IsAspect(Picture!AtLeastOne(q), w * sh, sw)
    BY <1>2, <1>3, <2>2, SMT DEF Picture!AtLeastOne, Picture!IsAspect
  <2> QED
    BY <1>2, <2>1, <2>3
<1>5. CASE ~(sw * h >= sh * w)
  <2> DEFINE q == Picture!Rounded(sw * h, sh)
  <2>1. Picture!FitWidth(s, w, h) = Picture!AtLeastOne(q) /\ Picture!FitHeight(s, w, h) = h
    BY <1>2, <1>5, Zenon DEF Picture!FitWidth, Picture!FitHeight, Picture!AtLeastOne
  <2>2. sw * h <= sh * w
    BY <1>3, <1>5, SMT
  <2>3. q \in Nat /\ q <= w /\ 2 * (q * sh - sw * h) <= sh /\ 2 * (sw * h - q * sh) <= sh
    BY <1>1, <1>2, <1>3, <2>2, RoundedFacts, RoundedFits
  <2> HIDE DEF q
  <2>4. Picture!AtLeastOne(q) \in 1 .. w /\ Picture!IsAspect(Picture!AtLeastOne(q), h * sw, sh)
    BY <1>2, <1>3, <2>3, SMT DEF Picture!AtLeastOne, Picture!IsAspect
  <2> QED
    BY <1>2, <2>1, <2>4
<1> QED
  BY <1>4, <1>5

(* geometry() makes a picture of every source it does not refuse. *)
THEOREM GeometryIsPicture ==
  ASSUME NEW s, ~Picture!Refused(s)
  PROVE Picture!IsPicture(Picture!Geometry(s))
<1> DEFINE t == Picture!Tier(s)
           p == Picture!Geometry(s)
           fw == Picture!FitWidth(s, t.width, t.height)
           fh == Picture!FitHeight(s, t.width, t.height)
           named == [width |-> s.width, height |-> s.height, tier |-> t.height]
<1>1. t \in Tiers
  BY TierOfSource
<1>2. /\ t.width \in Nat /\ t.height \in Nat \ {0} /\ t.networkHeight \in t.height .. 2 * t.height - 1
  BY <1>1, TierFacts, SMTT(60)
<1>3. /\ fw \in 1 .. t.width /\ fh \in 1 .. t.height
      /\ \/ fw = t.width /\ Picture!IsAspect(fh, t.width * s.height, s.width)
         \/ fh = t.height /\ Picture!IsAspect(fw, t.height * s.width, s.height)
  BY <1>1, FitFacts
<1>4. /\ p.source_width = s.width /\ p.source_height = s.height
      /\ p.width = t.width /\ p.height = t.networkHeight /\ p.valid_height = t.height
      /\ p.fit_width = fw /\ p.fit_height = fh
      /\ p.x = (t.width - fw) \div 2 /\ p.y = (t.height - fh) \div 2
  BY DEF Picture!Geometry
<1>5. /\ p.x \in 0 .. t.width - 1 /\ (t.width - fw) - 2 * p.x \in {0, 1} /\ fw <= t.width - p.x
      /\ p.y \in 0 .. t.height - 1 /\ (t.height - fh) - 2 * p.y \in {0, 1} /\ fh <= t.height - p.y
      /\ p.y + fh <= t.height
  <2> HIDE DEF fw, fh, t, p
  <2> QED
    BY <1>2, <1>3, <1>4, Centred
<1>6. Picture!Valid(p)
  <2>1. ~Picture!Refused(named)
    <3>1. named.width = s.width /\ named.height = s.height /\ named.tier = t.height
      OBVIOUS
    <3> QED
      BY <1>1, <3>1 DEF Picture!Refused, Tiers
  <2>2. Picture!Tier(named) = t
    BY <1>1, <2>1, NamedTier
  <2>3. Picture!Geometry(named) = p
    <3>1. named.width = s.width /\ named.height = s.height
      OBVIOUS
    <3> QED
      BY <2>2, <3>1 DEF Picture!Geometry, Picture!FitWidth, Picture!FitHeight
  <2> QED
    BY <1>4, <2>1, <2>3 DEF Picture!Valid
<1>7. Picture!Fits(p) /\ p.y + p.fit_height <= p.valid_height
  <2> DEFINE x == p.x
             y == p.y
             high == t.networkHeight
             shown == t.height
             wide == t.width
  <2> HIDE DEF fw, fh, t, p
  <2>1. /\ wide \in Nat /\ shown \in Nat /\ high \in shown .. 2 * shown - 1
        /\ fw \in 1 .. wide /\ fh \in 1 .. shown
        /\ x \in 0 .. wide - 1 /\ fw <= wide - x
        /\ y \in 0 .. shown - 1 /\ fh <= shown - y /\ y + fh <= shown
    BY <1>2, <1>3, <1>5
  <2>2. fw > 0 /\ fh > 0 /\ y \in 0 .. high - 1 /\ fh <= high - y
    <3> HIDE DEF x, y, high, shown, wide
    <3> QED
      BY <2>1, SMT
  <2> QED
    BY <1>4, <2>1, <2>2 DEF Picture!Fits
<1>8. \A y \in p.valid_height .. p.height - 1 : Picture!CodecRow(p, y) \in 0 .. p.valid_height - 1
  <2> HIDE DEF t, p
  <2> QED
    BY <1>2, <1>4, SMT DEF Picture!CodecRow
<1> QED
  <2> HIDE DEF fw, fh, t
  <2>1. Picture!IsPicture(p)
    <3> HIDE DEF p
    <3> QED
      BY <1>3, <1>4, <1>5, <1>6, <1>7, <1>8 DEF Picture!IsPicture
  <2> QED
    BY <2>1

(* Every frame of the engine's that is fitted is a picture of its source. *)
THEOREM PicturesFit == FramesSpec => PictureFits
<1>1. ASSUME [FramesNext]_<<vars, picture>> PROVE [g' # g => Picture!IsPicture(g')]_g
  <2>1. CASE Picture!Fit
    <3>1. SUFFICES ASSUME g' # g PROVE Picture!IsPicture(g')
      OBVIOUS
    <3>2. ~Picture!Refused(source) /\ g' = Picture!Geometry(source)
      BY <2>1, <3>1 DEF Picture!Fit
    <3> QED
      BY <3>2, GeometryIsPicture
  <2>2. CASE Picture!Encode \/ Picture!Infer \/ Picture!Feedback \/ Picture!Decode \/ Picture!Over
    BY <2>2 DEF Picture!Encode, Picture!Infer, Picture!Feedback, Picture!Decode, Picture!Over, Picture!vars
  <2>3. CASE EngineStep \/ UNCHANGED <<vars, picture>>
    BY <2>3 DEF EngineStep, picture
  <2> QED
    BY <1>1, <2>1, <2>2, <2>3 DEF FramesNext, PictureStep, Picture!Next
<1>2. FramesSpec => [][g' # g => Picture!IsPicture(g')]_g
  BY <1>1, PTL DEF FramesSpec
<1> QED
  BY <1>2 DEF PictureFits, Picture!PictureFits

-----------------------------------------------------------------------------
(* The codec's samples.                                                    *)

(* The powers of two that shifts are by. *)
PowerOf(j, p) ==
  \/ (j = 0 /\ p = 1) \/ (j = 1 /\ p = 2) \/ (j = 2 /\ p = 4) \/ (j = 3 /\ p = 8)
  \/ (j = 4 /\ p = 16) \/ (j = 5 /\ p = 32) \/ (j = 6 /\ p = 64) \/ (j = 7 /\ p = 128)
  \/ (j = 8 /\ p = 256) \/ (j = 9 /\ p = 512) \/ (j = 10 /\ p = 1024) \/ (j = 11 /\ p = 2048)
  \/ (j = 12 /\ p = 4096) \/ (j = 13 /\ p = 8192) \/ (j = 14 /\ p = 16384) \/ (j = 15 /\ p = 32768)
  \/ (j = 16 /\ p = 65536) \/ (j = 17 /\ p = 131072) \/ (j = 18 /\ p = 262144) \/ (j = 19 /\ p = 524288)
  \/ (j = 20 /\ p = 1048576) \/ (j = 21 /\ p = 2097152) \/ (j = 22 /\ p = 4194304) \/ (j = 23 /\ p = 8388608)
  \/ (j = 24 /\ p = 16777216) \/ (j = 25 /\ p = 33554432) \/ (j = 26 /\ p = 67108864) \/ (j = 27 /\ p = 134217728)
  \/ (j = 28 /\ p = 268435456) \/ (j = 29 /\ p = 536870912) \/ (j = 30 /\ p = 1073741824)

(* 2^j is j's power. *)
LEMMA Powers == ASSUME NEW j \in 0 .. 30 PROVE PowerOf(j, 2^j)
<1>1. CASE j = 0
  BY <1>1 DEF PowerOf
<1>2. CASE j = 1
  BY <1>2 DEF PowerOf
<1>3. CASE j = 2
  BY <1>3 DEF PowerOf
<1>4. CASE j = 3
  BY <1>4 DEF PowerOf
<1>5. CASE j = 4
  BY <1>5 DEF PowerOf
<1>6. CASE j = 5
  BY <1>6 DEF PowerOf
<1>7. CASE j = 6
  BY <1>7 DEF PowerOf
<1>8. CASE j = 7
  BY <1>8 DEF PowerOf
<1>9. CASE j = 8
  BY <1>9 DEF PowerOf
<1>10. CASE j = 9
  BY <1>10 DEF PowerOf
<1>11. CASE j = 10
  BY <1>11 DEF PowerOf
<1>12. CASE j = 11
  BY <1>12 DEF PowerOf
<1>13. CASE j = 12
  BY <1>13 DEF PowerOf
<1>14. CASE j = 13
  BY <1>14 DEF PowerOf
<1>15. CASE j = 14
  BY <1>15 DEF PowerOf
<1>16. CASE j = 15
  BY <1>16 DEF PowerOf
<1>17. CASE j = 16
  BY <1>17 DEF PowerOf
<1>18. CASE j = 17
  BY <1>18 DEF PowerOf
<1>19. CASE j = 18
  BY <1>19 DEF PowerOf
<1>20. CASE j = 19
  BY <1>20 DEF PowerOf
<1>21. CASE j = 20
  BY <1>21 DEF PowerOf
<1>22. CASE j = 21
  BY <1>22 DEF PowerOf
<1>23. CASE j = 22
  BY <1>23 DEF PowerOf
<1>24. CASE j = 23
  BY <1>24 DEF PowerOf
<1>25. CASE j = 24
  BY <1>25 DEF PowerOf
<1>26. CASE j = 25
  BY <1>26 DEF PowerOf
<1>27. CASE j = 26
  BY <1>27 DEF PowerOf
<1>28. CASE j = 27
  BY <1>28 DEF PowerOf
<1>29. CASE j = 28
  BY <1>29 DEF PowerOf
<1>30. CASE j = 29
  BY <1>30 DEF PowerOf
<1>31. CASE j = 30
  BY <1>31 DEF PowerOf
<1> QED
  BY <1>1, <1>2, <1>3, <1>4, <1>5, <1>6, <1>7, <1>8, <1>9, <1>10, <1>11, <1>12, <1>13, <1>14, <1>15, <1>16,
     <1>17, <1>18, <1>19, <1>20, <1>21, <1>22, <1>23, <1>24, <1>25, <1>26, <1>27, <1>28, <1>29, <1>30, <1>31

(* A binade: its first number, of integers of its logarithm; how far apart they
   are in a float's significand; and half of that. *)
Binade(l, p, d, c) == l \in 0 .. 10 /\ p = 2^l /\ d = 2^(23 - l) /\ c = 2^(22 - l)

(* A binade has p integers, or multiples, that are d apart in the float's bits. *)
LEMMA Binades ==
  ASSUME NEW l, NEW p, NEW d, NEW c, Binade(l, p, d, c)
  PROVE  /\ l \in 0 .. 10 /\ p \in 1 .. 1024 /\ d \in Nat \ {0} /\ c \in Nat \ {0}
         /\ p * d = 2^23 /\ d = 2 * c /\ 2^(l + 1) = 2 * p /\ 2^l = p /\ 2^(23 - l) = d
<1>1. CASE l = 0
  BY <1>1 DEF Binade
<1>2. CASE l = 1
  BY <1>2 DEF Binade
<1>3. CASE l = 2
  BY <1>3 DEF Binade
<1>4. CASE l = 3
  BY <1>4 DEF Binade
<1>5. CASE l = 4
  BY <1>5 DEF Binade
<1>6. CASE l = 5
  BY <1>6 DEF Binade
<1>7. CASE l = 6
  BY <1>7 DEF Binade
<1>8. CASE l = 7
  BY <1>8 DEF Binade
<1>9. CASE l = 8
  BY <1>9 DEF Binade
<1>10. CASE l = 9
  BY <1>10 DEF Binade
<1>11. CASE l = 10
  BY <1>11 DEF Binade
<1>12. l \in 0 .. 10
  BY DEF Binade
<1> QED
  BY <1>1, <1>2, <1>3, <1>4, <1>5, <1>6, <1>7, <1>8, <1>9, <1>10, <1>11, <1>12

(* The next has twice the numbers, twice as close. *)
LEMMA NextBinade ==
  ASSUME NEW l \in 0 .. 9, NEW p, NEW d, NEW c, Binade(l, p, d, c)
  PROVE  \E e : Binade(l + 1, 2 * p, c, e)
<1>1. l + 1 \in 0 .. 10 /\ 23 - (l + 1) = 22 - l /\ 22 - (l + 1) = 21 - l
  OBVIOUS
<1>2. 2 * p = 2^(l + 1)
  BY Binades
<1>3. c = 2^(22 - l)
  BY DEF Binade
<1> QED
  BY <1>1, <1>2, <1>3, Zenon DEF Binade

(* The logarithm is the one there is. *)
LEMMA Logs ==
  ASSUME NEW l, NEW p, NEW d, NEW c, Binade(l, p, d, c), NEW k \in p .. 2 * p - 1
  PROVE  Picture!Log(k) = l
<1>1. l \in 0 .. 10 /\ p \in Nat /\ 2^l = p /\ 2^(l + 1) = 2 * p
  BY Binades
<1>2. k \in Int /\ 2^l <= k /\ k < 2^(l + 1)
  BY <1>1
<1>3. ASSUME NEW j \in 0 .. 23, 2^j <= k, k < 2^(j + 1) PROVE j = l
  <2>1. PowerOf(j, 2^j) /\ PowerOf(j + 1, 2^(j + 1)) /\ PowerOf(l, 2^l) /\ PowerOf(l + 1, 2^(l + 1))
    <3>1. j \in 0 .. 30 /\ j + 1 \in 0 .. 30 /\ l \in 0 .. 30 /\ l + 1 \in 0 .. 30
      BY <1>1
    <3> QED
      BY <3>1, Powers, Zenon
  <2>2. ASSUME NEW u, NEW v, NEW s, NEW t, PowerOf(j, u), PowerOf(j + 1, v), PowerOf(l, s), PowerOf(l + 1, t),
               u <= k, k < v, s <= k, k < t
        PROVE  j = l
    <3>1. k \in Int
      BY <1>2
    <3>2. CASE l = 0
      BY <2>2, <3>1, <3>2 DEF PowerOf
    <3>3. CASE l = 1
      BY <2>2, <3>1, <3>3 DEF PowerOf
    <3>4. CASE l = 2
      BY <2>2, <3>1, <3>4 DEF PowerOf
    <3>5. CASE l = 3
      BY <2>2, <3>1, <3>5 DEF PowerOf
    <3>6. CASE l = 4
      BY <2>2, <3>1, <3>6 DEF PowerOf
    <3>7. CASE l = 5
      BY <2>2, <3>1, <3>7 DEF PowerOf
    <3>8. CASE l = 6
      BY <2>2, <3>1, <3>8 DEF PowerOf
    <3>9. CASE l = 7
      BY <2>2, <3>1, <3>9 DEF PowerOf
    <3>10. CASE l = 8
      BY <2>2, <3>1, <3>10 DEF PowerOf
    <3>11. CASE l = 9
      BY <2>2, <3>1, <3>11 DEF PowerOf
    <3>12. CASE l = 10
      BY <2>2, <3>1, <3>12 DEF PowerOf
    <3> QED
      BY <1>1, <3>2, <3>3, <3>4, <3>5, <3>6, <3>7, <3>8, <3>9, <3>10, <3>11, <3>12
  <2> QED
    BY <1>2, <1>3, <2>1, <2>2, Zenon
<1>4. l \in 0 .. 23
  BY <1>1
<1> QED
  BY <1>2, <1>3, <1>4, Zenon DEF Picture!Log

(* Every number a subnormal may hold is of a binade. *)
LEMMA Logarithm ==
  ASSUME NEW k \in 1 .. 2^10 - 1
  PROVE  \E l \in 0 .. 9 : \E p, d, c : Binade(l, p, d, c) /\ k \in p .. 2 * p - 1
<1>1. PICK l \in 0 .. 9 : \E u, v : PowerOf(l, u) /\ PowerOf(l + 1, v) /\ u <= k /\ k < v
  <2>1. CASE 1 <= k /\ k < 2
    <3>1. PowerOf(0, 1) /\ PowerOf(0 + 1, 2)
      BY DEF PowerOf
    <3> QED
      BY <2>1, <3>1
  <2>2. CASE 2 <= k /\ k < 4
    <3>1. PowerOf(1, 2) /\ PowerOf(1 + 1, 4)
      BY DEF PowerOf
    <3> QED
      BY <2>2, <3>1
  <2>3. CASE 4 <= k /\ k < 8
    <3>1. PowerOf(2, 4) /\ PowerOf(2 + 1, 8)
      BY DEF PowerOf
    <3> QED
      BY <2>3, <3>1
  <2>4. CASE 8 <= k /\ k < 16
    <3>1. PowerOf(3, 8) /\ PowerOf(3 + 1, 16)
      BY DEF PowerOf
    <3> QED
      BY <2>4, <3>1
  <2>5. CASE 16 <= k /\ k < 32
    <3>1. PowerOf(4, 16) /\ PowerOf(4 + 1, 32)
      BY DEF PowerOf
    <3> QED
      BY <2>5, <3>1
  <2>6. CASE 32 <= k /\ k < 64
    <3>1. PowerOf(5, 32) /\ PowerOf(5 + 1, 64)
      BY DEF PowerOf
    <3> QED
      BY <2>6, <3>1
  <2>7. CASE 64 <= k /\ k < 128
    <3>1. PowerOf(6, 64) /\ PowerOf(6 + 1, 128)
      BY DEF PowerOf
    <3> QED
      BY <2>7, <3>1
  <2>8. CASE 128 <= k /\ k < 256
    <3>1. PowerOf(7, 128) /\ PowerOf(7 + 1, 256)
      BY DEF PowerOf
    <3> QED
      BY <2>8, <3>1
  <2>9. CASE 256 <= k /\ k < 512
    <3>1. PowerOf(8, 256) /\ PowerOf(8 + 1, 512)
      BY DEF PowerOf
    <3> QED
      BY <2>9, <3>1
  <2>10. CASE 512 <= k /\ k < 1024
    <3>1. PowerOf(9, 512) /\ PowerOf(9 + 1, 1024)
      BY DEF PowerOf
    <3> QED
      BY <2>10, <3>1
  <2> QED
    BY <2>1, <2>2, <2>3, <2>4, <2>5, <2>6, <2>7, <2>8, <2>9, <2>10
<1> PICK u, v : PowerOf(l, u) /\ PowerOf(l + 1, v) /\ u <= k /\ k < v
  BY <1>1, Zenon
<1>2. PowerOf(l, 2^l) /\ PowerOf(l + 1, 2^(l + 1))
  <2>1. l \in 0 .. 30 /\ l + 1 \in 0 .. 30
    OBVIOUS
  <2> QED
    BY <2>1, Powers, Zenon
<1>3. ASSUME NEW j, NEW x, NEW y, PowerOf(j, x), PowerOf(j, y) PROVE x = y
  BY <1>3 DEF PowerOf
<1>4. 2^l = u /\ 2^(l + 1) = v
  BY <1>1, <1>2, <1>3, Zenon
<1>5. Binade(l, 2^l, 2^(23 - l), 2^(22 - l))
  BY DEF Binade
<1>6. 2^l \in 1 .. 1024 /\ 2^(l + 1) = 2 * 2^l
  BY <1>5, Binades
<1>7. k \in 2^l .. 2 * 2^l - 1
  BY <1>4, <1>6
<1> QED
  BY <1>5, <1>7

(* A float of k, in the binade of its logarithm. *)
LEMMA Floats ==
  ASSUME NEW l, NEW p, NEW d, NEW c, Binade(l, p, d, c), NEW k \in p .. 2 * p - 1, NEW e \in Int
  PROVE  Picture!FloatOf(k, e) = (127 + e + l) * 2^23 + (k - p) * d
<1>1. Picture!Log(k) = l /\ p \in 1 .. 1024
  BY Logs, Binades
<1>2. k # 0 /\ 2^l = p /\ 2^(23 - l) = d /\ 2^23 = 2^23
  BY <1>1, Binades
<1> QED
  BY <1>1, <1>2 DEF Picture!FloatOf

(* The places of a subnormal: those of a binade, the end of which starts the
   next. *)
LEMMA Subnormals ==
  ASSUME NEW l \in 0 .. 9, NEW p, NEW d, NEW c, Binade(l, p, d, c), NEW k \in p .. 2 * p
  PROVE  Picture!FloatOf(k, -24) = (103 + l) * 2^23 + (k - p) * d
<1>1. p \in 1 .. 1024 /\ d \in Nat /\ p * d = 2^23 /\ k \in Int /\ 127 + (-24) = 103
  BY Binades
<1>2. CASE k # 2 * p
  <2>1. k \in p .. 2 * p - 1 /\ -24 \in Int
    BY <1>1, <1>2
  <2> QED
    BY <1>1, <2>1, Floats
<1>3. CASE k = 2 * p
  <2>1. PICK e : Binade(l + 1, 2 * p, c, e)
    BY NextBinade, Zenon
  <2>2. k \in 2 * p .. 2 * (2 * p) - 1 /\ -24 \in Int
    BY <1>1, <1>3
  <2>3. Picture!FloatOf(k, -24) = (127 + (-24) + (l + 1)) * 2^23 + (k - 2 * p) * c
    BY <2>1, <2>2, Floats
  <2>4. (k - 2 * p) * c = 0 /\ (k - p) * d = 2^23
    <3>1. k - 2 * p = 0 /\ k - p = p /\ c \in Nat
      BY <1>1, <1>3, Binades
    <3> QED
      BY <1>1, <3>1
  <2> QED
    BY <2>3, <2>4
<1> QED
  BY <1>2, <1>3

(* Half a place further is the middle between two subnormals. *)
LEMMA Middles ==
  ASSUME NEW l \in 0 .. 9, NEW p, NEW d, NEW c, Binade(l, p, d, c), NEW k \in p .. 2 * p - 1
  PROVE  k < 1024 /\ Picture!Middle(k) = (103 + l) * 2^23 + (k - p) * d + c
<1>1. p \in 1 .. 1024 /\ d = 2 * c /\ c \in Nat /\ k \in Int
  BY Binades
<1>2. PICK e : Binade(l + 1, 2 * p, c, e)
  BY NextBinade, Zenon
<1>3. 2 * p \in 1 .. 1024
  BY <1>2, Binades
<1>4. 2 * k + 1 \in 2 * p .. 2 * (2 * p) - 1 /\ k < 1024
  BY <1>1, <1>3
<1> PICK n, s, j : n = l + 1 /\ s = 2 * p /\ j = 2 * k + 1
  OBVIOUS
<1>5. Picture!FloatOf(j, -25) = (102 + n) * 2^23 + (j - s) * c
  <2>1. Binade(n, s, c, e) /\ j \in s .. 2 * s - 1
    BY <1>2, <1>4
  <2>2. -25 \in Int /\ 127 + (-25) = 102
    OBVIOUS
  <2>3. Picture!FloatOf(j, -25) = (127 + (-25) + n) * 2^23 + (j - s) * c
    BY <2>1, <2>2, Floats
  <2> QED
    BY <2>2, <2>3
<1>6. (j - s) * c = (k - p) * d + c /\ (k - p) * d \in Int /\ 102 + n = 103 + l
  BY <1>1
<1>7. Picture!Middle(k) = Picture!FloatOf(j, -25)
  <2>1. 2^10 = 1024
    OBVIOUS
  <2> QED
    BY <1>4, <2>1 DEF Picture!Middle
<1> QED
  BY <1>1, <1>4, <1>5, <1>6, <1>7

(* The quotient and the remainder are the ones there are. *)
Quotient(n, d, a, r) == a \in Nat /\ d \in Nat \ {0} /\ r \in 0 .. d - 1 /\ n = a * d + r

LEMMA Divided ==
  ASSUME NEW n, NEW d, NEW a, NEW r, Quotient(n, d, a, r)
  PROVE  n \div d = a /\ n % d = r
<1> USE DEF Quotient
<1> DEFINE q == n \div d
           s == n % d
<1>1. a * d \in Nat /\ n \in Nat
  <2>1. a * d \in Nat
    OBVIOUS
  <2> QED
    BY <2>1
<1>2. q \in Nat /\ s \in 0 .. d - 1 /\ n = d * q + s
  BY <1>1
<1>3. a * d + r = q * d + s
  BY <1>2
<1> HIDE DEF q, s
<1>4. ASSUME NEW x \in Nat, NEW y \in Nat, NEW u \in 0 .. d - 1, NEW v \in 0 .. d - 1,
             x * d + u = y * d + v, x < y
      PROVE  FALSE
  <2>1. y - x \in Nat /\ y - x >= 1 /\ (y - x) * d = u - v
    BY <1>4
  <2>2. PICK z \in Nat : y - x = 1 + z
    <3>1. y - x - 1 \in Nat /\ y - x = 1 + (y - x - 1)
      BY <2>1
    <3> QED
      BY <3>1
  <2>3. (y - x) * d = d + z * d /\ z * d \in Nat
    BY <2>2
  <2> QED
    BY <2>1, <2>3
<1>5. q = a
  BY <1>2, <1>3, <1>4
<1> QED
  BY <1>2, <1>3, <1>5 DEF q, s

(* The binary16 that are finite: subnormals, then normals. *)
Finites == 0 .. 31 * 2^10 - 1

(* Binary16 and float have their normals alike: the exponent is over by 112, and
   13 bits are missing. *)
LEMMA NormalHalves ==
  ASSUME NEW k \in 2^10 .. 31 * 2^10 - 1
  PROVE  /\ Picture!UnpackHalf(k) = k * 2^13 + 112 * 2^23
         /\ Picture!Middle(k) = k * 2^13 + 112 * 2^23 + 2^12
<1> DEFINE u == k \div 2^10
           w == k % 2^10
<1>1. u \in 1 .. 30 /\ w \in 0 .. 2^10 - 1 /\ k = u * 2^10 + w
  OBVIOUS
<1>2. u % 32 = u
  BY <1>1
<1>3. Picture!UnpackHalf(k) = (u + 112) * 2^23 + w * 2^13
  <2>1. u % 32 # 0 /\ u % 32 # 31
    BY <1>1, <1>2
  <2> QED
    BY <1>2, <2>1 DEF Picture!UnpackHalf
<1> HIDE DEF u, w
<1>4. (u + 112) * 2^23 + w * 2^13 = k * 2^13 + 112 * 2^23
  BY <1>1
<1>5. Picture!UnpackHalf(k) = k * 2^13 + 112 * 2^23
  BY <1>3, <1>4
<1>6. ~(k < 2^10)
  OBVIOUS
<1> QED
  BY <1>5, <1>6 DEF Picture!Middle

(* A subnormal is its multiple of 2^-24. *)
LEMMA SubnormalHalves ==
  ASSUME NEW k \in 0 .. 2^10 - 1
  PROVE  Picture!UnpackHalf(k) = Picture!FloatOf(k, -24)
<1>1. (k \div 2^10) % 32 = 0 /\ k % 2^10 = k
  OBVIOUS
<1> QED
  BY <1>1 DEF Picture!UnpackHalf

(* Where a binade's numbers are, as binary16. *)
LEMMA BinadeSteps ==
  ASSUME NEW l \in 0 .. 9, NEW p, NEW d, NEW c, Binade(l, p, d, c), NEW k \in p .. 2 * p - 1
  PROVE  /\ k \in 1 .. 2^10 - 1
         /\ Picture!UnpackHalf(k) = (103 + l) * 2^23 + (k - p) * d
         /\ Picture!Middle(k) = (103 + l) * 2^23 + (k - p) * d + c
         /\ Picture!UnpackHalf(k + 1) = (103 + l) * 2^23 + ((k + 1) - p) * d
         /\ Picture!FloatOf(k + 1, -24) = (103 + l) * 2^23 + ((k + 1) - p) * d
<1>1. p \in 1 .. 1024 /\ d \in Nat
  BY Binades
<1>2. k \in 1 .. 2^10 - 1 /\ Picture!Middle(k) = (103 + l) * 2^23 + (k - p) * d + c
  BY <1>1, Middles
<1> PICK n : n = k + 1
  OBVIOUS
<1>3. k \in p .. 2 * p /\ n \in p .. 2 * p
  BY <1>1
<1>4. /\ Picture!FloatOf(k, -24) = (103 + l) * 2^23 + (k - p) * d
      /\ Picture!FloatOf(n, -24) = (103 + l) * 2^23 + (n - p) * d
  BY <1>3, Subnormals
<1>5. Picture!UnpackHalf(k) = Picture!FloatOf(k, -24)
  BY <1>2, SubnormalHalves
<1>6. Picture!UnpackHalf(n) = (103 + l) * 2^23 + (n - p) * d
  <2>1. CASE n < 2^10
    <3>1. n \in 0 .. 2^10 - 1
      BY <1>2, <2>1
    <3> QED
      BY <1>4, <3>1, SubnormalHalves
  <2>2. CASE n >= 2^10
    <3>1. n = 1024
      BY <1>2, <2>2
    <3>2. Picture!UnpackHalf(n) = 113 * 2^23
      <4>1. n \in 2^10 .. 31 * 2^10 - 1
        BY <3>1
      <4>2. Picture!UnpackHalf(n) = n * 2^13 + 112 * 2^23
        BY <4>1, NormalHalves
      <4> QED
        BY <3>1, <4>2
    <3>3. l = 9 /\ p = 512
      <4>1. \E e : Binade(l + 1, 2 * p, c, e)
        BY NextBinade, Zenon
      <4>2. 2 * p \in 1 .. 1024 /\ n <= 2 * p
        BY <1>3, <4>1, Binades
      <4>3. p = 512
        <5>1. p \in Int /\ k < 2 * p /\ n = k + 1
          BY <1>1
        <5> QED
          BY <3>1, <4>2, <5>1
      <4>4. PowerOf(l, p)
        <5>1. l \in 0 .. 30
          OBVIOUS
        <5> QED
          BY <5>1, Powers DEF Binade
      <4> QED
        BY <4>3, <4>4 DEF PowerOf
    <3>4. (n - p) * d = 2^23
      <4>1. n - p = p /\ p * d = 2^23
        BY <3>1, <3>3, Binades
      <4> QED
        BY <4>1
    <3> QED
      BY <3>1, <3>2, <3>3, <3>4
  <2> QED
    BY <1>2, <2>1, <2>2
<1>7. Picture!UnpackHalf(k) = (103 + l) * 2^23 + (k - p) * d
  BY <1>4, <1>5
<1> QED
  BY <1>2, <1>4, <1>6, <1>7, Zenon

(* The first of them. *)
LEMMA Zeros ==
  /\ Picture!UnpackHalf(0) = 0
  /\ Picture!Middle(0) = 102 * 2^23
  /\ Picture!UnpackHalf(1) = 103 * 2^23 /\ Picture!FloatOf(1, -24) = 103 * 2^23
<1>1. Binade(0, 1, 2^23, 2^22)
  BY DEF Binade
<1>2. 1 \in 1 .. 2 * 1 - 1 /\ -24 \in Int /\ -25 \in Int /\ 127 + (-24) = 103 /\ 127 + (-25) = 102
  OBVIOUS
<1>3. Picture!FloatOf(1, -24) = (127 + (-24) + 0) * 2^23 + (1 - 1) * 2^23
  BY <1>1, <1>2, Floats
<1>4. Picture!FloatOf(1, -25) = (127 + (-25) + 0) * 2^23 + (1 - 1) * 2^23
  BY <1>1, <1>2, Floats
<1>5. Picture!FloatOf(1, -24) = 103 * 2^23 /\ Picture!FloatOf(1, -25) = 102 * 2^23
  BY <1>3, <1>4
<1>6. Picture!UnpackHalf(1) = Picture!FloatOf(1, -24) /\ Picture!UnpackHalf(0) = Picture!FloatOf(0, -24)
  BY SubnormalHalves
<1>7. Picture!FloatOf(0, -24) = 0
  BY DEF Picture!FloatOf
<1>8. Picture!Middle(0) = Picture!FloatOf(1, -25)
  BY DEF Picture!Middle
<1> QED
  BY <1>5, <1>6, <1>7, <1>8

(* The middle between a binary16 and the next is between them. *)
LEMMA Between ==
  ASSUME NEW k \in Finites
  PROVE  /\ Picture!UnpackHalf(k) \in Nat /\ Picture!Middle(k) \in Nat
         /\ Picture!UnpackHalf(k) < Picture!Middle(k)
         /\ k < 31 * 2^10 - 1 => Picture!Middle(k) < Picture!UnpackHalf(k + 1)
<1>1. CASE k = 0
  BY <1>1, Zeros
<1>2. CASE k \in 1 .. 2^10 - 1
  <2>1. PICK l \in 0 .. 9 : \E p, d, c : Binade(l, p, d, c) /\ k \in p .. 2 * p - 1
    BY <1>2, Logarithm, Zenon
  <2> PICK p, d, c : Binade(l, p, d, c) /\ k \in p .. 2 * p - 1
    BY <2>1, Zenon
  <2>2. /\ Picture!UnpackHalf(k) = (103 + l) * 2^23 + (k - p) * d
        /\ Picture!Middle(k) = (103 + l) * 2^23 + (k - p) * d + c
        /\ Picture!UnpackHalf(k + 1) = (103 + l) * 2^23 + ((k + 1) - p) * d
    BY BinadeSteps
  <2>3. p \in 1 .. 1024 /\ d = 2 * c /\ c \in Nat \ {0}
    BY Binades
  <2>4. (k - p) * d \in Nat /\ ((k + 1) - p) * d = (k - p) * d + d
    <3>1. k - p \in Nat /\ (k + 1) - p = (k - p) + 1
      BY <2>3
    <3> QED
      BY <2>3, <3>1
  <2> QED
    BY <2>2, <2>3, <2>4
<1>3. CASE k \in 2^10 .. 31 * 2^10 - 1
  <2>1. /\ Picture!UnpackHalf(k) = k * 2^13 + 112 * 2^23
        /\ Picture!Middle(k) = k * 2^13 + 112 * 2^23 + 2^12
    BY <1>3, NormalHalves
  <2>2. k < 31 * 2^10 - 1 => Picture!UnpackHalf(k + 1) = (k + 1) * 2^13 + 112 * 2^23
    <3> SUFFICES ASSUME k < 31 * 2^10 - 1 PROVE Picture!UnpackHalf(k + 1) = (k + 1) * 2^13 + 112 * 2^23
      OBVIOUS
    <3>1. k + 1 \in 2^10 .. 31 * 2^10 - 1
      BY <1>3
    <3> QED
      BY <3>1, NormalHalves
  <2> QED
    BY <1>3, <2>1, <2>2
<1> QED
  BY <1>1, <1>2, <1>3 DEF Finites

(* h is q, the last binary16 up to m, or the next one, for m beyond the middle. *)
Rounded(q, h, m) ==
  /\ q \in Finites /\ h \in Finites
  /\ Picture!UnpackHalf(q) <= m
  /\ q < 31 * 2^10 - 1 => m < Picture!UnpackHalf(q + 1)
  /\ \/ h = q /\ (m < Picture!Middle(q) \/ (m = Picture!Middle(q) /\ q % 2 = 0))
     \/ h = q + 1 /\ (m > Picture!Middle(q) \/ (m = Picture!Middle(q) /\ q % 2 = 1))

(* What rounds so is the nearest. *)
LEMMA RoundedIsNearest ==
  ASSUME NEW m \in Nat, NEW q, NEW h, Rounded(q, h, m)
  PROVE  Picture!IsNearest(h, m)
<1>1. q \in Nat /\ q < 31 * 2^10 /\ h \in Nat /\ h < 31 * 2^10
  BY DEF Rounded, Finites
<1>2. Picture!Middle(q) \in Nat /\ Picture!UnpackHalf(q) \in Nat
  BY Between DEF Rounded
<1>3. CASE h = q /\ (m < Picture!Middle(q) \/ (m = Picture!Middle(q) /\ q % 2 = 0))
  <2>1. ASSUME h > 0 PROVE m > Picture!Middle(h - 1)
    <3> PICK k : k = h - 1
      OBVIOUS
    <3>1. k \in Finites /\ k < 31 * 2^10 - 1 /\ k + 1 = q
      BY <1>1, <1>3, <2>1 DEF Finites
    <3>2. Picture!Middle(k) \in Nat /\ Picture!Middle(k) < Picture!UnpackHalf(q)
      BY <3>1, Between
    <3>3. Picture!UnpackHalf(q) <= m
      BY DEF Rounded
    <3> QED
      BY <1>2, <3>2, <3>3
  <2> QED
    BY <1>1, <1>3, <2>1 DEF Picture!IsNearest
<1>4. CASE h = q + 1 /\ (m > Picture!Middle(q) \/ (m = Picture!Middle(q) /\ q % 2 = 1))
  <2>1. m < Picture!UnpackHalf(h)
    BY <1>1, <1>4 DEF Rounded
  <2>2. Picture!UnpackHalf(h) \in Nat /\ Picture!Middle(h) \in Nat /\ Picture!UnpackHalf(h) < Picture!Middle(h)
    BY Between DEF Rounded
  <2>3. m < Picture!Middle(h)
    BY <2>1, <2>2
  <2>4. h - 1 = q /\ (q % 2 = 1 => h % 2 = 0)
    BY <1>1, <1>4
  <2> QED
    BY <1>1, <1>4, <2>3, <2>4 DEF Picture!IsNearest
<1> QED
  BY <1>3, <1>4 DEF Rounded

(* What a float of a binade is a multiple of. *)
LEMMA MultipleIn ==
  ASSUME NEW l \in 0 .. 9, NEW p, NEW d, NEW c, Binade(l, p, d, c),
         NEW a \in 0 .. p - 1, NEW s \in 0 .. d - 1, NEW m, m = (103 + l) * 2^23 + (a * d + s)
  PROVE  Picture!Multiple(m) = Picture!Nearest(p + a, s, d)
<1>1. p \in Nat /\ d \in Nat \ {0} /\ p * d = 2^23 /\ 2^(23 - l) = d
  BY Binades
<1> PICK r : r = a * d + s
  OBVIOUS
<1>2. r \in 0 .. 2^23 - 1
  <2>1. a * d \in Nat /\ a * d + d <= p * d
    <3>1. PICK b \in Nat : p = a + 1 + b
      <4>1. p - a - 1 \in Nat /\ p = a + 1 + (p - a - 1)
        BY <1>1
      <4> QED
        BY <4>1
    <3>2. a \in Nat /\ b * d \in Nat /\ a * d \in Nat
      BY <1>1
    <3>3. p * d = a * d + d + b * d
      BY <1>1, <3>1, <3>2
    <3> QED
      BY <1>1, <3>2, <3>3
  <2> QED
    BY <1>1, <2>1
<1>3. m \in Nat /\ m \div 2^23 = 103 + l /\ m % 2^23 = r /\ ~(m < 2^23)
  BY <1>2
<1> PICK q : q = p + a
  OBVIOUS
<1>4. q \in Nat /\ 2^23 + r = q * d + s
  BY <1>1
<1>5. (2^23 + r) \div d = q /\ (2^23 + r) % d = s
  <2>1. Quotient(2^23 + r, d, q, s)
    BY <1>1, <1>4 DEF Quotient
  <2> QED
    BY <2>1, Divided, Zenon
<1>6. 126 - (103 + l) = 23 - l /\ ~(23 - l > 30)
  OBVIOUS
<1>7. Picture!Multiple(m) = Picture!Nearest((2^23 + r) \div d, (2^23 + r) % d, d)
  BY <1>1, <1>3, <1>6 DEF Picture!Multiple
<1> QED
  BY <1>5, <1>7

(* What a float below every binary16 but zero is a multiple of: the middle is at
   half of the smallest. *)
LEMMA MultipleBelow ==
  ASSUME NEW m \in 0 .. 103 * 2^23 - 1
  PROVE  Picture!Multiple(m) = IF m > 102 * 2^23 THEN 1 ELSE 0
<1>1. CASE m >= 102 * 2^23
  <2>1. m \div 2^23 = 102 /\ m % 2^23 = m - 102 * 2^23 /\ ~(m < 2^23)
    BY <1>1
  <2>2. PICK n : n = 2^23 + (m % 2^23)
    OBVIOUS
  <2>3. n \in 2^23 .. 2^24 - 1 /\ (n > 2^23 <=> m > 102 * 2^23)
    BY <1>1, <2>1, <2>2
  <2>4. Picture!Multiple(m) = Picture!Nearest(n \div 2^24, n % 2^24, 2^24)
    <3>1. 126 - 102 = 24 /\ ~(24 > 30)
      OBVIOUS
    <3> QED
      BY <2>1, <2>2, <3>1 DEF Picture!Multiple
  <2>5. n \div 2^24 = 0 /\ n % 2^24 = n
    BY <2>3
  <2> QED
    BY <1>1, <2>3, <2>4, <2>5 DEF Picture!Nearest
<1>2. CASE m < 102 * 2^23
  <2>1. PICK e : e = IF m < 2^23 THEN 1 ELSE m \div 2^23
    OBVIOUS
  <2>2. PICK n : n = IF m < 2^23 THEN m ELSE 2^23 + (m % 2^23)
    OBVIOUS
  <2>3. PICK j : j = IF 126 - e > 30 THEN 30 ELSE 126 - e
    OBVIOUS
  <2>4. PICK q : q = 2^j
    OBVIOUS
  <2>5. e \in 1 .. 101 /\ n \in 0 .. 2^24 - 1
    BY <1>2, <2>1, <2>2
  <2>6. j \in 25 .. 30
    BY <2>3, <2>5
  <2>7. Picture!Multiple(m) = Picture!Nearest(n \div q, n % q, q)
    BY <2>1, <2>2, <2>3, <2>4 DEF Picture!Multiple
  <2>8. q \in Nat /\ q >= 2^25
    <3>1. PowerOf(j, q)
      <4>1. j \in 0 .. 30
        BY <2>6
      <4> QED
        BY <2>4, <4>1, Powers
    <3> QED
      BY <2>6, <3>1 DEF PowerOf
  <2>9. n \div q = 0 /\ n % q = n
    <3>1. n \in 0 .. q - 1 /\ n = 0 * q + n /\ q \in Nat \ {0} /\ 0 \in Nat
      BY <2>5, <2>8
    <3>2. Quotient(n, q, 0, n)
      BY <3>1 DEF Quotient
    <3> QED
      BY <3>2, Divided, Zenon
  <2>10. ~(2 * n > q) /\ 2 * n # q
    BY <2>5, <2>8
  <2>11. Picture!Multiple(m) = 0
    BY <2>7, <2>9, <2>10 DEF Picture!Nearest
  <2> QED
    BY <1>2, <2>11
<1> QED
  BY <1>1, <1>2

(* Below the normals, half_round takes the multiple. *)
LEMMA SubnormalRounds ==
  ASSUME NEW m \in 0 .. 113 * 2^23 - 1
  PROVE  \E q, h : Rounded(q, h, m) /\ h <= 2^10 /\ Picture!HalfRound(m) = Picture!UnpackHalf(h)
<1>1. Picture!HalfRound(m) = Picture!FloatOf(Picture!Multiple(m), -24)
  <2>1. ~(m >= Picture!Infinity) /\ ~(m >= Picture!Overflow) /\ m < Picture!Normal
    BY DEF Picture!Infinity, Picture!Overflow, Picture!Normal
  <2> QED
    BY <2>1 DEF Picture!HalfRound
<1>2. CASE m < 103 * 2^23
  <2>1. Picture!Multiple(m) = IF m > 102 * 2^23 THEN 1 ELSE 0
    <3>1. m \in 0 .. 103 * 2^23 - 1
      BY <1>2
    <3> QED
      BY <3>1, MultipleBelow
  <2>2. Picture!FloatOf(0, -24) = 0
    BY DEF Picture!FloatOf
  <2>3. 0 \in Finites /\ 1 \in Finites /\ 0 + 1 = 1 /\ 0 % 2 = 0
    BY DEF Finites
  <2>4. CASE m > 102 * 2^23
    <3>1. Rounded(0, 1, m)
      BY <1>2, <2>3, <2>4, Zeros DEF Rounded
    <3> QED
      BY <1>1, <2>1, <2>4, <3>1, Zeros
  <2>5. CASE ~(m > 102 * 2^23)
    <3>1. Rounded(0, 0, m)
      BY <1>2, <2>3, <2>5, Zeros DEF Rounded
    <3> QED
      BY <1>1, <2>1, <2>2, <2>5, <3>1, Zeros
  <2> QED
    BY <2>4, <2>5
<1>3. CASE m >= 103 * 2^23
  <2>1. PICK l, p, d, c : l = (m \div 2^23) - 103 /\ p = 2^l /\ d = 2^(23 - l) /\ c = 2^(22 - l)
    OBVIOUS
  <2>2. PICK r, a, s, q : r = m % 2^23 /\ a = r \div d /\ s = r % d /\ q = p + a
    OBVIOUS
  <2>3. l \in 0 .. 9 /\ r \in 0 .. 2^23 - 1 /\ m = (103 + l) * 2^23 + r
    <3>1. r \in 0 .. 2^23 - 1
      BY <2>2
    <3>2. m \div 2^23 \in 103 .. 112 /\ m = (m \div 2^23) * 2^23 + (m % 2^23)
      BY <1>3
    <3> QED
      BY <2>1, <2>2, <3>1, <3>2
  <2>4. Binade(l, p, d, c)
    BY <2>1, <2>3 DEF Binade
  <2>5. p \in 1 .. 1024 /\ d \in Nat \ {0} /\ c \in Nat \ {0} /\ p * d = 2^23 /\ d = 2 * c
    BY <2>4, Binades
  <2>6. a \in Nat /\ s \in 0 .. d - 1 /\ r = a * d + s
    <3>1. r \in Nat /\ d \in Nat \ {0}
      BY <2>3, <2>5
    <3>2. r \div d \in Nat /\ r % d \in 0 .. d - 1 /\ r = d * (r \div d) + (r % d)
      BY <3>1
    <3>3. r = d * a + s /\ d * a = a * d
      BY <2>2, <3>1, <3>2
    <3> QED
      BY <2>2, <3>2, <3>3
  <2>7. a < p
    <3>1. ASSUME a >= p PROVE FALSE
      <4>1. PICK b \in Nat : a = p + b
        <5>1. a - p \in Nat /\ a = p + (a - p)
          BY <2>5, <2>6, <3>1
        <5> QED
          BY <5>1
      <4>2. a * d = p * d + b * d /\ b * d \in Nat
        BY <2>5, <4>1
      <4> QED
        BY <2>3, <2>5, <2>6, <4>2
    <3> QED
      BY <2>5, <2>6, <3>1
  <2>8. q \in p .. 2 * p - 1 /\ q - p = a /\ a \in 0 .. p - 1 /\ q \in Nat
    BY <2>2, <2>5, <2>6, <2>7
  <2>9. Picture!Multiple(m) = Picture!Nearest(q, s, d)
    <3>1. m = (103 + l) * 2^23 + (a * d + s)
      BY <2>3, <2>6
    <3>2. Picture!Multiple(m) = Picture!Nearest(p + a, s, d)
      BY <2>3, <2>4, <2>6, <2>8, <3>1, MultipleIn
    <3> QED
      BY <2>2, <3>2
  <2>10. PICK n : n = q + 1
    OBVIOUS
  <2>11. /\ q \in 1 .. 2^10 - 1
         /\ Picture!UnpackHalf(q) = (103 + l) * 2^23 + (q - p) * d
         /\ Picture!Middle(q) = (103 + l) * 2^23 + (q - p) * d + c
         /\ Picture!UnpackHalf(n) = (103 + l) * 2^23 + (n - p) * d
         /\ Picture!FloatOf(n, -24) = (103 + l) * 2^23 + (n - p) * d
    BY <2>3, <2>4, <2>8, <2>10, BinadeSteps
  <2>12. Picture!UnpackHalf(q) = Picture!FloatOf(q, -24) /\ Picture!UnpackHalf(n) = Picture!FloatOf(n, -24)
    BY <2>11, SubnormalHalves
  <2>13. n - p = a + 1 /\ (n - p) * d = a * d + d /\ a * d \in Nat
    <3>1. n - p = a + 1
      BY <2>5, <2>8, <2>10
    <3>2. (a + 1) * d = a * d + d /\ a * d \in Nat
      BY <2>5, <2>6
    <3> QED
      BY <3>1, <3>2
  <2>14. PICK v : v = (103 + l) * 2^23 + a * d
    OBVIOUS
  <2>15. v \in Nat /\ m = v + s
    BY <2>3, <2>6, <2>13, <2>14
  <2>16. Picture!UnpackHalf(q) = v /\ Picture!Middle(q) = v + c
    BY <2>8, <2>11, <2>14
  <2>17. Picture!UnpackHalf(n) = v + d
    BY <2>3, <2>5, <2>11, <2>13, <2>14
  <2>18. q \in Finites /\ n \in Finites /\ n <= 2^10 /\ q <= 2^10
    BY <2>10, <2>11 DEF Finites
  <2>19. CASE 2 * s > d \/ (2 * s = d /\ q % 2 = 1)
    <3>1. Picture!Multiple(m) = n
      BY <2>9, <2>10, <2>19 DEF Picture!Nearest
    <3>2. v + s < v + d /\ (v + s > v + c \/ (v + s = v + c /\ q % 2 = 1)) /\ v <= v + s
      BY <2>5, <2>6, <2>15, <2>19
    <3>3. Rounded(q, n, m)
      BY <2>10, <2>15, <2>16, <2>17, <2>18, <3>2 DEF Rounded
    <3> QED
      BY <1>1, <2>12, <2>18, <3>1, <3>3
  <2>20. CASE ~(2 * s > d \/ (2 * s = d /\ q % 2 = 1))
    <3>1. Picture!Multiple(m) = q
      BY <2>9, <2>20 DEF Picture!Nearest
    <3>2. v + s < v + d /\ (v + s < v + c \/ (v + s = v + c /\ q % 2 = 0)) /\ v <= v + s
      BY <2>5, <2>6, <2>8, <2>15, <2>20
    <3>3. Rounded(q, q, m)
      BY <2>10, <2>15, <2>16, <2>17, <2>18, <3>2 DEF Rounded
    <3> QED
      BY <1>1, <2>12, <2>18, <3>1, <3>3
  <2> QED
    BY <2>19, <2>20
<1> QED
  BY <1>2, <1>3

(* Among the normals, half_round drops 13 bits, by an addition that carries. *)
LEMMA NormalRounds ==
  ASSUME NEW m \in 113 * 2^23 .. 143 * 2^23 - 2^12 - 1
  PROVE  \E q, h : Rounded(q, h, m) /\ Picture!HalfRound(m) = Picture!UnpackHalf(h)
<1> PICK r, q, s : r = m - 112 * 2^23 /\ q = r \div 2^13 /\ s = r % 2^13
  OBVIOUS
<1>1. r \in 2^23 .. 31 * 2^23 - 2^12 - 1
  OBVIOUS
<1>2. /\ q \in 2^10 .. 31 * 2^10 - 1 /\ s \in 0 .. 2^13 - 1 /\ r = q * 2^13 + s
      /\ q = 31 * 2^10 - 1 => s < 2^12
  BY <1>1
<1>3. m \div 2^13 = 112 * 2^10 + q /\ (m \div 2^13) % 2 = q % 2
  BY <1>1, <1>2
<1> PICK o : o = q % 2
  OBVIOUS
<1>4. o \in {0, 1}
  BY <1>2
<1>5. Picture!HalfRound(m) = ((m + 4095 + o) \div 2^13) * 2^13
  <2>1. ~(m >= Picture!Infinity) /\ ~(m >= Picture!Overflow) /\ ~(m < Picture!Normal)
    BY DEF Picture!Infinity, Picture!Overflow, Picture!Normal
  <2> QED
    BY <1>3, <2>1 DEF Picture!HalfRound
<1>6. /\ Picture!UnpackHalf(q) = q * 2^13 + 112 * 2^23
      /\ Picture!Middle(q) = q * 2^13 + 112 * 2^23 + 2^12
  BY <1>2, NormalHalves
<1>7. q < 31 * 2^10 - 1 => Picture!UnpackHalf(q + 1) = (q + 1) * 2^13 + 112 * 2^23
  <2> SUFFICES ASSUME q < 31 * 2^10 - 1 PROVE Picture!UnpackHalf(q + 1) = (q + 1) * 2^13 + 112 * 2^23
    OBVIOUS
  <2>1. q + 1 \in 2^10 .. 31 * 2^10 - 1
    BY <1>2
  <2> QED
    BY <2>1, NormalHalves
<1>8. m = q * 2^13 + 112 * 2^23 + s
  BY <1>1, <1>2
<1>9. CASE s > 2^12 \/ (s = 2^12 /\ o = 1)
  <2>1. (m + 4095 + o) \div 2^13 = 112 * 2^10 + q + 1
    BY <1>2, <1>4, <1>8, <1>9
  <2>2. q < 31 * 2^10 - 1
    BY <1>2, <1>9
  <2>3. Rounded(q, q + 1, m)
    BY <1>2, <1>6, <1>7, <1>8, <1>9, <2>2 DEF Rounded, Finites
  <2>4. Picture!HalfRound(m) = Picture!UnpackHalf(q + 1)
    BY <1>2, <1>5, <1>7, <2>1, <2>2
  <2> QED
    BY <2>3, <2>4
<1>10. CASE ~(s > 2^12 \/ (s = 2^12 /\ o = 1))
  <2>1. (m + 4095 + o) \div 2^13 = 112 * 2^10 + q
    BY <1>2, <1>4, <1>8, <1>10
  <2>2. Rounded(q, q, m)
    BY <1>2, <1>4, <1>6, <1>7, <1>8, <1>10 DEF Rounded, Finites
  <2>3. Picture!HalfRound(m) = Picture!UnpackHalf(q)
    BY <1>2, <1>5, <1>6, <2>1
  <2> QED
    BY <2>2, <2>3
<1> QED
  BY <1>9, <1>10

(* A float that rounds to a finite binary16, rounds to the nearest. *)
LEMMA Rounds ==
  ASSUME NEW m \in Nat, Picture!Finite(Picture!HalfRound(m))
  PROVE  \E q, h : Rounded(q, h, m) /\ Picture!HalfRound(m) = Picture!UnpackHalf(h)
<1>1. m < 143 * 2^23 - 2^12
  <2>1. CASE m >= 255 * 2^23
    <3>1. Picture!HalfRound(m) = m
      BY <2>1 DEF Picture!HalfRound, Picture!Infinity
    <3> QED
      BY <2>1, <3>1 DEF Picture!Finite, Picture!Infinity
  <2>2. CASE m < 255 * 2^23 /\ m >= 143 * 2^23 - 2^12
    <3>1. Picture!HalfRound(m) = 255 * 2^23
      BY <2>2 DEF Picture!HalfRound, Picture!Infinity, Picture!Overflow
    <3> QED
      BY <3>1 DEF Picture!Finite, Picture!Infinity
  <2> QED
    BY <2>1, <2>2
<1>2. CASE m \in 0 .. 113 * 2^23 - 1
  BY <1>2, SubnormalRounds, Zenon
<1>3. CASE m \in 113 * 2^23 .. 143 * 2^23 - 2^12 - 1
  BY <1>3, NormalRounds, Zenon
<1> QED
  BY <1>1, <1>2, <1>3

(* A binary16 is the one it packs to, and is left as it is by rounding. *)
LEMMA Packs ==
  ASSUME NEW k \in Finites
  PROVE  /\ Picture!UnpackHalf(k) \in Nat
         /\ Picture!HalfRound(Picture!UnpackHalf(k)) = Picture!UnpackHalf(k)
         /\ Picture!PackHalf(Picture!UnpackHalf(k)) = k
<1>1. CASE k \in 0 .. 2^10 - 1
  <2>1. PICK m : m = Picture!UnpackHalf(k)
    OBVIOUS
  <2>2. m = Picture!FloatOf(k, -24)
    BY <1>1, <2>1, SubnormalHalves
  <2>3. m \in 0 .. 113 * 2^23 - 1 /\ Picture!Multiple(m) = k
    <3>1. CASE k = 0
      <4>1. m = 0
        BY <2>1, <3>1, Zeros
      <4>2. m \in 0 .. 103 * 2^23 - 1 /\ ~(m > 102 * 2^23)
        BY <4>1
      <4>3. Picture!Multiple(m) = IF m > 102 * 2^23 THEN 1 ELSE 0
        BY <4>2, MultipleBelow
      <4> QED
        BY <3>1, <4>1, <4>2, <4>3
    <3>2. CASE k \in 1 .. 2^10 - 1
      <4>1. PICK l \in 0 .. 9 : \E p, d, c : Binade(l, p, d, c) /\ k \in p .. 2 * p - 1
        BY <3>2, Logarithm, Zenon
      <4>2. PICK p, d, c : Binade(l, p, d, c) /\ k \in p .. 2 * p - 1
        BY <4>1, Zenon
      <4>3. PICK a : a = k - p
        OBVIOUS
      <4>4. p \in 1 .. 1024 /\ d \in Nat \ {0} /\ p * d = 2^23
        BY <4>2, Binades
      <4>5. a \in 0 .. p - 1 /\ k = p + a /\ 0 \in 0 .. d - 1
        BY <4>2, <4>3, <4>4
      <4>6. Picture!UnpackHalf(k) = (103 + l) * 2^23 + (k - p) * d
        BY <4>2, BinadeSteps
      <4>7. m = (103 + l) * 2^23 + (a * d + 0)
        BY <2>1, <4>3, <4>4, <4>5, <4>6
      <4>8. Picture!Multiple(m) = Picture!Nearest(p + a, 0, d)
        BY <4>2, <4>5, <4>7, MultipleIn
      <4>9. Picture!Nearest(p + a, 0, d) = p + a
        BY <4>4 DEF Picture!Nearest
      <4>10. Picture!Multiple(m) = k
        BY <4>5, <4>8, <4>9
      <4>11. Picture!UnpackHalf(k + 1) = (103 + l) * 2^23 + ((k + 1) - p) * d
        BY <4>2, BinadeSteps
      <4>12. a * d \in 0 .. 2^23 - 1
        <5>1. PICK b \in Nat : p = a + 1 + b
          <6>1. p - a - 1 \in Nat /\ p = a + 1 + (p - a - 1)
            BY <4>4, <4>5
          <6> QED
            BY <6>1
        <5>2. a \in Nat /\ a * d \in Nat /\ b * d \in Nat /\ p * d = a * d + d + b * d
          BY <4>4, <4>5, <5>1
        <5> QED
          BY <4>4, <5>2
      <4>13. m \in 0 .. 113 * 2^23 - 1
        BY <4>7, <4>12
      <4> QED
        BY <4>10, <4>13
    <3> QED
      BY <1>1, <3>1, <3>2
  <2>4. /\ ~(m >= Picture!Infinity) /\ ~(m >= Picture!Overflow) /\ m < Picture!Normal
    BY <2>3 DEF Picture!Infinity, Picture!Overflow, Picture!Normal
  <2>5. Picture!HalfRound(m) = m
    BY <2>2, <2>3, <2>4 DEF Picture!HalfRound
  <2>6. Picture!PackHalf(m) = k
    BY <2>3, <2>4, <2>5 DEF Picture!PackHalf
  <2> QED
    BY <2>1, <2>3, <2>5, <2>6
<1>2. CASE k \in 2^10 .. 31 * 2^10 - 1
  <2>1. PICK m : m = Picture!UnpackHalf(k)
    OBVIOUS
  <2>2. m = k * 2^13 + 112 * 2^23
    BY <1>2, <2>1, NormalHalves
  <2>3. m \div 2^13 = k + 112 * 2^10 /\ m \in Nat
    BY <1>2, <2>2
  <2>4. PICK o : o = (m \div 2^13) % 2
    OBVIOUS
  <2>5. o \in {0, 1}
    BY <1>2, <2>3, <2>4
  <2>6. ((m + 4095 + o) \div 2^13) * 2^13 = m
    BY <1>2, <2>2, <2>5
  <2>7. /\ ~(m >= Picture!Infinity) /\ ~(m >= Picture!Overflow) /\ ~(m < Picture!Normal)
    BY <1>2, <2>2 DEF Picture!Infinity, Picture!Overflow, Picture!Normal
  <2>8. Picture!HalfRound(m) = m
    BY <2>4, <2>6, <2>7 DEF Picture!HalfRound
  <2>9. (m \div 2^13) - 112 * 2^10 = k
    BY <1>2, <2>3
  <2>10. Picture!PackHalf(m) = k
    BY <2>7, <2>8, <2>9 DEF Picture!PackHalf
  <2> QED
    BY <2>1, <2>3, <2>8, <2>10
<1> QED
  BY <1>1, <1>2 DEF Finites

(* Of a picture's samples, the ones that are let in are finite. *)
LEMMA Lets ==
  ASSUME NEW k \in 0 .. 2^15 - 1, Picture!Finite(Picture!UnpackHalf(k))
  PROVE  k \in Finites
<1>1. CASE k >= 31 * 2^10
  <2>1. (k \div 2^10) % 32 = 31 /\ k % 2^10 \in Nat
    BY <1>1
  <2>2. Picture!UnpackHalf(k) = 255 * 2^23 + (k % 2^10) * 2^13
    BY <2>1 DEF Picture!UnpackHalf
  <2>3. ~(Picture!UnpackHalf(k) < 255 * 2^23)
    BY <2>1, <2>2
  <2> QED
    BY <2>3 DEF Picture!Finite, Picture!Infinity
<1> QED
  BY <1>1 DEF Finites

(* A finite binary16, or an answer on its way to one: what it was read from. *)
Samples ==
  /\ source \in Sources
  /\ stage = "infer" => read \in Finites /\ sample = Picture!HalfRound(Picture!UnpackHalf(read))
  /\ stage = "answered" => sample \in Nat
  /\ stage \in {"fed", "decoded"} => read \in Nat /\ Picture!Finite(Picture!HalfRound(read))
  /\ stage = "fed" => sample = Picture!HalfRound(read)
  /\ stage = "decoded" => sample = Picture!PackHalf(Picture!HalfRound(read))

(* Every step keeps that. *)
LEMMA SamplesStep == Samples /\ [FramesNext]_<<vars, picture>> => Samples'
<1> SUFFICES ASSUME Samples, [FramesNext]_<<vars, picture>> PROVE Samples'
  OBVIOUS
<1>1. CASE Picture!Fit
  BY <1>1 DEF Picture!Fit, Samples
<1>2. CASE Picture!Encode
  <2>1. PICK k \in SourceSamples(source) :
          IF ~Picture!Finite(Picture!UnpackHalf(k)) THEN Picture!Reject
          ELSE stage' = "infer" /\ sample' = Picture!HalfRound(Picture!UnpackHalf(k)) /\ read' = k
    BY <1>2, Zenon DEF Picture!Encode
  <2>2. source' = source /\ source \in Sources
    BY <1>2 DEF Picture!Encode, Samples
  <2>3. k \in 0 .. 2^15 - 1
    BY <2>2, SampleAssumption, Zenon
  <2>4. CASE ~Picture!Finite(Picture!UnpackHalf(k))
    BY <2>1, <2>2, <2>4 DEF Picture!Reject, Samples
  <2>5. CASE Picture!Finite(Picture!UnpackHalf(k))
    <3>1. k \in Finites
      BY <2>3, <2>5, Lets, Zenon
    <3> QED
      BY <2>1, <2>2, <2>5, <3>1 DEF Samples
  <2> QED
    BY <2>4, <2>5
<1>3. CASE Picture!Infer
  BY <1>3, SampleAssumption DEF Picture!Infer, Samples
<1>4. CASE Picture!Feedback
  BY <1>4 DEF Picture!Feedback, Picture!Reject, Samples
<1>5. CASE Picture!Decode
  BY <1>5 DEF Picture!Decode, Picture!Reject, Samples
<1>6. CASE UNCHANGED picture
  BY <1>6 DEF picture, Samples
<1>7. Picture!Over => UNCHANGED picture
  BY Zenon DEF Picture!Over, Picture!vars, picture
<1> QED
  BY <1>1, <1>2, <1>3, <1>4, <1>5, <1>6, <1>7 DEF FramesNext, PictureStep, EngineStep, Picture!Next

(* A finite binary16 that comes from rounding is the nearest to what was read. *)
LEMMA Nearby ==
  ASSUME NEW m \in Nat, Picture!Finite(Picture!HalfRound(m))
  PROVE  /\ Picture!IsNearest(Picture!PackHalf(Picture!HalfRound(m)), m)
         /\ Picture!UnpackHalf(Picture!PackHalf(Picture!HalfRound(m))) = Picture!HalfRound(m)
<1>1. PICK q, h : Rounded(q, h, m) /\ Picture!HalfRound(m) = Picture!UnpackHalf(h)
  BY Rounds, Zenon
<1>2. h \in Finites
  BY <1>1 DEF Rounded
<1>3. Picture!PackHalf(Picture!UnpackHalf(h)) = h
  BY <1>2, Packs, Zenon
<1>4. Picture!IsNearest(h, m)
  BY <1>1, RoundedIsNearest, Zenon
<1> QED
  BY <1>1, <1>3, <1>4, Zenon

(* A frame's samples are finite binary16, and the nearest: every one of a source
   reaches the network as it is, and whatever a network answers is fed back and
   decoded as the nearest, ties to even, from the subnormals to the greatest
   (half_round, unpack_half, pack_half).                                       *)
THEOREM HalvesNearest == FramesSpec => []HalvesAreNearest
<1>1. FramesInit => Samples
  BY DEF FramesInit, Picture!Init, Samples
<1>2. Samples => HalvesAreNearest
  <2> SUFFICES ASSUME Samples PROVE HalvesAreNearest
    OBVIOUS
  <2>1. ASSUME stage = "infer" PROVE sample = Picture!UnpackHalf(read) /\ Picture!PackHalf(sample) = read
    <3>1. read \in Finites /\ sample = Picture!HalfRound(Picture!UnpackHalf(read))
      BY <2>1 DEF Samples
    <3> QED
      BY <3>1, Packs
  <2>2. ASSUME stage = "fed"
        PROVE  Picture!IsNearest(Picture!PackHalf(sample), read) /\ Picture!UnpackHalf(Picture!PackHalf(sample)) = sample
    <3>1. read \in Nat /\ Picture!Finite(Picture!HalfRound(read)) /\ sample = Picture!HalfRound(read)
      BY <2>2 DEF Samples
    <3> QED
      BY <3>1, Nearby, Zenon
  <2>3. ASSUME stage = "decoded" PROVE Picture!IsNearest(sample, read)
    <3>1. read \in Nat /\ Picture!Finite(Picture!HalfRound(read)) /\ sample = Picture!PackHalf(Picture!HalfRound(read))
      BY <2>3 DEF Samples
    <3> QED
      BY <3>1, Nearby, Zenon
  <2> QED
    BY <2>1, <2>2, <2>3, Zenon DEF HalvesAreNearest, Picture!HalvesAreNearest
<1> QED
  BY <1>1, <1>2, SamplesStep, PTL DEF FramesSpec
=============================================================================
