---------------------------- MODULE WorkerProofs ----------------------------
(***************************************************************************)
(* What a daemon's process owes to its command line and to its trace       *)
(* directory.  First traces, for any workers, clients, tokens, stages and  *)
(* requests: one worker serves at a time and owns the directory, no trace  *)
(* is forgotten, and evidence under a marker is whole.  Then Startup, for  *)
(* any command line and config file: each option is as its most specific   *)
(* source gave it, and the engine that opens can do what they ask.         *)
(***************************************************************************)
EXTENDS Trace, Startup, TLAPS

(* Whoever has a place in the directory has its lock. *)
Exclusive == \A w \in Workers : pc[w] \notin {"off", "gone"} => lock = w

Tracing(w) == pc[w] \in {"frame", "finish", "mark"} \/ (pc[w] = "loop" /\ trace[w] # NoTrace)

(* Requests become traces once: until then they are to come. *)
ToCome(id) == id \in 1 .. requests \ created

RequestWaits == request # NoRequest => ToCome(request.id)

(* A claimed request is no longer the one that waits, and only who has one has
   a trace. *)
Engaged(w) ==
  /\ pc[w] # "named" /\ ~Tracing(w) => trace[w] = NoTrace
  /\ pc[w] = "claimed" => ToCome(claim[w].id) /\ claim[w].id # request.id
  /\ pc[w] = "named" => /\ ToCome(trace[w].id) /\ trace[w].id # request.id
                        /\ trace[w].token \in Tokens /\ trace[w].stages = 0

(* A client's token is in one request at most, and under no marker until that
   is over. *)
Asked(c) == cpc[c] \notin {"idle", "link"}

Linked(c) ==
  /\ request.token = c \/ c \in done => Asked(c)
  /\ request.token = c => c \notin done

Reserved(c, w) ==
  (pc[w] = "claimed" /\ claim[w].token = c) \/ trace[w].token = c =>
    Asked(c) /\ c \notin done /\ request.token # c

(* What a worker that traces has written. *)
Begun(t) ==
  /\ t.token \in Tokens \ done /\ t.id \in created
  /\ dir[t.token].exists
  /\ t.stages <= NumStages /\ \A i \in 1 .. t.stages : dir[t.token].images[i] = t.id

Ended(t) == t.error \/ t.stages = NumStages
SummaryOf(t) == [id |-> t.id, stages |-> t.stages, complete |-> ~t.error]

Written(w) ==
  /\ Tracing(w) => Begun(trace[w])
  /\ pc[w] \in {"finish", "mark"} => Ended(trace[w])
  /\ pc[w] = "mark" => dir[trace[w].token].summary = SummaryOf(trace[w])

OneTrace == \A w \in Workers : Engaged(w)
Sole == \A c \in Clients : Linked(c) /\ \A w \in Workers : Reserved(c, w)
Writing == \A w \in Workers : Written(w)

(* Nobody takes the evidence of a token written by hand. *)
HandsStay == \A t \in Hand \cap done : dir[t].exists

Evidence == HandsStay /\ NoTraceForgotten /\ EvidenceIsWhole

Traced == RequestWaits /\ OneTrace /\ Sole /\ Writing /\ Evidence

IInv == Exclusive /\ ServingIsOwned /\ Traced

-----------------------------------------------------------------------------
(* Types.                                                                  *)

(* The records of nothing. *)
LEMMA RecordTypes ==
  /\ NoRequest \in Requests /\ NoDir \in Directories /\ NoTrace \in Traces
  /\ NoTrace.id = 0 /\ NoTrace.token = Junk /\ NoRequest.id = 0 /\ NoRequest.token = Junk /\ ~NoDir.exists
BY DEF NoRequest, NoDir, NoTrace, NoSummary, Requests, Directories, Traces

(* A request as it is traced, and a trace that ends. *)
LEMMA NamedRecord ==
  ASSUME NEW r \in Requests
  PROVE  LET n == [NoTrace EXCEPT !.id = r.id, !.token = r.token]
         IN n \in Traces /\ n.id = r.id /\ n.token = r.token /\ n.stages = 0
BY DEF NoTrace, Requests, Traces

LEMMA EndingRecord ==
  ASSUME NEW t \in Traces, NEW error \in BOOLEAN, NEW last \in BOOLEAN
  PROVE  /\ Ending(t, error, last) \in Traces
         /\ Ending(t, error, last).id = t.id /\ Ending(t, error, last).token = t.token
         /\ Ending(t, error, last).stages = t.stages
         /\ Ending(t, error, last).error <=> (t.error \/ error)
<1> DEFINE e == [t EXCEPT !.error = t.error \/ error, !.last = last]
<1>1. (t.error \/ error) \in BOOLEAN
  BY Zenon
<1>2. e \in Traces
  BY <1>1 DEF Traces
<1>3. e.id = t.id /\ e.token = t.token /\ e.stages = t.stages
  BY DEF Traces
<1>4. e.error <=> (t.error \/ error)
  BY DEF Traces
<1> QED
  BY <1>2, <1>3, <1>4, Zenon DEF Ending

(* Types are kept by what changes one worker's place and trace. *)
LEMMA PlaceTyped ==
  ASSUME TypeOK, NEW w \in Workers, NEW p \in Places, Goto(w, p)
  PROVE  pc' \in [Workers -> Places]
BY DEF TypeOK, Goto, Places

LEMMA TraceTyped ==
  ASSUME TypeOK, NEW w \in Workers, NEW t \in Traces, trace' = [trace EXCEPT ![w] = t]
  PROVE  trace' \in [Workers -> Traces]
BY DEF TypeOK

LEMMA DirTyped ==
  ASSUME TypeOK, NEW t \in Tokens
  PROVE  /\ dir' = [dir EXCEPT ![t] = NoDir] => dir' \in [Tokens -> Directories]
         /\ dir' = [dir EXCEPT ![t].exists = TRUE] => dir' \in [Tokens -> Directories]
         /\ \A i \in 1 .. NumStages, id \in Nat :
              dir' = [dir EXCEPT ![t].images[i] = id] => dir' \in [Tokens -> Directories]
         /\ \A s \in [id : Nat, stages : Nat, complete : BOOLEAN] :
              dir' = [dir EXCEPT ![t].summary = s] => dir' \in [Tokens -> Directories]
<1>1. dir \in [Tokens -> Directories]
  BY DEF TypeOK
<1>2. dir' = [dir EXCEPT ![t] = NoDir] => dir' \in [Tokens -> Directories]
  BY <1>1, RecordTypes
<1>3. dir' = [dir EXCEPT ![t].exists = TRUE] => dir' \in [Tokens -> Directories]
  BY <1>1 DEF Directories
<1>4. ASSUME NEW i \in 1 .. NumStages, NEW id \in Nat, dir' = [dir EXCEPT ![t].images[i] = id]
      PROVE dir' \in [Tokens -> Directories]
  BY <1>1, <1>4 DEF Directories
<1>5. ASSUME NEW s \in [id : Nat, stages : Nat, complete : BOOLEAN], dir' = [dir EXCEPT ![t].summary = s]
      PROVE dir' \in [Tokens -> Directories]
  BY <1>1, <1>5 DEF Directories
<1> QED
  BY <1>2, <1>3, <1>4, <1>5

(* The stages of a traced frame. *)
LEMMA StageTyped ==
  ASSUME TypeOK, NEW w \in Workers
  PROVE  /\ trace' = [trace EXCEPT ![w].stages = @ + 1] =>
              /\ trace' \in [Workers -> Traces]
              /\ trace'[w].id = trace[w].id /\ trace'[w].token = trace[w].token
              /\ trace'[w].stages = trace[w].stages + 1
         /\ trace' = [trace EXCEPT ![w].error = TRUE] =>
              /\ trace' \in [Workers -> Traces]
              /\ trace'[w].id = trace[w].id /\ trace'[w].token = trace[w].token
              /\ trace'[w].stages = trace[w].stages
<1>1. trace \in [Workers -> Traces] /\ trace[w] \in Traces
  BY DEF TypeOK
<1>2. ASSUME trace' = [trace EXCEPT ![w].stages = @ + 1]
      PROVE /\ trace' \in [Workers -> Traces]
            /\ trace'[w].id = trace[w].id /\ trace'[w].token = trace[w].token
            /\ trace'[w].stages = trace[w].stages + 1
  BY <1>1, <1>2 DEF Traces
<1>3. ASSUME trace' = [trace EXCEPT ![w].error = TRUE]
      PROVE /\ trace' \in [Workers -> Traces]
            /\ trace'[w].id = trace[w].id /\ trace'[w].token = trace[w].token
            /\ trace'[w].stages = trace[w].stages
  <2>1. [trace[w] EXCEPT !.error = TRUE] \in Traces
    BY <1>1 DEF Traces
  <2>2. trace' = [trace EXCEPT ![w] = [trace[w] EXCEPT !.error = TRUE]]
    BY <1>3, Zenon
  <2>3. trace' \in [Workers -> Traces]
    BY <2>1, <2>2, TraceTyped
  <2>4. trace'[w] = [trace[w] EXCEPT !.error = TRUE]
    BY <1>1, <2>2, Zenon
  <2> QED
    BY <1>1, <2>3, <2>4 DEF Traces
<1> QED
  BY <1>2, <1>3

(* Every step keeps the types. *)
LEMMA InitTyped == Init => TypeOK
BY RecordTypes DEF Init, TypeOK, Places

(* The end of a traced frame. *)
LEMMA DoneTyped ==
  ASSUME TypeOK, NEW w \in Workers, Done(w)
  PROVE  /\ pc' \in [Workers -> Places]
         /\ trace' \in [Workers -> Traces]
         /\ settled' \subseteq Nat
<1>1. pc' \in [Workers -> Places]
  BY Zenon, PlaceTyped DEF Done, Places
<1>2. trace' \in [Workers -> Traces]
  BY TraceTyped, RecordTypes DEF Done
<1>3. settled' \subseteq Nat
  BY DEF Done, TypeOK, Traces
<1> QED
  BY <1>1, <1>2, <1>3

LEMMA WorkerTyped ==
  ASSUME TypeOK, OneTrace, Writing, NEW w \in Workers, Worker(w) \/ Kill(w)
  PROVE TypeOK'
<1>0. trace[w] \in Traces /\ claim[w] \in Requests
  BY DEF TypeOK
<1>1. CASE Open(w)
  <2>1. pc' \in [Workers -> Places]
    BY <1>1, Zenon, PlaceTyped DEF Open, Places
  <2> QED
    BY <1>1, <2>1 DEF Open, files, TypeOK
<1>2. CASE WriteOwner(w)
  <2>1. pc' \in [Workers -> Places]
    BY <1>2, Zenon, PlaceTyped DEF WriteOwner, Places
  <2> QED
    BY <1>2, <2>1 DEF WriteOwner, TypeOK
<1>3. CASE Close(w)
  <2>1. pc' \in [Workers -> Places]
    BY <1>3, Zenon, PlaceTyped DEF Close, Places
  <2> QED
    BY <1>3, <2>1 DEF Close, TypeOK
<1>4. CASE Claim(w)
  <2>1. pc' \in [Workers -> Places]
    BY <1>4, Zenon, PlaceTyped DEF Claim, Places
  <2> QED
    BY <1>4, <2>1, RecordTypes DEF Claim, TypeOK
<1>5. CASE ReadClaim(w)
  <2>1. pc' \in [Workers -> Places]
    BY <1>5, Zenon, PlaceTyped DEF ReadClaim, Places
  <2>2. [NoTrace EXCEPT !.id = claim[w].id, !.token = claim[w].token] \in Traces
    BY <1>0, NamedRecord, Zenon
  <2>3. trace' \in [Workers -> Traces]
    BY <1>5, <2>2, TraceTyped DEF ReadClaim, TypeOK
  <2> QED
    BY <1>5, <2>1, <2>3, RecordTypes DEF ReadClaim, TypeOK
<1>6. CASE Create(w)
  <2>1. pc' \in [Workers -> Places]
    BY <1>6, Zenon, PlaceTyped DEF Create, Places
  <2>2. CASE trace' = [trace EXCEPT ![w] = NoTrace] /\ UNCHANGED <<dir, created>>
    <3>1. trace' \in [Workers -> Traces]
      BY <2>2, TraceTyped, RecordTypes
    <3> QED
      BY <1>6, <2>1, <2>2, <3>1 DEF Create, TypeOK
  <2>3. CASE /\ dir' = [dir EXCEPT ![trace[w].token].exists = TRUE]
             /\ created' = created \cup {trace[w].id} /\ UNCHANGED trace
    <3>1. trace[w].token \in Tokens /\ trace[w].id \in 1 .. requests
      BY <1>6 DEF Create, OneTrace, Engaged, ToCome
    <3>2. dir' \in [Tokens -> Directories]
      BY <2>3, <3>1, DirTyped
    <3>3. created' \subseteq 1 .. requests
      BY <2>3, <3>1 DEF TypeOK
    <3> QED
      BY <1>6, <2>1, <2>3, <3>2, <3>3 DEF Create, TypeOK
  <2> QED
    BY <1>6, <2>2, <2>3, Zenon DEF Create
<1>7. CASE Serve(w)
  <2>1. pc' \in [Workers -> Places]
    BY <1>7, Zenon, PlaceTyped DEF Serve, Places
  <2> QED
    BY <1>7, <2>1 DEF Serve, files, TypeOK
<1>8. CASE Image(w)
  <2>1. /\ trace[w].token \in Tokens /\ trace[w].id \in Nat /\ trace[w].stages \in Nat
        /\ trace[w].stages < NumStages
    BY <1>0, <1>8 DEF Image, Writing, Written, Tracing, Begun, Traces
  <2>2. trace[w].stages + 1 \in 1 .. NumStages
    BY <2>1, BoundAssumption
  <2>3. /\ trace' = [trace EXCEPT ![w].stages = @ + 1] \/ trace' = [trace EXCEPT ![w].error = TRUE]
        /\ dir' = [dir EXCEPT ![trace[w].token].images[trace[w].stages + 1] = trace[w].id] \/ dir' = dir
    BY <1>8, Zenon DEF Image
  <2>4. trace' \in [Workers -> Traces]
    BY <2>3, StageTyped, Zenon
  <2>5. dir' \in [Tokens -> Directories]
    BY <2>1, <2>2, <2>3, DirTyped DEF TypeOK
  <2>6. UNCHANGED <<request, requests, claim, done, owner, lock, pc, cpc, created, settled>>
    BY <1>8, Zenon DEF Image
  <2> QED
    BY <2>4, <2>5, <2>6 DEF TypeOK
<1>9. CASE Served(w)
  <2>1. pc' \in [Workers -> Places]
    BY <1>9, Zenon, PlaceTyped DEF Served, Places
  <2>2. PICK error \in BOOLEAN, last \in BOOLEAN : trace' = [trace EXCEPT ![w] = Ending(trace[w], error, last)]
    BY <1>9, Zenon DEF Served
  <2>3. Ending(trace[w], error, last) \in Traces
    BY <1>0, EndingRecord, Zenon
  <2>4. trace' \in [Workers -> Traces]
    BY <2>2, <2>3, TraceTyped, Zenon
  <2> QED
    BY <1>9, <2>1, <2>4 DEF Served, files, TypeOK
<1>10. CASE Stop(w)
  <2>1. pc' \in [Workers -> Places]
    BY <1>10, Zenon, PlaceTyped DEF Stop, Places
  <2>2. Ending(trace[w], TRUE, TRUE) \in Traces
    BY <1>0, EndingRecord, Zenon
  <2>3. trace' = [trace EXCEPT ![w] = Ending(trace[w], TRUE, TRUE)] \/ trace' = trace
    BY <1>10, Zenon DEF Stop
  <2>4. trace' \in [Workers -> Traces]
    BY <2>2, <2>3, TraceTyped DEF TypeOK
  <2> QED
    BY <1>10, <2>1, <2>4 DEF Stop, files, TypeOK
<1>11. CASE WriteSummary(w)
  <2>1. UNCHANGED <<request, requests, claim, done, owner, lock, cpc, created>>
    BY <1>11, Zenon DEF WriteSummary
  <2>2. CASE Done(w) /\ UNCHANGED dir
    BY <2>1, <2>2, DoneTyped DEF TypeOK
  <2>3. CASE /\ dir' = [dir EXCEPT ![trace[w].token].summary = SummaryOf(trace[w])]
             /\ Goto(w, "mark") /\ UNCHANGED <<trace, settled>>
    <3>1. trace[w].token \in Tokens
      BY <1>11 DEF WriteSummary, Writing, Written, Tracing, Begun
    <3>2. SummaryOf(trace[w]) \in [id : Nat, stages : Nat, complete : BOOLEAN]
      BY <1>0 DEF SummaryOf, Traces
    <3>3. dir' \in [Tokens -> Directories]
      BY <2>3, <3>1, <3>2, DirTyped, Zenon
    <3>4. pc' \in [Workers -> Places]
      BY <2>3, PlaceTyped DEF Places
    <3> QED
      BY <2>1, <2>3, <3>3, <3>4 DEF TypeOK
  <2> QED
    BY <1>11, <2>2, <2>3, Zenon DEF WriteSummary, SummaryOf
<1>12. CASE WriteMarker(w)
  <2>1. Done(w) /\ UNCHANGED <<request, requests, claim, dir, owner, lock, cpc, created>>
    BY <1>12, Zenon DEF WriteMarker
  <2>2. trace[w].token \in Tokens
    BY <1>12 DEF WriteMarker, Writing, Written, Tracing, Begun
  <2>3. done' \subseteq Tokens
    BY <1>12, <2>2 DEF WriteMarker, TypeOK
  <2> QED
    BY <2>1, <2>3, DoneTyped DEF TypeOK
<1>13. CASE Kill(w)
  <2>1. pc' \in [Workers -> Places]
    BY <1>13, Zenon, PlaceTyped DEF Kill, Places
  <2>2. trace' \in [Workers -> Traces]
    BY <1>13, TraceTyped, RecordTypes DEF Kill
  <2>3. settled' = settled \cup ({trace[w].id} \cap created) /\ settled \subseteq Nat /\ trace[w].id \in Nat
    BY <1>0, <1>13 DEF Kill, TypeOK, Traces
  <2>4. settled' \subseteq Nat
    BY <2>3
  <2> QED
    BY <1>13, <2>1, <2>2, <2>4 DEF Kill, files, TypeOK
<1> QED
  BY <1>1, <1>2, <1>3, <1>4, <1>5, <1>6, <1>7, <1>8, <1>9, <1>10, <1>11, <1>12, <1>13 DEF Worker

(* A request that is linked. *)
LEMMA PublishTyped ==
  ASSUME TypeOK, NEW t \in Tokens \cup {Junk}, Publish(t)
  PROVE  /\ request' \in Requests /\ request'.id = requests + 1 /\ request'.token = t
         /\ requests' \in Nat /\ created' \subseteq 1 .. requests'
BY DEF Publish, Link, Requests, TypeOK

LEMMA HandTyped ==
  ASSUME TypeOK, NEW t \in Hand \cup {Junk}, ByHand(t)
  PROVE  TypeOK'
<1>1. t \in Tokens \cup {Junk} /\ Publish(t) /\ UNCHANGED cpc
  BY DEF Tokens, ByHand
<1> QED
  BY <1>1, PublishTyped DEF Publish, TypeOK

LEMMA ClientTyped ==
  ASSUME TypeOK, NEW c \in Clients, Client(c)
  PROVE  TypeOK'
<1>1. c \in Tokens
  BY DEF Tokens
<1>2. CASE Look(c)
  BY <1>2 DEF Look, CGoto, files, TypeOK
<1>3. CASE Ask(c)
  <2>1. Publish(c) /\ CGoto(c, "waiting")
    BY <1>3 DEF Ask
  <2> QED
    BY <1>1, <2>1, PublishTyped DEF Publish, CGoto, TypeOK
<1>4. CASE GiveUp(c)
  BY <1>4 DEF GiveUp, CGoto, files, TypeOK
<1>5. CASE Move(c)
  <2>1. dir' \in [Tokens -> Directories]
    BY <1>1, <1>5, DirTyped DEF Move
  <2> QED
    BY <1>5, <2>1 DEF Move, CGoto, TypeOK
<1>6. CASE RemoveMarker(c)
  BY <1>6 DEF RemoveMarker, CGoto, TypeOK
<1> QED
  BY <1>2, <1>3, <1>4, <1>5, <1>6 DEF Client

-----------------------------------------------------------------------------
(* The directory's lock and its owner.                                     *)

(* One worker moves, and no other. *)
LEMMA Moved ==
  ASSUME TypeOK, NEW w \in Workers, NEW p, Goto(w, p)
  PROVE  pc'[w] = p /\ \A v \in Workers : v # w => pc'[v] = pc[v]
BY DEF TypeOK, Goto

(* Of the workers only one is past its start. *)
LEMMA OthersAre ==
  ASSUME Exclusive, NEW w \in Workers, pc[w] \notin {"off", "gone"}
  PROVE  \A v \in Workers : v # w => pc[v] \in {"off", "gone"}
BY DEF Exclusive

LEMMA LockKept ==
  ASSUME TypeOK, Exclusive, ServingIsOwned, NEW w \in Workers, Worker(w) \/ Kill(w)
  PROVE  (Exclusive /\ ServingIsOwned)'
<1>0. w # Nobody
  BY TokenAssumption
<1>1. CASE Open(w)
  <2>1. PICK p \in {"locked", "gone"} : Goto(w, p) /\ (p = "locked" => lock = Nobody /\ lock' = w)
    BY <1>1, Zenon DEF Open
  <2>2. pc[w] = "off" /\ owner' = owner /\ (p = "gone" => lock' = lock)
    BY <1>1, <2>1, Moved DEF Open, files
  <2> QED
    BY <1>0, <2>1, <2>2, Moved, TokenAssumption DEF Exclusive, ServingIsOwned
<1>2. CASE WriteOwner(w)
  <2>1. PICK p \in {"loop", "unlock"} : Goto(w, p) /\ (p = "loop" => owner' = w) /\ lock' = lock /\ pc[w] = "locked"
    BY <1>2, Zenon DEF WriteOwner
  <2> QED
    BY <2>1, Moved, OthersAre DEF Exclusive, ServingIsOwned
<1>3. CASE Close(w)
  <2>1. PICK p \in {"unlock", "gone"} : Goto(w, p) /\ (p = "unlock" => lock' = lock)
    BY <1>3, Zenon DEF Close
  <2>2. pc[w] \in {"close", "unlock"}
    BY <1>3, Zenon DEF Close
  <2> QED
    BY <2>1, <2>2, Moved, OthersAre DEF Exclusive, ServingIsOwned
<1>4. ASSUME UNCHANGED <<lock, owner>>, pc[w] \notin {"off", "locked", "close", "unlock", "gone"},
             UNCHANGED pc \/ \E p \in Places : Goto(w, p)
      PROVE  (Exclusive /\ ServingIsOwned)'
  BY <1>4, Moved, OthersAre DEF Exclusive, ServingIsOwned, Places
<1>5. CASE Claim(w) \/ ReadClaim(w) \/ Create(w)
  BY <1>4, <1>5 DEF Claim, ReadClaim, Create, Places
<1>6. CASE Serve(w) \/ Image(w) \/ Served(w) \/ Stop(w)
  BY <1>4, <1>6 DEF Serve, Image, Served, Stop, files, Places
<1>7. CASE WriteSummary(w) \/ WriteMarker(w)
  BY <1>4, <1>7 DEF WriteSummary, WriteMarker, Done, Places
<1>8. CASE Kill(w)
  <2>1. Goto(w, "gone") /\ owner' = owner /\ lock' = (IF lock = w THEN Nobody ELSE lock)
    BY <1>8 DEF Kill, files
  <2>2. pc[w] \notin {"off", "gone"}
    BY <1>8 DEF Kill
  <2> QED
    BY <2>1, <2>2, Moved, OthersAre DEF Exclusive, ServingIsOwned
<1> QED
  BY <1>1, <1>2, <1>3, <1>5, <1>6, <1>7, <1>8 DEF Worker

-----------------------------------------------------------------------------
(* Requests, traces and evidence.                                          *)

(* What one worker does is for the invariant to say of that one. *)
LEMMA OneWorker ==
  ASSUME Exclusive, OneTrace, NEW w \in Workers, pc[w] \notin {"off", "gone"},
         \A v \in Workers : v # w => pc'[v] = pc[v] /\ trace'[v] = trace[v],
         Engaged(w)', Written(w)', \A c \in Clients : Linked(c)' /\ Reserved(c, w)'
  PROVE  (OneTrace /\ Writing /\ Sole)'
<1>1. ASSUME NEW v \in Workers, v # w
      PROVE  pc'[v] \in {"off", "gone"} /\ trace'[v] = NoTrace
  BY <1>1, OthersAre DEF OneTrace, Engaged, Tracing
<1>2. ASSUME NEW v \in Workers, v # w
      PROVE  Engaged(v)' /\ Written(v)' /\ \A c \in Clients : Reserved(c, v)'
  BY <1>1, <1>2, RecordTypes, TokenAssumption DEF Engaged, Written, Tracing, Reserved, Tokens
<1> QED
  BY <1>2 DEF OneTrace, Writing, Sole

(* Evidence that nobody touches, and traces that stay. *)
LEMMA EvidenceStays ==
  ASSUME TypeOK, Evidence, created \subseteq created',
         \A t \in done' : t \in done /\ dir'[t] = dir[t],
         \A id \in created' : id \in settled' \/ \E w \in Workers : trace'[w].id = id
  PROVE  Evidence'
<1>1. HandsStay'
  BY DEF Evidence, HandsStay
<1>2. NoTraceForgotten'
  BY DEF NoTraceForgotten
<1>3. EvidenceIsWhole'
  BY DEF Evidence, EvidenceIsWhole
<1> QED
  BY <1>1, <1>2, <1>3 DEF Evidence

(* A trace that is not forgotten is the one worker's. *)
LEMMA TraceIsHis ==
  ASSUME TypeOK, Exclusive, OneTrace, Evidence, NEW w \in Workers, pc[w] \notin {"off", "gone"}
  PROVE  \A id \in created : id \in settled \/ trace[w].id = id
<1>1. \A v \in Workers : v # w => trace[v].id = 0
  BY OthersAre, RecordTypes DEF OneTrace, Engaged, Tracing
<1> QED
  BY <1>1 DEF Evidence, NoTraceForgotten, TypeOK

(* Moves between places that say nothing of requests. *)
LEMMA MoveKeeps ==
  ASSUME TypeOK, Traced, NEW w \in Workers, NEW p, Goto(w, p),
         UNCHANGED <<request, requests, claim, dir, done, trace, cpc, created, settled>>,
         p \notin {"claimed", "named", "finish", "mark"}, pc[w] # "named", Tracing(w)' <=> Tracing(w)
  PROVE  Traced'
<1>1. RequestWaits'
  BY DEF Traced, RequestWaits, ToCome
<1>2. OneTrace' /\ Sole' /\ Writing'
  <2>1. ASSUME NEW v \in Workers
        PROVE  /\ pc'[v] = pc[v] \/ (v = w /\ pc'[v] = p)
               /\ Tracing(v)' <=> Tracing(v)
    BY Moved DEF Tracing
  <2>2. ASSUME NEW v \in Workers PROVE Engaged(v)'
    BY <2>1 DEF Traced, OneTrace, Engaged, ToCome
  <2>3. ASSUME NEW v \in Workers PROVE Written(v)'
    BY <2>1 DEF Traced, Writing, Written, Begun, Ended, SummaryOf
  <2>4. ASSUME NEW c \in Clients PROVE Linked(c)' /\ \A v \in Workers : Reserved(c, v)'
    BY <2>1 DEF Traced, Sole, Linked, Reserved, Asked
  <2> QED
    BY <2>2, <2>3, <2>4 DEF OneTrace, Sole, Writing
<1>3. Evidence'
  BY DEF Traced, Evidence, HandsStay, NoTraceForgotten, EvidenceIsWhole
<1> QED
  BY <1>1, <1>2, <1>3 DEF Traced

LEMMA PlaceKeeps ==
  ASSUME TypeOK, Traced, NEW w \in Workers, Open(w) \/ WriteOwner(w) \/ Close(w) \/ Serve(w)
  PROVE  Traced'
<1>1. UNCHANGED <<request, requests, claim, dir, done, trace, cpc, created, settled>>
  BY DEF Open, WriteOwner, Close, Serve, files
<1>2. PICK p \in {"locked", "loop", "frame", "unlock", "gone"} :
        /\ Goto(w, p) /\ pc[w] \in {"off", "locked", "loop", "close", "unlock"}
        /\ pc[w] = "loop" <=> p = "frame"
        /\ p = "frame" => trace[w] # NoTrace
        /\ p = "loop" => pc[w] = "locked"
  BY DEF Open, WriteOwner, Close, Serve
<1>3. pc[w] = "locked" => trace[w] = NoTrace
  BY DEF Traced, OneTrace, Engaged, Tracing
<1>4. Tracing(w)' <=> Tracing(w)
  BY <1>1, <1>2, <1>3, Moved DEF Tracing
<1> QED
  BY <1>1, <1>2, <1>4, MoveKeeps

LEMMA ClaimKeeps ==
  ASSUME TypeOK, Exclusive, Traced, NEW w \in Workers, Claim(w)
  PROVE  Traced'
<1>1. /\ pc[w] = "loop" /\ trace[w] = NoTrace /\ request # NoRequest
      /\ claim'[w] = request /\ request' = NoRequest /\ Goto(w, "claimed")
      /\ UNCHANGED <<requests, dir, done, owner, lock, trace, cpc, created, settled>>
  BY DEF Claim, TypeOK
<1>2. pc'[w] = "claimed" /\ \A v \in Workers : v # w => pc'[v] = pc[v] /\ trace'[v] = trace[v]
  BY <1>1, Moved
<1>3. Engaged(w)'
  BY <1>1, <1>2, RecordTypes DEF Traced, RequestWaits, Engaged, ToCome, Tracing
<1>4. Written(w)'
  BY <1>2 DEF Written, Tracing
<1>5. ASSUME NEW c \in Clients PROVE Linked(c)' /\ Reserved(c, w)'
  <2>1. c # Junk /\ Linked(c)
    BY TokenAssumption DEF Tokens, Traced, Sole
  <2> QED
    BY <1>1, <1>2, <2>1, RecordTypes DEF Linked, Reserved, Asked
<1>6. (OneTrace /\ Writing /\ Sole)'
  BY <1>1, <1>2, <1>3, <1>4, <1>5, OneWorker DEF Traced
<1>7. Evidence'
  BY <1>1 DEF Traced, Evidence, HandsStay, NoTraceForgotten, EvidenceIsWhole
<1> QED
  BY <1>1, <1>6, <1>7 DEF Traced, RequestWaits

(* Who has neither a request nor a trace any more. *)
LEMMA Released ==
  ASSUME Exclusive, OneTrace, NEW w \in Workers, pc[w] \notin {"off", "gone"},
         \A v \in Workers : v # w => pc'[v] = pc[v] /\ trace'[v] = trace[v],
         pc'[w] \in {"loop", "close", "gone"}, trace'[w] = NoTrace, \A c \in Clients : Linked(c)'
  PROVE  (OneTrace /\ Writing /\ Sole)'
<1>1. Engaged(w)' /\ Written(w)' /\ \A c \in Clients : Reserved(c, w)'
  BY RecordTypes, TokenAssumption DEF Engaged, Written, Tracing, Reserved, Tokens
<1> QED
  BY <1>1, OneWorker

LEMMA ReadClaimKeeps ==
  ASSUME TypeOK, Exclusive, Traced, NEW w \in Workers, ReadClaim(w)
  PROVE  Traced'
<1>1. /\ pc[w] = "claimed" /\ claim[w] \in Requests
      /\ UNCHANGED <<request, requests, dir, done, owner, lock, cpc, created, settled>>
  BY DEF ReadClaim, TypeOK
<1>2. trace[w] = NoTrace
  BY <1>1 DEF Traced, OneTrace, Engaged, Tracing
<1>3. RequestWaits' /\ \A c \in Clients : Linked(c)'
  BY <1>1 DEF Traced, RequestWaits, ToCome, Sole, Linked, Asked
<1>4. \A id \in created' : id \in settled'
  BY <1>1, <1>2, TraceIsHis, RecordTypes DEF Traced, TypeOK
<1>5. Evidence'
  BY <1>1, <1>4, EvidenceStays DEF Traced
<1>6. CASE Goto(w, "loop") /\ UNCHANGED trace
  BY <1>1, <1>2, <1>3, <1>5, <1>6, Moved, Released DEF Traced
<1>7. CASE /\ claim[w].token \in Tokens /\ Goto(w, "named")
           /\ trace' = [trace EXCEPT ![w] = [NoTrace EXCEPT !.id = claim[w].id, !.token = claim[w].token]]
  <2>1. /\ trace'[w].id = claim[w].id /\ trace'[w].token = claim[w].token /\ trace'[w].stages = 0
        /\ \A v \in Workers : v # w => trace'[v] = trace[v]
    <3>1. trace'[w] = [NoTrace EXCEPT !.id = claim[w].id, !.token = claim[w].token]
      BY <1>7, Zenon DEF TypeOK
    <3>2. \A v \in Workers : v # w => trace'[v] = trace[v]
      BY <1>7, Zenon DEF TypeOK
    <3> QED
      BY <1>1, <3>1, <3>2, NamedRecord, Zenon
  <2>2. pc'[w] = "named" /\ \A v \in Workers : v # w => pc'[v] = pc[v]
    BY <1>7, Moved
  <2>3. Engaged(w)'
    BY <1>1, <1>7, <2>1, <2>2 DEF Traced, OneTrace, Engaged, ToCome, Tracing
  <2>4. Written(w)'
    BY <2>2 DEF Written, Tracing
  <2>5. \A c \in Clients : Reserved(c, w)'
    BY <1>1, <2>1, <2>2 DEF Traced, Sole, Reserved, Asked
  <2> QED
    BY <1>1, <1>3, <1>5, <2>1, <2>2, <2>3, <2>4, <2>5, OneWorker DEF Traced
<1> QED
  BY <1>6, <1>7, Zenon DEF ReadClaim

LEMMA CreateKeeps ==
  ASSUME TypeOK, Exclusive, Traced, NEW w \in Workers, Create(w)
  PROVE  Traced'
<1>1. /\ pc[w] = "named" /\ pc'[w] = "loop" /\ trace[w] \in Traces
      /\ UNCHANGED <<request, requests, claim, done, owner, lock, cpc, settled>>
      /\ \A v \in Workers : v # w => pc'[v] = pc[v]
  BY Moved DEF Create, TypeOK
<1>2. /\ ToCome(trace[w].id) /\ trace[w].id # request.id
      /\ trace[w].token \in Tokens /\ trace[w].stages = 0
  BY <1>1 DEF Traced, OneTrace, Engaged
<1>3. \A id \in created : id \in settled
  BY <1>1, <1>2, TraceIsHis DEF Traced, ToCome
<1>4. \A c \in Clients : Linked(c)'
  BY <1>1 DEF Traced, Sole, Linked, Asked
<1>5. CASE trace' = [trace EXCEPT ![w] = NoTrace] /\ UNCHANGED <<dir, created>>
  <2>1. trace'[w] = NoTrace /\ \A v \in Workers : v # w => trace'[v] = trace[v]
    BY <1>5 DEF TypeOK
  <2>2. Evidence'
    BY <1>1, <1>3, <1>5, EvidenceStays DEF Traced
  <2> QED
    BY <1>1, <1>4, <1>5, <2>1, <2>2, Released DEF Traced, RequestWaits, ToCome
<1>6. CASE /\ ~dir[trace[w].token].exists
           /\ dir' = [dir EXCEPT ![trace[w].token].exists = TRUE]
           /\ created' = created \cup {trace[w].id} /\ UNCHANGED trace
  <2>1. trace[w].token \notin done
    BY <1>1, <1>2, <1>6 DEF Traced, Sole, Reserved, Evidence, HandsStay, Tokens
  <2>2. /\ dir'[trace[w].token].exists
        /\ \A t \in Tokens : t # trace[w].token => dir'[t] = dir[t]
    BY <1>2, <1>6 DEF TypeOK, Directories
  <2>3. Engaged(w)'
    BY <1>1, <1>2, <1>6, RecordTypes DEF Engaged, Tracing, ToCome
  <2>4. Written(w)'
    BY <1>1, <1>2, <1>6, <2>1, <2>2, BoundAssumption DEF Written, Begun
  <2>5. \A c \in Clients : Reserved(c, w)'
    BY <1>1, <1>6 DEF Traced, Sole, Reserved, Asked
  <2>6. Evidence'
    BY <1>1, <1>3, <1>6, <2>1, <2>2, EvidenceStays DEF Traced, TypeOK
  <2>7. RequestWaits'
    BY <1>1, <1>2, <1>6 DEF Traced, RequestWaits, ToCome
  <2> QED
    BY <1>1, <1>4, <1>6, <2>3, <2>4, <2>5, <2>6, <2>7, OneWorker DEF Traced
<1> QED
  BY <1>5, <1>6, Zenon DEF Create

(* A worker that traces goes on with the trace, and may write to its
   directory, which is under no marker. *)
LEMMA TracingKeeps ==
  ASSUME TypeOK, Exclusive, Traced, NEW w \in Workers, Tracing(w), Tracing(w)', pc'[w] # "claimed",
         UNCHANGED <<request, requests, done, cpc, created, settled>>,
         \A v \in Workers : v # w => pc'[v] = pc[v] /\ trace'[v] = trace[v],
         trace'[w].id = trace[w].id, trace'[w].token = trace[w].token,
         \A t \in Tokens : t # trace[w].token => dir'[t] = dir[t],
         Written(w)'
  PROVE  Traced'
<1>1. pc[w] \in {"loop", "frame", "finish", "mark"}
  BY DEF Tracing
<1>2. pc'[w] \in {"loop", "frame", "finish", "mark"}
  BY DEF Tracing
<1>3. trace[w].token \in Tokens \ done
  BY DEF Traced, Writing, Written, Begun
<1>4. RequestWaits' /\ \A c \in Clients : Linked(c)'
  BY DEF Traced, RequestWaits, ToCome, Sole, Linked, Asked
<1>5. Engaged(w)'
  BY <1>2 DEF Engaged
<1>6. \A c \in Clients : Reserved(c, w)'
  BY DEF Traced, Sole, Reserved, Asked
<1>7. \A id \in created' : id \in settled' \/ \E v \in Workers : trace'[v].id = id
  BY <1>1, TraceIsHis DEF Traced
<1>8. Evidence'
  BY <1>3, <1>7, EvidenceStays DEF Traced, TypeOK
<1> QED
  BY <1>1, <1>4, <1>5, <1>6, <1>8, OneWorker DEF Traced

LEMMA ImageKeeps ==
  ASSUME TypeOK, Exclusive, Traced, NEW w \in Workers, Image(w)
  PROVE  Traced'
<1>1. /\ pc[w] = "frame" /\ trace[w] \in Traces /\ trace[w].stages < NumStages
      /\ UNCHANGED <<request, requests, claim, done, owner, lock, pc, cpc, created, settled>>
  BY DEF Image, TypeOK
<1>2. Tracing(w) /\ Tracing(w)' /\ Begun(trace[w])
  BY <1>1 DEF Tracing, Traced, Writing, Written
<1>3. trace[w].token \in Tokens /\ trace[w].stages \in Nat /\ trace[w].id \in Nat
  BY <1>1, <1>2 DEF Begun, Traces
<1>4. CASE /\ dir' = [dir EXCEPT ![trace[w].token].images[trace[w].stages + 1] = trace[w].id]
           /\ trace' = [trace EXCEPT ![w].stages = @ + 1]
  <2>1. /\ trace'[w].id = trace[w].id /\ trace'[w].token = trace[w].token
        /\ trace'[w].stages = trace[w].stages + 1
    BY <1>4, StageTyped
  <2>2. \A v \in Workers : v # w => trace'[v] = trace[v]
    BY <1>4, Zenon DEF TypeOK
  <2>3. \A t \in Tokens : t # trace[w].token => dir'[t] = dir[t]
    BY <1>3, <1>4, Zenon DEF TypeOK
  <2>4. /\ dir'[trace[w].token].exists <=> dir[trace[w].token].exists
        /\ dir'[trace[w].token].images
             = [dir[trace[w].token].images EXCEPT ![trace[w].stages + 1] = trace[w].id]
    BY <1>3, <1>4 DEF TypeOK, Directories
  <2>5. dir[trace[w].token].images \in [1 .. NumStages -> Nat]
    BY <1>3 DEF TypeOK, Directories
  <2>6. Begun(trace[w])'
    <3>1. trace[w].stages + 1 \in 1 .. NumStages /\ trace'[w].stages <= NumStages
      BY <1>1, <1>3, <2>1, BoundAssumption
    <3>2. \A i \in 1 .. trace'[w].stages : dir'[trace[w].token].images[i] = trace[w].id
      <4> DEFINE n == trace[w].stages
      <4>1. \A i \in 1 .. n : dir[trace[w].token].images[i] = trace[w].id
        BY <1>2, Zenon DEF Begun
      <4>2. ASSUME NEW i \in 1 .. n + 1 PROVE dir'[trace[w].token].images[i] = trace[w].id
        <5>1. CASE i = n + 1
          BY <2>4, <2>5, <3>1, <5>1
        <5>2. CASE i # n + 1
          <6>1. i \in 1 .. n /\ i \in 1 .. NumStages
            BY <1>3, <3>1, <5>2, BoundAssumption
          <6>2. dir'[trace[w].token].images[i] = dir[trace[w].token].images[i]
            BY <2>4, <2>5, <5>2, <6>1
          <6> QED
            BY <4>1, <6>1, <6>2
        <5> QED
          BY <5>1, <5>2
      <4> QED
        BY <2>1, <4>2
    <3> QED
      BY <1>1, <1>2, <2>1, <2>4, <3>1, <3>2 DEF Begun
  <2> QED
    BY <1>1, <1>2, <2>1, <2>2, <2>3, <2>6, TracingKeeps DEF Written
<1>5. CASE trace' = [trace EXCEPT ![w].error = TRUE] /\ UNCHANGED dir
  <2>1. /\ trace'[w].id = trace[w].id /\ trace'[w].token = trace[w].token
        /\ trace'[w].stages = trace[w].stages
    BY <1>5, StageTyped
  <2>2. \A v \in Workers : v # w => trace'[v] = trace[v]
    BY <1>5, Zenon DEF TypeOK
  <2>3. Begun(trace[w])'
    BY <1>1, <1>2, <1>5, <2>1 DEF Begun
  <2> QED
    BY <1>1, <1>2, <1>5, <2>1, <2>2, <2>3, TracingKeeps DEF Written
<1> QED
  BY <1>4, <1>5, Zenon DEF Image

(* A trace that ends, for one reason or another. *)
LEMMA EndingKeeps ==
  ASSUME TypeOK, Exclusive, Traced, NEW w \in Workers, Tracing(w), Goto(w, "finish"),
         NEW error \in BOOLEAN, NEW last \in BOOLEAN, trace' = [trace EXCEPT ![w] = Ending(@, error, last)],
         error \/ Ended(trace[w]),
         UNCHANGED <<request, requests, claim, dir, done, owner, lock, cpc, created, settled>>
  PROVE  Traced'
<1>1. trace[w] \in Traces /\ Begun(trace[w])
  BY DEF TypeOK, Traced, Writing, Written
<1>2. trace'[w] = Ending(trace[w], error, last) /\ \A v \in Workers : v # w => trace'[v] = trace[v]
  BY Zenon DEF TypeOK
<1>3. /\ trace'[w].id = trace[w].id /\ trace'[w].token = trace[w].token
      /\ trace'[w].stages = trace[w].stages /\ (trace'[w].error <=> (trace[w].error \/ error))
  <2>1. /\ Ending(trace[w], error, last).id = trace[w].id
        /\ Ending(trace[w], error, last).token = trace[w].token
        /\ Ending(trace[w], error, last).stages = trace[w].stages
        /\ Ending(trace[w], error, last).error <=> (trace[w].error \/ error)
    BY <1>1, EndingRecord, Zenon
  <2> QED
    BY <1>2, <2>1, Zenon
<1>4. pc'[w] = "finish" /\ \A v \in Workers : v # w => pc'[v] = pc[v]
  BY Moved
<1>5. Begun(trace[w])' /\ Ended(trace[w])'
  BY <1>1, <1>3 DEF Begun, Ended
<1>6. Written(w)' /\ Tracing(w)'
  BY <1>4, <1>5 DEF Written, Tracing
<1> QED
  BY <1>2, <1>3, <1>4, <1>6, TracingKeeps

LEMMA ServedKeeps ==
  ASSUME TypeOK, Exclusive, Traced, NEW w \in Workers, Served(w)
  PROVE  Traced'
<1>1. pc[w] = "frame" /\ Goto(w, "finish") /\ UNCHANGED <<files, lock, cpc, created, settled>>
  BY Zenon DEF Served
<1>2. PICK error \in BOOLEAN, last \in BOOLEAN :
        /\ ~error => trace[w].error \/ trace[w].stages = NumStages
        /\ trace' = [trace EXCEPT ![w] = Ending(@, error, last)]
  BY Zenon DEF Served
<1>3. Tracing(w)
  BY <1>1 DEF Tracing
<1>4. error \/ Ended(trace[w])
  BY <1>2, Zenon DEF Ended
<1> QED
  BY <1>1, <1>2, <1>3, <1>4, EndingKeeps, Zenon DEF files

LEMMA StopKeeps ==
  ASSUME TypeOK, Exclusive, Traced, NEW w \in Workers, Stop(w)
  PROVE  Traced'
<1>1. pc[w] = "loop" /\ UNCHANGED <<files, lock, cpc, created, settled>>
  BY Zenon DEF Stop
<1>2. CASE trace[w] = NoTrace
  <2>1. Goto(w, "close") /\ UNCHANGED trace
    BY <1>2, Zenon DEF Stop
  <2>2. ~Tracing(w) /\ ~Tracing(w)'
    BY <1>1, <1>2, <2>1, Moved DEF Tracing
  <2> QED
    BY <1>1, <2>1, <2>2, MoveKeeps DEF files
<1>3. CASE trace[w] # NoTrace
  <2>1. Goto(w, "finish") /\ trace' = [trace EXCEPT ![w] = Ending(@, TRUE, TRUE)]
    BY <1>3, Zenon DEF Stop
  <2>2. Tracing(w)
    BY <1>1, <1>3 DEF Tracing
  <2> QED
    BY <1>1, <2>1, <2>2, EndingKeeps, Zenon DEF files
<1> QED
  BY <1>2, <1>3

(* What is under a marker when a worker is done was whole when it wrote it. *)
LEMMA DoneKeeps ==
  ASSUME TypeOK, Exclusive, Traced, NEW w \in Workers, pc[w] \in {"finish", "mark"}, Done(w),
         UNCHANGED <<request, requests, claim, dir, cpc, created>>,
         done' = done \/ (pc[w] = "mark" /\ done' = done \cup {trace[w].token})
  PROVE  Traced'
<1> DEFINE t == trace[w].token
<1>1. Tracing(w) /\ Begun(trace[w]) /\ Ended(trace[w])
  BY DEF Tracing, Traced, Writing, Written
<1>2. /\ pc'[w] \in {"loop", "close"} /\ \A v \in Workers : v # w => pc'[v] = pc[v]
      /\ trace'[w] = NoTrace /\ \A v \in Workers : v # w => trace'[v] = trace[v]
  <2>1. PICK p \in {"loop", "close"} : Goto(w, p)
    BY DEF Done
  <2> QED
    BY <2>1, Moved DEF Done, TypeOK
<1>3. RequestWaits'
  BY DEF Traced, RequestWaits, ToCome
<1>4. \A c \in Clients : Linked(c)'
  BY DEF Traced, Sole, Linked, Reserved, Asked
<1>5. (OneTrace /\ Writing /\ Sole)'
  BY <1>2, <1>4, Released DEF Traced
<1>6. HandsStay'
  BY <1>1 DEF Traced, Evidence, HandsStay, Begun
<1>7. NoTraceForgotten'
  <2>1. \A id \in created : id \in settled \/ id = trace[w].id
    BY TraceIsHis DEF Traced
  <2> QED
    BY <2>1 DEF Done, NoTraceForgotten
<1>8. EvidenceIsWhole'
  <2>1. CASE done' = done
    BY <2>1 DEF Traced, Evidence, EvidenceIsWhole
  <2>2. CASE pc[w] = "mark" /\ done' = done \cup {t}
    <3>1. dir[t].summary = SummaryOf(trace[w])
      BY <2>2 DEF Traced, Writing, Written
    <3>2. /\ dir[t].summary.id = trace[w].id /\ dir[t].summary.stages = trace[w].stages
          /\ dir[t].summary.complete = ~trace[w].error
      <4>1. SummaryOf(trace[w]).id = trace[w].id /\ SummaryOf(trace[w]).stages = trace[w].stages
        BY DEF SummaryOf
      <4>2. SummaryOf(trace[w]).complete = ~trace[w].error
        BY DEF SummaryOf
      <4> QED
        BY <3>1, <4>1, <4>2, Zenon
    <3>3. ASSUME NEW u \in done', dir'[u].exists
          PROVE  /\ dir'[u].summary.id \in created'
                 /\ \A i \in 1 .. dir'[u].summary.stages : dir'[u].images[i] = dir'[u].summary.id
                 /\ dir'[u].summary.complete => dir'[u].summary.stages = NumStages
      <4>1. CASE u \in done
        BY <3>3, <4>1 DEF Traced, Evidence, EvidenceIsWhole
      <4>2. CASE u = t
        BY <1>1, <3>2, <4>2 DEF Begun, Ended
      <4> QED
        BY <2>2, <4>1, <4>2
    <3> QED
      BY <3>3, Zenon DEF EvidenceIsWhole
  <2> QED
    BY <2>1, <2>2
<1> QED
  BY <1>3, <1>5, <1>6, <1>7, <1>8 DEF Traced, Evidence

LEMMA FinishKeeps ==
  ASSUME TypeOK, Exclusive, Traced, NEW w \in Workers, WriteSummary(w) \/ WriteMarker(w)
  PROVE  Traced'
<1>1. CASE WriteMarker(w)
  <2>1. pc[w] = "mark" /\ Done(w) /\ UNCHANGED <<request, requests, claim, dir, owner, lock, cpc, created>>
    BY <1>1, Zenon DEF WriteMarker
  <2>2. done' = done \/ done' = done \cup {trace[w].token}
    BY <1>1, Zenon DEF WriteMarker
  <2> QED
    BY <2>1, <2>2, DoneKeeps
<1>2. ASSUME WriteSummary(w), Done(w) /\ UNCHANGED dir
      PROVE  Traced'
  <2>1. pc[w] = "finish" /\ UNCHANGED <<request, requests, claim, done, owner, lock, cpc, created>>
    BY <1>2, Zenon DEF WriteSummary
  <2> QED
    BY <1>2, <2>1, DoneKeeps
<1>3. ASSUME WriteSummary(w), dir' = [dir EXCEPT ![trace[w].token].summary = SummaryOf(trace[w])],
             Goto(w, "mark"), UNCHANGED <<trace, settled>>
      PROVE  Traced'
  <2>1. pc[w] = "finish" /\ UNCHANGED <<request, requests, claim, done, owner, lock, cpc, created>>
    BY <1>3, Zenon DEF WriteSummary
  <2>2. Tracing(w) /\ Begun(trace[w]) /\ Ended(trace[w])
    BY <2>1 DEF Tracing, Traced, Writing, Written
  <2>3. pc'[w] = "mark" /\ \A v \in Workers : v # w => pc'[v] = pc[v]
    BY <1>3, Moved
  <2>4. trace[w].token \in Tokens
    BY <2>2 DEF Begun
  <2>5. /\ dir'[trace[w].token].summary = SummaryOf(trace[w])
        /\ dir'[trace[w].token].exists <=> dir[trace[w].token].exists
        /\ dir'[trace[w].token].images = dir[trace[w].token].images
    BY <1>3, <2>4 DEF TypeOK, Directories
  <2>6. \A t \in Tokens : t # trace[w].token => dir'[t] = dir[t]
    BY <1>3, <2>4, Zenon DEF TypeOK
  <2>7. Begun(trace[w])' /\ Ended(trace[w])' /\ SummaryOf(trace[w])' = SummaryOf(trace[w])
    BY <1>3, <2>1, <2>2, <2>5, Zenon DEF Begun, Ended, SummaryOf
  <2>8. Tracing(w)' /\ Written(w)'
    BY <1>3, <2>3, <2>5, <2>7, Zenon DEF Tracing, Written
  <2> QED
    BY <1>3, <2>1, <2>2, <2>3, <2>6, <2>8, TracingKeeps, Zenon
<1> QED
  BY <1>1, <1>2, <1>3, Zenon DEF WriteSummary, SummaryOf

LEMMA KillKeeps ==
  ASSUME TypeOK, Exclusive, Traced, NEW w \in Workers, Kill(w)
  PROVE  Traced'
<1>1. /\ pc[w] \notin {"off", "gone"} /\ Goto(w, "gone")
      /\ UNCHANGED <<request, requests, claim, dir, done, cpc, created>>
      /\ trace' = [trace EXCEPT ![w] = NoTrace]
      /\ settled' = settled \cup ({trace[w].id} \cap created)
  BY DEF Kill, files
<1>2. /\ pc'[w] = "gone" /\ \A v \in Workers : v # w => pc'[v] = pc[v]
      /\ trace'[w] = NoTrace /\ \A v \in Workers : v # w => trace'[v] = trace[v]
  BY <1>1, Moved DEF TypeOK
<1>3. RequestWaits' /\ \A c \in Clients : Linked(c)'
  BY <1>1 DEF Traced, RequestWaits, ToCome, Sole, Linked, Asked
<1>4. (OneTrace /\ Writing /\ Sole)'
  BY <1>1, <1>2, <1>3, Released DEF Traced
<1>5. \A id \in created' : id \in settled'
  BY <1>1, TraceIsHis DEF Traced
<1>6. Evidence'
  BY <1>1, <1>5, EvidenceStays DEF Traced
<1> QED
  BY <1>3, <1>4, <1>6 DEF Traced

(* A request is new, and of a token that is nobody's. *)
LEMMA PublishKeeps ==
  ASSUME TypeOK, Traced, NEW t \in Tokens \cup {Junk}, Publish(t),
         \A c \in Clients : cpc'[c] = cpc[c] \/ Asked(c)',
         t \in Clients => cpc[t] = "link" /\ Asked(t)'
  PROVE  Traced'
<1>1. /\ request = NoRequest /\ request'.id = requests + 1 /\ request'.token = t /\ requests' = requests + 1
      /\ UNCHANGED <<claim, dir, done, owner, lock, pc, trace, created, settled>>
      /\ requests \in Nat /\ created \subseteq 1 .. requests
  BY PublishTyped DEF Publish, Link, TypeOK
<1>2. \A id : ToCome(id) => ToCome(id)' /\ id # request'.id
  BY <1>1 DEF ToCome
<1>3. RequestWaits'
  BY <1>1 DEF RequestWaits, ToCome
<1>4. OneTrace'
  BY <1>1, <1>2 DEF Traced, OneTrace, Engaged, Tracing
<1>5. ASSUME NEW c \in Clients
      PROVE  Linked(c)' /\ \A w \in Workers : Reserved(c, w)'
  BY <1>1, <1>5, TokenAssumption, RecordTypes DEF Traced, Sole, Linked, Reserved, Asked, Tokens
<1>6. Writing'
  BY <1>1 DEF Traced, Writing, Written, Tracing, Begun, Ended, SummaryOf
<1>7. Evidence'
  BY <1>1 DEF Traced, Evidence, HandsStay, NoTraceForgotten, EvidenceIsWhole
<1> QED
  BY <1>3, <1>4, <1>5, <1>6, <1>7 DEF Traced, Sole

LEMMA LocksStay ==
  ASSUME UNCHANGED <<pc, lock, owner>>
  PROVE  Exclusive /\ ServingIsOwned => (Exclusive /\ ServingIsOwned)'
BY DEF Exclusive, ServingIsOwned

(* A client goes on, and may take away what is under its own marker. *)
LEMMA ClientMoveKeeps ==
  ASSUME TypeOK, Traced, NEW c \in Clients, NEW p \in {"link", "waiting", "moved", "over"}, CGoto(c, p),
         UNCHANGED <<request, requests, claim, lock, pc, trace, created, settled>>,
         p = "link" => cpc[c] = "idle" /\ UNCHANGED <<dir, done>>,
         done' \subseteq done,
         \A t \in Tokens : dir'[t] = dir[t] \/ (t = c /\ c \in done /\ ~dir'[t].exists)
  PROVE  Traced'
<1>1. cpc'[c] = p /\ \A d \in Clients : d # c => cpc'[d] = cpc[d]
  BY DEF CGoto, TypeOK
<1>2. RequestWaits' /\ OneTrace'
  BY DEF Traced, RequestWaits, OneTrace, Engaged, Tracing, ToCome
<1>3. ASSUME NEW d \in Clients
      PROVE  Linked(d)' /\ \A w \in Workers : Reserved(d, w)'
  <2>1. Asked(d) => Asked(d)'
    BY <1>1 DEF Asked
  <2> QED
    BY <2>1 DEF Traced, Sole, Linked, Reserved
<1>4. ASSUME NEW w \in Workers
      PROVE  Written(w)'
  <2>1. CASE Tracing(w)
    <3>1. Begun(trace[w]) /\ dir'[trace[w].token] = dir[trace[w].token]
      BY <2>1 DEF Traced, Writing, Written, Begun
    <3> QED
      BY <3>1 DEF Traced, Writing, Written, Tracing, Begun, Ended, SummaryOf
  <2>2. CASE ~Tracing(w)
    BY <2>2 DEF Written, Tracing
  <2> QED
    BY <2>1, <2>2
<1>5. HandsStay'
  BY TokenAssumption DEF Traced, Evidence, HandsStay, Tokens
<1>6. NoTraceForgotten'
  BY DEF Traced, Evidence, NoTraceForgotten
<1>7. EvidenceIsWhole'
  BY DEF Traced, Evidence, EvidenceIsWhole, TypeOK
<1> QED
  BY <1>2, <1>3, <1>4, <1>5, <1>6, <1>7 DEF Traced, Sole, Writing, Evidence

LEMMA HandKeeps ==
  ASSUME TypeOK, Traced, NEW t \in Hand \cup {Junk}, ByHand(t)
  PROVE  Traced'
<1>1. t \in Tokens \cup {Junk} /\ t \notin Clients
  BY TokenAssumption DEF Tokens
<1> QED
  BY <1>1, PublishKeeps DEF ByHand

LEMMA ClientKeeps ==
  ASSUME TypeOK, Traced, NEW c \in Clients, Client(c)
  PROVE  Traced'
<1>1. c \in Tokens
  BY DEF Tokens
<1>2. CASE Look(c)
  <2>1. PICK p \in {"link", "over"} : CGoto(c, p)
    BY <1>2 DEF Look
  <2> QED
    BY <1>2, <2>1, ClientMoveKeeps DEF Look, files
<1>3. CASE Ask(c)
  <2>1. cpc[c] = "link" /\ Publish(c) /\ CGoto(c, "waiting")
    BY <1>3 DEF Ask
  <2>2. cpc'[c] = "waiting" /\ \A d \in Clients : d # c => cpc'[d] = cpc[d]
    BY <2>1 DEF CGoto, TypeOK
  <2>3. \A d \in Clients : cpc'[d] = cpc[d] \/ Asked(d)'
    BY <2>2 DEF Asked
  <2>4. Asked(c)'
    BY <2>2 DEF Asked
  <2> QED
    BY <1>1, <2>1, <2>3, <2>4, PublishKeeps
<1>4. CASE GiveUp(c)
  BY <1>4, ClientMoveKeeps DEF GiveUp, files
<1>5. CASE Move(c)
  <2>1. \A u \in Tokens : dir'[u] = dir[u] \/ (u = c /\ ~dir'[u].exists)
    BY <1>1, <1>5, RecordTypes DEF Move, TypeOK
  <2> QED
    BY <1>5, <2>1, ClientMoveKeeps DEF Move
<1>6. CASE RemoveMarker(c)
  BY <1>6, ClientMoveKeeps DEF RemoveMarker
<1> QED
  BY <1>2, <1>3, <1>4, <1>5, <1>6 DEF Client

-----------------------------------------------------------------------------
LEMMA WorkerKeeps ==
  ASSUME TypeOK, IInv, NEW w \in Workers, Worker(w) \/ Kill(w)
  PROVE  IInv'
<1>1. (Exclusive /\ ServingIsOwned)'
  BY LockKept DEF IInv
<1>2. CASE Open(w) \/ WriteOwner(w) \/ Close(w) \/ Serve(w)
  BY <1>1, <1>2, PlaceKeeps DEF IInv
<1>3. CASE Claim(w) \/ ReadClaim(w) \/ Create(w)
  BY <1>1, <1>3, ClaimKeeps, ReadClaimKeeps, CreateKeeps DEF IInv
<1>4. CASE Image(w) \/ Served(w) \/ Stop(w)
  BY <1>1, <1>4, ImageKeeps, ServedKeeps, StopKeeps DEF IInv
<1>5. CASE WriteSummary(w) \/ WriteMarker(w)
  BY <1>1, <1>5, FinishKeeps DEF IInv
<1>6. CASE Kill(w)
  BY <1>1, <1>6, KillKeeps DEF IInv
<1> QED
  BY <1>2, <1>3, <1>4, <1>5, <1>6 DEF Worker

(* The invariant is inductive: one worker has the directory, what it traces is
   nobody else's, and what it has written is there until its marker is. *)
THEOREM Invariance == Spec => [](TypeOK /\ IInv)
<1>1. Init => TypeOK /\ IInv
  <2>1. ASSUME Init PROVE TypeOK
    BY <2>1, InitTyped
  <2>2. ASSUME Init PROVE Exclusive /\ ServingIsOwned
    BY <2>2 DEF Init, Exclusive, ServingIsOwned
  <2>3. ASSUME Init PROVE RequestWaits /\ OneTrace /\ Sole /\ Writing
    BY <2>3, RecordTypes, TokenAssumption DEF Init, RequestWaits, OneTrace, Engaged, Sole, Linked, Reserved,
       Writing, Written, Tracing, Tokens
  <2>4. ASSUME Init PROVE Evidence
    BY <2>4 DEF Init, Evidence, HandsStay, NoTraceForgotten, EvidenceIsWhole
  <2> QED
    BY <2>1, <2>2, <2>3, <2>4 DEF IInv, Traced
<1>2. TypeOK /\ IInv /\ [Next]_vars => (TypeOK /\ IInv)'
  <2> SUFFICES ASSUME TypeOK, IInv, [Next]_vars
               PROVE  (TypeOK /\ IInv)'
    OBVIOUS
  <2>1. ASSUME NEW w \in Workers, Worker(w) \/ Kill(w)
        PROVE  (TypeOK /\ IInv)'
    BY <2>1, WorkerTyped, WorkerKeeps DEF IInv, Traced
  <2>2. ASSUME NEW t \in Hand \cup {Junk}, ByHand(t)
        PROVE  (TypeOK /\ IInv)'
    <3>1. UNCHANGED <<pc, lock, owner>>
      BY <2>2 DEF ByHand, Publish
    <3> QED
      BY <2>2, <3>1, HandTyped, HandKeeps, LocksStay DEF IInv
  <2>3. ASSUME NEW c \in Clients, Client(c)
        PROVE  (TypeOK /\ IInv)'
    <3>1. UNCHANGED <<pc, lock, owner>>
      BY <2>3 DEF Client, Look, Ask, GiveUp, Move, RemoveMarker, Publish, files
    <3> QED
      BY <2>3, <3>1, ClientTyped, ClientKeeps, LocksStay DEF IInv
  <2>4. CASE UNCHANGED vars
    <3>1. TypeOK'
      BY <2>4 DEF TypeOK, vars, files
    <3>2. (Exclusive /\ ServingIsOwned)'
      BY <2>4, LocksStay DEF IInv, vars, files
    <3>3. (RequestWaits /\ OneTrace /\ Sole)'
      BY <2>4 DEF IInv, Traced, RequestWaits, OneTrace, Engaged, Tracing, ToCome, Sole, Linked, Reserved, Asked,
         vars, files
    <3>4. Writing'
      BY <2>4 DEF IInv, Traced, Writing, Written, Tracing, Begun, Ended, SummaryOf, vars, files
    <3>5. Evidence'
      BY <2>4 DEF IInv, Traced, Evidence, HandsStay, NoTraceForgotten, EvidenceIsWhole, vars, files
    <3> QED
      BY <3>1, <3>2, <3>3, <3>4, <3>5 DEF IInv, Traced
  <2> QED
    BY <2>1, <2>2, <2>3, <2>4 DEF Next
<1> QED
  BY <1>1, <1>2, PTL DEF Spec

(* Every variable keeps its type. *)
THEOREM TypeCorrect == Spec => []TypeOK
BY Invariance, PTL

(* Evidence under a marker is whole and of one request, for any workers,
   clients, tokens and stages, wherever workers are killed. *)
THEOREM WholeEvidence == Spec => []EvidenceIsWhole
<1>1. IInv => EvidenceIsWhole
  BY DEF IInv, Traced, Evidence
<1> QED
  BY <1>1, Invariance, PTL

(* No request that became a trace is forgotten, however its worker ends. *)
THEOREM TracesSettle == Spec => []NoTraceForgotten
<1>1. IInv => NoTraceForgotten
  BY DEF IInv, Traced, Evidence
<1> QED
  BY <1>1, Invariance, PTL

(* The owner file names the worker that serves, whichever others open the
   directory or end. *)
THEOREM ServerIsOwner == Spec => []ServingIsOwned
<1>1. IInv => ServingIsOwned
  BY DEF IInv
<1> QED
  BY <1>1, Invariance, PTL

-----------------------------------------------------------------------------
(* Startup.                                                                  *)

Backends == {"auto", "vulkan", "hip"}

(* A config file's settings, as they are applied. *)
Entries == {[name |-> l.name, value |-> l.value] : l \in Lines}
           \cup {[name |-> l.name, value |-> ConfigPath(l.value)] : l \in Lines}

OptionsOK ==
  /\ mainPc \in {"getopt", "config", "lines", "apply", "start", "open", "vulkan", "hip", "run",
       "exited"}
  /\ given \in Seq(Arguments) /\ lines \in Seq(Entries) /\ applied \in 0 .. Len(given)
  /\ o = [n \in Names |-> o[n]] /\ o["backend"] \in Backends
  /\ engine \in {NoEngine, "identity", "vulkan", "hip"} /\ device \in Gfx1201 \cup {Runs}

(* What has been read so far is what is told. *)
Told ==
  /\ mainPc \in {"getopt", "config", "lines"} => applied = 0
  /\ mainPc \in {"getopt", "config"} => lines = <<>>
  /\ mainPc \in {"start", "open", "vulkan", "hip", "run"} => applied = Len(given) /\ ~Refused
  /\ \A n \in Names : AsSaid(applied, n, o[n])

(* Where an engine is sought, and which is opened. *)
Sought ==
  /\ mainPc \in {"vulkan", "hip"} => ~On("test-identity")
  /\ mainPc = "vulkan" => o["backend"] # "hip" /\ ~HipOnly
  /\ mainPc = "hip" => o["backend"] # "vulkan"
  /\ mainPc = "run" =>
       \/ engine = "identity" /\ On("test-identity")
       \/ engine = "vulkan" /\ ~On("test-identity") /\ o["backend"] # "hip" /\ ~HipOnly
       \/ /\ engine = "hip" /\ ~On("test-identity") /\ o["backend"] # "vulkan"
          /\ device \in Gfx1201 /\ (Has("device") => device = N(o["device"]))

MainInv == OptionsOK /\ Told /\ Sought

(* An option applied is told of those it speaks of, and of no others. *)
LEMMA Applying ==
  ASSUME NEW opts, opts = [n \in Names |-> opts[n]], NEW name, NEW v
  PROVE  /\ Applied(opts, name, v) = [n \in Names |-> Applied(opts, name, v)[n]]
         /\ \A n \in Names : Applied(opts, name, v)[n] =
              IF name = n \/ (n = "cpu-codec" /\ name = "cpu-compose") THEN v ELSE opts[n]
<1>1. "cpu-compose" \in Names /\ "cpu-codec" \in Names
  BY DEF Names, Flags
<1>2. CASE name = "cpu-compose"
  BY <1>1, <1>2 DEF Applied
<1>3. CASE name # "cpu-compose"
  BY <1>3 DEF Applied
<1> QED
  BY <1>2, <1>3

(* The last to speak is heard. *)
LEMMA Hearing ==
  ASSUME NEW s, NEW k \in Nat, NEW name, NEW v, NEW w
  PROVE  /\ Speaks(s[k + 1], name) =>
              SaysLast(s, k + 1, name, s[k + 1].value) /\ ~Silent(s, k + 1, name)
         /\ ~Speaks(s[k + 1], name) /\ SaysLast(s, k, name, v) =>
              SaysLast(s, k + 1, name, v)
         /\ ~Speaks(s[k + 1], name) /\ Silent(s, k, name) => Silent(s, k + 1, name)
         /\ Silent(s, 0, name)
<1>1. ASSUME Speaks(s[k + 1], name)
      PROVE  SaysLast(s, k + 1, name, s[k + 1].value) /\ ~Silent(s, k + 1, name)
  BY <1>1 DEF SaysLast, Silent
<1>2. ASSUME ~Speaks(s[k + 1], name), SaysLast(s, k, name, v)
      PROVE  SaysLast(s, k + 1, name, v)
  <2>1. PICK i \in 1 .. k : Speaks(s[i], name) /\ s[i].value = v
               /\ \A j \in i + 1 .. k : ~Speaks(s[j], name)
    BY <1>2 DEF SaysLast
  <2>2. \A j \in i + 1 .. k + 1 : ~Speaks(s[j], name)
    <3> SUFFICES ASSUME NEW j \in i + 1 .. k + 1 PROVE ~Speaks(s[j], name)
      OBVIOUS
    <3>1. CASE j = k + 1
      BY <1>2, <3>1
    <3>2. CASE j # k + 1
      BY <2>1, <3>2
    <3> QED
      BY <3>1, <3>2
  <2>3. i \in 1 .. k + 1
    OBVIOUS
  <2> QED
    BY <2>1, <2>2, <2>3 DEF SaysLast
<1>3. ASSUME ~Speaks(s[k + 1], name), Silent(s, k, name) PROVE Silent(s, k + 1, name)
  <2> SUFFICES ASSUME NEW i \in 1 .. k + 1 PROVE ~Speaks(s[i], name)
    BY DEF Silent
  <2>1. CASE i = k + 1
    BY <1>3, <2>1
  <2>2. CASE i # k + 1
    BY <1>3, <2>2 DEF Silent
  <2> QED
    BY <2>1, <2>2
<1> QED
  BY <1>1, <1>2, <1>3 DEF Silent

(* Sequences that agree so far are heard alike. *)
LEMMA Agreeing ==
  ASSUME NEW s, NEW t, NEW k \in Nat, \A i \in 1 .. k : s[i] = t[i], NEW name, NEW v
  PROVE  /\ SaysLast(s, k, name, v) <=> SaysLast(t, k, name, v)
         /\ Silent(s, k, name) <=> Silent(t, k, name)
<1>1. Silent(s, k, name) <=> Silent(t, k, name)
  BY DEF Silent
<1>2. ASSUME NEW a, NEW b, \A i \in 1 .. k : a[i] = b[i], SaysLast(a, k, name, v)
      PROVE  SaysLast(b, k, name, v)
  <2>1. PICK i \in 1 .. k : Speaks(a[i], name) /\ a[i].value = v
               /\ \A j \in i + 1 .. k : ~Speaks(a[j], name)
    BY <1>2 DEF SaysLast
  <2>2. Speaks(b[i], name) /\ b[i].value = v
    BY <1>2, <2>1
  <2>3. \A j \in i + 1 .. k : ~Speaks(b[j], name)
    BY <1>2, <2>1
  <2> QED
    BY <2>2, <2>3 DEF SaysLast
<1> QED
  BY <1>1, <1>2

Parsed == <<env, config, given, lines, applied, o>>

(* What is read of the options stays as they do. *)
LEMMA Reading ==
  ASSUME UNCHANGED Parsed
  PROVE  /\ Refused' = Refused /\ HipOnly' = HipOnly /\ Mode' = Mode
         /\ \A n : On(n)' = On(n) /\ Has(n)' = Has(n)
         /\ \A k, n, v : AsSaid(k, n, v)' = AsSaid(k, n, v)
BY DEF Parsed, Refused, HipOnly, Mode, On, Has, OnCommandLine,
       AsSaid, Silent, SaysLast, Speaks,
       DefaultOptions, DefaultAssets, DefaultModules, DefaultVulkanModel,
       XdgPath

(* Only the three backends are valid. *)
LEMMA Backing ==
  /\ \A v : Valid("backend", v) => v \in Backends
  /\ "backend" \in Names /\ "backend" # "cpu-codec"
<1>1. \A v : Valid("backend", v) => v \in Backends
  BY DEF Valid, Backends
<1> QED
  BY <1>1 DEF Names, Texts

LEMMA GetoptKeeps == ASSUME MainInv, NEW a \in Arguments, Getopt(a) PROVE MainInv'
<1>1. /\ mainPc = "getopt" /\ mainPc' \in {"getopt", "exited"}
      /\ given' \in {given, Append(given, a)}
      /\ UNCHANGED <<env, lines, applied, o, engine, device>> /\ applied = 0
  BY DEF Getopt, Exit, MainInv, Told
<1>2. OptionsOK'
  BY <1>1 DEF MainInv, OptionsOK
<1>3. Sought'
  BY <1>1 DEF Sought
<1>4. \A n \in Names : AsSaid(applied, n, o[n])'
  <2>1. \A n \in Names : \A v : /\ Silent(given', 0, n) /\ Silent(given, 0, n)
                              /\ ~SaysLast(given', 0, n, v) /\ ~SaysLast(given, 0, n, v)
    BY DEF Silent, SaysLast
  <2>2. DefaultOptions' = DefaultOptions
    BY <1>1 DEF DefaultOptions, DefaultAssets, DefaultModules,
           DefaultVulkanModel, XdgPath
  <2> QED
    BY <1>1, <2>1, <2>2 DEF MainInv, Told, AsSaid
<1>5. Told'
  BY <1>1, <1>4 DEF MainInv, Told
<1> QED
  BY <1>2, <1>3, <1>5 DEF MainInv

LEMMA ApplySettingKeeps == ASSUME MainInv, NEW l \in Lines, ApplySetting(l) PROVE MainInv'
<1> DEFINE value == IF l.name \in Paths THEN ConfigPath(l.value) ELSE l.value
           entry == [name |-> l.name, value |-> value]
<1>1. /\ mainPc = "lines" /\ applied = 0
      /\ UNCHANGED <<env, config, given, applied, engine, device>>
      /\ \/ mainPc' = "exited" /\ UNCHANGED <<lines, o>>
         \/ /\ lines' = Append(lines, entry) /\ o' = Applied(o, l.name, value)
            /\ Valid(l.name, value) /\ mainPc' = mainPc
  BY DEF ApplySetting, Exit, MainInv, Told
<1>2. CASE mainPc' = "exited" /\ UNCHANGED <<lines, o>>
  <2>1. OptionsOK' /\ Sought'
    BY <1>1, <1>2 DEF MainInv, OptionsOK, Sought
  <2>2. UNCHANGED Parsed
    BY <1>1, <1>2 DEF Parsed
  <2>3. Told'
    BY <1>1, <1>2, <2>2, Reading DEF MainInv, Told
  <2> QED
    BY <2>1, <2>3 DEF MainInv
<1>3. CASE /\ lines' = Append(lines, entry) /\ o' = Applied(o, l.name, value)
           /\ Valid(l.name, value) /\ mainPc' = mainPc
  <2>1. entry \in Entries /\ entry.name = l.name /\ entry.value = value
    BY DEF Entries
  <2> HIDE DEF entry, value
  <2>2. /\ lines \in Seq(Entries) /\ lines' \in Seq(Entries) /\ Len(lines') = Len(lines) + 1
             /\ Len(lines) \in Nat
        /\ lines'[Len(lines) + 1] = entry /\ \A i \in 1 .. Len(lines) : lines'[i] = lines[i]
    BY <1>3, <2>1 DEF MainInv, OptionsOK
  <2>3. /\ o' = [n \in Names |-> o'[n]]
        /\ \A n \in Names : o'[n] =
             IF l.name = n \/ (n = "cpu-codec" /\ l.name = "cpu-compose") THEN value ELSE o[n]
    BY <1>3, Applying DEF MainInv, OptionsOK
  <2>4. o'["backend"] \in Backends
    BY <1>3, <2>3, Backing DEF MainInv, OptionsOK
  <2>5. OptionsOK'
    BY <1>1, <1>3, <2>2, <2>3, <2>4 DEF MainInv, OptionsOK
  <2>6. Sought'
    BY <1>1, <1>3 DEF Sought
  <2>7. DefaultOptions' = DefaultOptions
    BY <1>1 DEF DefaultOptions, DefaultAssets, DefaultModules,
           DefaultVulkanModel, XdgPath
  <2>8. ASSUME NEW n \in Names PROVE AsSaid(applied, n, o[n])'
    <3>1. AsSaid(0, n, o[n]) /\ ~SaysLast(given, 0, n, o[n]) /\ Silent(given', 0, n)
      BY <1>1, <2>8 DEF MainInv, Told, Silent, SaysLast
    <3>2. \/ SaysLast(lines, Len(lines), n, o[n])
          \/ Silent(lines, Len(lines), n) /\ o[n] = DefaultOptions[n]
      BY <3>1 DEF AsSaid
    <3>3. \/ SaysLast(lines', Len(lines), n, o[n])
          \/ Silent(lines', Len(lines), n) /\ o[n] = DefaultOptions[n]
      BY <2>2, <3>2, Agreeing
    <3>4. CASE Speaks(entry, n)
      <4>1. o'[n] = entry.value
        BY <2>1, <2>3, <3>4 DEF Speaks
      <4>2. SaysLast(lines', Len(lines'), n, o'[n])
        BY <2>2, <3>4, <4>1, Hearing
      <4> QED
        BY <1>1, <3>1, <4>2 DEF AsSaid
    <3>5. CASE ~Speaks(entry, n)
      <4>1. o'[n] = o[n]
        BY <2>1, <2>3, <3>5 DEF Speaks
      <4>2. \/ SaysLast(lines', Len(lines'), n, o'[n])
            \/ Silent(lines', Len(lines'), n) /\ o'[n] = DefaultOptions'[n]
        BY <2>2, <2>7, <3>3, <3>5, <4>1, Hearing
      <4> QED
        BY <1>1, <3>1, <4>2 DEF AsSaid
    <3> QED
      BY <3>4, <3>5
  <2>9. Told'
    BY <1>1, <1>3, <2>8 DEF MainInv, Told
  <2> QED
    BY <2>5, <2>6, <2>9 DEF MainInv
<1> QED
  BY <1>1, <1>2, <1>3

LEMMA ApplyKeeps == ASSUME MainInv, Apply PROVE MainInv'
<1> DEFINE a == given[applied + 1]
<1>1. /\ mainPc = "apply" /\ applied < Len(given) /\ applied \in Nat /\ Len(given) \in Nat
      /\ UNCHANGED <<env, config, given, lines, engine, device>>
      /\ \/ mainPc' = "exited" /\ UNCHANGED <<o, applied>>
         \/ Valid(a.name, a.value) /\ o' = Applied(o, a.name, a.value)
              /\ applied' = applied + 1 /\ mainPc' = mainPc
  BY DEF Apply, Exit, MainInv, OptionsOK
<1>2. CASE mainPc' = "exited" /\ UNCHANGED <<o, applied>>
  <2>1. OptionsOK' /\ Sought'
    BY <1>1, <1>2 DEF MainInv, OptionsOK, Sought
  <2>2. UNCHANGED Parsed
    BY <1>1, <1>2 DEF Parsed
  <2>3. Told'
    BY <1>1, <1>2, <2>2, Reading DEF MainInv, Told
  <2> QED
    BY <2>1, <2>3 DEF MainInv
<1>3. CASE Valid(a.name, a.value) /\ o' = Applied(o, a.name, a.value)
             /\ applied' = applied + 1 /\ mainPc' = mainPc
  <2> HIDE DEF a
  <2>3. /\ o' = [n \in Names |-> o'[n]]
        /\ \A n \in Names :
             o'[n] = IF a.name = n \/ (n = "cpu-codec" /\ a.name = "cpu-compose")
                     THEN a.value ELSE o[n]
    BY <1>3, Applying DEF MainInv, OptionsOK
  <2>4. o'["backend"] \in Backends
    BY <1>3, <2>3, Backing DEF MainInv, OptionsOK
  <2>5. OptionsOK'
    BY <1>1, <1>3, <2>3, <2>4 DEF MainInv, OptionsOK
  <2>6. Sought'
    BY <1>1, <1>3 DEF Sought
  <2>7. DefaultOptions' = DefaultOptions
    BY <1>1 DEF DefaultOptions, DefaultAssets, DefaultModules,
           DefaultVulkanModel, XdgPath
  <2>8. ASSUME NEW n \in Names PROVE AsSaid(applied, n, o[n])'
    <3>1. AsSaid(applied, n, o[n])
      BY <2>8 DEF MainInv, Told
    <3>2. CASE Speaks(a, n)
      <4>1. o'[n] = a.value
        BY <2>3, <3>2 DEF Speaks
      <4>2. SaysLast(given, applied + 1, n, o'[n])
        BY <1>1, <3>2, <4>1, Hearing DEF a
      <4> QED
        BY <1>1, <1>3, <4>2 DEF AsSaid
    <3>3. CASE ~Speaks(a, n)
      <4>1. o'[n] = o[n]
        BY <2>3, <3>3 DEF Speaks
      <4>2. /\ SaysLast(given, applied, n, o[n]) => SaysLast(given, applied + 1, n, o[n])
            /\ Silent(given, applied, n) => Silent(given, applied + 1, n)
        BY <1>1, <3>3, Hearing DEF a
      <4> QED
        BY <1>1, <1>3, <2>7, <3>1, <4>1, <4>2 DEF AsSaid
    <3> QED
      BY <3>2, <3>3
  <2>9. Told'
    BY <1>1, <1>3, <2>8 DEF MainInv, Told
  <2> QED
    BY <2>5, <2>6, <2>9 DEF MainInv
<1> QED
  BY <1>1, <1>2, <1>3

(* The steps that read nothing more. *)
LEMMA StillTold ==
  ASSUME MainInv, UNCHANGED Parsed,
         mainPc' \notin {"getopt", "lines"} \/ applied = 0,
         mainPc' # "getopt" \/ lines = <<>>,
         mainPc' = "config" => mainPc \in {"getopt", "config"},
         mainPc' \in {"start", "open", "vulkan", "hip", "run"} =>
           applied = Len(given) /\ ~Refused
  PROVE  Told'
BY Reading DEF MainInv, Told, Parsed

LEMMA EarlyKeeps ==
  ASSUME MainInv,
         Options \/ ReadConfig \/ EndOfConfig \/ Check \/ Start
  PROVE  MainInv'
<1>1. /\ UNCHANGED <<Parsed, engine, device>>
      /\ \/ (mainPc \in {"getopt", "config"} /\ mainPc' \in {"config", "apply", "lines", "exited"})
         \/ (mainPc = "lines" /\ mainPc' = "apply")
         \/ (mainPc = "apply" /\ applied = Len(given) /\ mainPc' \in {"exited", "start"}
              /\ (mainPc' = "start" => ~Refused))
         \/ (mainPc = "start" /\ mainPc' \in {"open", "exited"})
      /\ mainPc' = "config" => mainPc = "getopt"
  BY DEF Options, ReadConfig, EndOfConfig, Check, Start, Exit, Parsed
<1>2. OptionsOK' /\ Sought'
  BY <1>1 DEF MainInv, OptionsOK, Sought, Parsed
<1>3. Told'
  BY <1>1, StillTold DEF MainInv, Told
<1> QED
  BY <1>2, <1>3 DEF MainInv

LEMMA OpenEngineKeeps == ASSUME MainInv, OpenEngine PROVE MainInv'
<1>1. /\ UNCHANGED <<Parsed, device>> /\ mainPc = "open" /\ applied = Len(given) /\ ~Refused
      /\ \/ On("test-identity") /\ engine' = "identity" /\ mainPc' = "run"
         \/ /\ ~On("test-identity") /\ engine' = engine
            /\ mainPc' = IF (HipOnly /\ o["backend"] = "auto") \/ o["backend"] = "hip"
                         THEN "hip" ELSE "vulkan"
  BY DEF OpenEngine, Parsed, MainInv, Told
<1>2. OptionsOK'
  BY <1>1 DEF MainInv, OptionsOK, Parsed
<1>3. Told'
  BY <1>1, StillTold
<1>4. o["backend"] \in Backends /\ (HipOnly => o["backend"] # "vulkan") /\ UNCHANGED o
  BY <1>1 DEF MainInv, OptionsOK, Refused, Parsed
<1>5. Sought'
  BY <1>1, <1>4, Reading DEF Sought, Backends
<1> QED
  BY <1>2, <1>3, <1>5 DEF MainInv

LEMMA OpenVulkanKeeps == ASSUME MainInv, OpenVulkan PROVE MainInv'
<1>1. /\ UNCHANGED <<Parsed, device>> /\ mainPc = "vulkan" /\ applied = Len(given) /\ ~Refused
      /\ \/ engine' = "vulkan" /\ mainPc' = "run"
         \/ engine' = engine /\ mainPc' = "exited"
         \/ engine' = engine /\ mainPc' = "hip" /\ o["backend"] # "vulkan"
  BY DEF OpenVulkan, Exit, Parsed, MainInv, Told
<1>2. OptionsOK'
  BY <1>1 DEF MainInv, OptionsOK, Parsed
<1>3. Told'
  BY <1>1, StillTold
<1>4. Sought'
  BY <1>1, Reading DEF MainInv, Sought, Parsed
<1> QED
  BY <1>2, <1>3, <1>4 DEF MainInv

LEMMA OpenHipKeeps == ASSUME MainInv, OpenHip PROVE MainInv'
<1>1. /\ UNCHANGED Parsed /\ mainPc = "hip" /\ applied = Len(given) /\ ~Refused
      /\ \/ mainPc' = "exited" /\ UNCHANGED <<engine, device>>
         \/ /\ engine' = "hip" /\ mainPc' = "run" /\ device' \in Gfx1201
            /\ Has("device") => device' = N(o["device"])
  BY DEF OpenHip, Exit, Parsed, MainInv, Told
<1>2. OptionsOK'
  BY <1>1 DEF MainInv, OptionsOK, Parsed
<1>3. Told'
  BY <1>1, StillTold
<1>4. Sought'
  BY <1>1, Reading DEF MainInv, Sought, Parsed
<1> QED
  BY <1>2, <1>3, <1>4 DEF MainInv

LEMMA RunKeeps == ASSUME MainInv, Run PROVE MainInv'
<1>1. UNCHANGED Parsed /\ mainPc' = "exited" /\ engine' = NoEngine /\ device' = Runs
  BY DEF Run, Exit, Parsed
<1>2. OptionsOK' /\ Sought'
  BY <1>1 DEF MainInv, OptionsOK, Parsed, Sought
<1> QED
  BY <1>1, <1>2, StillTold DEF MainInv

LEMMA MainInitKeeps == ASSUME MainInit PROVE MainInv
<1>1. \A n \in Names : o[n] = DefaultOptions[n]
  BY DEF MainInit
<1>2. o = [n \in Names |-> o[n]] /\ o["backend"] = "auto"
  BY DEF MainInit, DefaultOptions, Names, Texts, Flags, Numbers,
         Paths
<1>3. OptionsOK
  BY <1>2 DEF MainInit, OptionsOK, Backends
<1>4. \A n \in Names : AsSaid(0, n, o[n])
  BY <1>1 DEF MainInit, AsSaid, Silent, SaysLast
<1> QED
  BY <1>3, <1>4 DEF MainInit, MainInv, Told, Sought

(* Whatever is on the command line and in the config file. *)
THEOREM MainInvariance == MainSpec => []MainInv
<1>1. MainInv /\ [MainNext]_(mainVars) => MainInv'
  <2> SUFFICES ASSUME MainInv, [MainNext]_(mainVars) PROVE MainInv'
    OBVIOUS
  <2>1. CASE \E a \in Arguments : Getopt(a)
    BY <2>1, GetoptKeeps
  <2>2. CASE \E l \in Lines : ApplySetting(l)
    BY <2>2, ApplySettingKeeps
  <2>3. CASE Options \/ ReadConfig \/ EndOfConfig \/ Check \/ Start
    BY <2>3, EarlyKeeps
  <2>4. CASE Apply \/ OpenEngine \/ OpenVulkan \/ OpenHip \/ Run
    BY <2>4, ApplyKeeps, OpenEngineKeeps, OpenVulkanKeeps, OpenHipKeeps, RunKeeps
  <2>5. CASE UNCHANGED mainVars
    <3>1. UNCHANGED Parsed /\ UNCHANGED <<mainPc, engine, device>>
      BY <2>5 DEF mainVars, Parsed
    <3>2. OptionsOK' /\ Sought'
      BY <3>1, Reading DEF MainInv, OptionsOK, Sought, Parsed
    <3>3. Told'
      BY <3>1, StillTold DEF MainInv, Told
    <3> QED
      BY <3>2, <3>3 DEF MainInv
  <2> QED
    BY <2>1, <2>2, <2>3, <2>4, <2>5 DEF MainNext, Exited
<1> QED
  BY <1>1, MainInitKeeps, PTL DEF MainSpec

(* Wherever an option stands on the command line, and whatever the config file
   it names says, the daemon starts with what the most specific one said. *)
THEOREM OptionsAreGiven == MainSpec => []OptionsAsGiven
<1>1. MainInv => OptionsAsGiven
  BY DEF MainInv, Told, OptionsAsGiven
<1> QED
  BY <1>1, MainInvariance, PTL

(* open_backend() opens what was asked for and no less: what the chain of tests
   in main() lets pass is enough for the engine that is found. *)
THEOREM EngineServes == MainSpec => []EngineServesOptions
<1>1. ASSUME MainInv PROVE EngineServesOptions
  <2> SUFFICES ASSUME mainPc = "run" PROVE EngineServesOptions
    BY DEF EngineServesOptions
  <2>1. ~Refused /\ o["backend"] \in Backends
    BY <1>1 DEF MainInv, OptionsOK, Told
  <2>2. /\ HipOnly => o["backend"] # "vulkan"
        /\ Has("trace-dir") => HipOnly /\ Mode = "serve" /\ ~On("test-identity")
        /\ ~On("diagnose") /\ ~On("test-identity") =>
             Has("assets") /\ Has("modules")
        /\ Mode # "diagnose" => ~On("diagnose")
    BY <2>1 DEF Refused, HipOnly, Mode
  <2>3. On("cpu-compose") \/ On("cpu-codec") => HipOnly
    BY DEF HipOnly
  <2>4. CASE engine = "identity" /\ On("test-identity")
    BY <2>2, <2>4 DEF EngineServesOptions, HipOnly, On
  <2>5. CASE engine = "vulkan" /\ ~On("test-identity") /\ o["backend"] # "hip" /\ ~HipOnly
    BY <2>1, <2>2, <2>3, <2>5 DEF EngineServesOptions, Backends, On
  <2>6. CASE /\ engine = "hip" /\ ~On("test-identity") /\ o["backend"] # "vulkan"
             /\ device \in Gfx1201 /\ (Has("device") => device = N(o["device"]))
    BY <2>1, <2>2, <2>3, <2>6 DEF EngineServesOptions, Backends, On
  <2> QED
    BY <1>1, <2>4, <2>5, <2>6 DEF MainInv, Sought
<1> QED
  BY <1>1, MainInvariance, PTL

=============================================================================
