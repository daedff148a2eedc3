-------------------------------- MODULE Trace --------------------------------
(***************************************************************************)
(* Traces of real frames, exchanged through files of the --trace-dir       *)
(* directory: a client links its request there, the one worker that holds  *)
(* the directory's lock claims it by a rename, writes a frame's stages     *)
(* into DIR/TOKEN, then the summary, then the marker DIR/TOKEN.done, upon  *)
(* which the client moves the evidence away.  Any file operation of the    *)
(* worker may fail, and any worker may be killed between two of them.      *)
(***************************************************************************)
EXTENDS Integers, FiniteSets

CONSTANTS
  Workers,      \* daemons started on the directory, one process each
  Clients,      \* runs of dlsslop-test; each has a token of its own
  Hand,         \* tokens of requests written by hand, which may recur
  NumStages,    \* images of a traced frame
  MaxRequests   \* bound: requests linked

ASSUME BoundAssumption == NumStages \in Nat /\ MaxRequests \in Nat

VARIABLES
  request,   \* DIR/request: the number and token of a request, or NoRequest
  requests,  \* requests linked so far, which numbers them
  claim,     \* DIR/.request-PID by worker
  dir,       \* DIR/TOKEN: its images, each with the request traced, and summary.json
  done,      \* DIR/TOKEN.done
  owner,     \* owner.json, or Nobody
  lock,      \* the worker with the lock of .worker-lock, or Nobody
  pc, trace, \* of each worker: its place and pending_trace
  cpc,       \* of each client
  created,   \* requests that became traces
  settled    \* of them, those whose marker was published, or that a fault took

files == <<request, requests, claim, dir, done, owner>>
vars == <<files, lock, pc, trace, cpc, created, settled>>

Nobody == "nobody"
Junk == "junk"       \* a directory, another user's file, or no token
Tokens == Clients \cup Hand
NoRequest == [id |-> 0, token |-> Junk]
NoSummary == [id |-> 0, stages |-> 0, complete |-> FALSE]
NoDir == [exists |-> FALSE, images |-> [s \in 1 .. NumStages |-> 0], summary |-> NoSummary]
NoTrace == [id |-> 0, token |-> Junk, stages |-> 0, error |-> FALSE, last |-> FALSE]

(* A client's token is its own, and junk is none. *)
ASSUME TokenAssumption == Clients \cap Hand = {} /\ Junk \notin Tokens /\ Nobody \notin Workers

Requests == [id : Nat, token : Tokens \cup {Junk}]
Directories ==
  [exists : BOOLEAN, images : [1 .. NumStages -> Nat], summary : [id : Nat, stages : Nat, complete : BOOLEAN]]
Traces == [id : Nat, token : Tokens \cup {Junk}, stages : Nat, error : BOOLEAN, last : BOOLEAN]

Places == {"off", "locked", "loop", "claimed", "named", "frame", "finish", "mark", "close", "unlock", "gone"}

TypeOK ==
  /\ request \in Requests /\ requests \in Nat /\ claim \in [Workers -> Requests]
  /\ dir \in [Tokens -> Directories] /\ done \subseteq Tokens
  /\ owner \in Workers \cup {Nobody} /\ lock \in Workers \cup {Nobody}
  /\ pc \in [Workers -> Places]
  /\ trace \in [Workers -> Traces]
  /\ cpc \in [Clients -> {"idle", "link", "waiting", "moved", "over"}]
  /\ created \subseteq 1 .. requests /\ settled \subseteq Nat

Init ==
  /\ request = NoRequest /\ requests = 0
  /\ claim = [w \in Workers |-> NoRequest]
  /\ dir = [t \in Tokens |-> NoDir] /\ done = {}
  /\ owner = Nobody /\ lock = Nobody
  /\ pc = [w \in Workers |-> "off"]
  /\ trace = [w \in Workers |-> NoTrace]
  /\ cpc = [c \in Clients |-> "idle"]
  /\ created = {} /\ settled = {}

Goto(w, place) == pc' = [pc EXCEPT ![w] = place]

-----------------------------------------------------------------------------
(* TraceRequests::open() and its destructor.                               *)

(* The directory is private, and no other worker's; else this one ends. *)
Open(w) ==
  /\ pc[w] = "off"
  /\ \/ lock = Nobody /\ lock' = w /\ Goto(w, "locked")
     \/ Goto(w, "gone") /\ UNCHANGED lock
  /\ UNCHANGED <<files, trace, cpc, created, settled>>

WriteOwner(w) ==
  /\ pc[w] = "locked"
  /\ \/ owner' = w /\ Goto(w, "loop")
     \/ Goto(w, "unlock") /\ UNCHANGED owner
  /\ UNCHANGED <<request, requests, claim, dir, done, lock, trace, cpc, created, settled>>

(* The owner file goes before the lock does. *)
BuggyClose(w) ==
  /\ \/ pc[w] = "close" /\ lock' = Nobody /\ Goto(w, "unlock") /\ UNCHANGED owner
     \/ pc[w] = "unlock" /\ owner' = Nobody /\ Goto(w, "gone") /\ UNCHANGED lock
  /\ UNCHANGED <<request, requests, claim, dir, done, trace, cpc, created, settled>>

Close(w) ==
  /\ \/ pc[w] = "close" /\ owner' = Nobody /\ Goto(w, "unlock") /\ UNCHANGED lock
     \/ pc[w] = "unlock" /\ lock' = Nobody /\ Goto(w, "gone") /\ UNCHANGED owner
  /\ UNCHANGED <<request, requests, claim, dir, done, trace, cpc, created, settled>>

-----------------------------------------------------------------------------
(* take() and FrameTrace::create().                                        *)

Claim(w) ==
  /\ pc[w] = "loop" /\ trace[w] = NoTrace /\ request # NoRequest
  /\ claim' = [claim EXCEPT ![w] = request]
  /\ request' = NoRequest
  /\ Goto(w, "claimed")
  /\ UNCHANGED <<requests, dir, done, owner, lock, trace, cpc, created, settled>>

(* Opened, removed, read; what is no request is rejected. *)
ReadClaim(w) ==
  /\ pc[w] = "claimed"
  /\ claim' = [claim EXCEPT ![w] = NoRequest]
  /\ \/ /\ claim[w].token \in Tokens
        /\ trace' = [trace EXCEPT ![w] = [NoTrace EXCEPT !.id = claim[w].id, !.token = claim[w].token]]
        /\ Goto(w, "named")
     \/ Goto(w, "loop") /\ UNCHANGED trace
  /\ UNCHANGED <<request, requests, dir, done, owner, lock, cpc, created, settled>>

BuggyCreate(w) ==
  /\ pc[w] = "named" /\ Goto(w, "loop")
  /\ dir' = [dir EXCEPT ![trace[w].token].exists = TRUE]
  /\ created' = created \cup {trace[w].id}
  /\ UNCHANGED <<request, requests, claim, done, owner, lock, trace, cpc, settled>>

(* A token whose directory is there already is refused. *)
Create(w) ==
  /\ pc[w] = "named" /\ Goto(w, "loop")
  /\ LET r == trace[w]
     IN \/ /\ ~dir[r.token].exists
           /\ dir' = [dir EXCEPT ![r.token].exists = TRUE]
           /\ created' = created \cup {r.id}
           /\ UNCHANGED trace
        \/ trace' = [trace EXCEPT ![w] = NoTrace] /\ UNCHANGED <<dir, created>>
  /\ UNCHANGED <<request, requests, claim, done, owner, lock, cpc, settled>>

-----------------------------------------------------------------------------
(* A traced frame, and the end of the loop.                                *)

Serve(w) ==
  /\ pc[w] = "loop" /\ trace[w] # NoTrace /\ Goto(w, "frame")
  /\ UNCHANGED <<files, lock, trace, cpc, created, settled>>

(* After a stage that could not be written, no more of them are. *)
Image(w) ==
  /\ pc[w] = "frame" /\ trace[w].stages < NumStages /\ ~trace[w].error
  /\ LET t == trace[w]
     IN \/ /\ dir' = [dir EXCEPT ![t.token].images[t.stages + 1] = t.id]
           /\ trace' = [trace EXCEPT ![w].stages = @ + 1]
        \/ trace' = [trace EXCEPT ![w].error = TRUE] /\ UNCHANGED dir
  /\ UNCHANGED <<request, requests, claim, done, owner, lock, pc, cpc, created, settled>>

(* The end of a trace: whether it failed, and whether the worker ends with it. *)
Ending(t, error, last) == [t EXCEPT !.error = @ \/ error, !.last = last]

(* The frame is answered, with all its stages but after an error; or it was
   rejected, or failed for good.  That ends the worker, and --once any. *)
Served(w) ==
  /\ pc[w] = "frame" /\ Goto(w, "finish")
  /\ \E error, last \in BOOLEAN :
       /\ ~error => trace[w].error \/ trace[w].stages = NumStages
       /\ trace' = [trace EXCEPT ![w] = Ending(@, error, last)]
  /\ UNCHANGED <<files, lock, cpc, created, settled>>

(* quit, a signal, an idle exit, a failed rebuild or an engine that never
   opened: a trace still without its frame is finished as failed. *)
BuggyStop(w) ==
  /\ pc[w] = "loop" /\ Goto(w, "close")
  /\ trace' = [trace EXCEPT ![w] = NoTrace]
  /\ UNCHANGED <<files, lock, cpc, created, settled>>

Stop(w) ==
  /\ pc[w] = "loop"
  /\ IF trace[w] = NoTrace THEN Goto(w, "close") /\ UNCHANGED trace
     ELSE Goto(w, "finish") /\ trace' = [trace EXCEPT ![w] = Ending(@, TRUE, TRUE)]
  /\ UNCHANGED <<files, lock, cpc, created, settled>>

Done(w) ==
  /\ Goto(w, IF trace[w].last THEN "close" ELSE "loop")
  /\ trace' = [trace EXCEPT ![w] = NoTrace]
  /\ settled' = settled \cup {trace[w].id}

(* summary.json, through a rename; without it there is no marker. *)
WriteSummary(w) ==
  /\ pc[w] = "finish"
  /\ LET t == trace[w]
     IN \/ /\ dir' = [dir EXCEPT ![t.token].summary = [id |-> t.id, stages |-> t.stages, complete |-> ~t.error]]
           /\ Goto(w, "mark") /\ UNCHANGED <<trace, settled>>
        \/ Done(w) /\ UNCHANGED dir
  /\ UNCHANGED <<request, requests, claim, done, owner, lock, cpc, created>>

WriteMarker(w) ==
  /\ pc[w] = "mark" /\ Done(w)
  /\ \/ done' = done \cup {trace[w].token}
     \/ UNCHANGED done
  /\ UNCHANGED <<request, requests, claim, dir, owner, lock, cpc, created>>

(* The files stay; the lock does not. *)
Kill(w) ==
  /\ pc[w] \notin {"off", "gone"} /\ Goto(w, "gone")
  /\ lock' = IF lock = w THEN Nobody ELSE lock
  /\ trace' = [trace EXCEPT ![w] = NoTrace]
  /\ settled' = settled \cup ({trace[w].id} \cap created)
  /\ UNCHANGED <<files, cpc, created>>

-----------------------------------------------------------------------------
(* Clients.                                                                *)

(* A link never replaces a request. *)
Link(token) == request = NoRequest /\ request' = [id |-> requests + 1, token |-> token]

Publish(token) ==
  /\ requests < MaxRequests /\ requests' = requests + 1 /\ Link(token)
  /\ UNCHANGED <<claim, dir, done, owner, lock, pc, trace, created, settled>>

ByHand(token) == Publish(token) /\ UNCHANGED cpc

CGoto(c, place) == cpc' = [cpc EXCEPT ![c] = place]

(* A live worker owns the directory, and no request waits. *)
Look(c) ==
  /\ cpc[c] = "idle"
  /\ IF owner # Nobody /\ request = NoRequest
     THEN pc[owner] # "gone" /\ CGoto(c, "link") ELSE CGoto(c, "over")
  /\ UNCHANGED <<files, lock, pc, trace, created, settled>>

Ask(c) == cpc[c] = "link" /\ Publish(c) /\ CGoto(c, "waiting")

(* Another link came first, or the marker did not come in time. *)
GiveUp(c) ==
  /\ cpc[c] = "waiting" \/ (cpc[c] = "link" /\ request # NoRequest)
  /\ CGoto(c, "over")
  /\ UNCHANGED <<files, lock, pc, trace, created, settled>>

(* The evidence is moved away, then the marker removed. *)
Move(c) ==
  /\ cpc[c] = "waiting" /\ c \in done
  /\ dir' = [dir EXCEPT ![c] = NoDir] /\ CGoto(c, "moved")
  /\ UNCHANGED <<request, requests, claim, done, owner, lock, pc, trace, created, settled>>

RemoveMarker(c) ==
  /\ cpc[c] = "moved" /\ done' = done \ {c} /\ CGoto(c, "over")
  /\ UNCHANGED <<request, requests, claim, dir, owner, lock, pc, trace, created, settled>>

Worker(w) ==
  \/ Open(w) \/ WriteOwner(w) \/ Close(w)
  \/ Claim(w) \/ ReadClaim(w) \/ Create(w)
  \/ Serve(w) \/ Image(w) \/ Served(w) \/ Stop(w) \/ WriteSummary(w) \/ WriteMarker(w)

Client(c) == Look(c) \/ Ask(c) \/ GiveUp(c) \/ Move(c) \/ RemoveMarker(c)

Next ==
  \/ \E w \in Workers : Worker(w) \/ Kill(w)
  \/ \E t \in Hand \cup {Junk} : ByHand(t)
  \/ \E c \in Clients : Client(c)

Spec == Init /\ [][Next]_vars

-----------------------------------------------------------------------------
(* Properties.                                                             *)

(* Evidence under a marker is of one request: its summary names the stages
   that are there, every one if it says complete, each of the frame the
   summary is of - though tokens recur, workers are killed between any two
   files, and others open the same directory. *)
EvidenceIsWhole ==
  \A t \in done : dir[t].exists =>
    LET s == dir[t].summary
    IN /\ s.id \in created
       /\ \A i \in 1 .. s.stages : dir[t].images[i] = s.id
       /\ s.complete => s.stages = NumStages

(* A claimed request that became a trace gets its marker however the worker
   ends, unless it is killed or cannot write: none is forgotten. *)
NoTraceForgotten == \A id \in created : id \in settled \/ \E w \in Workers : trace[w].id = id

(* A client that looks finds the worker that serves the directory: what one
   that ends removes is its own, never its successor's. *)
ServingIsOwned ==
  \A w \in Workers : pc[w] \notin {"off", "locked", "close", "unlock", "gone"} => owner = w
=============================================================================
