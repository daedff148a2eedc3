---------------------------- MODULE VulkanEngine ----------------------------
(***************************************************************************)
(* The daemon's Vulkan engine: one device of its own, opened in stages     *)
(* each of which can fail; the network recorded on it; the pairs of frames *)
(* imported from layers, a pair per slot; the host buffers of frames that  *)
(* come through the channel; and one frame in flight at a time.  The       *)
(* serving loop calls it from a single thread, so what can go wrong is in  *)
(* the failures: each call may stop at any Vulkan call it makes.           *)
(***************************************************************************)
EXTENDS NetworkRecorder, Integers, FiniteSets

CONSTANTS
  Devices,     \* the machine's physical devices: an initial segment of Nat
  Index,       \* --device, or -1
  NumSlots,    \* kImportSlots
  Frames,      \* the requests' frames, as read_request() lets them through
  Generations, \* of offers; never 0
  TierExtent,  \* the extent a tier's usual frame has, a tier being its name
  Usual,       \* the default controls
  MaxFrames, MaxOffers  \* bounds: requests, offers

ASSUME EngineAssumption ==
  /\ Extents \subseteq Nat \ {0} /\ Generations \subseteq Nat \ {0} /\ NumSlots \in Nat \ {0}
  /\ Devices \subseteq Nat /\ Index \in Nat \cup {-1}
  /\ MaxFrames \in Nat /\ MaxOffers \in Nat
  /\ Frames \subseteq VulkanFrame /\ Usual \in Controls
  /\ \A t \in DOMAIN TierExtent : TierExtent[t] \in Extents

VARIABLES
  pc,
  physical,   \* the device chosen, or Any
  made,       \* how many of Stages have been made
  recorder, builds,
  imported,   \* a pair of buffers per slot
  upload, download,
  next, fds, taken,  \* the pair being imported; its descriptors still the
                     \* caller's to close; those Vulkan took
  held, nextSlot,    \* the generation, and its smaller buffer's size, in each slot
  offer, slot,       \* the offer being imported, and where
  tier,
  state,      \* helperState
  frame, named, io,  \* the request being processed, the generation it names
              \* (0: none), and the slot its frames are in
  gpu,        \* what a submitted frame uses, or Quiet
  alive,      \* buffers and memories made and not destroyed
  frames, offers

device == <<physical, made>>
network == <<recorder, builds>>
buffers == <<imported, upload, download, alive>>
importing == <<next, fds, taken, offer, slot, offers>>
slots == <<held, nextSlot>>
request == <<frame, named, io, frames>>
vars == <<pc, device, network, buffers, importing, slots, tier, state, request, gpu>>

Any == -1
NoSlot == -1
Quiet == NoFrame
Slots == 0 .. NumSlots - 1
Stages == <<"instance", "device", "pool", "cmd", "fence", "queries">>
Opened == made >= 2   \* there is a device

Bytes(f) == f.extent * (IF f.fp16 THEN 8 ELSE 4)

(* The sizes of buffers that frames need, which layers export. *)
Sizes == {Bytes(f) : f \in Frames}

-----------------------------------------------------------------------------
(* Buffers.                                                                *)

(* A handle is known by what it was made for: one of the engine's own two
   buffers, of a size; or a descriptor of an offer, no two of which are the
   same. *)
None == <<>>
Own(i, bytes) == <<i, bytes>>
Descriptor(o, i) == <<o.generation, i, offers>>

NoBuffer == [buffer |-> None, memory |-> None, size |-> 0]
NoPair == <<NoBuffer, NoBuffer>>
NotHeld == [generation |-> 0, bytes |-> 0]

Whole(handle, bytes) == [buffer |-> handle, memory |-> handle, size |-> bytes]

(* The objects a buffer has: memory comes after the buffer it is for. *)
Objects(b) == IF b.buffer = None THEN {}
              ELSE IF b.memory = None THEN {<<"buffer", b.buffer>>}
              ELSE {<<"buffer", b.buffer>>, <<"memory", b.memory>>}
PairObjects(p) == Objects(p[1]) \cup Objects(p[2])

(* The results of host_buffer() on b, the i-th of the two: as it is, when it is
   large enough; else another, or what a failing call leaves, usable for
   nothing. *)
HostGrown(i, b, bytes) == IF b.size >= bytes THEN b ELSE Whole(Own(i, bytes), bytes)

HostFailures(i, b, bytes) ==
  IF b.size >= bytes THEN {}
  ELSE {NoBuffer, [NoBuffer EXCEPT !.buffer = Own(i, bytes)], Whole(Own(i, bytes), 0)}

-----------------------------------------------------------------------------
(* Opening the device.                                                     *)

Init ==
  /\ pc = "create"
  /\ physical = Any /\ made = 0
  /\ recorder = NewRecorder /\ builds = 0
  /\ imported = [s \in Slots |-> NoPair] /\ upload = NoBuffer /\ download = NoBuffer
  /\ alive = {}
  /\ next = NoPair /\ fds = {} /\ taken = {} /\ offer = NoFrame /\ slot = NoSlot /\ offers = 0
  /\ held = [s \in Slots |-> NotHeld] /\ nextSlot = 0
  /\ tier \in DOMAIN TierExtent
  /\ state = "Starting"
  /\ frame = NoFrame /\ named = 0 /\ io = NoSlot /\ frames = 0
  /\ gpu = Quiet

(* An early return: the engine goes, and a caller that served says so. *)
End == pc' = "ending"

(* A search stops at the first that will do. *)
Firsts(S) == {s \in S : \A r \in S : s <= r}

(* The first device that suits, of the one asked for or of all: one where
   unsuitable() finds the extensions, the features and a queue. *)
Choose ==
  /\ pc = "create" /\ made = 1 /\ physical = Any
  /\ \E suits \in SUBSET Devices :
       LET fit == {i \in suits : Index \in {Any, i}}
       IN IF fit = {} THEN End /\ UNCHANGED physical
          ELSE physical' \in Firsts(fit) /\ UNCHANGED pc
  /\ UNCHANGED <<made, network, buffers, importing, slots, tier, state, request, gpu>>

Create ==
  /\ pc = "create" /\ made < Len(Stages)
  /\ \/ made = 0
     \/ physical # Any
  /\ made' = made + 1
  /\ pc' = IF made' = Len(Stages) THEN "prepare" ELSE pc
  /\ UNCHANGED <<physical, network, buffers, importing, slots, tier, state, request, gpu>>

CreateFails ==
  /\ pc = "create" /\ End
  /\ UNCHANGED <<device, network, buffers, importing, slots, tier, state, request, gpu>>

-----------------------------------------------------------------------------
(* The network.                                                            *)

(* prepare()'s frame: the tier's usual one, with default settings. *)
UsualFrame == [extent |-> TierExtent[tier], fp16 |-> FALSE, motion |-> FALSE,
               passes |-> 1, controls |-> Usual, stages |-> FALSE]

(* shape(): nothing while the network fits; else a build, on a device that is
   idle, or what a failing one leaves. *)
Shaped(f) ==
  IF Differs(recorder, f)
  THEN /\ gpu = Quiet
       /\ recorder' = Built(recorder, f, builds + 1) /\ builds' = builds + 1
  ELSE UNCHANGED network

ShapeFails(f) ==
  /\ recorder' \in IF Differs(recorder, f) THEN {recorder} \cup FailedBuilds(recorder, f) ELSE {}
  /\ UNCHANGED builds

(* Once before the engine is taken, and again, to no effect, before serving. *)
Prepare ==
  /\ pc = "prepare"
  /\ \/ Shaped(UsualFrame) /\ pc' = "serve" /\ state' = "Running"
     \/ ShapeFails(UsualFrame) /\ End /\ UNCHANGED state
  /\ UNCHANGED <<device, buffers, importing, slots, tier, request, gpu>>

(* A tier is only where the layer aims. *)
Retier(t) ==
  /\ pc = "serve" /\ tier' = t /\ t # tier
  /\ UNCHANGED <<pc, device, network, buffers, importing, slots, state, request, gpu>>

-----------------------------------------------------------------------------
(* Imports, between frames.                                                *)

(* The slot of an offer's generation, or else the oldest one. *)
Offer(g, sizes, ours) ==
  LET there == {s \in Slots : held[s].generation = g}
  IN /\ pc = "serve" /\ offers < MaxOffers
     /\ offers' = offers + 1
     /\ offer' = [generation |-> g, size |-> sizes]
     /\ slot' \in IF there = {} THEN {nextSlot} ELSE Firsts(there)
     /\ nextSlot' = IF there = {} THEN (nextSlot + 1) % NumSlots ELSE nextSlot
     /\ fds' = {1, 2} /\ taken' = {}
     /\ pc' = IF ours THEN "import" ELSE "close"
     /\ UNCHANGED <<device, network, buffers, next, held, tier, state, request, gpu>>

(* The buffer to import next: the proxy's, then the answer's. *)
At == Cardinality(taken) + 1

(* A buffer like the layer's, on the layer's memory: Vulkan owns the descriptor. *)
Import ==
  /\ pc = "import" /\ At \in 1 .. 2
  /\ next' = [next EXCEPT ![At] = Whole(Descriptor(offer, At), offer.size[At])]
  /\ alive' = alive \cup Objects(next'[At])
  /\ taken' = taken \cup {At} /\ fds' = fds \ {At}
  /\ pc' = IF At = 2 THEN "wait" ELSE pc
  /\ UNCHANGED <<device, network, imported, upload, download, offer, slot, offers,
                 slots, tier, state, request, gpu>>

(* release(next): what was made of the pair goes, with what just failed. *)
BuggyRefuse ==
  /\ pc' = "close"
  /\ alive' = alive
  /\ next' = NoPair
  /\ UNCHANGED <<device, network, imported, upload, download, offer, slot, offers,
                 slots, tier, state, request, gpu>>

Refuse ==
  /\ pc' = "close"
  /\ alive' = alive \ PairObjects(next)
  /\ next' = NoPair
  /\ UNCHANGED <<device, network, imported, upload, download, offer, slot, offers,
                 slots, tier, state, request, gpu>>

(* No buffer, memory of another kind or size, or no import; or, the descriptor
   now Vulkan's, no binding. *)
ImportFails ==
  /\ pc = "import" /\ At \in 1 .. 2
  /\ Refuse
  /\ \/ UNCHANGED <<fds, taken>>
     \/ taken' = taken \cup {At} /\ fds' = fds \ {At}

(* The queue idle, the pair takes its slot from the one there; a queue that
   cannot go idle leaves that where it is. *)
Replace ==
  /\ pc = "wait"
  /\ \/ /\ gpu = Quiet
        /\ alive' = alive \ PairObjects(imported[slot])
        /\ imported' = [imported EXCEPT ![slot] = next] /\ next' = NoPair
        /\ held' = [held EXCEPT ![slot] =
                      [generation |-> offer.generation,
                       bytes |-> IF offer.size[1] < offer.size[2] THEN offer.size[1] ELSE offer.size[2]]]
        /\ pc' = "close"
        /\ UNCHANGED <<fds, taken, device, network, upload, download, offer, slot, offers,
                       nextSlot, tier, state, request, gpu>>
     \/ Refuse /\ UNCHANGED <<fds, taken>>

(* The caller closes the descriptors that are still its own. *)
Close ==
  /\ pc = "close"
  /\ fds' = {} /\ taken' = {} /\ offer' = NoFrame /\ slot' = NoSlot
  /\ pc' = "serve"
  /\ UNCHANGED <<device, network, buffers, next, offers, slots, tier, state, request, gpu>>

-----------------------------------------------------------------------------
(* A frame.                                                                *)

(* The slots whose pair is of a generation, and holds so many bytes. *)
BuggyHolding(g, bytes) == {s \in Slots : held[s].generation = g}

Holding(g, bytes) == {s \in Slots : held[s].generation = g /\ held[s].bytes >= bytes}

(* Whether a request needs no build. *)
Fits(f) == ~Differs(recorder, f)

(* A request: for the channel's own slots (generation 0), or for the pair of a
   generation, or rejected when no slot holds it.  What does not fit the
   network is a start, as long as its build takes. *)
Request(f, g) ==
  /\ pc = "serve" /\ frames < MaxFrames
  /\ frames' = frames + 1
  /\ frame' = f /\ named' = g
  /\ io' \in IF g = 0 THEN {NoSlot} ELSE Firsts(Holding(g, Bytes(f)))
  /\ pc' = IF Fits(f) THEN "infer" ELSE "reshape"
  /\ state' = IF Fits(f) THEN state ELSE "Starting"
  /\ UNCHANGED <<device, network, buffers, importing, slots, tier, gpu>>

Reshape ==
  /\ pc = "reshape"
  /\ \/ Shaped(frame) /\ pc' = "infer" /\ state' = "Running"
     \/ ShapeFails(frame) /\ End /\ UNCHANGED state
  /\ UNCHANGED <<device, buffers, importing, slots, tier, request, gpu>>

(* infer()'s own shape(), then the frame's buffers, the host's grown to it. *)
Stage ==
  /\ pc = "infer"
  /\ \/ Shaped(frame) /\ pc' = "stage"
     \/ ShapeFails(frame) /\ End
  /\ UNCHANGED <<device, buffers, importing, slots, tier, state, request, gpu>>

HostBuffers ==
  /\ pc = "stage" /\ io = NoSlot
  /\ \/ /\ upload' = HostGrown(1, upload, Bytes(frame)) /\ download' = HostGrown(2, download, Bytes(frame))
        /\ pc' = "record"
     \/ /\ upload' \in HostFailures(1, upload, Bytes(frame))
        /\ UNCHANGED download /\ End
     \/ /\ upload' = HostGrown(1, upload, Bytes(frame))
        /\ download' \in HostFailures(2, download, Bytes(frame)) /\ End
  /\ alive' = (alive \ PairObjects(<<upload, download>>)) \cup PairObjects(<<upload', download'>>)
  /\ UNCHANGED <<device, network, imported, importing, slots, tier, state, request, gpu>>

Imported ==
  /\ pc = "stage" /\ io # NoSlot
  /\ pc' = IF imported[io][1].buffer # None THEN "record" ELSE "ending"
  /\ UNCHANGED <<device, network, buffers, importing, slots, tier, state, request, gpu>>

Pair == IF io = NoSlot THEN <<upload, download>> ELSE imported[io]

(* Recorded and submitted, in one step: nothing else sees the commands.  Only
   a frame that was recorded becomes the history's. *)
Submit ==
  /\ pc = "record"
  /\ recorder' = Recorded(recorder, frame)
  /\ gpu' = [runtime |-> recorder.runtime, place |-> io, pair |-> Pair]
  /\ pc' = "await"
  /\ UNCHANGED <<builds, device, buffers, importing, slots, tier, state, request>>

SubmitFails ==
  /\ pc = "record"
  /\ recorder' \in {recorder, Recorded(recorder, frame)}
  /\ End
  /\ UNCHANGED <<builds, device, buffers, importing, slots, tier, state, request, gpu>>

(* The fence signals and the answer, of a frame in host memory, is copied out;
   or ten seconds pass, or the device is lost. *)
Answer ==
  /\ pc = "await" /\ gpu = Quiet
  /\ frame' = NoFrame /\ named' = 0 /\ io' = NoSlot
  /\ pc' = "serve"
  /\ UNCHANGED <<frames, device, network, buffers, importing, slots, tier, state, gpu>>

WaitFails ==
  /\ pc = "await" /\ End
  /\ UNCHANGED <<device, network, buffers, importing, slots, tier, state, request, gpu>>

(* The device finishes, or is lost. *)
Finish ==
  /\ gpu # Quiet /\ gpu' = Quiet
  /\ UNCHANGED <<pc, device, network, buffers, importing, slots, tier, state, request>>

-----------------------------------------------------------------------------
(* The end.                                                                *)

(* Told to quit, idle, or a request answered with --once. *)
Stop ==
  /\ pc = "serve" /\ End /\ state' = "Stopped"
  /\ UNCHANGED <<device, network, buffers, importing, slots, tier, request, gpu>>

(* ~Impl: once the device is idle, all that was made of it, however little. *)
BuggyDestroy ==
  /\ pc = "ending"
  /\ recorder' = NewRecorder
  /\ imported' = [s \in Slots |-> NoPair] /\ upload' = NoBuffer /\ download' = NoBuffer
  /\ alive' = alive \ ((UNION {PairObjects(imported[s]) : s \in Slots}) \cup PairObjects(<<upload, download>>))
  /\ made' = 0 /\ pc' = "down"
  /\ UNCHANGED <<physical, builds, importing, slots, tier, state, request, gpu>>

Destroy ==
  /\ pc = "ending"
  /\ Opened => gpu = Quiet
  /\ recorder' = NewRecorder
  /\ imported' = [s \in Slots |-> NoPair] /\ upload' = NoBuffer /\ download' = NoBuffer
  /\ alive' = alive \ ((UNION {PairObjects(imported[s]) : s \in Slots}) \cup PairObjects(<<upload, download>>))
  /\ made' = 0 /\ pc' = "down"
  /\ UNCHANGED <<physical, builds, importing, slots, tier, state, request, gpu>>

Ended == pc = "down" /\ UNCHANGED vars

Next ==
  \/ Choose \/ Create \/ CreateFails \/ Prepare
  \/ \E t \in DOMAIN TierExtent : Retier(t)
  \/ \E g \in Generations, sizes \in Sizes \X Sizes, ours \in BOOLEAN : Offer(g, sizes, ours)
  \/ Import \/ ImportFails \/ Replace \/ Close
  \/ \E f \in Frames, g \in Generations \cup {0} : Request(f, g)
  \/ Reshape \/ Stage \/ HostBuffers \/ Imported
  \/ Submit \/ SubmitFails \/ Answer \/ WaitFails \/ Finish
  \/ Stop \/ Destroy \/ Ended

Spec == Init /\ [][Next]_vars

-----------------------------------------------------------------------------
(* Properties.                                                             *)

(* The pairs of buffers: the host's, the slots', and the one being imported. *)
Places == NoSlot .. NumSlots
PairAt(p) == IF p = NoSlot THEN <<upload, download>> ELSE IF p = NumSlots THEN next ELSE imported[p]

(* Whatever fails, in opening, in an import or in a frame, every buffer and
   memory that exists is the engine's to destroy, once; nothing exists after
   it; and of the two descriptors of an offer, each is either the caller's to
   close or Vulkan's, never both and never neither. *)
OwnedOnce ==
  /\ LET used == {p \in Places : PairAt(p) # NoPair}
     IN /\ alive = UNION {PairObjects(PairAt(p)) : p \in used}
        /\ \A p \in used : Objects(PairAt(p)[1]) \cap Objects(PairAt(p)[2]) = {}
        /\ \A p, q \in used : p # q => PairObjects(PairAt(p)) \cap PairObjects(PairAt(q)) = {}
  /\ pc = "down" => alive = {} /\ recorder = NewRecorder
  /\ pc \in {"import", "wait", "close"} => fds = {1, 2} \ taken

(* A frame on the device runs on a network built for it, in buffers as large
   as it is: those its request names, the proxy read and the answer written,
   both of one offer; or the channel's. *)
FrameFits ==
  pc = "await" /\ gpu # Quiet =>
    /\ Serves(recorder, frame)
    /\ \A i \in 1 .. 2 :
         /\ gpu.pair[i].size >= Bytes(frame)
         /\ IF named = 0 THEN gpu.pair[i] = Whole(Own(i, gpu.pair[i].size), gpu.pair[i].size)
            ELSE \E o \in 1 .. offers :
                   gpu.pair = [j \in 1 .. 2 |-> Whole(<<named, j, o>>, gpu.pair[j].size)]

(* What a submitted frame uses is neither replaced nor destroyed until the
   device is done with it, even when the daemon gave up waiting. *)
NothingFreedInUse ==
  gpu # Quiet =>
    /\ made = Len(Stages) /\ recorder.runtime = gpu.runtime
    /\ gpu.pair = IF gpu.place = NoSlot THEN <<upload, download>> ELSE imported[gpu.place]

=============================================================================
