------------------------- MODULE VulkanEngineProofs -------------------------
(***************************************************************************)
(* That the daemon's Vulkan engine, whatever call of it fails, owns each   *)
(* buffer and descriptor once, frees nothing the device still uses, and    *)
(* runs a frame only on a network and in buffers that fit it: for any      *)
(* number of slots, offers and requests.  Each is a part of an inductive   *)
(* invariant, or follows from it.                                          *)
(***************************************************************************)
EXTENDS VulkanEngine, FiniteSetTheorems, TLAPS

-----------------------------------------------------------------------------
(* The inductive invariant. *)

PCs == {"create", "prepare", "serve", "import", "wait", "close", "reshape",
        "infer", "stage", "record", "await", "ending", "down"}

Handles == {None} \cup ({1, 2} \X Nat) \cup (Generations \X {1, 2} \X Nat)
Buffers == [buffer : Handles, memory : Handles, size : Nat]

Offers == [generation : Generations, size : Sizes \X Sizes]

(* Where an import is, and where a request is. *)
Importing == {"import", "wait"}
Requested == {"reshape", "infer", "stage", "record", "await"}

TypeOK ==
  /\ pc \in PCs
  /\ physical \in Devices \cup {Any} /\ made \in 0 .. Len(Stages)
  /\ recorder \in Recorder /\ builds \in Nat
  /\ imported \in [Slots -> Buffers \X Buffers]
  /\ upload \in Buffers /\ download \in Buffers /\ next \in Buffers \X Buffers
  /\ fds \in SUBSET {1, 2} /\ taken \in {{}, {1}, {1, 2}}
  /\ offers \in Nat /\ nextSlot \in Slots
  /\ held \in [Slots -> [generation : Generations \cup {0}, bytes : Nat]]
  /\ tier \in DOMAIN TierExtent
  /\ state \in {"Starting", "Running", "Stopped"}
  /\ io \in Slots \cup {NoSlot} /\ named \in Generations \cup {0}
  /\ frame \in Frames \cup {NoFrame} /\ frames \in Nat

(* Only what is open serves, and only a frame being waited for, or given up,
   is on the device. *)
Opens ==
  /\ pc \notin {"create", "ending", "down"} => made = Len(Stages)
  /\ gpu # Quiet => made = Len(Stages) /\ pc \in {"await", "ending"}

(* A runtime comes with its images, and with its shape. *)
Sound(r) == r.runtime # NoRuntime => r.shape \in Shape /\ r.colour /\ r.half = r.shape.fp16

Complete == Sound(recorder) /\ (pc = "down" => recorder = NewRecorder)

(* The i-th of the host's buffers has memory of its own, if any; and is usable,
   or not there, unless making it failed. *)
Hosted(i, b) ==
  /\ b.buffer \in {None} \cup ({i} \X Nat) /\ b.memory \in {None, b.buffer}
  /\ pc \notin {"ending", "down"} => b = NoBuffer \/ b = Whole(Own(i, b.size), b.size)

Hosts ==
  /\ Hosted(1, upload) /\ Hosted(2, download)
  /\ pc \in {"record", "await"} /\ io = NoSlot =>
       upload.size >= Bytes(frame) /\ download.size >= Bytes(frame)

(* A pair of the offer o, of a generation. *)
OfOffer(p, g, o) == p = <<Whole(<<g, 1, o>>, p[1].size), Whole(<<g, 2, o>>, p[2].size)>>

(* A slot is empty, or has a pair of its generation, no smaller than it says, of
   an offer that came before the one being imported. *)
Filled(s) ==
  \/ imported[s] = NoPair /\ (pc = "down" \/ held[s].generation = 0)
  \/ /\ \E o \in 1 .. offers : OfOffer(imported[s], held[s].generation, o) /\ (pc \in Importing => o # offers)
     /\ \A i \in 1 .. 2 : held[s].bytes <= imported[s][i].size

Fills == \A s \in Slots : Filled(s)

(* What has been made of the pair being imported is what Vulkan took the
   descriptors of. *)
Imports ==
  /\ pc \in Importing => offer \in Offers /\ slot \in Slots /\ offers > 0
  /\ pc = "import" => taken \in {{}, {1}}
  /\ pc = "wait" => taken = {1, 2}
  /\ \A i \in 1 .. 2 : next[i] = IF pc \in Importing /\ i \in taken
                                 THEN Whole(Descriptor(offer, i), offer.size[i]) ELSE NoBuffer
  /\ pc \in {"import", "wait", "close"} => fds = {1, 2} \ taken

(* Sets that share nothing, which make up A. *)
Partition(P, F, A) ==
  /\ A = UNION {F[p] : p \in P}
  /\ \A p, q \in P : p # q => F[p] \cap F[q] = {}

(* Every object there is belongs to one place. *)
ObjectsAt == [p \in Places |-> PairObjects(PairAt(p))]
Accounted == Partition(Places, ObjectsAt, alive) /\ (pc = "down" => alive = {})

(* A request's slot is of the generation it names, and holds it. *)
Asked ==
  pc \in Requested =>
    /\ frame \in Frames
    /\ named = 0 <=> io = NoSlot
    /\ io # NoSlot => held[io].generation = named /\ held[io].bytes >= Bytes(frame)

(* What is recorded, and then on the device, is what was built and is there. *)
Runs ==
  /\ pc \in {"stage", "record", "await"} => Serves(recorder, frame)
  /\ gpu # Quiet =>
       /\ gpu.runtime = recorder.runtime /\ gpu.place \in Slots \cup {NoSlot}
       /\ gpu.pair = IF gpu.place = NoSlot THEN <<upload, download>> ELSE imported[gpu.place]
       /\ pc = "await" => gpu.place = io

IInv ==
  /\ TypeOK /\ Opens /\ Complete /\ Hosts /\ Fills /\ Imports
  /\ Accounted /\ Asked /\ Runs

-----------------------------------------------------------------------------
(* The network. *)

(* The passes a runtime is built for are few enough. *)
LEMMA Passing == ASSUME NEW f \in VulkanFrame PROVE Passes(f) \in 1 .. KMaxPasses
BY PassAssumption DEF Passes, VulkanFrame

(* A build that fails leaves no runtime. *)
LEMMA Dropping ==
  ASSUME NEW r \in Recorder, NEW f \in VulkanFrame, NEW d \in FailedBuilds(r, f)
  PROVE  d \in Recorder /\ Sound(d)
<1> USE DEF Dropped, Recorder, NoRuntime, Sound
<1>1. CASE d = Dropped(r)
  BY <1>1
<1>2. CASE d = [Dropped(r) EXCEPT !.colour = TRUE]
  BY <1>2
<1>3. CASE d = [Dropped(r) EXCEPT !.colour = TRUE, !.half = f.fp16]
  BY <1>3 DEF VulkanFrame
<1> QED
  BY <1>1, <1>2, <1>3 DEF FailedBuilds

(* A build that succeeds serves what it was for. *)
LEMMA Building ==
  ASSUME NEW r \in Recorder, NEW f \in VulkanFrame, NEW id \in Nat \ {0}
  PROVE  LET b == Built(r, f, id) IN b \in Recorder /\ Sound(b) /\ Serves(b, f)
<1> DEFINE shape == [extent |-> f.extent, fp16 |-> f.fp16, motion |-> f.motion, passes |-> Passes(f),
                     stages |-> f.stages]
<1>1. /\ shape \in Shape /\ shape.fp16 = f.fp16 /\ f.fp16 \in BOOLEAN
      /\ shape.extent = f.extent /\ shape.motion = f.motion /\ shape.passes = Passes(f)
      /\ shape.stages = f.stages /\ Passes(f) \in Nat
  BY Passing, PassAssumption DEF VulkanFrame, Shape
<1>2. Built(r, f, id) = [Dropped(r) EXCEPT !.runtime = id, !.colour = TRUE, !.half = f.fp16, !.shape = shape,
                                           !.last = NoFrame]
  BY DEF Built
<1> HIDE DEF shape
<1>3. LET b == Built(r, f, id)
      IN /\ b \in Recorder /\ b.runtime = id /\ b.colour /\ b.half = f.fp16 /\ b.shape = shape
  BY <1>1, <1>2 DEF Recorder, Dropped
<1> QED
  BY <1>1, <1>3 DEF Sound, Serves, NoRuntime

(* Recording a frame changes only the history's frame. *)
LEMMA Recording ==
  ASSUME NEW r \in Recorder, NEW f \in VulkanFrame
  PROVE  LET n == Recorded(r, f)
         IN /\ n \in Recorder /\ n.runtime = r.runtime
            /\ Sound(r) => Sound(n)
            /\ \A g : Serves(r, g) => Serves(n, g)
BY DEF Recorded, Recorder, Serves, Sound

(* A runtime that need not be built again serves the frame. *)
LEMMA Serving ==
  ASSUME NEW r \in Recorder, NEW f \in VulkanFrame, ~Differs(r, f), Sound(r)
  PROVE  Serves(r, f)
BY Passing, PassAssumption DEF Differs, Serves, Shape, VulkanFrame, Sound

(* A new recorder has no runtime. *)
LEMMA Starting == NewRecorder \in Recorder /\ Sound(NewRecorder)
BY DEF NewRecorder, Recorder, NoRuntime, Sound

-----------------------------------------------------------------------------
(* Buffers, and whose they are. *)

(* A pair is known by its two buffers. *)
LEMMA Pairing ==
  ASSUME NEW p \in Buffers \X Buffers, NEW q \in Buffers \X Buffers, p[1] = q[1], p[2] = q[2]
  PROVE  p = q
OBVIOUS

(* Buffers of each kind. *)
LEMMA Buffering ==
  /\ NoBuffer \in Buffers /\ NoPair \in Buffers \X Buffers /\ NoPair[1] = NoBuffer /\ NoPair[2] = NoBuffer
  /\ \A h \in Handles, n \in Nat : /\ Whole(h, n) \in Buffers /\ Whole(h, n).buffer = h
                                   /\ Whole(h, n).memory = h /\ Whole(h, n).size = n
  /\ NoBuffer.buffer = None /\ NoBuffer.memory = None /\ NoBuffer.size = 0
  /\ \A i \in {1, 2}, n \in Nat : Own(i, n) \in Handles
  /\ \A o \in Offers, i \in {1, 2} : offers \in Nat => Descriptor(o, i) \in Handles
BY DEF NoBuffer, NoPair, Whole, Buffers, Handles, Own, Descriptor, Offers, None

(* No two handles of different makers are the same. *)
LEMMA Handling ==
  ASSUME NEW i \in {1, 2}, NEW m \in Nat, NEW g, NEW j \in {1, 2}, NEW o
  PROVE  Own(i, m) # None /\ <<g, j, o>> # None /\ Own(i, m) # <<g, j, o>>
BY DEF Own, None

(* Bytes are some. *)
LEMMA Sizing ==
  /\ \A f \in Frames : Bytes(f) \in Nat \ {0} /\ Bytes(f) \in Sizes /\ f \in VulkanFrame
  /\ Sizes \subseteq Nat \ {0}
<1>1. \A f \in Frames : f \in VulkanFrame /\ f.extent \in Nat \ {0}
  BY EngineAssumption DEF VulkanFrame
<1> QED
  BY <1>1 DEF Bytes, Sizes

(* One of the sets may be another, of what the others do not have. *)
LEMMA Exchanging ==
  ASSUME NEW P, NEW F, NEW G, NEW A, NEW p \in P, NEW N, Partition(P, F, A),
         \A q \in P : G[q] = IF q = p THEN N ELSE F[q],
         \A q \in P : q # p => F[q] \cap N = {}
  PROVE  Partition(P, G, (A \ F[p]) \cup N)
<1>1. \A x \in (A \ F[p]) \cup N : \E q \in P : x \in G[q]
  BY DEF Partition
<1>2. ASSUME NEW q \in P, NEW x \in G[q] PROVE x \in (A \ F[p]) \cup N
  BY <1>2 DEF Partition
<1>3. (A \ F[p]) \cup N = UNION {G[q] : q \in P}
  BY <1>1, <1>2
<1>4. \A q, r \in P : q # r => G[q] \cap G[r] = {}
  BY DEF Partition
<1> QED
  BY <1>3, <1>4 DEF Partition

(* One may take another's place, and leave its own. *)
LEMMA Moving ==
  ASSUME NEW P, NEW F, NEW G, NEW A, NEW p \in P, NEW r \in P, p # r, Partition(P, F, A),
         \A q \in P : G[q] = IF q = p THEN {} ELSE IF q = r THEN F[p] ELSE F[q]
  PROVE  Partition(P, G, A \ F[r])
<1>1. \A x \in A \ F[r] : \E q \in P : x \in G[q]
  <2> SUFFICES ASSUME NEW x \in A \ F[r] PROVE \E q \in P : x \in G[q]
    OBVIOUS
  <2>1. PICK q \in P : x \in F[q]
    BY DEF Partition
  <2>2. x \in IF q = p THEN G[r] ELSE G[q]
    BY <2>1
  <2> QED
    BY <2>2
<1>2. ASSUME NEW q \in P, NEW x \in G[q] PROVE x \in A \ F[r]
  BY <1>2 DEF Partition
<1>3. A \ F[r] = UNION {G[q] : q \in P}
  BY <1>1, <1>2
<1>4. \A q, s \in P : q # s => G[q] \cap G[s] = {}
  BY DEF Partition
<1> QED
  BY <1>3, <1>4 DEF Partition

-----------------------------------------------------------------------------
(* The steps that touch no buffer, outside an import. *)

(* Shaping leaves a network that serves the frame, or one that is not there. *)
LEMMA Shaping ==
  ASSUME recorder \in Recorder, Sound(recorder), builds \in Nat, NEW f \in VulkanFrame, Shaped(f)
  PROVE  recorder' \in Recorder /\ Sound(recorder') /\ builds' \in Nat /\ Serves(recorder', f)
<1>1. CASE Differs(recorder, f)
  BY <1>1, Building DEF Shaped
<1>2. CASE ~Differs(recorder, f)
  BY <1>2, Serving DEF Shaped, network
<1> QED
  BY <1>1, <1>2

LEMMA Misshaping ==
  ASSUME recorder \in Recorder, Sound(recorder), builds \in Nat, NEW f \in VulkanFrame, ShapeFails(f)
  PROVE  recorder' \in Recorder /\ Sound(recorder') /\ builds' \in Nat
BY Dropping DEF ShapeFails

(* A step outside an import, and not the end. *)
Apart ==
  /\ UNCHANGED <<buffers, importing, held>>
  /\ {pc, pc'} \cap {"import", "wait", "close", "down"} = {}
  /\ pc = "ending" => pc' = "ending"

LEMMA Aside ==
  ASSUME IInv, Apart
  PROVE  /\ Fills' /\ Imports' /\ Accounted'
         /\ Hosted(1, upload)' /\ Hosted(2, download)'
<1> USE DEF IInv, Apart, buffers, importing
<1>1. Fills'
  BY DEF Fills, Filled, Importing
<1>2. Imports'
  BY DEF Imports, Importing
<1>3. ObjectsAt' = ObjectsAt
  BY DEF ObjectsAt, PairAt
<1>4. Accounted'
  BY <1>3 DEF Accounted
<1>5. Hosted(1, upload)' /\ Hosted(2, download)'
  BY DEF Hosts, Hosted
<1> QED
  BY <1>1, <1>2, <1>4, <1>5

(* What the type says of what an aside leaves alone. *)
LEMMA AsideTypes ==
  ASSUME IInv, Apart
  PROVE  /\ (imported \in [Slots -> Buffers \X Buffers])' /\ upload' \in Buffers /\ download' \in Buffers
         /\ next' \in Buffers \X Buffers /\ fds' \in SUBSET {1, 2} /\ taken' \in {{}, {1}, {1, 2}}
         /\ offers' \in Nat /\ (held \in [Slots -> [generation : Generations \cup {0}, bytes : Nat]])'
BY DEF IInv, Apart, buffers, importing, TypeOK

LEMMA ChooseKeeps == ASSUME IInv, Choose PROVE IInv'
<1>1. /\ pc = "create" /\ pc' \in {"create", "ending"} /\ physical' \in Devices \cup {Any}
      /\ UNCHANGED <<made, network, buffers, importing, slots, tier, state, request, gpu>>
  BY DEF Choose, End, Firsts, IInv, TypeOK
<1>2. Apart
  BY <1>1 DEF Apart, slots
<1>3. TypeOK'
  BY <1>1, <1>2, AsideTypes DEF IInv, TypeOK, PCs, network, slots, request
<1>4. Opens' /\ Complete' /\ Hosts' /\ Asked' /\ Runs'
  BY <1>1, <1>2, Aside DEF IInv, Opens, Complete, Hosts, Asked, Runs, Requested, network, buffers, request
<1> QED
  BY <1>2, <1>3, <1>4, Aside DEF IInv

LEMMA CreateKeeps == ASSUME IInv, Create PROVE IInv'
<1>1. /\ pc = "create" /\ made' = made + 1 /\ pc' = IF made' = Len(Stages) THEN "prepare" ELSE pc
      /\ made < Len(Stages) /\ made \in Nat
      /\ UNCHANGED <<physical, network, buffers, importing, slots, tier, state, request, gpu>>
  BY DEF Create, IInv, TypeOK
<1>2. Apart
  BY <1>1 DEF Apart, slots
<1>3. TypeOK'
  BY <1>1, <1>2, AsideTypes DEF IInv, TypeOK, PCs, network, slots, request, Stages
<1>4. Opens' /\ Complete' /\ Hosts' /\ Asked' /\ Runs'
  BY <1>1, <1>2, Aside DEF IInv, Opens, Complete, Hosts, Asked, Runs, Requested, network, buffers, request
<1> QED
  BY <1>2, <1>3, <1>4, Aside DEF IInv

LEMMA CreateFailsKeeps == ASSUME IInv, CreateFails PROVE IInv'
<1>1. /\ pc = "create" /\ pc' = "ending"
      /\ UNCHANGED <<device, network, buffers, importing, slots, tier, state, request, gpu>>
  BY DEF CreateFails, End
<1>2. Apart
  BY <1>1 DEF Apart, slots
<1>3. TypeOK'
  BY <1>1, <1>2, AsideTypes DEF IInv, TypeOK, PCs, network, slots, request, device
<1>4. Opens' /\ Complete' /\ Hosts' /\ Asked' /\ Runs'
  BY <1>1, <1>2, Aside DEF IInv, Opens, Complete, Hosts, Asked, Runs, Requested, network, buffers, request, device
<1> QED
  BY <1>2, <1>3, <1>4, Aside DEF IInv

LEMMA PrepareKeeps == ASSUME IInv, Prepare PROVE IInv'
<1>1. /\ pc = "prepare" /\ pc' \in {"serve", "ending"} /\ state' \in {"Running", state} /\ gpu = Quiet
      /\ UNCHANGED <<device, buffers, importing, slots, tier, request, gpu>>
  BY DEF Prepare, End, IInv, Opens
<1>2. recorder \in Recorder /\ Sound(recorder) /\ builds \in Nat /\ tier \in DOMAIN TierExtent
  BY DEF IInv, TypeOK, Complete
<1>3. UsualFrame \in VulkanFrame
  BY <1>2, EngineAssumption DEF UsualFrame, VulkanFrame
<1>4. recorder' \in Recorder /\ Sound(recorder') /\ builds' \in Nat
  BY <1>2, <1>3, Shaping, Misshaping DEF Prepare
<1>5. Apart
  BY <1>1 DEF Apart, slots
<1>6. TypeOK'
  BY <1>1, <1>4, <1>5, AsideTypes DEF IInv, TypeOK, PCs, slots, request, device
<1>7. Opens' /\ Complete' /\ Hosts' /\ Asked' /\ Runs'
  BY <1>1, <1>4, <1>5, Aside DEF IInv, Opens, Complete, Hosts, Asked, Runs, Requested, request, device
<1> QED
  BY <1>5, <1>6, <1>7, Aside DEF IInv

LEMMA RetierKeeps == ASSUME IInv, NEW t \in DOMAIN TierExtent, Retier(t) PROVE IInv'
<1>1. /\ pc = "serve" /\ tier' = t
      /\ UNCHANGED <<pc, device, network, buffers, importing, slots, state, request, gpu>>
  BY DEF Retier
<1>2. Apart
  BY <1>1 DEF Apart, slots
<1>3. TypeOK'
  BY <1>1, <1>2, AsideTypes DEF IInv, TypeOK, PCs, network, slots, request, device
<1>4. Opens' /\ Complete' /\ Hosts' /\ Asked' /\ Runs'
  BY <1>1, <1>2, Aside DEF IInv, Opens, Complete, Hosts, Asked, Runs, Requested, network, buffers, request, device
<1> QED
  BY <1>2, <1>3, <1>4, Aside DEF IInv

(* The slot a request is for holds its frame. *)
LEMMA RequestKeeps ==
  ASSUME IInv, NEW f \in Frames, NEW g \in Generations \cup {0}, Request(f, g) PROVE IInv'
<1>1. /\ pc = "serve" /\ pc' \in {"infer", "reshape"} /\ state' \in {state, "Starting"}
      /\ frames' = frames + 1 /\ frame' = f /\ named' = g
      /\ io' \in IF g = 0 THEN {NoSlot} ELSE Firsts(Holding(g, Bytes(f)))
      /\ UNCHANGED <<device, network, buffers, importing, slots, tier, gpu>>
  BY DEF Request
<1>2. io' \in Slots \cup {NoSlot} /\ (io' = NoSlot <=> g = 0)
  BY <1>1, EngineAssumption DEF Firsts, Holding, Slots, NoSlot
<1>3. io' # NoSlot => held[io'].generation = g /\ held[io'].bytes >= Bytes(f)
  BY <1>1 DEF Firsts, Holding
<1>4. Apart
  BY <1>1 DEF Apart, slots
<1>5. TypeOK'
  BY <1>1, <1>2, <1>4, AsideTypes DEF IInv, TypeOK, PCs, network, slots, device
<1>6. gpu = Quiet
  BY <1>1 DEF IInv, Opens
<1>7. Opens' /\ Complete' /\ Hosts' /\ Runs'
  BY <1>1, <1>4, <1>6, Aside DEF IInv, Opens, Complete, Hosts, Runs, network, buffers, device
<1>8. Asked'
  BY <1>1, <1>2, <1>3 DEF Asked, slots
<1> QED
  BY <1>4, <1>5, <1>7, <1>8, Aside DEF IInv

LEMMA ReshapeKeeps == ASSUME IInv, Reshape PROVE IInv'
<1>1. /\ pc = "reshape" /\ pc' \in {"infer", "ending"} /\ state' \in {"Running", state} /\ gpu = Quiet
      /\ UNCHANGED <<device, buffers, importing, slots, tier, request, gpu>>
  BY DEF Reshape, End, IInv, Opens
<1>2. recorder \in Recorder /\ Sound(recorder) /\ builds \in Nat /\ frame \in VulkanFrame
  BY <1>1, Sizing DEF IInv, TypeOK, Complete, Asked, Requested
<1>3. recorder' \in Recorder /\ Sound(recorder') /\ builds' \in Nat
  BY <1>2, Shaping, Misshaping DEF Reshape
<1>4. Apart
  BY <1>1 DEF Apart, slots
<1>5. TypeOK'
  BY <1>1, <1>3, <1>4, AsideTypes DEF IInv, TypeOK, PCs, slots, request, device
<1>6. Opens' /\ Complete' /\ Hosts' /\ Asked' /\ Runs'
  BY <1>1, <1>3, <1>4, Aside DEF IInv, Opens, Complete, Hosts, Asked, Runs, Requested, request, device, slots
<1> QED
  BY <1>4, <1>5, <1>6, Aside DEF IInv

LEMMA StageKeeps == ASSUME IInv, Stage PROVE IInv'
<1>1. /\ pc = "infer" /\ pc' \in {"stage", "ending"} /\ gpu = Quiet
      /\ UNCHANGED <<device, buffers, importing, slots, tier, state, request, gpu>>
  BY DEF Stage, End, IInv, Opens
<1>2. recorder \in Recorder /\ Sound(recorder) /\ builds \in Nat /\ frame \in VulkanFrame
  BY <1>1, Sizing DEF IInv, TypeOK, Complete, Asked, Requested
<1>3. /\ recorder' \in Recorder /\ Sound(recorder') /\ builds' \in Nat
      /\ pc' = "stage" => Serves(recorder', frame)
  BY <1>2, Shaping, Misshaping DEF Stage, End
<1>4. Apart
  BY <1>1 DEF Apart, slots
<1>5. TypeOK'
  BY <1>1, <1>3, <1>4, AsideTypes DEF IInv, TypeOK, PCs, slots, request, device
<1>6. Opens' /\ Complete' /\ Hosts' /\ Asked' /\ Runs'
  BY <1>1, <1>3, <1>4, Aside DEF IInv, Opens, Complete, Hosts, Asked, Runs, Requested, request, device, slots
<1> QED
  BY <1>4, <1>5, <1>6, Aside DEF IInv

LEMMA ImportedKeeps == ASSUME IInv, Imported PROVE IInv'
<1>1. /\ pc = "stage" /\ io # NoSlot /\ pc' \in {"record", "ending"}
      /\ UNCHANGED <<device, network, buffers, importing, slots, tier, state, request, gpu>>
  BY DEF Imported
<1>2. Apart
  BY <1>1 DEF Apart, slots
<1>3. TypeOK'
  BY <1>1, <1>2, AsideTypes DEF IInv, TypeOK, PCs, network, slots, request, device
<1>4. Opens' /\ Complete' /\ Hosts' /\ Asked' /\ Runs'
  BY <1>1, <1>2, Aside DEF IInv, Opens, Complete, Hosts, Asked, Runs, Requested, network, buffers, request,
                           device, slots
<1> QED
  BY <1>2, <1>3, <1>4, Aside DEF IInv

(* What a frame uses is what is there as it is submitted. *)
LEMMA SubmitKeeps == ASSUME IInv, Submit PROVE IInv'
<1>1. /\ pc = "record" /\ pc' = "await" /\ recorder' = Recorded(recorder, frame)
      /\ gpu' = [runtime |-> recorder.runtime, place |-> io, pair |-> Pair]
      /\ UNCHANGED <<builds, device, buffers, importing, slots, tier, state, request>>
  BY DEF Submit
<1>2. recorder \in Recorder /\ Sound(recorder) /\ frame \in VulkanFrame /\ Serves(recorder, frame)
  BY <1>1, Sizing DEF IInv, TypeOK, Complete, Asked, Requested, Runs
<1>3. /\ recorder' \in Recorder /\ Sound(recorder') /\ Serves(recorder', frame)
      /\ recorder'.runtime = recorder.runtime
  BY <1>1, <1>2, Recording
<1>4. Apart
  BY <1>1 DEF Apart, slots
<1>5. TypeOK'
  BY <1>1, <1>3, <1>4, AsideTypes DEF IInv, TypeOK, PCs, slots, request, device
<1>6. Opens' /\ Complete' /\ Hosts' /\ Asked'
  BY <1>1, <1>3, <1>4, Aside DEF IInv, Opens, Complete, Hosts, Asked, Requested, request, device, slots, buffers
<1>7. gpu'.runtime = recorder.runtime /\ gpu'.place = io /\ gpu'.pair = Pair
  BY <1>1
<1>8. Runs'
  BY <1>1, <1>3, <1>7 DEF IInv, TypeOK, Runs, Pair, request, buffers
<1> QED
  BY <1>4, <1>5, <1>6, <1>8, Aside DEF IInv

LEMMA SubmitFailsKeeps == ASSUME IInv, SubmitFails PROVE IInv'
<1>1. /\ pc = "record" /\ pc' = "ending" /\ recorder' \in {recorder, Recorded(recorder, frame)} /\ gpu = Quiet
      /\ UNCHANGED <<builds, device, buffers, importing, slots, tier, state, request, gpu>>
  BY DEF SubmitFails, End, IInv, Opens
<1>2. recorder \in Recorder /\ Sound(recorder) /\ frame \in VulkanFrame
  BY <1>1, Sizing DEF IInv, TypeOK, Complete, Asked, Requested
<1>3. recorder' \in Recorder /\ Sound(recorder')
  BY <1>1, <1>2, Recording
<1>4. Apart
  BY <1>1 DEF Apart, slots
<1>5. TypeOK'
  BY <1>1, <1>3, <1>4, AsideTypes DEF IInv, TypeOK, PCs, slots, request, device
<1>6. Opens' /\ Complete' /\ Hosts' /\ Asked' /\ Runs'
  BY <1>1, <1>3, <1>4, Aside DEF IInv, Opens, Complete, Hosts, Asked, Runs, Requested, request, device, slots
<1> QED
  BY <1>4, <1>5, <1>6, Aside DEF IInv

LEMMA AnswerKeeps == ASSUME IInv, Answer PROVE IInv'
<1>1. /\ pc = "await" /\ pc' = "serve" /\ gpu = Quiet /\ frame' = NoFrame /\ named' = 0 /\ io' = NoSlot
      /\ UNCHANGED <<frames, device, network, buffers, importing, slots, tier, state, gpu>>
  BY DEF Answer
<1>2. Apart
  BY <1>1 DEF Apart, slots
<1>3. TypeOK'
  BY <1>1, <1>2, AsideTypes DEF IInv, TypeOK, PCs, network, slots, device
<1>4. Opens' /\ Complete' /\ Hosts' /\ Asked' /\ Runs'
  BY <1>1, <1>2, Aside DEF IInv, Opens, Complete, Hosts, Asked, Runs, Requested, network, buffers, device
<1> QED
  BY <1>2, <1>3, <1>4, Aside DEF IInv

LEMMA WaitFailsKeeps == ASSUME IInv, WaitFails PROVE IInv'
<1>1. /\ pc = "await" /\ pc' = "ending"
      /\ UNCHANGED <<device, network, buffers, importing, slots, tier, state, request, gpu>>
  BY DEF WaitFails, End
<1>2. Apart
  BY <1>1 DEF Apart, slots
<1>3. TypeOK'
  BY <1>1, <1>2, AsideTypes DEF IInv, TypeOK, PCs, network, slots, request, device
<1>4. Opens' /\ Complete' /\ Hosts' /\ Asked' /\ Runs'
  BY <1>1, <1>2, Aside DEF IInv, Opens, Complete, Hosts, Asked, Runs, Requested, network, buffers, request, device
<1> QED
  BY <1>2, <1>3, <1>4, Aside DEF IInv

LEMMA FinishKeeps == ASSUME IInv, Finish PROVE IInv'
<1>1. /\ gpu' = Quiet /\ pc \in {"await", "ending"}
      /\ UNCHANGED <<pc, device, network, buffers, importing, slots, tier, state, request>>
  BY DEF Finish, IInv, Opens
<1>2. Apart
  BY <1>1 DEF Apart, slots
<1>3. TypeOK'
  BY <1>1, <1>2, AsideTypes DEF IInv, TypeOK, PCs, network, slots, request, device
<1>4. Opens' /\ Complete' /\ Hosts' /\ Asked' /\ Runs'
  BY <1>1, <1>2, Aside DEF IInv, Opens, Complete, Hosts, Asked, Runs, Requested, network, buffers, request,
                           device, slots
<1> QED
  BY <1>2, <1>3, <1>4, Aside DEF IInv

LEMMA StopKeeps == ASSUME IInv, Stop PROVE IInv'
<1>1. /\ pc = "serve" /\ pc' = "ending" /\ state' = "Stopped"
      /\ UNCHANGED <<device, network, buffers, importing, slots, tier, request, gpu>>
  BY DEF Stop, End
<1>2. Apart
  BY <1>1 DEF Apart, slots
<1>3. TypeOK'
  BY <1>1, <1>2, AsideTypes DEF IInv, TypeOK, PCs, network, slots, request, device
<1>4. Opens' /\ Complete' /\ Hosts' /\ Asked' /\ Runs'
  BY <1>1, <1>2, Aside DEF IInv, Opens, Complete, Hosts, Asked, Runs, Requested, network, buffers, request, device
<1> QED
  BY <1>2, <1>3, <1>4, Aside DEF IInv

-----------------------------------------------------------------------------
(* Imports. *)

(* The slots come round. *)
LEMMA Rounding == ASSUME NEW n \in Slots PROVE (n + 1) % NumSlots \in Slots
BY EngineAssumption DEF Slots

LEMMA OfferKeeps ==
  ASSUME IInv, NEW g \in Generations, NEW sizes \in Sizes \X Sizes, NEW ours \in BOOLEAN, Offer(g, sizes, ours)
  PROVE  IInv'
<1>1. /\ pc = "serve" /\ pc' \in {"import", "close"} /\ offers' = offers + 1
      /\ offer' = [generation |-> g, size |-> sizes]
      /\ fds' = {1, 2} /\ taken' = {}
      /\ UNCHANGED <<device, network, buffers, next, held, tier, state, request, gpu>>
  BY DEF Offer
<1>2. slot' \in Slots /\ nextSlot' \in Slots /\ offers \in Nat /\ gpu = Quiet
  <2>1. nextSlot \in Slots /\ offers \in Nat /\ gpu = Quiet
    BY <1>1 DEF IInv, TypeOK, Opens
  <2> QED
    BY <2>1, Rounding DEF Offer, Firsts
<1>3. TypeOK'
  BY <1>1, <1>2 DEF IInv, TypeOK, PCs, network, request, device, buffers
<1>4. Opens' /\ Complete' /\ Asked' /\ Runs'
  BY <1>1, <1>2 DEF IInv, Opens, Complete, Asked, Runs, Requested, network, device
<1>5. Fills'
  <2> SUFFICES ASSUME NEW s \in Slots PROVE Filled(s)'
    BY DEF Fills
  <2>1. Filled(s)
    BY DEF IInv, Fills
  <2> QED
    BY <2>1, <1>1, <1>2 DEF Filled, buffers, OfOffer
<1>6. Imports'
  <2>1. \A i \in 1 .. 2 : next[i] = NoBuffer
    BY <1>1 DEF IInv, Imports, Importing
  <2>2. offer' \in Offers
    BY <1>1 DEF Offers
  <2> QED
    BY <1>1, <1>2, <2>1, <2>2 DEF Imports, Importing
<1>7. ObjectsAt' = ObjectsAt
  BY <1>1 DEF ObjectsAt, PairAt, buffers
<1>8. Accounted' /\ Hosts'
  BY <1>1, <1>7 DEF IInv, Accounted, Hosts, Hosted, buffers
<1> QED
  BY <1>3, <1>4, <1>5, <1>6, <1>8 DEF IInv

LEMMA CloseKeeps == ASSUME IInv, Close PROVE IInv'
<1>1. /\ pc = "close" /\ pc' = "serve" /\ fds' = {} /\ taken' = {}
      /\ UNCHANGED <<device, network, buffers, next, offers, slots, tier, state, request, gpu>>
  BY DEF Close
<1>2. TypeOK'
  BY <1>1 DEF IInv, TypeOK, PCs, network, request, device, buffers, slots
<1>3. Opens' /\ Complete' /\ Asked' /\ Runs' /\ Imports'
  BY <1>1 DEF IInv, Opens, Complete, Asked, Runs, Requested, network, device, Imports, Importing
<1>4. Fills'
  BY <1>1 DEF IInv, Fills, Filled, Importing, slots, buffers
<1>5. ObjectsAt' = ObjectsAt
  BY <1>1 DEF ObjectsAt, PairAt, buffers
<1>6. Accounted' /\ Hosts'
  BY <1>1, <1>5 DEF IInv, Accounted, Hosts, Hosted, buffers
<1> QED
  BY <1>2, <1>3, <1>4, <1>6 DEF IInv

(* Which buffer is next. *)
LEMMA Reaching ==
  ASSUME taken \in {{}, {1}, {1, 2}}
  PROVE  At = IF taken = {} THEN 1 ELSE IF taken = {1} THEN 2 ELSE 3
<1>1. Cardinality({}) = 0 /\ Cardinality({1}) = 1 /\ Cardinality({1, 2}) = 2
  <2>1. Cardinality({1, 2}) = Cardinality({1}) + 1
    <3>1. {1, 2} = {1} \cup {2} /\ 2 \notin {1}
      OBVIOUS
    <3>2. IsFiniteSet({1})
      BY FS_Singleton
    <3>3. Cardinality({1} \cup {2}) = Cardinality({1}) + 1
      BY <3>1, <3>2, FS_AddElement, Zenon
    <3> QED
      BY <3>1, <3>3
  <2> QED
    BY <2>1, FS_EmptySet, FS_Singleton
<1> QED
  BY <1>1 DEF At

(* What is at each place. *)
LEMMA Lying ==
  /\ NoSlot \in Places /\ NumSlots \in Places /\ Slots \subseteq Places /\ NoSlot # NumSlots
  /\ NoSlot \notin Slots /\ NumSlots \notin Slots
  /\ \A p \in Places : p = NoSlot \/ p = NumSlots \/ p \in Slots
  /\ ObjectsAt[NoSlot] = Objects(upload) \cup Objects(download)
  /\ ObjectsAt[NumSlots] = Objects(next[1]) \cup Objects(next[2])
  /\ \A s \in Slots : ObjectsAt[s] = Objects(imported[s][1]) \cup Objects(imported[s][2])
BY EngineAssumption DEF Places, NoSlot, Slots, ObjectsAt, PairAt, PairObjects

(* The objects of a buffer are known by its handles. *)
LEMMA Having ==
  /\ Objects(NoBuffer) = {}
  /\ \A h \in Handles \ {None}, n \in Nat : Objects(Whole(h, n)) = {<<"buffer", h>>, <<"memory", h>>}
  /\ \A b \in Buffers : b.memory \in {None, b.buffer} => Objects(b) \subseteq {<<"buffer", b.buffer>>, <<"memory", b.buffer>>}
BY Buffering DEF Objects

(* The pair being imported may change, or go, for what no other place has. *)
LEMMA Renewing ==
  ASSUME Accounted, NEW N, UNCHANGED <<imported, upload, download>>, pc' # "down",
         Objects(next'[1]) \cup Objects(next'[2]) = N,
         alive' = (alive \ ObjectsAt[NumSlots]) \cup N,
         \A p \in Places \ {NumSlots} : ObjectsAt[p] \cap N = {}
  PROVE  Accounted'
<1>1. \A p \in Places : ObjectsAt'[p] = IF p = NumSlots THEN N ELSE ObjectsAt[p]
  BY Lying DEF ObjectsAt, PairAt, PairObjects
<1>2. Partition(Places, ObjectsAt', alive')
  BY <1>1, Exchanging, Lying DEF Accounted
<1> QED
  BY <1>2 DEF Accounted, Places

(* What a place other than the pair being imported has are not of its offer. *)
LEMMA Distinct ==
  ASSUME IInv, pc \in Importing, NEW j \in {1, 2}, NEW p \in Places \ {NumSlots}, NEW x \in ObjectsAt[p]
  PROVE  x \notin Objects(Whole(Descriptor(offer, j), offer.size[j]))
<1> DEFINE h == Descriptor(offer, j)
<1>1. offer \in Offers /\ h \in Handles /\ h # None /\ h = <<offer.generation, j, offers>> /\ offer.size[j] \in Nat
  BY Buffering, Sizing, Handling DEF IInv, Imports, TypeOK, Descriptor, Offers, None
<1>2. Objects(Whole(h, offer.size[j])) = {<<"buffer", h>>, <<"memory", h>>}
  BY <1>1, Having
<1>3. CASE p = NoSlot
  <2>1. /\ upload \in Buffers /\ download \in Buffers
        /\ upload.memory \in {None, upload.buffer} /\ download.memory \in {None, download.buffer}
        /\ upload.buffer \in {None} \cup ({1} \X Nat) /\ download.buffer \in {None} \cup ({2} \X Nat)
    BY DEF IInv, TypeOK, Hosts, Hosted
  <2>2. x[2] \in {upload.buffer, download.buffer}
    BY <1>3, <2>1, Lying, Having
  <2>3. x[2] # h
    BY <1>1, <2>1, <2>2, Handling DEF Own
  <2> QED
    BY <1>2, <2>3
<1>4. CASE p \in Slots
  <2>1. imported[p] # NoPair
    BY <1>4, Lying, Having, Buffering
  <2>2. PICK o \in 1 .. offers : OfOffer(imported[p], held[p].generation, o) /\ o # offers
    BY <1>4, <2>1 DEF IInv, Fills, Filled
  <2>3. /\ imported[p][1].buffer = <<held[p].generation, 1, o>> /\ imported[p][2].buffer = <<held[p].generation, 2, o>>
        /\ imported[p][1].memory = imported[p][1].buffer /\ imported[p][2].memory = imported[p][2].buffer
        /\ imported[p][1] \in Buffers /\ imported[p][2] \in Buffers
    <3> DEFINE g == held[p].generation
               a == Whole(<<g, 1, o>>, imported[p][1].size)
               b == Whole(<<g, 2, o>>, imported[p][2].size)
    <3>1. imported[p] = <<a, b>>
      BY <2>2 DEF OfOffer
    <3>2. /\ a.buffer = <<g, 1, o>> /\ a.memory = <<g, 1, o>>
          /\ b.buffer = <<g, 2, o>> /\ b.memory = <<g, 2, o>>
      BY DEF Whole
    <3>3. imported[p][1] \in Buffers /\ imported[p][2] \in Buffers
      BY <1>4 DEF IInv, TypeOK
    <3> HIDE DEF a, b, g
    <3>4. imported[p][1] = a /\ imported[p][2] = b
      BY <3>1
    <3> QED
      BY <3>2, <3>3, <3>4 DEF g
  <2>4. x[2] \in {<<held[p].generation, 1, o>>, <<held[p].generation, 2, o>>}
    <3>1. x \in Objects(imported[p][1]) \cup Objects(imported[p][2])
      BY <1>4, Lying
    <3>2. PICK b \in {imported[p][1], imported[p][2]} : x \in Objects(b)
      BY <3>1
    <3>3. b \in Buffers /\ b.memory \in {None, b.buffer}
      BY <2>3, <3>2
    <3>4. x \in {<<"buffer", b.buffer>>, <<"memory", b.buffer>>}
      BY <3>2, <3>3, Having
    <3>5. x[2] = b.buffer
      BY <3>4
    <3>6. b.buffer = imported[p][1].buffer \/ b.buffer = imported[p][2].buffer
      BY <3>2
    <3> QED
      BY <2>3, <3>5, <3>6
  <2>5. x[2] # h
    BY <1>1, <2>2, <2>4
  <2> QED
    BY <1>2, <2>5
<1> QED
  BY <1>3, <1>4, Lying

LEMMA ImportKeeps == ASSUME IInv, Import PROVE IInv'
<1> DEFINE whole == Whole(Descriptor(offer, At), offer.size[At])
<1>1. /\ pc = "import" /\ pc' = (IF At = 2 THEN "wait" ELSE pc)
      /\ next' = [next EXCEPT ![At] = whole]
      /\ taken' = taken \cup {At} /\ fds' = fds \ {At}
      /\ UNCHANGED <<device, network, imported, upload, download, offer, slot, offers,
                     slots, tier, state, request, gpu>>
  BY DEF Import
<1>2. /\ taken \in {{}, {1}} /\ At = (IF taken = {} THEN 1 ELSE 2) /\ gpu = Quiet
      /\ next \in Buffers \X Buffers /\ offer \in Offers /\ offers \in Nat /\ fds = {1, 2} \ taken
  BY <1>1, Reaching DEF IInv, Imports, Importing, TypeOK, Opens
<1>3. whole \in Buffers /\ whole = Whole(Descriptor(offer, At), offer.size[At])
  BY <1>2, Buffering, Sizing DEF Offers
<1> HIDE DEF whole
<1>4. /\ next' \in Buffers \X Buffers /\ next'[At] = whole
      /\ \A i \in 1 .. 2 : i # At => next'[i] = next[i]
  BY <1>1, <1>2, <1>3
<1>5. TypeOK'
  BY <1>1, <1>2, <1>4 DEF IInv, TypeOK, PCs, network, request, device, slots
<1>6. Opens' /\ Complete' /\ Asked' /\ Runs'
  BY <1>1, <1>2 DEF IInv, Opens, Complete, Asked, Runs, Requested, network, device
<1>7. Fills' /\ Hosts'
  BY <1>1 DEF IInv, Fills, Filled, Importing, slots, Hosts, Hosted
<1>8. Imports'
  <2>1. /\ \A i \in 1 .. 2 : next'[i] = IF i \in taken' THEN Whole(Descriptor(offer, i), offer.size[i]) ELSE NoBuffer
        /\ \A i : Descriptor(offer, i)' = Descriptor(offer, i)
    BY <1>1, <1>2, <1>3, <1>4 DEF IInv, Imports, Importing, Descriptor
  <2> QED
    BY <1>1, <1>2, <2>1 DEF IInv, Imports, Importing
<1>9. Accounted'
  <2> DEFINE N == Objects(next'[1]) \cup Objects(next'[2])
  <2>1. alive' = alive \cup Objects(whole)
    BY <1>4 DEF Import
  <2>2. ObjectsAt[NumSlots] \subseteq N /\ N = ObjectsAt[NumSlots] \cup Objects(whole)
    <3>1. next[At] = NoBuffer
      BY <1>1, <1>2 DEF IInv, Imports
    <3> QED
      BY <1>2, <1>4, <3>1, Lying, Having
  <2>3. ObjectsAt[NumSlots] \subseteq alive
    BY Lying DEF IInv, Accounted, Partition
  <2>4. \A p \in Places \ {NumSlots} : ObjectsAt[p] \cap N = {}
    <3>1. \A p \in Places \ {NumSlots} : ObjectsAt[p] \cap Objects(whole) = {}
      BY <1>1, <1>2, <1>3, Distinct DEF Importing
    <3>2. \A p \in Places \ {NumSlots} : ObjectsAt[p] \cap ObjectsAt[NumSlots] = {}
      BY Lying DEF IInv, Accounted, Partition
    <3> QED
      BY <2>2, <3>1, <3>2
  <2>5. alive' = (alive \ ObjectsAt[NumSlots]) \cup N
    BY <2>1, <2>2, <2>3
  <2> QED
    BY <1>1, <2>4, <2>5, Renewing DEF IInv
<1> QED
  BY <1>5, <1>6, <1>7, <1>8, <1>9 DEF IInv

(* An import that is refused leaves nothing of itself. *)
LEMMA Refusing ==
  ASSUME IInv, pc \in Importing, Refuse, taken' \in {{}, {1}, {1, 2}}, fds' = {1, 2} \ taken'
  PROVE  IInv'
<1>1. /\ pc' = "close" /\ alive' = alive \ PairObjects(next) /\ next' = NoPair
      /\ UNCHANGED <<device, network, imported, upload, download, offer, slot, offers,
                     slots, tier, state, request, gpu>>
  BY DEF Refuse
<1>2. gpu = Quiet /\ next' \in Buffers \X Buffers /\ next'[1] = NoBuffer /\ next'[2] = NoBuffer
  BY <1>1, Buffering DEF IInv, Importing, Opens
<1>3. TypeOK'
  BY <1>1, <1>2 DEF IInv, TypeOK, PCs, network, request, device, slots
<1>4. Opens' /\ Complete' /\ Asked' /\ Runs' /\ Imports'
  BY <1>1, <1>2 DEF IInv, Opens, Complete, Asked, Runs, Requested, network, device, Imports, Importing
<1>5. Fills' /\ Hosts'
  BY <1>1 DEF IInv, Fills, Filled, Importing, slots, Hosts, Hosted
<1>6. Accounted'
  <2>1. alive' = (alive \ ObjectsAt[NumSlots]) \cup {}
    BY <1>1, Lying DEF PairObjects
  <2> QED
    BY <1>1, <1>2, <2>1, Renewing, Having DEF IInv
<1> QED
  BY <1>3, <1>4, <1>5, <1>6 DEF IInv

LEMMA ImportFailsKeeps == ASSUME IInv, ImportFails PROVE IInv'
<1>1. /\ pc = "import" /\ Refuse
      /\ UNCHANGED <<fds, taken>> \/ (taken' = taken \cup {At} /\ fds' = fds \ {At})
  BY DEF ImportFails
<1>2. taken \in {{}, {1}} /\ At = (IF taken = {} THEN 1 ELSE 2) /\ fds = {1, 2} \ taken
  BY <1>1, Reaching DEF IInv, Imports, TypeOK
<1>3. taken' \in {{}, {1}, {1, 2}} /\ fds' = {1, 2} \ taken'
  BY <1>1, <1>2
<1> QED
  BY <1>1, <1>3, Refusing DEF Importing

(* The pair takes a slot, and what was there goes. *)
LEMMA ReplaceKeeps == ASSUME IInv, Replace PROVE IInv'
<1>1. CASE Refuse /\ UNCHANGED <<fds, taken>>
  <2>1. pc = "wait" /\ taken \in {{}, {1}, {1, 2}} /\ fds = {1, 2} \ taken
    BY DEF Replace, IInv, Imports, TypeOK
  <2> QED
    BY <1>1, <2>1, Refusing DEF Importing
<1>2. CASE ~(Refuse /\ UNCHANGED <<fds, taken>>)
  <2> DEFINE least == IF offer.size[1] < offer.size[2] THEN offer.size[1] ELSE offer.size[2]
  <2>1. /\ pc = "wait" /\ pc' = "close" /\ gpu = Quiet
        /\ alive' = alive \ PairObjects(imported[slot])
        /\ imported' = [imported EXCEPT ![slot] = next] /\ next' = NoPair
        /\ held' = [held EXCEPT ![slot] = [generation |-> offer.generation, bytes |-> least]]
        /\ UNCHANGED <<fds, taken, device, network, upload, download, offer, slot, offers,
                       nextSlot, tier, state, request, gpu>>
    BY <1>2 DEF Replace
  <2>2. /\ slot \in Slots /\ offer \in Offers /\ offers \in Nat /\ offers > 0
        /\ next \in Buffers \X Buffers
        /\ next[1] = Whole(Descriptor(offer, 1), offer.size[1])
        /\ next[2] = Whole(Descriptor(offer, 2), offer.size[2])
        /\ fds = {1, 2} \ taken
        /\ imported \in [Slots -> Buffers \X Buffers]
        /\ held \in [Slots -> [generation : Generations \cup {0}, bytes : Nat]]
    BY <2>1 DEF IInv, TypeOK, Imports, Importing
  <2>3. /\ least \in Nat /\ least <= offer.size[1] /\ least <= offer.size[2] /\ offer.generation \in Generations
        /\ offer.size[1] \in Nat /\ offer.size[2] \in Nat
    <3>1. offer.generation \in Generations /\ offer.size[1] \in Sizes /\ offer.size[2] \in Sizes
      BY <2>2 DEF Offers
    <3>2. offer.size[1] \in Nat /\ offer.size[2] \in Nat
      BY <3>1, Sizing
    <3> QED
      BY <3>1, <3>2
  <2>4. next' \in Buffers \X Buffers /\ next'[1] = NoBuffer /\ next'[2] = NoBuffer
    BY <2>1, Buffering
  <2> HIDE DEF least
  <2>5. TypeOK'
    BY <2>1, <2>2, <2>3, <2>4 DEF IInv, TypeOK, PCs, network, request, device
  <2>6. Opens' /\ Complete' /\ Asked' /\ Runs' /\ Imports' /\ Hosts'
    BY <2>1, <2>2, <2>4 DEF IInv, Opens, Complete, Asked, Runs, Requested, network, device, Imports, Importing,
                            Hosts, Hosted
  <2>7. Fills'
    <3> SUFFICES ASSUME NEW s \in Slots PROVE Filled(s)'
      BY DEF Fills
    <3>1. CASE s # slot
      <4>1. imported'[s] = imported[s] /\ held'[s] = held[s] /\ Filled(s)
        BY <2>1, <2>2, <3>1 DEF IInv, Fills
      <4> QED
        BY <2>1, <4>1 DEF Filled, Importing
    <3>2. CASE s = slot
      <4>1. imported'[s] = next /\ held'[s].generation = offer.generation /\ held'[s].bytes = least
        BY <2>1, <2>2, <3>2
      <4>2. next[1].size = offer.size[1] /\ next[2].size = offer.size[2]
        BY <2>2 DEF Whole
      <4>3. next = <<Whole(<<offer.generation, 1, offers>>, next[1].size), Whole(<<offer.generation, 2, offers>>, next[2].size)>>
        BY <2>2, <4>2 DEF Descriptor
      <4>4. OfOffer(imported'[s], held'[s].generation, offers)
        BY <4>1, <4>3 DEF OfOffer
      <4>5. \A i \in 1 .. 2 : held'[s].bytes <= imported'[s][i].size
        BY <4>1, <4>2, <2>3
      <4>6. offers \in 1 .. offers' /\ pc' \notin Importing
        BY <2>1, <2>2 DEF Importing
      <4> QED
        BY <4>4, <4>5, <4>6 DEF Filled
    <3> QED
      BY <3>1, <3>2
  <2>8. Accounted'
    <3>1. \A p \in Places : ObjectsAt'[p] = IF p = NumSlots THEN {}
                                            ELSE IF p = slot THEN ObjectsAt[NumSlots] ELSE ObjectsAt[p]
      <4> SUFFICES ASSUME NEW p \in Places
                   PROVE  ObjectsAt'[p] = IF p = NumSlots THEN {}
                                          ELSE IF p = slot THEN ObjectsAt[NumSlots] ELSE ObjectsAt[p]
        OBVIOUS
      <4>1. ObjectsAt'[p] = PairObjects(PairAt(p)') /\ ObjectsAt[p] = PairObjects(PairAt(p))
        BY DEF ObjectsAt, PairObjects, Places
      <4>2. CASE p = NumSlots
        BY <2>1, <2>4, <4>1, <4>2, Lying, Having DEF PairAt, PairObjects
      <4>3. CASE p = slot
        BY <2>1, <2>2, <4>1, <4>3, Lying DEF PairAt, PairObjects
      <4>4. CASE p \notin {NumSlots, slot}
        BY <2>1, <2>2, <4>1, <4>4, Lying DEF PairAt, PairObjects
      <4> QED
        BY <4>2, <4>3, <4>4
    <3>2. alive' = alive \ ObjectsAt[slot]
      BY <2>1, <2>2, Lying DEF PairObjects
    <3>3. Partition(Places, ObjectsAt', alive')
      BY <2>2, <3>1, <3>2, Moving, Lying DEF IInv, Accounted
    <3> QED
      BY <2>1, <3>3 DEF Accounted, Places
  <2> QED
    BY <2>5, <2>6, <2>7, <2>8 DEF IInv
<1> QED
  BY <1>1, <1>2

-----------------------------------------------------------------------------
(* The host's buffers, and the end. *)

(* What host_buffer() leaves, of the i-th buffer. *)
LEMMA Growing ==
  ASSUME NEW i \in {1, 2}, NEW b \in Buffers, b = NoBuffer \/ b = Whole(Own(i, b.size), b.size), NEW n \in Nat \ {0}
  PROVE  /\ LET c == HostGrown(i, b, n)
            IN c \in Buffers /\ c = Whole(Own(i, c.size), c.size) /\ c.size >= n
         /\ \A c \in HostFailures(i, b, n) :
              c \in Buffers /\ c.buffer \in {None} \cup ({i} \X Nat) /\ c.memory \in {None, c.buffer}
<1>1. /\ Own(i, n) \in Handles /\ Own(i, n) \in {i} \X Nat /\ Whole(Own(i, n), n) \in Buffers
      /\ Whole(Own(i, n), n).size = n /\ Whole(Own(i, n), 0) \in Buffers
      /\ Whole(Own(i, n), 0).buffer = Own(i, n) /\ Whole(Own(i, n), 0).memory = Own(i, n)
  BY Buffering DEF Own
<1>2. CASE b.size >= n
  BY <1>2, Buffering DEF HostGrown, HostFailures
<1>3. CASE ~(b.size >= n)
  <2>1. HostGrown(i, b, n) = Whole(Own(i, n), n)
    BY <1>3 DEF HostGrown
  <2>2. LET c == [NoBuffer EXCEPT !.buffer = Own(i, n)] IN c \in Buffers /\ c.buffer = Own(i, n) /\ c.memory = None
    BY <1>1, Buffering DEF Buffers
  <2>3. HostFailures(i, b, n) = {NoBuffer, [NoBuffer EXCEPT !.buffer = Own(i, n)], Whole(Own(i, n), 0)}
    BY <1>3 DEF HostFailures
  <2>4. \A c \in HostFailures(i, b, n) :
          c \in Buffers /\ c.buffer \in {None} \cup ({i} \X Nat) /\ c.memory \in {None, c.buffer}
    BY <1>1, <2>2, <2>3, Buffering
  <2> QED
    BY <1>1, <2>1, <2>4
<1> QED
  BY <1>2, <1>3

(* A buffer that is whole is of its maker's. *)
LEMMA Making ==
  ASSUME NEW i \in {1, 2}, NEW b \in Buffers, b = NoBuffer \/ b = Whole(Own(i, b.size), b.size)
  PROVE  b.buffer \in {None} \cup ({i} \X Nat) /\ b.memory \in {None, b.buffer}
<1>1. b.size \in Nat
  BY DEF Buffers
<1>2. Own(i, b.size) \in Handles /\ Own(i, b.size) \in {i} \X Nat
  BY <1>1, Buffering DEF Own
<1>3. CASE b = NoBuffer
  BY <1>3, Buffering
<1>4. CASE b = Whole(Own(i, b.size), b.size)
  <2>1. Whole(Own(i, b.size), b.size).buffer = Own(i, b.size) /\ Whole(Own(i, b.size), b.size).memory = Own(i, b.size)
    BY <1>1, <1>2, Buffering
  <2> QED
    BY <1>2, <1>4, <2>1
<1> QED
  BY <1>3, <1>4

(* The objects of a slot's pair are of an offer, never the host's. *)
LEMMA Foreign ==
  ASSUME IInv, NEW p \in Places \ {NoSlot}, NEW x \in ObjectsAt[p],
         NEW i \in {1, 2}, NEW b \in Buffers,
         b.buffer \in {None} \cup ({i} \X Nat), b.memory \in {None, b.buffer}
  PROVE  x \notin Objects(b)
<1>1. \E g, j, o : x[2] = <<g, j, o>>
  <2>1. CASE p = NumSlots
    <3>1. \A j \in 1 .. 2 : next[j] = IF pc \in Importing /\ j \in taken
                                        THEN Whole(Descriptor(offer, j), offer.size[j]) ELSE NoBuffer
      BY DEF IInv, Imports
    <3>2. PICK j \in 1 .. 2 : x \in Objects(next[j])
      BY <2>1, Lying
    <3>3. pc \in Importing /\ next[j] = Whole(Descriptor(offer, j), offer.size[j])
      BY <3>1, <3>2, Having
    <3>4. Objects(Whole(Descriptor(offer, j), offer.size[j]))
            \subseteq {<<"buffer", Descriptor(offer, j)>>, <<"memory", Descriptor(offer, j)>>}
      BY DEF Objects, Whole
    <3>5. x[2] = Descriptor(offer, j)
      BY <3>2, <3>3, <3>4
    <3> QED
      BY <3>5 DEF Descriptor
  <2>2. CASE p \in Slots
    <3>1. imported[p] # NoPair
      BY <2>2, Lying, Having, Buffering
    <3>2. PICK o \in 1 .. offers : OfOffer(imported[p], held[p].generation, o)
      BY <2>2, <3>1 DEF IInv, Fills, Filled
    <3> DEFINE g == held[p].generation
               a == Whole(<<g, 1, o>>, imported[p][1].size)
               c == Whole(<<g, 2, o>>, imported[p][2].size)
    <3>3. imported[p] = <<a, c>>
      BY <3>2 DEF OfOffer
    <3>4. /\ Objects(a) \subseteq {<<"buffer", <<g, 1, o>>>>, <<"memory", <<g, 1, o>>>>}
          /\ Objects(c) \subseteq {<<"buffer", <<g, 2, o>>>>, <<"memory", <<g, 2, o>>>>}
      BY DEF Objects, Whole
    <3> HIDE DEF a, c, g
    <3>5. x \in Objects(a) \cup Objects(c)
      BY <2>2, <3>3, Lying
    <3>6. x[2] = <<g, 1, o>> \/ x[2] = <<g, 2, o>>
      BY <3>4, <3>5
    <3> QED
      BY <3>6
  <2> QED
    BY <2>1, <2>2, Lying
<1>2. Objects(b) \subseteq {<<"buffer", b.buffer>>, <<"memory", b.buffer>>}
  BY Having
<1>3. x[2] # b.buffer \/ x \notin Objects(b)
  <2>1. CASE b.buffer = None
    BY <2>1 DEF Objects
  <2>2. CASE b.buffer \in {i} \X Nat
    BY <1>1, <2>2
  <2> QED
    BY <2>1, <2>2
<1> QED
  BY <1>2, <1>3

LEMMA HostBuffersKeeps == ASSUME IInv, HostBuffers PROVE IInv'
<1> DEFINE n == Bytes(frame)
<1>1. /\ pc = "stage" /\ io = NoSlot /\ pc' \in {"record", "ending"}
      /\ alive' = (alive \ PairObjects(<<upload, download>>)) \cup PairObjects(<<upload', download'>>)
      /\ UNCHANGED <<device, network, imported, importing, slots, tier, state, request, gpu>>
  BY DEF HostBuffers, End
<1>2. /\ upload \in Buffers /\ download \in Buffers /\ gpu = Quiet
      /\ upload = NoBuffer \/ upload = Whole(Own(1, upload.size), upload.size)
      /\ download = NoBuffer \/ download = Whole(Own(2, download.size), download.size)
      /\ n \in Nat \ {0}
  BY <1>1, Sizing DEF IInv, TypeOK, Hosts, Hosted, Asked, Requested, Opens
<1> HIDE DEF n
<1>3. /\ HostBuffers => \/ upload' = HostGrown(1, upload, n) /\ download' = HostGrown(2, download, n)
                        \/ upload' \in HostFailures(1, upload, n) /\ download' = download /\ pc' = "ending"
                        \/ /\ upload' = HostGrown(1, upload, n)
                           /\ download' \in HostFailures(2, download, n) /\ pc' = "ending"
  BY DEF HostBuffers, End, n
<1>4. /\ upload' \in Buffers /\ download' \in Buffers
      /\ upload'.buffer \in {None} \cup ({1} \X Nat) /\ upload'.memory \in {None, upload'.buffer}
      /\ download'.buffer \in {None} \cup ({2} \X Nat) /\ download'.memory \in {None, download'.buffer}
      /\ \/ pc' = "ending"
         \/ /\ upload' = Whole(Own(1, upload'.size), upload'.size) /\ upload'.size >= n
            /\ download' = Whole(Own(2, download'.size), download'.size) /\ download'.size >= n
  <2>1. CASE upload' = HostGrown(1, upload, n) /\ download' = HostGrown(2, download, n)
    BY <1>2, <2>1, Growing, Making
  <2>2. CASE upload' \in HostFailures(1, upload, n) /\ download' = download /\ pc' = "ending"
    BY <1>2, <2>2, Growing, Making
  <2>3. CASE upload' = HostGrown(1, upload, n) /\ download' \in HostFailures(2, download, n) /\ pc' = "ending"
    BY <1>2, <2>3, Growing, Making
  <2> QED
    BY <1>3, <2>1, <2>2, <2>3
<1>5. TypeOK'
  BY <1>1, <1>4 DEF IInv, TypeOK, PCs, network, request, device, slots, importing
<1>6. Opens' /\ Complete' /\ Asked' /\ Runs'
  BY <1>1, <1>2 DEF IInv, Opens, Complete, Asked, Runs, Requested, network, device, request, slots
<1>7. Fills' /\ Imports'
  BY <1>1 DEF IInv, Fills, Filled, Imports, Importing, slots, importing
<1>8. Hosts'
  BY <1>1, <1>4 DEF Hosts, Hosted, request, n
<1>9. Accounted'
  <2> DEFINE N == PairObjects(<<upload', download'>>)
  <2>1. N = Objects(upload') \cup Objects(download')
    BY DEF PairObjects
  <2>2. \A p \in Places : ObjectsAt'[p] = IF p = NoSlot THEN N ELSE ObjectsAt[p]
    BY <1>1, Lying DEF ObjectsAt, PairAt, importing, Places
  <2>3. \A p \in Places : p # NoSlot => ObjectsAt[p] \cap N = {}
    BY <1>4, <2>1, Foreign
  <2>4. alive' = (alive \ ObjectsAt[NoSlot]) \cup N
    BY <1>1, Lying DEF PairObjects
  <2> HIDE DEF N
  <2>5. Partition(Places, ObjectsAt', alive')
    BY <2>2, <2>3, <2>4, Exchanging, Lying DEF IInv, Accounted
  <2> QED
    BY <1>1, <2>5 DEF Accounted, Places
<1> QED
  BY <1>5, <1>6, <1>7, <1>8, <1>9 DEF IInv

(* The end destroys all there is. *)
LEMMA DestroyKeeps == ASSUME IInv, Destroy PROVE IInv'
<1>1. /\ pc = "ending" /\ pc' = "down" /\ made' = 0 /\ (Opened => gpu = Quiet)
      /\ recorder' = NewRecorder
      /\ imported' = [s \in Slots |-> NoPair] /\ upload' = NoBuffer /\ download' = NoBuffer
      /\ alive' = alive \ ((UNION {PairObjects(imported[s]) : s \in Slots}) \cup PairObjects(<<upload, download>>))
      /\ UNCHANGED <<physical, builds, importing, slots, tier, state, request, gpu>>
  BY DEF Destroy
<1>2. gpu = Quiet
  BY <1>1 DEF IInv, Opens, Opened, Stages
<1>3. \A i \in 1 .. 2 : next[i] = NoBuffer
  BY <1>1 DEF IInv, Imports, Importing
<1>4. /\ imported' \in [Slots -> Buffers \X Buffers] /\ \A s \in Slots : imported'[s] = NoPair
      /\ upload' \in Buffers /\ download' \in Buffers
  BY <1>1, Buffering
<1>5. TypeOK'
  BY <1>1, <1>4, Starting DEF IInv, TypeOK, PCs, request, slots, importing, Stages
<1>6. Opens' /\ Complete' /\ Asked' /\ Runs'
  BY <1>1, <1>2, Starting DEF IInv, Opens, Complete, Asked, Runs, Requested
<1>7. Fills' /\ Imports' /\ Hosts'
  BY <1>1, <1>3, <1>4, Buffering DEF Fills, Filled, Imports, Importing, importing, Hosts, Hosted
<1>8. \A p \in Places : ObjectsAt'[p] = {}
  <2>1. PairObjects(NoPair) = {} /\ PairObjects(<<NoBuffer, NoBuffer>>) = {} /\ PairObjects(next) = {}
    BY <1>3, Buffering, Having DEF PairObjects
  <2> QED
    BY <1>1, <1>4, <2>1, Lying DEF ObjectsAt, PairAt, importing, Places
<1>9. alive' = {}
  <2>1. ASSUME NEW x \in alive'
        PROVE  FALSE
    <3>1. PICK p \in Places : x \in ObjectsAt[p]
      BY <1>1, <2>1 DEF IInv, Accounted, Partition
    <3>2. p # NoSlot /\ p \notin Slots
      BY <1>1, <2>1, <3>1, Lying DEF PairObjects
    <3> QED
      BY <1>3, <3>1, <3>2, Lying, Having
  <2> QED
    BY <2>1
<1>10. Accounted'
  BY <1>8, <1>9 DEF Accounted, Partition, Places
<1> QED
  BY <1>5, <1>6, <1>7, <1>10 DEF IInv

LEMMA InitKeeps == ASSUME Init PROVE IInv
<1> USE DEF Init
<1>1. \A s \in Slots : imported[s] = NoPair /\ held[s] = NotHeld
  OBVIOUS
<1>2. TypeOK
  BY <1>1, Buffering, Starting, EngineAssumption DEF TypeOK, PCs, NotHeld, Slots, Stages
<1>3. Opens /\ Complete /\ Asked /\ Runs
  BY Starting DEF Opens, Complete, Asked, Runs, Requested
<1>4. Fills /\ Imports /\ Hosts
  BY <1>1, Buffering DEF Fills, Filled, Imports, Importing, Hosts, Hosted, NotHeld
<1>5. \A p \in Places : ObjectsAt[p] = {}
  <2>1. PairObjects(NoPair) = {} /\ PairObjects(<<NoBuffer, NoBuffer>>) = {}
    BY Buffering, Having DEF PairObjects
  <2> QED
    BY <1>1, <2>1, Lying DEF ObjectsAt, PairAt
<1>6. Accounted
  BY <1>5 DEF Accounted, Partition
<1> QED
  BY <1>2, <1>3, <1>4, <1>6 DEF IInv

LEMMA StutterKeeps == ASSUME IInv, UNCHANGED vars PROVE IInv'
<1> USE DEF vars, device, network, buffers, importing, slots, request
<1>1. TypeOK' /\ Opens' /\ Complete' /\ Asked' /\ Runs'
  BY DEF IInv, TypeOK, Opens, Complete, Asked, Runs
<1>2. Fills' /\ Imports' /\ Hosts'
  BY DEF IInv, Fills, Filled, Imports, Hosts, Hosted, Descriptor
<1>3. ObjectsAt' = ObjectsAt
  BY DEF ObjectsAt, PairAt
<1>4. Accounted'
  BY <1>3 DEF IInv, Accounted
<1> QED
  BY <1>1, <1>2, <1>4 DEF IInv

-----------------------------------------------------------------------------
(* The theorems. *)

(* The engine's invariant holds of every state it can be in, however many
   slots, offers and requests, and whatever fails: each step of
   the calls that the serving loop makes of it keeps it. *)
THEOREM Invariance == Spec => []IInv
<1>1. Init => IInv
  BY InitKeeps
<1>2. IInv /\ [Next]_vars => IInv'
  <2> SUFFICES ASSUME IInv, [Next]_vars PROVE IInv'
    OBVIOUS
  <2>1. CASE Choose \/ Create \/ CreateFails \/ Prepare
    BY <2>1, ChooseKeeps, CreateKeeps, CreateFailsKeeps, PrepareKeeps
  <2>2. CASE \E t \in DOMAIN TierExtent : Retier(t)
    BY <2>2, RetierKeeps
  <2>3. CASE \E g \in Generations, sizes \in Sizes \X Sizes, ours \in BOOLEAN : Offer(g, sizes, ours)
    BY <2>3, OfferKeeps
  <2>4. CASE Import \/ ImportFails \/ Replace \/ Close
    BY <2>4, ImportKeeps, ImportFailsKeeps, ReplaceKeeps, CloseKeeps
  <2>5. CASE \E f \in Frames, g \in Generations \cup {0} : Request(f, g)
    BY <2>5, RequestKeeps
  <2>6. CASE Reshape \/ Stage \/ HostBuffers \/ Imported
    BY <2>6, ReshapeKeeps, StageKeeps, HostBuffersKeeps, ImportedKeeps
  <2>7. CASE Submit \/ SubmitFails \/ Answer \/ WaitFails \/ Finish
    BY <2>7, SubmitKeeps, SubmitFailsKeeps, AnswerKeeps, WaitFailsKeeps, FinishKeeps
  <2>8. CASE Stop \/ Destroy
    BY <2>8, StopKeeps, DestroyKeeps
  <2>9. CASE Ended \/ UNCHANGED vars
    BY <2>9, StutterKeeps DEF Ended
  <2> QED
    BY <2>1, <2>2, <2>3, <2>4, <2>5, <2>6, <2>7, <2>8, <2>9 DEF Next
<1> QED
  BY <1>1, <1>2, PTL DEF Spec

(* The engine's state is of its type: TierExtent's tiers, the offers' sizes,
   the requests' frames and the devices there are. *)
THEOREM TypeCorrect == Spec => []TypeOK
<1>1. IInv => TypeOK
  BY DEF IInv
<1> QED
  BY <1>1, Invariance, PTL

(* Two buffers of one pair, at any place, share nothing. *)
LEMMA Apiece == ASSUME IInv, NEW p \in Places PROVE Objects(PairAt(p)[1]) \cap Objects(PairAt(p)[2]) = {}
<1>1. \A i \in {1, 2}, b \in Buffers :
        b.buffer \in {None} \cup ({i} \X Nat) /\ b.memory \in {None, b.buffer} =>
          \A x \in Objects(b) : x[2][1] = i
  <2> SUFFICES ASSUME NEW i \in {1, 2}, NEW b \in Buffers, b.buffer \in {None} \cup ({i} \X Nat),
                      b.memory \in {None, b.buffer}, NEW x \in Objects(b)
               PROVE  x[2][1] = i
    OBVIOUS
  <2>1. x[2] = b.buffer /\ b.buffer # None
    BY DEF Objects
  <2> QED
    BY <2>1
<1>2. CASE p = NoSlot
  <2>1. /\ upload \in Buffers /\ download \in Buffers
        /\ upload.memory \in {None, upload.buffer} /\ download.memory \in {None, download.buffer}
        /\ upload.buffer \in {None} \cup ({1} \X Nat) /\ download.buffer \in {None} \cup ({2} \X Nat)
    BY DEF IInv, TypeOK, Hosts, Hosted
  <2>2. (\A x \in Objects(upload) : x[2][1] = 1) /\ (\A x \in Objects(download) : x[2][1] = 2)
    BY <1>1, <2>1
  <2>3. PairAt(p)[1] = upload /\ PairAt(p)[2] = download
    BY <1>2 DEF PairAt
  <2> QED
    BY <2>2, <2>3
<1>3. ASSUME NEW a, NEW b, NEW g, NEW o, NEW m, NEW n, a = Whole(<<g, 1, o>>, m), b = Whole(<<g, 2, o>>, n)
      PROVE  Objects(a) \cap Objects(b) = {}
  <2>1. /\ Objects(a) \subseteq {<<"buffer", <<g, 1, o>>>>, <<"memory", <<g, 1, o>>>>}
        /\ Objects(b) \subseteq {<<"buffer", <<g, 2, o>>>>, <<"memory", <<g, 2, o>>>>}
    BY <1>3 DEF Objects, Whole
  <2>2. <<g, 1, o>> # <<g, 2, o>>
    OBVIOUS
  <2> QED
    BY <2>1, <2>2
<1>4. CASE p = NumSlots
  <2>1. PairAt(p)[1] = next[1] /\ PairAt(p)[2] = next[2]
    BY <1>4, Lying DEF PairAt
  <2>2. CASE next[1] = NoBuffer \/ next[2] = NoBuffer
    BY <2>1, <2>2, Having
  <2>3. CASE /\ next[1] = Whole(Descriptor(offer, 1), offer.size[1])
             /\ next[2] = Whole(Descriptor(offer, 2), offer.size[2])
    BY <1>3, <2>1, <2>3 DEF Descriptor
  <2> QED
    BY <2>2, <2>3 DEF IInv, Imports
<1>5. CASE p \in Slots
  <2>1. PairAt(p)[1] = imported[p][1] /\ PairAt(p)[2] = imported[p][2]
    BY <1>5, Lying DEF PairAt
  <2>2. CASE imported[p] = NoPair
    BY <2>1, <2>2, Having, Buffering
  <2>3. CASE imported[p] # NoPair
    <3>1. PICK o \in 1 .. offers : OfOffer(imported[p], held[p].generation, o)
      BY <1>5, <2>3 DEF IInv, Fills, Filled
    <3> DEFINE a == Whole(<<held[p].generation, 1, o>>, imported[p][1].size)
               c == Whole(<<held[p].generation, 2, o>>, imported[p][2].size)
    <3>2. imported[p] = <<a, c>> /\ Objects(a) \cap Objects(c) = {}
      BY <1>3, <3>1 DEF OfOffer
    <3> HIDE DEF a, c
    <3>3. imported[p][1] = a /\ imported[p][2] = c
      BY <3>2
    <3> QED
      BY <2>1, <3>2, <3>3
  <2> QED
    BY <2>2, <2>3
<1> QED
  BY <1>2, <1>4, <1>5, Lying

(* Whatever call fails, every buffer and memory is the engine's to destroy, at
   one place, and none is left once ~Impl is done; and each descriptor of an
   offer is the caller's to close or Vulkan's, never both, never neither. *)
THEOREM OwnsOnce == Spec => []OwnedOnce
<1>1. ASSUME IInv PROVE OwnedOnce
  <2> DEFINE used == {p \in Places : PairAt(p) # NoPair}
  <2>1. \A p \in Places : ObjectsAt[p] = PairObjects(PairAt(p))
    BY DEF ObjectsAt
  <2>2. \A p \in Places : p \notin used => PairObjects(PairAt(p)) = {}
    BY Having, Buffering DEF PairObjects
  <2>3. alive = UNION {PairObjects(PairAt(p)) : p \in used}
    <3>1. \A x \in alive : \E p \in used : x \in PairObjects(PairAt(p))
      BY <1>1, <2>1, <2>2 DEF IInv, Accounted, Partition
    <3>2. \A p \in used : \A x \in PairObjects(PairAt(p)) : x \in alive
      BY <1>1, <2>1 DEF IInv, Accounted, Partition
    <3> QED
      BY <3>1, <3>2
  <2>4. \A p, q \in used : p # q => PairObjects(PairAt(p)) \cap PairObjects(PairAt(q)) = {}
    BY <1>1, <2>1 DEF IInv, Accounted, Partition
  <2>5. \A p \in used : Objects(PairAt(p)[1]) \cap Objects(PairAt(p)[2]) = {}
    BY <1>1, Apiece
  <2>6. pc = "down" => alive = {} /\ recorder = NewRecorder
    BY <1>1 DEF IInv, Accounted, Complete
  <2>7. pc \in {"import", "wait", "close"} => fds = {1, 2} \ taken
    BY <1>1 DEF IInv, Imports
  <2> QED
    BY <2>3, <2>4, <2>5, <2>6, <2>7 DEF OwnedOnce
<1> QED
  BY <1>1, Invariance, PTL

(* A frame the engine submits runs on a network built for it, in the two
   buffers of one offer of the generation its request names, or in the two of
   the host's, large enough. *)
THEOREM FramesFit == Spec => []FrameFits
<1>1. ASSUME IInv PROVE FrameFits
  <2> SUFFICES ASSUME pc = "await", gpu # Quiet
               PROVE  /\ Serves(recorder, frame)
                      /\ \A i \in 1 .. 2 :
                           /\ gpu.pair[i].size >= Bytes(frame)
                           /\ IF named = 0 THEN gpu.pair[i] = Whole(Own(i, gpu.pair[i].size), gpu.pair[i].size)
                              ELSE \E o \in 1 .. offers :
                                     gpu.pair = [j \in 1 .. 2 |-> Whole(<<named, j, o>>, gpu.pair[j].size)]
    BY DEF FrameFits
  <2>1. /\ Serves(recorder, frame) /\ frame \in Frames /\ (named = 0 <=> io = NoSlot)
        /\ gpu.pair = IF io = NoSlot THEN <<upload, download>> ELSE imported[io]
    BY <1>1 DEF IInv, Runs, Asked, Requested
  <2>2. Bytes(frame) \in Nat \ {0}
    BY <2>1, Sizing
  <2>3. CASE io = NoSlot
    <3>1. /\ upload.size >= Bytes(frame) /\ download.size >= Bytes(frame)
          /\ upload = NoBuffer \/ upload = Whole(Own(1, upload.size), upload.size)
          /\ download = NoBuffer \/ download = Whole(Own(2, download.size), download.size)
      BY <1>1, <2>3 DEF IInv, Hosts, Hosted
    <3>2. /\ upload = Whole(Own(1, upload.size), upload.size)
          /\ download = Whole(Own(2, download.size), download.size)
      BY <2>2, <3>1, Buffering
    <3>3. gpu.pair[1] = upload /\ gpu.pair[2] = download
      BY <2>1, <2>3
    <3>4. \A i \in 1 .. 2 : /\ gpu.pair[i].size >= Bytes(frame)
                            /\ gpu.pair[i] = Whole(Own(i, gpu.pair[i].size), gpu.pair[i].size)
      BY <3>1, <3>2, <3>3
    <3> QED
      BY <2>1, <2>3, <3>4
  <2>4. CASE io # NoSlot
    <3>1. /\ io \in Slots /\ held[io].generation = named /\ named # 0 /\ held[io].bytes >= Bytes(frame)
          /\ gpu.pair = imported[io] /\ named \in Nat /\ imported[io] \in Buffers \X Buffers
      BY <1>1, <2>1, <2>4, EngineAssumption DEF IInv, TypeOK, Asked, Requested
    <3>2. PICK o \in 1 .. offers : OfOffer(imported[io], named, o)
      BY <1>1, <3>1 DEF IInv, Fills, Filled
    <3>3. \A i \in 1 .. 2 : held[io].bytes <= gpu.pair[i].size
      BY <1>1, <3>1 DEF IInv, Fills, Filled
    <3>4. gpu.pair[1].size \in Nat /\ gpu.pair[2].size \in Nat /\ held[io].bytes \in Nat
      BY <1>1, <3>1 DEF IInv, TypeOK, Buffers
    <3>5. \A i \in 1 .. 2 : gpu.pair[i].size >= Bytes(frame)
      BY <2>2, <3>1, <3>3, <3>4
    <3> DEFINE a(j) == Whole(<<named, j, o>>, gpu.pair[j].size)
    <3>6. gpu.pair = <<a(1), a(2)>>
      BY <3>1, <3>2 DEF OfOffer
    <3>7. <<a(1), a(2)>> = [j \in 1 .. 2 |-> a(j)]
      <4> HIDE DEF a
      <4> QED
        OBVIOUS
    <3>8. gpu.pair = [j \in 1 .. 2 |-> Whole(<<named, j, o>>, gpu.pair[j].size)]
      BY <3>6, <3>7
    <3> QED
      BY <2>1, <3>1, <3>5, <3>8
  <2> QED
    BY <2>3, <2>4
<1> QED
  BY <1>1, Invariance, PTL

(* What a submitted frame uses is neither replaced nor destroyed until the
   device is done with it, even when the daemon gave up waiting. *)
THEOREM NothingFreed == Spec => []NothingFreedInUse
<1>1. IInv => NothingFreedInUse
  BY DEF IInv, NothingFreedInUse, Opens, Runs
<1> QED
  BY <1>1, Invariance, PTL

=============================================================================
