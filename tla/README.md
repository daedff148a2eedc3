# A verification of dlsslop-amd

dlsslop-amd renders a game's frames through a neural network on AMD GPUs. A
Vulkan layer in the game hands each frame to a daemon, `dlsslopd`, and composes
what comes back, or runs the network on the game's own device; controllers
(`dlsslopctl`, the GUI) steer both through one shared header. The TLA+ here
models how these parts work, alone and together, checks small instances with
TLC, and proves the main results for all sizes with TLAPS.

## Inventory

| Part | State | Operations | Meets |
|---|---|---|---|
| Frame channel, daemon side (`backend/serve.cpp`, `channel.cpp`) | shared header (`seq_req`, `seq_resp`, `seq_ok`, `answeredW/H`, `helperState`, `quit`, `nativeTier`), two frame slots; its own `last`, engine, tier | open the mapping and settle an old request, start, serve, follow the tier, reshape, idle out, quit, fail | layers through the header and futexes; controllers through settings; the service manager |
| Frame channel, layer side (`patches/linux-integration.patch`: `ProcessPresent`, `ShmProcessFrame`, `NativeFrameGuard`, `StartWorker`) | the producer lock, its request, `dead` | enter, test the helper and the slots, write a frame, publish, wait, accept or give up, compose | the daemon; other games through the lock |
| Device-local transport (`backend/transport.*`, `engine.h`; `SendOffer`, `OfferTransport`) | per composition: generation, connection, ready; per daemon: four import slots | offer, import, answer, expire, withdraw, miss | over a Unix socket, beside the channel |
| Controls and captures (`dlsslopctl`, `gui/channel.h`, `common/control_settings.h`; the layer's `CaptureWriter`) | settings, `controlSeq`, `tuningSeq`, `captureRequest`; the capture in progress | assign, toggle, reset, publish, request a capture; snapshot, take, record, write | many controllers, one layer, the daemon |
| Diagnostic trace (`backend/trace.*`, hooks in `serve.cpp`, `scripts/dlsslop-test`) | a private directory: its lock and owner file, a request, claims, evidence, markers; the pending trace | open, claim, create, sample, record, finish, close; link a request, wait, move the evidence away | other daemons on the directory, the test script, requests written by hand |
| In-layer network (`layer/`, `common/network_recorder.*`; `ProcessInLayer`) | per device: a recorder (runtime, images, last frame), the build thread, `failed`, `inLayerLast` | ask the device for features; open, build, poll, record, submit, close | the game's own device, queues and threads |
| Present path (`QueuePresent`, swapchain hooks in the patch) | semaphores, fences, the device lock, `networkSubmit`, the idle-repaint thread | present, repaint, acquire, rebuild, destroy | the Vulkan driver |
| HIP engine (`backend/hip_engine.*`, `temporal_gpu.h`, `codec_gpu.h`) | temporal history, feedback, buffers, pinned slots, status word | prepare, import, pin, infer, retier, release | the HIP runtime |
| Codec (`backend/codec.cpp`, `geometry.h`) | none | fit a picture into its tier, encode, feed back, decode | the engine |
| Vulkan engine (`backend/vulkan_engine.h`, `vulkan_network.*`) | a network for one shape, imports, host buffers | open, shape, import, infer, destroy | the Vulkan driver, DLSSNR-AMD |
| Startup (`backend/options.*`, `paths.*`, `main.cpp`, `open.*`) | the options | parse, read the config, check, open an engine | the user |
| Installation and tooling (`install.py`, `scripts/`, CI) | files | fetch, build, package, test | the file system |

What is hard: no lock covers the header, so every step of one process can come
between two of another; a request outlives the patience of whoever made it;
daemons are killed, restarted, told to quit and idle out while games present;
tiers change and networks are rebuilt under live traffic; sequence numbers wrap;
imported video memory outlives neither the daemon nor the swapchain that
exported it, but messages about it do; a network is built on a thread whose
submits need the lock a present holds; each of an engine's calls can fail with
the last frame's work still on the device.

What makes each part correct:

- *Frame channel*: slots belong to one side at a time; an answer composed is the
  answer to that frame; a present returns in bounded time; no request stays
  unanswered for good; the header's state is honest; quit is obeyed.
- *Transport*: a frame that names a generation is read from the memory that the
  layer's current composition exported, or refused; a miss heals.
- *Controls and captures*: a capture records its own frame's settings; a toggle
  is never lost; the generation recorded is one the settings belong to.
- *Trace*: evidence under a marker is whole and of one request; a trace is not
  forgotten; who serves a directory is its owner.
- *In-layer network*: nothing in flight is freed; commands are recorded for what
  is built; no lock is waited for by its holder; waits are waited on once.
- *Engines*: history is the last answer of the same stream of frames; a frame's
  buffers are its own, and as large as it; every failure leaves one owner of
  everything.
- *Codec*: a picture fits its tier with its aspect; a sample is the nearest half.
- *Startup*: the most specific source wins; the engine can do what was asked.

## Modules

| Module | What it is |
|---|---|
| `FrameExchange` | abstract: one frame at a time is with the daemon, and what a game shows answers the frame it asked about |
| `FrameChannel` | one daemon, any number of games, controllers, the service manager; implements `FrameExchange` |
| `Transport` | device-local transport: offers and imports of video memory, and the requests that name them; implements `FrameExchange` |
| `Controls` | controllers' stores, toggles and generations, and the snapshots of a layer or a daemon |
| `Captures` | capture requests, and the batch of pairs a layer writes for one |
| `Trace` | the trace directory, its daemons and its clients |
| `NetworkRecorder` | what either Vulkan network keeps from frame to frame: used by the next and by `VulkanEngine` |
| `InLayerNetwork` | a game's device: the present thread, the builder, another thread, the GPU |
| `DeviceFeatures` | the request a device is created from, as the layer changes it |
| `NetworkDevice` | both: the request comes before the network |
| `VulkanEngine` | the daemon's Vulkan engine |
| `HipEngine` | the daemon's HIP engine |
| `Codec` | geometry and binary16, as one sample follows a frame |
| `HipFrames` | both: a picture is fitted before the engine sees it |
| `Startup` | from the command line to an engine or an exit |
| `MC...` | instances and symmetries for TLC |
| `FrameChannelProofs`, `TransportProofs`, `ControlsProofs`, `CapturesProofs`, `VulkanEngineProofs` | theorems and proofs of the module they are named after |
| `NetworkDeviceProofs`, `HipFramesProofs` | of the two modules that `NetworkDevice` and `HipFrames` put together |
| `WorkerProofs` | of the daemon's process: its trace directory and its startup |

### FrameChannel

The header's fields are variables of the same name (`extent` stands for width
and height, `answered` for `answeredW` and `answeredH`). `input` and `output` are
the two slots by what they hold: a frame's number, and the frame and extent an
answer is for; 0 and `NoAnswer` stand for something half written.

The daemon is one program counter. `OpenMapping`, `ReadOldRequest` and
`AnswerOldRequest` are `Mapping`'s constructor, cut where a layer can come
between: the load of `seq_req`, the store to `seq_resp`, the store to
`helperState`. `Announce` to `Prepared` are `run_worker` and the head of
`serve`, `ObeyQuit` to `Respond` the body of its loop with `follow_tier`,
`retire`, `read_request` and `process`, and `Stop` and `Fail` its ends. `Kill`
ends it anywhere with nothing written; a SIGTERM before the handler is set does
the same, and then the service manager restarts nothing.

A layer is one program counter per game, from `Enter` (it took the producer's
lock) to `Leave`. The tests of `ProcessPresent` are `CheckHelper` and
`CheckOutstanding`, its first leg `BeginWrite` and `EndWrite`, `ShmProcessFrame`
is `Publish` to `Accept`, and its second leg `Compose`. `Crash` ends a game
anywhere; the kernel drops its lock.

Time is abstract. A layer may give up whenever it has looked and found no
answer and no quit (its budget, the helper's state, and its heartbeat are the
reasons the code has), the idle exit may fall due on any idle wait, and
controllers act at any time.

Left out: which status fields are stored beside those above (timings, reasons,
rasters); the `--tier` option, which only fixes the tier chosen at the start;
the pass count; the CPU codec; and frames in imported memory, which are
`Transport`'s. A settings error is any request's possible rejection.

### Transport

A composition is `export`, `pair` (a pair of exported buffers by its number, or
`Staging`), `ready`, `gen` and `offer`, the fields `_export`, `_download` and
`_upload`, `_transportReady`, `_transportGen` and `_offer`. The socket is a
queue of offers with, for each, the pair whose descriptors it carries and the
byte that came back; a generation is random in the code and the next number
here, as it is never drawn twice. The daemon's slots are `held` and
`nextSlot` of `EngineBase` and `imported` of the engine.

The layer's actions are the branches of `ProcessPresent` that concern the
transport: `FindNoHelper`, `Prepare` (whose `Remake` is `EnsureTransport`),
`SendOffer`, `SendFails` and `PollOffer` (`OfferTransport` and the switch on its
result), `Ask`, `GiveUp`, `Receive` (the round trip, with the test of
`transportMiss` when it fails in `Forgo`) and `Compose`. The daemon's are `AcceptOffer` and `Import`
(`accept_offers`, `receive_offer`, `import`), `TakeRequest` and `Miss` (the head
of `process`), `Infer`, `Retier` and `End`. The channel between them is one
request and its outcome: how it works is `FrameChannel`'s to say, so `Enter`
tests the helper and the slots in one step, and an answer is good or not.

A slot is found by its generation first, which a layer never sends twice, so
every import takes the next slot in turn. An offer that cannot be sent, to a
daemon that was just killed, counts as a refusal, as in the code: the header
still says Running, and the next look at it sets that right.

### Controls

A setting is known by how often it was stored, so that a snapshot shows which
stores it saw; one of them, the switch, has a value besides, for toggles. A
controller's batch (`BeginBatch` to `Publish`) is the loop of `dlsslopctl`'s
`main`, or `Channel::write` and `reset` of the GUI: each setting in the table's
order, then `tuningSeq`, then `controlSeq`. A toggle is a load (`LoadSwitch`)
and a compare and exchange that may fail (`Toggle`). A reader is
`FrameSettings::Read` in a layer or `serve` and `read_settings` in a daemon:
`SampleControl`, `SampleTuning`, then a `ReadSetting` for each, in any order. A
daemon may have claimed a trace before (`Claim`, which publishes a generation)
and samples the generation again when it answers (`Finish`). `published` and
`tuned` are history: for each generation, the stores made by the batches
published by then.

### Captures

The composition's state is `captureRecorded`, `capture` (`_controlSeq` and
`_remaining` of its `CaptureWriter`), `captureMetadata` and `pairs`
(`_metadata`); `captureBuf` is the frame whose pixels the buffer holds, by its
generation. A layer's frame is `BeginFrame` (`CollectLeg2` for the last frame,
then the snapshot), `CheckCapture` and `TakeCapture` (the comparison, then the
exchange), `RecordCompose` and `Submit`; every exit between them is `GiveUp`.
Waits, submits, writes and `mkdtemp` may fail. The two legs, the daemon and the
in-layer network differ only in what can make a frame give up. `Recreate` is a
swapchain destroyed and made again. The link that publishes a manifest is left
out: a batch is over when its count is 0. A count above 64 is refused by both
controllers, so the layer's own limit is left out.

### Trace

A worker is a daemon started on the directory, from `Open` (the directory's
checks and the lock) and `WriteOwner` to `Close` (the destructor: the owner file
goes before the lock). `Claim` is the rename in `take()`, `ReadClaim` the rest of
it, `Create` `FrameTrace::create()`. A traced frame is `Serve`, one `Image` per
stage, and `Served`; `Stop` is every other way out of the loop, which finishes a
pending trace as failed. `WriteSummary` and `WriteMarker` are `finish()`, each of
which may fail, and `Kill` comes between any two. A client is a run of
`dlsslop-test`: `Look`, `Ask` (a link, which replaces nothing), `GiveUp`, `Move`
and `RemoveMarker`; each has a token of its own. Requests written by hand recur.
An image or a summary is the number of the request it was written for. Left
out: a process number that the system uses again for another daemon, and a
directory at a name that a rename expects to be free.

### InLayerNetwork, DeviceFeatures, NetworkDevice

The three threads are program counters. The present thread holds the device's
lock from `PresentBegin` to `Show`; `Enter` is `UseInLayerNetwork`, `Collect` and
`TakeOver` the waits for the swapchain's own last frame and for that of the one
that presented before, `Prepare` `dlsslop_network_prepare`, `Record`, `Submit` and
`Salvage` the rest of `ProcessInLayer`, and `Remote` the frame that goes through
the daemon instead, whose protocol is `FrameChannel`'s. The builder is
`BuildStart` to `BuildClear`, each of its submits under `networkSubmit` and then,
through the queue hooks, under the device's lock. The other thread submits,
waits, destroys a swapchain (`Destroy` to `DestroySwapchain`) or the device
(`Close`); the idle repaint is one more submitter like it. `Run` and `Lose` are
the GPU: what was submitted ends, in any order, or the device is lost, which
ends everything. A game that presents a swapchain while it destroys it breaks
Vulkan's rules, and is left out.

`NetworkRecorder` has `shape()` (`Differs`, `Dropped`, `FailedBuilds`, `Built`),
the test that starts a history over (`Resets`), and the layouts of the images as
`Commands` has them. `DeviceFeatures` are functions on a request: a chain of
structures, by type and bits, and a set of extensions. The structure of
swapchain maintenance, which the layer's base code adds, is part of the chain;
that the user enabled the layer is assumed. In `NetworkDevice` a device is
created from every such request before the network runs on it. A search of a
chain is for the first place that has the type, and the structures the layer adds
are put ahead one after the other, so that both can be reasoned about for chains
of any length.

### VulkanEngine

One thread, so a program counter: `Choose`, `Create`, `CreateFails` and `Prepare`
open it, `Offer`, `Import`, `ImportFails`, `Replace`, `Refuse` and `Close` take in
a pair, a buffer at a time, and `Request` to `Answer` are a frame. `Submit` is
one step with its recording, as nothing else sees the commands. `WaitFails` gives
up with the frame still on the device; `Destroy` is `~Impl`. `alive` is
the set of buffers and memories there are, each known by the offer or the shape
it was made for, and is changed where one is made or destroyed, never computed. Left out: queue-ownership barriers, descriptor sets, timing queries.

### HipEngine, Codec, HipFrames

A kernel's effect is the buffer it writes and what it then holds: an encoded
frame, a pass's answer raw, tuned or coloured, a luma, a history, or garbage
where what it read was not what it needs. `Encode` to `Finish` are `infer()`, one
action per stage; `Configure`, `Begin`, `TakeHistory` and `EndTemporal` are
`GpuTemporal`; `Fail` is any call failing, anywhere, after which `End` releases
everything. Buffers are known by name, allocated by `Allocate` and freed by
`Release`, so that use after free, leaks and reading a buffer while writing it
show. With the CPU codec samples that are not finite end the daemon during a
pass, as there; the GPU codec records them. Left out: self-tests, timing marks
and the once-only warning about conditioning.

`Codec` fits a source into a tier (`Fit`, with `geometry()`, `validate()` and
`fits()`), and follows one sample from `Encode` to `Decode`, as the bits of a
float's magnitude. The sign is kept as it is, bilinear filtering at a texel's
centre is the texel, and the other sample formats are left out. In `HipFrames` a
picture is fitted, then its sample or, for a source in `Served`, the engine's
frames are followed.

### Startup

`Getopt` takes one option at a time, `ReadConfig` to `EndOfConfig` the config
file, `Apply` puts the command line over it, an option at a time, `Check` makes the tests between
options, and `OpenEngine`, `OpenVulkan` and `OpenHip` are `open_engine()`. A text
that spells a number is in `NumberOf`, a path under `~/` in `HomePath`. Left out:
abbreviated options, the usage text, the readers of `files.cpp`.
Its program counter and specification are `mainPc` and `MainSpec`, since the same
process has a trace directory (`WorkerProofs`).

## Runs

| Run | Instance | Checks | About |
|---|---|---|---|
| `channel` | 2 games, 2 extents, 3 frames, 1 fault, numbers modulo 5, an engine that rebuilds for a shape | the slots' exclusion, composed answers, undisturbed inference, honest states, the exchange | 55 s |
| `channel_live` | 1 game, 2 tiers, an engine that rebuilds for a tier, 2 faults | presents return, requests settle, quits are obeyed | 70 s |
| `transport` | 2 games, 2 slots, 3 offers, 2 exported pairs, 1 fault, the service manager's socket | frames come from the memory they are in, no frame is asked for on a pending offer, the exchange | 50 s |
| `transport_live` | 2 games, 1 slot, 2 offers, 1 exported pair, 1 fault, the daemon's own socket | a miss is healed | 50 s |
| `controls` | 2 controllers, 2 settings, 2 batches, 1 reader, 1 trace | generations vouch for settings, no toggle is lost, an undisturbed trace agrees | 15 s |
| `captures` | 2 controllers, 3 generations, captures of 2 frames, 2 faults | pairs match frames, a press makes one run that ends, no pair is left waiting | 35 s |
| `trace` | 3 daemons, 2 clients, a hand-written token, 3 requests, 2 stages | evidence is whole, no trace is forgotten, who serves is the owner | 70 s |
| `inlayer` | 2 swapchains, 2 extents, 4 presents, 1 upload per build; 5 devices, chains of up to 3 structures | features asked for, nothing freed in use, recording, history, semaphores, exclusive submits, no deadlock | 105 s |
| `device_wait` | the same, 2 presents | expected violation, see below | 5 s |
| `vulkan` | 2 devices, 2 slots, 3 generations, 3 offers, 2 frames of 2 extents | ownership, buffers as large as their frame, nothing freed in use | 140 s |
| `engine` | 3 frames of up to 2 passes with every combination of stages; every boundary of geometry and of binary16 | history, answers, nonfinite samples, buffers and calls, pictures, halves | 80 s |
| `startup` | up to 3 options, 1 config line, 3 environments | precedence, the engine that serves | 110 s |

**Bounds.** `MaxFrames` bounds the frames ever written and `MaxFaults` the kills
and crashes. Three frames are a frame that times out, the next, and one from
another game; with two a stale answer and its successor are told apart already.
Faults happen at any step, so one shows each crash at each place, and the
liveness run has two, for a crash of a daemon that starts after a crash. The
modulus is above the number of frames, so no number wraps in a run; the proofs
cover any modulus. `--once` is `FALSE` in every run, as a daemon that leaves
after its first answer only does less; the proofs cover both.

In the transport, three offers for two slots make one import replace another;
two pairs are a composition's old buffers and its new ones, or two games'; and
the one fault is a kill, an end or a tier change at any step. A pair beyond the
bound is an export that failed, which the code has too. `transport_live` has
the smallest instance in which a ready pair is forgotten and offered anew.

In `controls`, two batches overlap in every way two can, as either controller may
make both; one setting retunes and the other does not. Readers write nothing
that another reads but a claim's generation, so one suffices. In `captures`,
three generations are two requests and a change between them; two frames make a
batch that spans presents, and two faults one that fails while another is
recovered from.

In `trace`, three daemons are one that ends, one that was killed, and one that
starts meanwhile; three requests let a token recur after its first trace ended
badly and still leave one for a client. In `inlayer`, four presents are a build,
a frame, one of another swapchain, and the build that follows; the game's frames
differ in each thing a network is built for and in the settings that start its
history over. In `vulkan`, three offers of three generations replace an import and
repeat a generation, with sizes below and above a frame's. In `engine`, the third
frame has the history of a second that had one; what a history depends on is varied one
at a time, and stages and passes in every combination. The codec's sources lie on
and beside every boundary of its geometry; its samples on, below and above every
power of two, the middle between halves, and a stretch of subnormals. In
`startup`, three options are two that interact and the one that names the config
file.

`CHECK_DEADLOCK` is on in every run but `trace`, where daemons are started a
bounded number of times and clients may all have given up: that system rests.

**Symmetry.** Games and extents are interchangeable in `channel`, games in
`transport`, controllers in `controls`, and daemons and clients in `trace`, none
of which has a liveness property; their action properties are invariant under
the permutations.

**Fairness.** `LayerFairness` says that a game inside a present goes on, and
that a layer which looks again and again gives up at last: its budget is a
deadline. `PresentReturns` needs no more, and nothing of the daemon.
`SystemFairness` adds that a daemon goes on and its builds and inferences end;
that some game presents again; and that the service manager starts a daemon
for a waiting connection (`dlsslop.socket`) and after a failure
(`Restart=on-failure`). A daemon that ends by SIGTERM is not restarted, and
`RequestsSettle` excepts it. No fairness is asked of controllers, idle exits,
manual starts, signals or faults.

`Transport`'s `FairSpec` is strong where a step can be passed by again and
again: the lock is free now and then, a composition that runs prepares and asks,
some answer comes within its budget, and the settings are now and then such that
the daemon gets as far as looking for the pair.

`Captures`'s `FairSpec` says that the game keeps presenting and its frames go on;
failing calls are bounded by `MaxFaults`. A game that stops presenting leaves a
request in the header: the code promises more only for a copied pair
(`NoPairLeftWaiting`, which needs no fairness).

The other modules have safety properties only. That the threads of
`InLayerNetwork` do not wait for each other for ever is deadlock freedom and
`BuilderCanFinish`, which needs no fairness.

## What is proved

**The channel.** For any number of games, extents, tiers, frames and faults,
both engines, and any modulus:

- `TypeCorrect`, `SlotsAreExclusive`, `AnswersAreOwn`, `InferenceIsUndisturbed`,
  `StateIsHonest`: the invariants of `channel`.
- `CatchingUp`: `AnswersCatchUp`, from the same invariant.
- `Implements`: with fewer frames than sequence numbers, `Spec` implements
  `FrameExchange`.

The safety invariants are not inductive. That a layer does not write while the
daemon reads follows from an exchange of promises over several steps: whoever
is past `CheckOutstanding` found no request outstanding and still holds the
lock; whoever holds the lock is the only one to publish; and the daemon infers
only for a request that is outstanding, across a restart too, where it takes the
count of answers to the latest request. `IInv` says this in six parts (`LockHeld`,
`OneRequest`, `InStep`, `SlotContents`, `AnswerStands`, `RunningWhileBusy`),
beside the two properties it includes. It is proved kept by the daemon
(`DaemonKeeps`), the layers (`LayerKeeps`) and controllers (`ControlKeeps`).

**The transport.** For any number of games, slots, offers, pairs and faults:
`TypeCorrect`, `ServedWhereNamed`, `NonePending`, and `Implements`, its own
refinement of `FrameExchange`. The invariant says what each stage of an offer
establishes: nothing knows a generation before it is drawn (`Drawn`); an offer on
its way is in one place and unanswered (`Unanswered`); a composition is ready only
for the pair that was imported under its generation, and one that waits offered
the pair it has (`Acknowledged`); a slot has the memory its generation's offer
carried (`SlotsHoldSent`); and the one request is the lock holder's, and says
where its frame is (`LockHeld`, `OneRequest`). `AcceptInductive`, `SettleKeeps`,
`MissKeeps`, `InferKeeps`, `TakeKeeps` and `EndInductive` are its daemon's halves.

**Controls.** For any number of controllers, readers, settings and batches:
`TypeCorrect`, `GenerationsAreHonest`, `TogglesAddUp`, `TracesAgree`. What is published is
stored and stays so (`NothingAhead`); a snapshot's settings are no older than the
generation it sampled first (`Snapped`); and until a controller publishes, a
traced request's generations are the last (`Undisturbed`).

**Captures.** For any number of controllers, generations, frames and failing
calls: `TypeCorrect`, `PairsMatch`, `RunsOnce` and `NoneLeftWaiting`. What makes them
inductive is where things are between steps: a request is with its controller,
in the header or taken, and in one of these once (`RequestsOnce`); a pair that
waits has its own frame's settings beside it (`PairWaits`), because no frame
begins before the last one's leg 2 is collected (`InFrame`); and what a batch
has written and has left never exceeds what was asked (`BatchFits`).
`RequestsKept` and `PairsKept` prove the two halves.

**Pictures.** For every source of any size and every tier: `GeometryIsPicture`,
that `geometry()` gives a picture inside its tier that touches two of its sides,
with the aspect kept to half a pixel, over padding that reflects it; and
`PicturesFit`, that every frame the engine's codec takes is fitted into such
a picture. The argument is arithmetic: a rounded quotient is within half its
divisor of what it stands for, and a cross-multiplied comparison decides which
side is full.

**Halves.** For any samples of 15 bits and any answers: `HalvesNearest`, that
`HalvesAreNearest`. A float's bits grow with its value, evenly within a binade;
so a binary16 there, the next one and the middle between them are found where its
numbers are (`BinadeSteps`), and `half_round` takes the last binary16 up to a float
or the next, as the middle has it (`Rounded`: `SubnormalRounds`, where it divides by
a power of two, and `NormalRounds`, where it adds and lets carry). As the middles
are between their neighbours (`Between`) that one is the nearest
(`RoundedIsNearest`), and `pack_half` and `unpack_half` undo each other (`Packs`).
The logarithm is a `CHOOSE`, and the powers are those that shifts are by, one at a
time (`Powers`, `Logs`): nothing here is an induction.

**Traces.** For any number of daemons, clients, tokens, stages and requests:
`TypeCorrect`, `WholeEvidence`, `TracesSettle` and `ServerIsOwner`. Whoever has a place
in the directory has its lock (`Exclusive`), so one daemon at most traces, and
nobody else writes where it does: a token under a marker is in no request, as a
client's is in one only (`Sole`) and a hand's leaves its directory behind
(`HandsStay`), which `Create` finds. What a marker vouches for was therefore
written before it (`Writing`), and stays.

**The in-layer network.** For any number of swapchains, presents and uploads,
whatever frames a game presents: `Types`, `NothingFreed`, `RecordsIntoItsShape`,
`HistoryFollows`, `WaitsOnce`, `BuilderSubmitsAlone` and `BuilderIsFree`, for a
device that was asked for its features (`RunsTheNetwork`). `IInv` says who may
touch what: each mutex is held where a thread is inside it (`LocksHeld`); the
builder has the module to itself from its start until it is joined, and no leg is
recorded or submitted meanwhile (`Builds`); what is destroyed is not presented
(`Destroys`, `Presents`). The argument turns on `InFlight`: whatever the GPU has
of the network is the last frame of the swapchain in `inLayerLast`, so that the
one fence waited for by `TakeOver`, a build or a destruction covers all of it. `Whole` ties a
runtime to its images and its shape, `Continues` the recorder's last frame to what
the runtime's history holds, and `Waits` a present's semaphores to its first
submit. `Laid` steps through the barriers of a recorded frame: each
image is in the layout the command before left it in.

**A device's request.** `RequestsAreHeard` is `RequestsHold` for every device and
for a request whose chain is of any length, with whatever structures, bits and
extensions, as long as the driver takes it as the game made it. `Finding` says
that a type which occurs once is found where it is; `Linking` and `EnabledIs` that
the layer's request is its own structures, each of a type and with bits that no
game structure carries, ahead of the game's with bits set; `Enabling` and
`Found` where each type is then found. `Taken` (nothing conflicts and every bit is
supported), `Keeping` and `SwitchedOn` are the three parts of the property.

**The HIP engine.** For any frames, settings and passes, and a failure at any
call: `TypeCorrect`, `HistoryIsOwn`, `AnswersAreOwn`, `NeverMisused` and
`NonfiniteRejected`, also for what `HipFrames` puts before the engine
(`RunsTheEngine`). The buffers are followed through a frame: each stage of a pass
finds what the last one left (`Chained`); the temporal calls come in turn
(`InTurn`); between frames what is kept is the answers and the luma of the last
frame answered, or is marked as no history (`Kept`); and in a frame the old
history is there for the passes to come, and the new one for those done
(`Continued`), though both are in the same buffers. `Owned` has every buffer a kernel
touches allocated, and none both read and written.

**The Vulkan engine.** For any number of slots, offers, generations, sizes and
frames, whatever fails: `TypeCorrect`, `OwnsOnce`, `FramesFit` and `NothingFreed`.
The objects there are fall into disjoint places, the host's buffers, the slots
and the pair being imported, whose union is `alive` (`Accounted`); `Partition`
and its lemmas say what becomes of that when one place gains or loses some or when what
was imported moves into a slot. Each place has objects of its own name (`Hosts`,
`Fills`, `Imports`), which is what keeps them apart; a request's slot is of the
generation it names and large enough (`Asked`); and what is on the device is what
was built and is in place (`Runs`, `Opens`, `Complete`).

**Startup.** For any command line, config file and environment: `OptionsAreGiven`
and `EngineServes`. After each option that is applied, every setting is what the
last of those said of it, else what the file said, else its default (`Told`,
by `AsSaid`); and on the way to an engine the backend, the device and the features
asked for allow the ones still to be tried (`Sought`).

The constants' assumptions are those the code has: a modulus above 1, no extent
that reads as none, a default tier that exists, a switch that does not retune,
tokens of clients that no hand writes, at least one pass, samples of 15 bits, and
frames and requests of the kinds there are.

**Only model-checked.** Liveness (`PresentReturns`, `RequestsSettle`,
`QuitObeyed`, `MissHeals`, `CaptureEnds`), as fairness and `ENABLED` are out of
the prover's reach. Every other property of a passing run is a theorem.

## Where the code and its words disagree

`device_wait`: the comments on `Hook_DeviceWaitIdle` and on `networkSubmit` say
that a device wait may not overlap a submit, and that the layer's own waits,
which are outside the device's lock, hold `networkSubmit` for that reason. That
keeps them from the builder's submits (`BuildSubmitsAlone` holds), but not from
those that the game's other threads, or the idle repaint, make under the
device's lock alone: `Hook_DestroySwapchainKHR` unlocks it before it waits. The
run shows a submit under the lock during that wait.

Other behaviour that a reader of the models will meet, and no run is about:

- After 2^32 requests one is numbered 0, which a cleared `seq_ok` reads as an
  answer to: if a daemon is restarted in that moment, a stale picture is
  composed for one frame. `ComposedIsOwn` excepts the request numbered 0, and
  `Implements` has as many numbers as frames.
- A layer that sees `quit` while it waits gives up the channel for the life of
  its game; `packaging/README.md` has it present its own frames until a daemon
  starts again. And the next present of another running game connects to the
  daemon's socket, for which the service manager starts one.
- A slot is drawn before the import that may fail, so a refused offer moves the
  turn on, and the next replaces a pair that is not the oldest (`engine.h`).
- The layer's test that a capture request is not newer than its frame's settings
  and the exchange that takes it are two steps. A request published between
  them is taken by a frame with older settings; `scripts/dlsslop-test` waits for
  a later one. The pair still carries its own frame's settings.
- The daemon stores a clamped pass count, and restores an unusable tier, over
  whatever a controller stored since it loaded them.
- The recorder takes a recorded frame for its history's last although its submit
  failed. `HistoryFits` excepts that: the next frame's history is then one older.

## Not modelled

- *The GUI*: widgets on one thread, whose edits reach the header as a batch of
  `Controls`. Window layout, sliders and timers change no shared state.
- *Self-tests and offline modes*: tests, and a sequential loop over files with one
  frame each, with no state but the engine's.
- *Pixel arithmetic*: tuning, optical flow, colour preservation and the other
  sample formats are binary32 arithmetic with transcendental functions over
  whole pictures, which neither TLC nor TLAPS evaluates. Shaders and kernels are
  what they read and write.
- *The composition's own images and passes*, and what makes the repaint thread
  paint: Vulkan commands on one thread under one lock.
- *Installation, packaging, fetching, CI*: one process at a time on the user's
  files. The launcher's options and environment.
- *Read-only status fields* (timings, reasons, rasters), the `--tier` option, which
  only fixes the first tier, and the pass count in the channel's module.

What could come next: the composition's resize path beside the in-layer network.
