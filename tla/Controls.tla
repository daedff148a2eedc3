------------------------------ MODULE Controls ------------------------------
(***************************************************************************)
(* The live controls.  Controllers (the command line, the GUI) store       *)
(* settings one by one in the shared header, with no lock, and then        *)
(* publish them by a generation number.  Readers (a layer for each frame,  *)
(* a daemon for each request) sample the generations, read the settings    *)
(* one by one, and record the generation with what they render.  A daemon  *)
(* that is asked for a trace of a request publishes a generation itself.   *)
(* Captures models what follows the generation: capture requests.          *)
(***************************************************************************)
EXTENDS Naturals, Sequences

CONSTANTS
  Controllers,   \* processes that change settings
  Readers,       \* layers' frames and daemons' requests
  Daemon,        \* the reader that is asked for traces
  Settings,      \* settings, in the table's order
  Tuning,        \* those whose changes tuningSeq counts
  Switch,        \* a boolean setting, which can be toggled
  MaxBatches,    \* bound: batches of changes
  MaxTraces      \* bound: trace requests

ASSUME SettingAssumption ==
  /\ Settings \subseteq Nat /\ Tuning \subseteq Settings /\ Switch \in Settings \ Tuning
ASSUME ReaderAssumption == Daemon \in Readers
ASSUME BoundAssumption == {MaxBatches, MaxTraces} \subseteq Nat

VARIABLES
  (* The shared header.  A setting is known by how often it was stored. *)
  store, switchedOn, controlSeq, tuningSeq,
  (* The controllers. *)
  cpc,
  todo,             \* settings still to store
  batch,            \* what this batch does, and the stores it has made
  seen,             \* the switch, as loaded
  made,             \* batches begun
  (* The readers. *)
  rpc,
  snap,             \* FrameSettings; Request and ProcessingSettings
  claimed,          \* pending_trace
  traces,           \* trace requests claimed
  trace,            \* the metadata of the last trace finished
  (* History. *)
  published, tuned, \* the stores published under each generation
  expected,         \* the switch, by the stores and toggles made
  disturbed         \* a controller published since the traced request was sampled

header == <<store, switchedOn, controlSeq, tuningSeq>>
controllers == <<cpc, todo, batch, seen, made, tuned, expected>>
readers == <<rpc, snap, claimed, traces, trace>>
vars == <<header, controllers, published, readers, disturbed>>

Stores == [Settings -> Nat]
NoStores == [s \in Settings |-> 0]
Snapshots == [control : Nat, tuning : Nat, left : SUBSET Settings, values : Stores]
Publications == [values : Stores, tuning : Nat]
NoSnapshot == [control |-> 0, tuning |-> 0, left |-> {}, values |-> NoStores]
NoTrace == [sampled |-> NoSnapshot, end |-> 0, disturbed |-> FALSE]
NoBatch == [toggles |-> FALSE, retunes |-> FALSE, values |-> NoStores]

TypeOK ==
  /\ store \in Stores /\ switchedOn \in BOOLEAN
  /\ controlSeq \in Nat /\ tuningSeq \in Nat
  /\ cpc \in [Controllers -> {"idle", "storing", "toggling", "publishing"}]
  /\ todo \in [Controllers -> SUBSET Settings]
  /\ batch \in [Controllers -> [toggles : BOOLEAN, retunes : BOOLEAN, values : Stores]]
  /\ seen \in [Controllers -> BOOLEAN]
  /\ made \in 0 .. MaxBatches
  /\ rpc \in [Readers -> {"idle", "sampling", "reading", "read"}]
  /\ snap \in [Readers -> Snapshots]
  /\ trace \in [sampled : Snapshots, end : Nat, disturbed : BOOLEAN]
  /\ claimed \in BOOLEAN /\ traces \in 0 .. MaxTraces
  /\ published \in Seq(Publications) /\ Len(published) = controlSeq
  /\ tuned \in Seq(Stores) /\ Len(tuned) = tuningSeq
  /\ expected \in BOOLEAN /\ disturbed \in BOOLEAN

Init ==
  /\ store = NoStores /\ switchedOn = FALSE /\ controlSeq = 0 /\ tuningSeq = 0
  /\ cpc = [c \in Controllers |-> "idle"] /\ todo = [c \in Controllers |-> {}]
  /\ batch = [c \in Controllers |-> NoBatch] /\ seen = [c \in Controllers |-> FALSE] /\ made = 0
  /\ rpc = [r \in Readers |-> "idle"] /\ snap = [r \in Readers |-> NoSnapshot]
  /\ claimed = FALSE /\ traces = 0 /\ trace = NoTrace
  /\ published = <<>> /\ tuned = <<>> /\ expected = FALSE /\ disturbed = FALSE

Least(S) == CHOOSE s \in S : \A t \in S : s <= t
Newest(old, new) == [s \in Settings |-> IF old[s] < new[s] THEN new[s] ELSE old[s]]

(* The stores made before generation g, or tuning generation t, was out. *)
PublishedUnder(g) == IF g = 0 THEN [values |-> NoStores, tuning |-> 0] ELSE published[g]
TunedUnder(t) == IF t = 0 THEN NoStores ELSE tuned[t]

-----------------------------------------------------------------------------
(* A controller's batch of changes: each setting is stored once, in the    *)
(* table's order; a toggled one by an exchange.  Then tuningSeq, if one of *)
(* them retunes, and controlSeq.                                           *)

Goto(c, pc) == cpc' = [cpc EXCEPT ![c] = pc]
NextStore(c, left) == IF left = {} THEN Goto(c, "publishing") ELSE Goto(c, "storing")

(* A batch may store nothing: a capture request, or a quit or a resume. *)
BeginBatch(c) ==
  /\ cpc[c] = "idle" /\ made < MaxBatches
  /\ made' = made + 1
  /\ \E S \in SUBSET Settings, toggles \in BOOLEAN :
       /\ toggles => Switch \in S
       /\ batch' = [batch EXCEPT ![c] = [NoBatch EXCEPT !.toggles = toggles, !.retunes = S \cap Tuning # {}]]
       /\ todo' = [todo EXCEPT ![c] = S]
       /\ NextStore(c, S)
  /\ UNCHANGED <<header, seen, published, tuned, expected, readers, disturbed>>

(* One store of setting s by this batch. *)
Stored(c, s) ==
  /\ store' = [store EXCEPT ![s] = @ + 1]
  /\ batch' = [batch EXCEPT ![c].values[s] = store[s] + 1]
  /\ todo' = [todo EXCEPT ![c] = @ \ {s}]
  /\ NextStore(c, todo[c] \ {s})

Toggles(c) == batch[c].toggles /\ Least(todo[c]) = Switch

StoreSetting(c) ==
  /\ cpc[c] = "storing" /\ ~Toggles(c)
  /\ LET s == Least(todo[c]) IN
       /\ Stored(c, s)
       /\ IF s = Switch THEN switchedOn' \in BOOLEAN /\ expected' = switchedOn'
                        ELSE UNCHANGED <<switchedOn, expected>>
  /\ UNCHANGED <<controlSeq, tuningSeq, seen, made, published, tuned, readers, disturbed>>

LoadSwitch(c) ==
  /\ cpc[c] = "storing" /\ Toggles(c)
  /\ seen' = [seen EXCEPT ![c] = switchedOn]
  /\ Goto(c, "toggling")
  /\ UNCHANGED <<header, todo, batch, made, published, tuned, expected, readers, disturbed>>

(* A compare and exchange: it fails, and loads again, where the switch has *)
(* changed since it was loaded.                                            *)
Exchange(c) ==
  IF switchedOn = seen[c]
  THEN /\ Stored(c, Switch)
       /\ switchedOn' = ~seen[c] /\ expected' = ~expected
       /\ UNCHANGED seen
  ELSE /\ seen' = [seen EXCEPT ![c] = switchedOn]
       /\ UNCHANGED <<store, switchedOn, expected, batch, todo, cpc>>

(* A bug: the flipped value is stored, whatever was stored meanwhile. *)
BuggyToggle(c) ==
  /\ cpc[c] = "toggling"
  /\ Stored(c, Switch)
  /\ switchedOn' = ~seen[c] /\ expected' = ~expected
  /\ UNCHANGED <<seen, controlSeq, tuningSeq, made, published, tuned, readers, disturbed>>

Toggle(c) ==
  /\ cpc[c] = "toggling"
  /\ Exchange(c)
  /\ UNCHANGED <<controlSeq, tuningSeq, made, published, tuned, readers, disturbed>>

PublishTuning(c) ==
  /\ cpc[c] = "publishing" /\ batch[c].retunes
  /\ tuningSeq' = tuningSeq + 1
  /\ tuned' = Append(tuned, Newest(TunedUnder(tuningSeq), batch[c].values))
  /\ batch' = [batch EXCEPT ![c].retunes = FALSE]
  /\ UNCHANGED <<store, switchedOn, controlSeq, cpc, todo, seen, made, published, expected, readers, disturbed>>

NewGeneration(values) ==
  /\ controlSeq' = controlSeq + 1
  /\ published' = Append(published,
                         [values |-> Newest(PublishedUnder(controlSeq).values, values), tuning |-> tuningSeq])

Publish(c) ==
  /\ cpc[c] = "publishing" /\ ~batch[c].retunes
  /\ NewGeneration(batch[c].values)
  /\ batch' = [batch EXCEPT ![c] = NoBatch] /\ Goto(c, "idle")
  /\ disturbed' = TRUE
  /\ UNCHANGED <<store, switchedOn, tuningSeq, todo, seen, made, tuned, expected, readers>>

-----------------------------------------------------------------------------
(* The readers: the generations first, then the settings one by one, in an *)
(* order of each reader's own.                                             *)

At(r, from, to) == rpc[r] = from /\ rpc' = [rpc EXCEPT ![r] = to]
SampledControl == [NoSnapshot EXCEPT !.control = controlSeq, !.left = Settings]

(* A bug: the generation is sampled before the claim publishes its own. *)
BuggyClaim ==
  /\ At(Daemon, "idle", "sampling") /\ ~claimed /\ traces < MaxTraces
  /\ claimed' = TRUE /\ traces' = traces + 1
  /\ NewGeneration(NoStores)
  /\ snap' = [snap EXCEPT ![Daemon] = SampledControl] /\ disturbed' = FALSE
  /\ UNCHANGED <<store, switchedOn, tuningSeq, controllers, trace>>

(* The daemon takes a trace request between frames; the next is traced. *)
Claim ==
  /\ rpc[Daemon] = "idle" /\ ~claimed /\ traces < MaxTraces
  /\ claimed' = TRUE /\ traces' = traces + 1
  /\ NewGeneration(NoStores)
  /\ UNCHANGED <<store, switchedOn, tuningSeq, controllers, rpc, snap, trace, disturbed>>

SampleControl(r) ==
  /\ At(r, "idle", "sampling")
  /\ snap' = [snap EXCEPT ![r] = SampledControl]
  /\ disturbed' = (disturbed /\ r # Daemon)
  /\ UNCHANGED <<header, controllers, published, claimed, traces, trace>>

SampleTuning(r) ==
  /\ At(r, "sampling", "reading")
  /\ snap' = [snap EXCEPT ![r].tuning = tuningSeq]
  /\ UNCHANGED <<header, controllers, published, claimed, traces, trace, disturbed>>

(* A bug: the generations are sampled with the settings, not before. *)
BuggyReadSetting(r) ==
  /\ \E s \in snap[r].left :
       /\ At(r, "reading", IF snap[r].left = {s} THEN "read" ELSE "reading")
       /\ snap' = [snap EXCEPT ![r] = [@ EXCEPT !.values[s] = store[s], !.left = @ \ {s},
                                                !.control = controlSeq, !.tuning = tuningSeq]]
  /\ UNCHANGED <<header, controllers, published, claimed, traces, trace, disturbed>>

ReadSetting(r) ==
  /\ \E s \in snap[r].left :
       /\ At(r, "reading", IF snap[r].left = {s} THEN "read" ELSE "reading")
       /\ snap' = [snap EXCEPT ![r].values[s] = store[s], ![r].left = @ \ {s}]
  /\ UNCHANGED <<header, controllers, published, claimed, traces, trace, disturbed>>

(* The frame is composed or given up; the request is answered.  A traced   *)
(* request that was answered samples the generation again.                 *)
Finish(r) ==
  /\ At(r, "read", "idle")
  /\ snap' = [snap EXCEPT ![r] = NoSnapshot]
  /\ IF r = Daemon /\ claimed
     THEN claimed' = FALSE /\ trace' = [sampled |-> snap[r], end |-> controlSeq, disturbed |-> disturbed]
     ELSE UNCHANGED <<claimed, trace>>
  /\ UNCHANGED <<header, controllers, published, traces, disturbed>>

(* A rejected request's trace says why, and has none of this metadata. *)
Reject ==
  /\ \E pc \in {"reading", "read"} : At(Daemon, pc, "idle")
  /\ snap' = [snap EXCEPT ![Daemon] = NoSnapshot]
  /\ claimed' = FALSE
  /\ UNCHANGED <<header, controllers, published, traces, trace, disturbed>>

-----------------------------------------------------------------------------
Next ==
  \/ \E c \in Controllers :
       \/ BeginBatch(c) \/ StoreSetting(c) \/ LoadSwitch(c) \/ Toggle(c) \/ PublishTuning(c) \/ Publish(c)
  \/ Claim \/ Reject
  \/ \E r \in Readers : SampleControl(r) \/ SampleTuning(r) \/ ReadSetting(r) \/ Finish(r)

Spec == Init /\ [][Next]_vars

-----------------------------------------------------------------------------
(* The snapshots that were sampled in full. *)
Sampled == {snap[r] : r \in {x \in Readers : rpc[x] = "read"}} \cup {trace.sampled}

(* A generation that a frame, a captured pair or a trace names vouches for *)
(* its settings: none of them is older than what that generation, or the   *)
(* tuning generation named with it, was published to announce, whichever   *)
(* controllers interleaved their stores.                                   *)
GenerationsVouch ==
  \A r \in Sampled :
    LET p == PublishedUnder(r.control) IN
      /\ r.tuning >= p.tuning
      /\ \A s \in Settings : r.values[s] >= p.values[s]
      /\ \A s \in Tuning : r.values[s] >= TunedUnder(r.tuning)[s]

(* Two controllers that toggle the same switch toggle it twice: after any  *)
(* stores and toggles it has the value they give one after another.        *)
NoToggleLost == switchedOn = expected

(* A trace no controller disturbed shows the same generation at both ends, *)
(* as the script requires: the claim's own generation does not spoil it.   *)
UndisturbedTraceAgrees == trace.disturbed \/ trace.end = trace.sampled.control
=============================================================================
