---------------------------- MODULE ControlsProofs ----------------------------
(* The live controls, for any controllers, readers, settings and batches: a
   generation vouches for the settings recorded with it, no toggle is lost, and
   an undisturbed trace agrees with itself. *)
EXTENDS Controls, TLAPS

(* No store that a batch, or a generation, stands for is still to come. *)
Made(values) == \A s \in Settings : values[s] <= store[s]
NothingAhead ==
  /\ \A c \in Controllers : Made(batch[c].values)
  /\ \A i \in 1 .. controlSeq : Made(published[i].values) /\ published[i].tuning <= tuningSeq
  /\ \A i \in 1 .. tuningSeq : Made(tuned[i])

(* What a snapshot has read by now is as new as its generations are. *)
Vouched(v) ==
  /\ v.control <= controlSeq /\ v.tuning <= tuningSeq
  /\ v.tuning >= PublishedUnder(v.control).tuning
  /\ \A s \in Settings \ v.left :
       v.values[s] >= PublishedUnder(v.control).values[s] /\ v.values[s] >= TunedUnder(v.tuning)[s]

Snapped ==
  /\ \A r \in Readers :
       /\ rpc[r] = "sampling" => snap[r].control <= controlSeq /\ snap[r].left = Settings
       /\ rpc[r] \in {"reading", "read"} => Vouched(snap[r])
       /\ rpc[r] = "read" => snap[r].left = {}
  /\ Vouched(trace.sampled) /\ trace.sampled.left = {}

(* Until a controller publishes, the traced request's generation is the last. *)
Undisturbed == rpc[Daemon] # "idle" /\ ~disturbed => snap[Daemon].control = controlSeq

IInv == NothingAhead /\ Snapped /\ NoToggleLost /\ Undisturbed /\ UndisturbedTraceAgrees

-----------------------------------------------------------------------------
(* Types.                                                                  *)

LEMMA NewestType ==
  ASSUME NEW a \in Stores, NEW b \in Stores
  PROVE /\ Newest(a, b) \in Stores
        /\ \A s \in Settings : Newest(a, b)[s] = IF a[s] < b[s] THEN b[s] ELSE a[s]
BY DEF Newest, Stores

LEMMA UnderType ==
  ASSUME TypeOK
  PROVE /\ \A i \in 0 .. controlSeq : PublishedUnder(i) \in Publications
        /\ \A i \in 0 .. tuningSeq : TunedUnder(i) \in Stores
<1>1. NoStores \in Stores
  BY DEF NoStores, Stores
<1>2. ASSUME NEW i \in 0 .. controlSeq
      PROVE PublishedUnder(i) \in Publications
  <2>1. CASE i = 0
    BY <1>1, <2>1 DEF PublishedUnder, Publications
  <2>2. CASE i # 0
    <3>1. i \in 1 .. Len(published) /\ published \in Seq(Publications)
      BY <2>2 DEF TypeOK
    <3> QED
      BY <2>2, <3>1 DEF PublishedUnder
  <2> QED
    BY <2>1, <2>2
<1>3. ASSUME NEW i \in 0 .. tuningSeq
      PROVE TunedUnder(i) \in Stores
  <2>1. CASE i = 0
    BY <1>1, <2>1 DEF TunedUnder
  <2>2. CASE i # 0
    <3>1. i \in 1 .. Len(tuned) /\ tuned \in Seq(Stores)
      BY <2>2 DEF TypeOK
    <3> QED
      BY <2>2, <3>1 DEF TunedUnder
  <2> QED
    BY <2>1, <2>2
<1> QED
  BY <1>2, <1>3

LEMMA PublicationType ==
  ASSUME TypeOK
  PROVE \A i \in 1 .. controlSeq : published[i] \in Publications
BY DEF TypeOK

LEMMA SnapshotTypes ==
  /\ NoStores \in Stores /\ NoSnapshot \in Snapshots
  /\ NoBatch \in [toggles : BOOLEAN, retunes : BOOLEAN, values : Stores]
<1>1. NoStores \in Stores
  BY DEF NoStores, Stores
<1> QED
  BY <1>1 DEF NoSnapshot, Snapshots, NoBatch

LEMMA InitTyped == Init => TypeOK
<1>1. <<>> \in Seq(Publications) /\ <<>> \in Seq(Stores) /\ Len(<<>>) = 0
  OBVIOUS
<1>2. MaxBatches \in Nat /\ MaxTraces \in Nat
  BY BoundAssumption
<1> SUFFICES ASSUME Init PROVE TypeOK
  OBVIOUS
<1>3. /\ store \in Stores /\ batch \in [Controllers -> [toggles : BOOLEAN, retunes : BOOLEAN, values : Stores]]
      /\ snap \in [Readers -> Snapshots] /\ trace \in [sampled : Snapshots, end : Nat, disturbed : BOOLEAN]
  BY SnapshotTypes DEF Init, NoTrace
<1>4. /\ switchedOn \in BOOLEAN /\ controlSeq \in Nat /\ tuningSeq \in Nat
      /\ cpc \in [Controllers -> {"idle", "storing", "toggling", "publishing"}]
      /\ todo \in [Controllers -> SUBSET Settings] /\ seen \in [Controllers -> BOOLEAN]
      /\ rpc \in [Readers -> {"idle", "sampling", "reading", "read"}]
  BY DEF Init
<1>5. /\ made \in 0 .. MaxBatches /\ traces \in 0 .. MaxTraces
      /\ claimed \in BOOLEAN /\ expected \in BOOLEAN /\ disturbed \in BOOLEAN
  <2>1. made = 0 /\ traces = 0 /\ claimed = FALSE /\ expected = FALSE /\ disturbed = FALSE
    BY Zenon DEF Init
  <2>2. made \in 0 .. MaxBatches /\ traces \in 0 .. MaxTraces
    BY <1>2, <2>1, SMT
  <2>3. claimed \in BOOLEAN /\ expected \in BOOLEAN /\ disturbed \in BOOLEAN
    BY <2>1, Zenon
  <2> QED
    BY <2>2, <2>3
<1>6. /\ published \in Seq(Publications) /\ Len(published) = controlSeq
      /\ tuned \in Seq(Stores) /\ Len(tuned) = tuningSeq
  BY <1>1, Zenon DEF Init
<1> QED
  BY <1>3, <1>4, <1>5, <1>6 DEF TypeOK

(* One store of a setting that is still to be stored. *)
LEMMA StoredTyped ==
  ASSUME TypeOK, NEW c \in Controllers, NEW s, Stored(c, s)
  PROVE /\ store' \in Stores
        /\ batch' \in [Controllers -> [toggles : BOOLEAN, retunes : BOOLEAN, values : Stores]]
        /\ todo' \in [Controllers -> SUBSET Settings]
        /\ cpc' \in [Controllers -> {"idle", "storing", "toggling", "publishing"}]
<1> USE DEF TypeOK
<1>1. store' \in Stores
  <2>1. CASE s \in Settings
    BY <2>1 DEF Stored, Stores
  <2>2. CASE s \notin Settings
    BY <2>2 DEF Stored, Stores
  <2> QED
    BY <2>1, <2>2
<1>2. batch' \in [Controllers -> [toggles : BOOLEAN, retunes : BOOLEAN, values : Stores]]
  <2> DEFINE b == [batch[c] EXCEPT !.values = [@ EXCEPT ![s] = store[s] + 1]]
  <2>1. batch[c] \in [toggles : BOOLEAN, retunes : BOOLEAN, values : Stores]
    OBVIOUS
  <2>2. [batch[c].values EXCEPT ![s] = store[s] + 1] \in Stores
    <3>1. CASE s \in Settings
      BY <2>1, <3>1 DEF Stores
    <3>2. CASE s \notin Settings
      BY <2>1, <3>2 DEF Stores
    <3> QED
      BY <3>1, <3>2
  <2>3. b \in [toggles : BOOLEAN, retunes : BOOLEAN, values : Stores]
    BY <2>1, <2>2
  <2>4. batch' = [batch EXCEPT ![c] = b]
    BY DEF Stored
  <2> HIDE DEF b
  <2> QED
    BY <2>3, <2>4
<1>3. todo' \in [Controllers -> SUBSET Settings]
  BY DEF Stored
<1>4. cpc' \in [Controllers -> {"idle", "storing", "toggling", "publishing"}]
  BY DEF Stored, NextStore, Goto
<1> QED
  BY <1>1, <1>2, <1>3, <1>4

LEMMA NewGenerationTyped ==
  ASSUME TypeOK, NEW values \in Stores, NewGeneration(values)
  PROVE published' \in Seq(Publications) /\ Len(published') = controlSeq' /\ controlSeq' \in Nat
<1> DEFINE p == [values |-> Newest(PublishedUnder(controlSeq).values, values), tuning |-> tuningSeq]
<1>1. PublishedUnder(controlSeq).values \in Stores
  BY UnderType DEF TypeOK, Publications
<1>2. p \in Publications
  BY <1>1, NewestType DEF TypeOK, Publications
<1>3. published' = Append(published, p) /\ controlSeq' = controlSeq + 1
  BY DEF NewGeneration
<1> HIDE DEF p
<1> QED
  BY <1>2, <1>3 DEF TypeOK

LEMMA ControllerTyped ==
  ASSUME TypeOK, NEW c \in Controllers,
         BeginBatch(c) \/ StoreSetting(c) \/ LoadSwitch(c) \/ Toggle(c) \/ PublishTuning(c) \/ Publish(c)
  PROVE TypeOK'
<1>1. CASE BeginBatch(c)
  <2>1. PICK S \in SUBSET Settings, toggles \in BOOLEAN :
          /\ batch' = [batch EXCEPT ![c] = [NoBatch EXCEPT !.toggles = toggles, !.retunes = S \cap Tuning # {}]]
          /\ todo' = [todo EXCEPT ![c] = S]
          /\ NextStore(c, S)
    BY <1>1 DEF BeginBatch
  <2>2. [NoBatch EXCEPT !.toggles = toggles, !.retunes = S \cap Tuning # {}]
          \in [toggles : BOOLEAN, retunes : BOOLEAN, values : Stores]
    BY SnapshotTypes
  <2>3. batch' \in [Controllers -> [toggles : BOOLEAN, retunes : BOOLEAN, values : Stores]]
    BY <2>1, <2>2 DEF TypeOK
  <2>4. todo' \in [Controllers -> SUBSET Settings]
    BY <2>1 DEF TypeOK
  <2>5. cpc' \in [Controllers -> {"idle", "storing", "toggling", "publishing"}]
    BY <2>1 DEF TypeOK, NextStore, Goto
  <2>6. made' \in 0 .. MaxBatches
    <3>1. MaxBatches \in Nat
      BY BoundAssumption
    <3>2. made < MaxBatches /\ made' = made + 1
      BY <1>1, Zenon DEF BeginBatch
    <3>3. made \in 0 .. MaxBatches
      BY DEF TypeOK
    <3> QED
      BY <3>1, <3>2, <3>3, SMT
  <2> QED
    BY <1>1, <2>3, <2>4, <2>5, <2>6 DEF BeginBatch, TypeOK, header, readers
<1>2. CASE StoreSetting(c)
  <2>1. PICK s : Stored(c, s)
    BY <1>2 DEF StoreSetting
  <2>2. switchedOn' \in BOOLEAN /\ expected' \in BOOLEAN
    BY <1>2 DEF StoreSetting, TypeOK
  <2> QED
    BY <1>2, <2>1, <2>2, StoredTyped DEF StoreSetting, TypeOK, readers
<1>3. CASE LoadSwitch(c)
  BY <1>3 DEF LoadSwitch, Goto, TypeOK, header, readers
<1>4. CASE Toggle(c)
  <2>1. CASE Stored(c, Switch) /\ switchedOn' = ~seen[c] /\ expected' = ~expected /\ UNCHANGED seen
    <3>1. switchedOn' \in BOOLEAN /\ expected' \in BOOLEAN
      BY <2>1, Zenon DEF TypeOK
    <3> QED
      BY <1>4, <2>1, <3>1, StoredTyped DEF Toggle, TypeOK, readers
  <2>2. CASE seen' = [seen EXCEPT ![c] = switchedOn] /\ UNCHANGED <<store, switchedOn, expected, batch, todo, cpc>>
    BY <1>4, <2>2 DEF Toggle, TypeOK, readers
  <2> QED
    BY <1>4, <2>1, <2>2, Zenon DEF Toggle, Exchange
<1>5. CASE PublishTuning(c)
  <2>1. Newest(TunedUnder(tuningSeq), batch[c].values) \in Stores
    BY UnderType, NewestType DEF TypeOK
  <2>2. tuned' \in Seq(Stores) /\ Len(tuned') = tuningSeq' /\ tuningSeq' \in Nat
    BY <1>5, <2>1 DEF PublishTuning, TypeOK
  <2>3. batch' \in [Controllers -> [toggles : BOOLEAN, retunes : BOOLEAN, values : Stores]]
    BY <1>5 DEF PublishTuning, TypeOK
  <2> QED
    BY <1>5, <2>2, <2>3 DEF PublishTuning, TypeOK, readers
<1>6. CASE Publish(c)
  <2>1. batch[c].values \in Stores
    BY DEF TypeOK
  <2>2. published' \in Seq(Publications) /\ Len(published') = controlSeq' /\ controlSeq' \in Nat
    BY <1>6, <2>1, NewGenerationTyped DEF Publish
  <2>3. batch' \in [Controllers -> [toggles : BOOLEAN, retunes : BOOLEAN, values : Stores]]
    BY <1>6, SnapshotTypes DEF Publish, TypeOK
  <2> QED
    BY <1>6, <2>2, <2>3 DEF Publish, Goto, TypeOK, readers
<1> QED
  BY <1>1, <1>2, <1>3, <1>4, <1>5, <1>6

LEMMA ReaderTyped ==
  ASSUME TypeOK, [Claim \/ Reject \/ \E r \in Readers : SampleControl(r) \/ SampleTuning(r) \/ ReadSetting(r) \/ Finish(r)]_vars
  PROVE TypeOK'
<1>1. CASE Claim
  <2>2. published' \in Seq(Publications) /\ Len(published') = controlSeq' /\ controlSeq' \in Nat
    BY <1>1, SnapshotTypes, NewGenerationTyped DEF Claim
  <2>3. traces' \in 0 .. MaxTraces /\ claimed' \in BOOLEAN
    <3>1. MaxTraces \in Nat
      BY BoundAssumption
    <3> QED
      BY <1>1, <3>1, SMT DEF TypeOK, Claim
  <2> QED
    BY <1>1, <2>2, <2>3 DEF Claim, TypeOK, controllers
<1>2. CASE Reject
  BY <1>2, SnapshotTypes DEF Reject, At, TypeOK, header, controllers
<1>3. ASSUME NEW r \in Readers, SampleControl(r) PROVE TypeOK'
  <2>1. SampledControl \in Snapshots
    BY SnapshotTypes DEF SampledControl, TypeOK, Snapshots
  <2> QED
    BY <1>3, <2>1 DEF SampleControl, At, TypeOK, header, controllers
<1>4. ASSUME NEW r \in Readers, SampleTuning(r) PROVE TypeOK'
  BY <1>4 DEF SampleTuning, At, TypeOK, Snapshots, header, controllers
<1>5. ASSUME NEW r \in Readers, ReadSetting(r) PROVE TypeOK'
  <2>1. PICK s \in snap[r].left : snap' = [snap EXCEPT ![r].values[s] = store[s], ![r].left = @ \ {s}]
    BY <1>5 DEF ReadSetting
  <2>2. snap[r] \in Snapshots /\ s \in Settings
    BY <1>5 DEF TypeOK, Snapshots
  <2>3. [snap[r].values EXCEPT ![s] = store[s]] \in Stores
    BY <2>2 DEF TypeOK, Snapshots, Stores
  <2>4. snap' \in [Readers -> Snapshots]
    BY <2>1, <2>2, <2>3 DEF TypeOK, Snapshots
  <2>5. rpc' \in [Readers -> {"idle", "sampling", "reading", "read"}]
    BY <1>5 DEF ReadSetting, At, TypeOK
  <2> QED
    BY <1>5, <2>4, <2>5 DEF ReadSetting, TypeOK, header, controllers
<1>6. ASSUME NEW r \in Readers, Finish(r) PROVE TypeOK'
  <2>1. snap' \in [Readers -> Snapshots] /\ rpc' \in [Readers -> {"idle", "sampling", "reading", "read"}]
    BY <1>6, SnapshotTypes DEF Finish, At, TypeOK
  <2>2. claimed' \in BOOLEAN /\ trace' \in [sampled : Snapshots, end : Nat, disturbed : BOOLEAN]
    <3>1. CASE r = Daemon /\ claimed
      <4>1. claimed' = FALSE /\ trace' = [sampled |-> snap[r], end |-> controlSeq, disturbed |-> disturbed]
        BY <1>6, <3>1, Zenon DEF Finish
      <4>2. snap[r] \in Snapshots /\ controlSeq \in Nat /\ disturbed \in BOOLEAN
        BY DEF TypeOK
      <4> QED
        BY <4>1, <4>2
    <3>2. CASE ~(r = Daemon /\ claimed)
      BY <1>6, <3>2 DEF Finish, TypeOK
    <3> QED
      BY <3>1, <3>2
  <2> QED
    BY <1>6, <2>1, <2>2 DEF Finish, TypeOK, header, controllers
<1>7. CASE UNCHANGED vars
  BY <1>7 DEF TypeOK, vars, header, controllers, readers
<1> QED
  BY <1>1, <1>2, <1>3, <1>4, <1>5, <1>6, <1>7
-----------------------------------------------------------------------------
(* What a step does to stores and generations.                             *)

(* Stores only add up, and what is published stays. *)
Kept ==
  /\ controlSeq <= controlSeq' /\ tuningSeq <= tuningSeq'
  /\ \A i \in 0 .. controlSeq : PublishedUnder(i)' = PublishedUnder(i)
  /\ \A i \in 0 .. tuningSeq : TunedUnder(i)' = TunedUnder(i)
  /\ \A s \in Settings : store[s] <= store'[s]

LEMMA SameKept ==
  ASSUME TypeOK, UNCHANGED <<controlSeq, tuningSeq, published, tuned>>, \A s \in Settings : store[s] <= store'[s]
  PROVE Kept
<1>1. \A i : PublishedUnder(i)' = PublishedUnder(i) /\ TunedUnder(i)' = TunedUnder(i)
  BY Zenon DEF PublishedUnder, TunedUnder
<1> QED
  BY <1>1 DEF Kept, TypeOK

LEMMA StoreKept ==
  ASSUME TypeOK, NEW c \in Controllers, NEW s, Stored(c, s)
  PROVE /\ \A t \in Settings : store[t] \in Nat /\ store'[t] \in Nat /\ store[t] <= store'[t]
        /\ \A d \in Controllers, t \in Settings :
             batch'[d].values[t] = batch[d].values[t] \/ batch'[d].values[t] = store'[t]
<1>1. store \in Stores /\ batch \in [Controllers -> [toggles : BOOLEAN, retunes : BOOLEAN, values : Stores]]
  BY DEF TypeOK
<1>2. store' = [store EXCEPT ![s] = @ + 1] /\ batch' = [batch EXCEPT ![c].values[s] = store[s] + 1]
  BY DEF Stored
<1>3. \A t \in Settings : store[t] \in Nat /\ store'[t] = IF t = s THEN store[t] + 1 ELSE store[t]
  BY <1>1, <1>2 DEF Stores
<1>4. \A d \in Controllers, t \in Settings :
        batch'[d].values[t] = IF d = c /\ t = s THEN store[s] + 1 ELSE batch[d].values[t]
  BY <1>1, <1>2 DEF Stores
<1> QED
  BY <1>3, <1>4

LEMMA GenerationKept ==
  ASSUME TypeOK, NothingAhead, NEW values \in Stores, Made(values), NewGeneration(values)
  PROVE /\ controlSeq' = controlSeq + 1
        /\ \A i \in 0 .. controlSeq : PublishedUnder(i)' = PublishedUnder(i)
        /\ \A i \in 1 .. controlSeq : published'[i] = published[i]
        /\ Made(published'[controlSeq + 1].values) /\ published'[controlSeq + 1].tuning = tuningSeq
<1> DEFINE old == PublishedUnder(controlSeq).values
           p == [values |-> Newest(old, values), tuning |-> tuningSeq]
<1>1. published' = Append(published, p) /\ controlSeq' = controlSeq + 1
  BY DEF NewGeneration
<1>2. published \in Seq(Publications) /\ Len(published) = controlSeq /\ controlSeq \in Nat
  BY DEF TypeOK
<1>3. old \in Stores /\ Made(old)
  <2>1. old \in Stores
    BY <1>2, UnderType DEF Publications
  <2>2. CASE controlSeq = 0
    BY <2>2 DEF PublishedUnder, Made, NoStores, TypeOK, Stores
  <2>3. CASE controlSeq # 0
    BY <1>2, <2>1, <2>3 DEF PublishedUnder, NothingAhead
  <2> QED
    BY <2>1, <2>2, <2>3
<1>4. Made(p.values) /\ p.tuning = tuningSeq
  <2> HIDE DEF old
  <2>1. \A s \in Settings : Newest(old, values)[s] = old[s] \/ Newest(old, values)[s] = values[s]
    BY <1>3, NewestType
  <2> QED
    BY <1>3, <2>1 DEF Made
<1> HIDE DEF p
<1>5. published'[controlSeq + 1] = p /\ \A i \in 1 .. controlSeq : published'[i] = published[i]
  BY <1>1, <1>2
<1>6. \A i \in 0 .. controlSeq : PublishedUnder(i)' = PublishedUnder(i)
  BY <1>2, <1>5 DEF PublishedUnder
<1> QED
  BY <1>1, <1>4, <1>5, <1>6

LEMMA PublishKeeps ==
  ASSUME TypeOK, NothingAhead, NEW values \in Stores, Made(values), NewGeneration(values),
         UNCHANGED <<store, tuningSeq, tuned>>, \A d \in Controllers : Made(batch'[d].values)
  PROVE Kept /\ NothingAhead'
<1>1. controlSeq \in Nat /\ tuningSeq \in Nat /\ store \in Stores
  BY DEF TypeOK
<1>2. /\ controlSeq' = controlSeq + 1
      /\ \A i \in 0 .. controlSeq : PublishedUnder(i)' = PublishedUnder(i)
      /\ \A i \in 1 .. controlSeq : published'[i] = published[i]
      /\ Made(published'[controlSeq + 1].values) /\ published'[controlSeq + 1].tuning = tuningSeq
  BY GenerationKept
<1>3. \A i : TunedUnder(i)' = TunedUnder(i)
  BY Zenon DEF TunedUnder
<1>4. Kept
  BY <1>1, <1>2, <1>3 DEF Kept, Stores
<1>5. \A i \in 1 .. controlSeq' : Made(published'[i].values) /\ published'[i].tuning <= tuningSeq
  BY <1>1, <1>2 DEF NothingAhead
<1> QED
  BY <1>4, <1>5 DEF NothingAhead, Made

LEMMA TuningKept ==
  ASSUME TypeOK, NothingAhead, NEW values \in Stores, Made(values),
         tuningSeq' = tuningSeq + 1, tuned' = Append(tuned, Newest(TunedUnder(tuningSeq), values))
  PROVE /\ \A i \in 0 .. tuningSeq : TunedUnder(i)' = TunedUnder(i)
        /\ \A i \in 1 .. tuningSeq : tuned'[i] = tuned[i]
        /\ Made(tuned'[tuningSeq + 1])
<1> DEFINE old == TunedUnder(tuningSeq)
           p == Newest(old, values)
<1>1. tuned \in Seq(Stores) /\ Len(tuned) = tuningSeq /\ tuningSeq \in Nat
  BY DEF TypeOK
<1>2. old \in Stores /\ Made(old)
  <2>1. old \in Stores
    BY <1>1, UnderType
  <2>2. CASE tuningSeq = 0
    BY <2>2 DEF TunedUnder, Made, NoStores, TypeOK, Stores
  <2>3. CASE tuningSeq # 0
    BY <1>1, <2>3 DEF TunedUnder, NothingAhead
  <2> QED
    BY <2>1, <2>2, <2>3
<1>3. p \in Stores /\ Made(p)
  <2> HIDE DEF old
  <2>1. \A s \in Settings : p[s] = old[s] \/ p[s] = values[s]
    BY <1>2, NewestType
  <2> QED
    BY <1>2, <2>1, NewestType DEF Made
<1>6. tuned' = Append(tuned, p)
  OBVIOUS
<1> HIDE DEF p
<1>4. tuned'[tuningSeq + 1] = p /\ \A i \in 1 .. tuningSeq : tuned'[i] = tuned[i]
  BY <1>1, <1>3, <1>6
<1>5. \A i \in 0 .. tuningSeq : TunedUnder(i)' = TunedUnder(i)
  BY <1>1, <1>4 DEF TunedUnder
<1> QED
  BY <1>3, <1>4, <1>5

(* A controller's batch keeps what is published behind what is stored. *)
LEMMA ControllerKeeps ==
  ASSUME TypeOK, TypeOK', NothingAhead, NEW c \in Controllers,
         BeginBatch(c) \/ StoreSetting(c) \/ LoadSwitch(c) \/ Toggle(c) \/ PublishTuning(c) \/ Publish(c)
  PROVE Kept /\ NothingAhead'
<1>0. /\ store \in Stores /\ controlSeq \in Nat /\ tuningSeq \in Nat
      /\ \A d \in Controllers : batch[d].values \in Stores /\ Made(batch[d].values)
  BY DEF TypeOK, NothingAhead
<1>1. ASSUME UNCHANGED <<store, controlSeq, tuningSeq, published, tuned>>,
             \A d \in Controllers : batch'[d].values = batch[d].values \/ batch'[d].values = NoStores
      PROVE Kept /\ NothingAhead'
  <2>1. Kept
    BY <1>0, <1>1, SameKept DEF Stores
  <2>2. Made(NoStores)
    BY <1>0 DEF Made, NoStores, Stores
  <2>3. \A d \in Controllers : Made(batch'[d].values)
    BY <1>0, <1>1, <2>2
  <2> QED
    BY <1>1, <2>1, <2>3 DEF NothingAhead, Made
<1>2. ASSUME NEW s, Stored(c, s), UNCHANGED <<controlSeq, tuningSeq, published, tuned>>
      PROVE Kept /\ NothingAhead'
  <2>1. /\ \A t \in Settings : store[t] \in Nat /\ store'[t] \in Nat /\ store[t] <= store'[t]
        /\ \A d \in Controllers, t \in Settings :
             batch'[d].values[t] = batch[d].values[t] \/ batch'[d].values[t] = store'[t]
    BY <1>2, StoreKept
  <2>2. \A values \in Stores : Made(values) => \A t \in Settings : values[t] <= store'[t]
    BY <2>1 DEF Made, Stores
  <2>3. \A d \in Controllers, t \in Settings : batch'[d].values[t] <= store'[t]
    BY <1>0, <2>1, <2>2
  <2>4. \A i \in 1 .. controlSeq : published[i].values \in Stores
    <3>1. \A i \in 1 .. controlSeq : published[i] \in Publications
      BY PublicationType
    <3> QED
      BY <3>1 DEF Publications
  <2>5. \A i \in 1 .. tuningSeq : tuned[i] \in Stores
    BY DEF TypeOK
  <2>6. /\ \A i \in 1 .. controlSeq : \A t \in Settings : published[i].values[t] <= store'[t]
        /\ \A i \in 1 .. tuningSeq : \A t \in Settings : tuned[i][t] <= store'[t]
    BY <2>2, <2>4, <2>5 DEF NothingAhead
  <2>7. NothingAhead'
    BY <1>2, <2>3, <2>6 DEF NothingAhead, Made
  <2> QED
    BY <1>2, <2>1, <2>7, SameKept
<1>3. CASE BeginBatch(c)
  <2>1. PICK S \in SUBSET Settings, toggles \in BOOLEAN :
          batch' = [batch EXCEPT ![c] = [NoBatch EXCEPT !.toggles = toggles, !.retunes = S \cap Tuning # {}]]
    BY <1>3 DEF BeginBatch
  <2>2. \A d \in Controllers : batch'[d].values = batch[d].values \/ batch'[d].values = NoStores
    BY <2>1 DEF TypeOK, NoBatch
  <2> QED
    BY <1>1, <1>3, <2>2 DEF BeginBatch, header
<1>4. CASE StoreSetting(c)
  BY <1>2, <1>4 DEF StoreSetting
<1>5. CASE LoadSwitch(c)
  BY <1>1, <1>5 DEF LoadSwitch, header
<1>6. CASE Toggle(c)
  <2>1. CASE Stored(c, Switch)
    BY <1>2, <1>6, <2>1 DEF Toggle
  <2>2. CASE UNCHANGED <<store, batch>>
    BY <1>1, <1>6, <2>2 DEF Toggle
  <2> QED
    BY <1>6, <2>1, <2>2, Zenon DEF Toggle, Exchange
<1>7. CASE PublishTuning(c)
  <2>1. /\ tuningSeq' = tuningSeq + 1
        /\ tuned' = Append(tuned, Newest(TunedUnder(tuningSeq), batch[c].values))
        /\ batch' = [batch EXCEPT ![c].retunes = FALSE]
        /\ UNCHANGED <<store, controlSeq, published>>
    BY <1>7 DEF PublishTuning
  <2>2. /\ \A i \in 0 .. tuningSeq : TunedUnder(i)' = TunedUnder(i)
        /\ \A i \in 1 .. tuningSeq : tuned'[i] = tuned[i]
        /\ Made(tuned'[tuningSeq + 1])
    BY <1>0, <2>1, TuningKept
  <2>3. \A i \in 0 .. controlSeq : PublishedUnder(i)' = PublishedUnder(i)
    BY <2>1, Zenon DEF PublishedUnder
  <2>4. Kept
    BY <1>0, <2>1, <2>2, <2>3 DEF Kept, Stores
  <2>5. \A d \in Controllers : batch'[d].values = batch[d].values
    BY <2>1 DEF TypeOK
  <2>6. \A i \in 1 .. tuningSeq' : Made(tuned'[i])
    <3>1. \A i \in 1 .. tuningSeq : Made(tuned'[i])
      BY <2>2 DEF NothingAhead
    <3>2. \A i \in 1 .. tuningSeq' : i \in 1 .. tuningSeq \/ i = tuningSeq + 1
      BY <1>0, <2>1
    <3> QED
      BY <2>2, <3>1, <3>2
  <2>7. \A i \in 1 .. controlSeq : published[i].tuning <= tuningSeq'
    <3>1. \A i \in 1 .. controlSeq : published[i].tuning \in Nat /\ published[i].tuning <= tuningSeq
      BY PublicationType DEF NothingAhead, Publications
    <3> QED
      BY <1>0, <2>1, <3>1
  <2> QED
    BY <1>0, <2>1, <2>4, <2>5, <2>6, <2>7 DEF NothingAhead, Made
<1>8. CASE Publish(c)
  <2>1. NewGeneration(batch[c].values) /\ batch' = [batch EXCEPT ![c] = NoBatch] /\ UNCHANGED <<store, tuningSeq, tuned>>
    BY <1>8 DEF Publish
  <2>2. \A d \in Controllers : batch'[d].values = batch[d].values \/ batch'[d].values = NoStores
    BY <2>1 DEF TypeOK, NoBatch
  <2>3. Made(NoStores)
    BY <1>0 DEF Made, NoStores, Stores
  <2>4. \A d \in Controllers : Made(batch'[d].values)
    BY <1>0, <2>2, <2>3
  <2> QED
    BY <1>0, <2>1, <2>4, PublishKeeps
<1> QED
  BY <1>3, <1>4, <1>5, <1>6, <1>7, <1>8

-----------------------------------------------------------------------------
(* Snapshots.                                                              *)

(* What was vouched for stays so. *)
LEMMA VouchedStays ==
  ASSUME TypeOK, TypeOK', Kept, NEW v \in Snapshots, Vouched(v)
  PROVE Vouched(v)'
<1>1. /\ controlSeq \in Nat /\ tuningSeq \in Nat /\ controlSeq' \in Nat /\ tuningSeq' \in Nat
      /\ v.control \in Nat /\ v.tuning \in Nat
  BY DEF TypeOK, Snapshots
<1>2. v.control <= controlSeq /\ v.tuning <= tuningSeq
  BY DEF Vouched
<1>3. v.control \in 0 .. controlSeq /\ v.tuning \in 0 .. tuningSeq
  BY <1>1, <1>2
<1>4. v.control <= controlSeq' /\ v.tuning <= tuningSeq'
  BY <1>1, <1>2 DEF Kept
<1>5. PublishedUnder(v.control)' = PublishedUnder(v.control) /\ TunedUnder(v.tuning)' = TunedUnder(v.tuning)
  BY <1>3, Zenon DEF Kept
<1> QED
  BY <1>4, <1>5 DEF Vouched

LEMMA SnapsStay ==
  ASSUME TypeOK, TypeOK', Kept, Snapped, UNCHANGED <<rpc, snap, trace>>
  PROVE Snapped'
<1>1. controlSeq \in Nat /\ controlSeq' \in Nat /\ controlSeq <= controlSeq'
  BY DEF TypeOK, Kept
<1>2. ASSUME NEW r \in Readers, rpc[r] \in {"reading", "read"}
      PROVE Vouched(snap[r])'
  <2>1. PICK v \in Snapshots : v = snap[r]
    BY DEF TypeOK
  <2>2. Vouched(v)'
    BY <1>2, <2>1, VouchedStays DEF Snapped
  <2>3. v = snap'[r]
    BY <2>1
  <2> QED
    BY <2>2, <2>3 DEF Vouched
<1>3. Vouched(trace.sampled)'
  <2>1. PICK v \in Snapshots : v = trace.sampled
    BY DEF TypeOK
  <2>2. Vouched(v)'
    BY <2>1, VouchedStays DEF Snapped
  <2>3. v = trace'.sampled
    BY <2>1
  <2> QED
    BY <2>2, <2>3 DEF Vouched
<1>4. ASSUME NEW r \in Readers, rpc[r] = "sampling"
      PROVE snap[r].control <= controlSeq'
  BY <1>1, <1>4 DEF Snapped, TypeOK, Snapshots
<1> QED
  BY <1>2, <1>3, <1>4 DEF Snapped

LEMMA ControllerInductive ==
  ASSUME TypeOK, TypeOK', IInv, NEW c \in Controllers,
         BeginBatch(c) \/ StoreSetting(c) \/ LoadSwitch(c) \/ Toggle(c) \/ PublishTuning(c) \/ Publish(c)
  PROVE IInv'
<1>1. Kept /\ NothingAhead'
  BY ControllerKeeps DEF IInv
<1>2. UNCHANGED readers
  BY DEF BeginBatch, StoreSetting, LoadSwitch, Toggle, PublishTuning, Publish
<1>3. Snapped'
  BY <1>1, <1>2, SnapsStay DEF IInv, readers
<1>4. NoToggleLost'
  <2>1. CASE BeginBatch(c) \/ LoadSwitch(c) \/ PublishTuning(c) \/ Publish(c)
    BY <2>1 DEF BeginBatch, LoadSwitch, PublishTuning, Publish, IInv, NoToggleLost, header
  <2>2. CASE StoreSetting(c)
    BY <2>2 DEF StoreSetting, IInv, NoToggleLost
  <2>3. CASE Toggle(c)
    <3>1. switchedOn \in BOOLEAN /\ seen[c] \in BOOLEAN /\ switchedOn = expected
      BY DEF TypeOK, IInv, NoToggleLost
    <3>2. (switchedOn = seen[c] /\ switchedOn' = ~seen[c] /\ expected' = ~expected) \/ UNCHANGED <<switchedOn, expected>>
      BY <2>3, Zenon DEF Toggle, Exchange
    <3>3. CASE UNCHANGED <<switchedOn, expected>>
      BY <3>1, <3>3 DEF NoToggleLost
    <3>4. CASE switchedOn = seen[c] /\ switchedOn' = ~seen[c] /\ expected' = ~expected
      <4>1. (~seen[c]) = (~expected)
        <5>1. seen[c] = expected
          BY <3>1, <3>4
        <5> QED
          BY <5>1
      <4> QED
        BY <3>4, <4>1, Zenon DEF NoToggleLost
    <3> QED
      BY <3>2, <3>3, <3>4
  <2> QED
    BY <2>1, <2>2, <2>3
<1>5. Undisturbed'
  <2>1. CASE Publish(c)
    BY <2>1 DEF Publish, Undisturbed
  <2>2. CASE ~Publish(c)
    <3>1. UNCHANGED <<controlSeq, disturbed>>
      BY <2>2 DEF BeginBatch, StoreSetting, LoadSwitch, Toggle, PublishTuning, header
    <3> QED
      BY <1>2, <3>1 DEF IInv, Undisturbed, readers
  <2> QED
    BY <2>1, <2>2
<1>6. UndisturbedTraceAgrees'
  BY <1>2 DEF IInv, UndisturbedTraceAgrees, readers
<1> QED
  BY <1>1, <1>3, <1>4, <1>5, <1>6 DEF IInv

(* A generation of the daemon's own leaves every snapshot as it is. *)
LEMMA ClaimInductive ==
  ASSUME TypeOK, TypeOK', IInv, Claim
  PROVE IInv'
<1>1. /\ NewGeneration(NoStores) /\ rpc[Daemon] = "idle"
      /\ UNCHANGED <<store, tuningSeq, tuned, batch, rpc, snap, trace, switchedOn, expected>>
  BY DEF Claim, controllers
<1>2. Made(NoStores)
  BY DEF Made, NoStores, TypeOK, Stores
<1>3. \A d \in Controllers : Made(batch'[d].values)
  BY <1>1 DEF IInv, NothingAhead
<1>4. Kept /\ NothingAhead'
  BY <1>1, <1>2, <1>3, SnapshotTypes, PublishKeeps DEF IInv
<1>5. Snapped'
  BY <1>1, <1>4, SnapsStay DEF IInv
<1> QED
  BY <1>1, <1>4, <1>5 DEF IInv, NoToggleLost, Undisturbed, UndisturbedTraceAgrees

(* What a reader's step leaves alone. *)
LEMMA ReadingLeaves ==
  ASSUME TypeOK, TypeOK', IInv, UNCHANGED <<header, controllers, published>>
  PROVE /\ Kept /\ NothingAhead' /\ NoToggleLost'
        /\ \A q \in Readers : snap'[q] = snap[q] /\ Vouched(snap[q]) => Vouched(snap[q])'
        /\ UNCHANGED trace => Vouched(trace.sampled)' /\ trace'.sampled.left = {}
<1>1. \A s \in Settings : store[s] \in Nat /\ store'[s] = store[s]
  BY DEF header, TypeOK, Stores
<1>2. Kept
  BY <1>1, SameKept DEF header, controllers
<1>3. NothingAhead' /\ NoToggleLost'
  BY DEF IInv, NothingAhead, Made, NoToggleLost, header, controllers
<1>4. ASSUME NEW q \in Readers, snap'[q] = snap[q], Vouched(snap[q])
      PROVE Vouched(snap[q])'
  BY <1>4 DEF Vouched, PublishedUnder, TunedUnder, header, controllers
<1>5. ASSUME UNCHANGED trace
      PROVE Vouched(trace.sampled)' /\ trace'.sampled.left = {}
  BY <1>5 DEF IInv, Snapped, Vouched, PublishedUnder, TunedUnder, header, controllers
<1> QED
  BY <1>2, <1>3, <1>4, <1>5

(* Settings read after the generations are no older than these. *)
LEMMA ReadIsVouched ==
  ASSUME TypeOK, NothingAhead, NEW v \in Snapshots, v.control <= controlSeq, v.tuning <= tuningSeq, NEW s \in Settings
  PROVE store[s] >= PublishedUnder(v.control).values[s] /\ store[s] >= TunedUnder(v.tuning)[s]
<1>1. controlSeq \in Nat /\ tuningSeq \in Nat /\ v.control \in Nat /\ v.tuning \in Nat /\ store[s] \in Nat
  BY DEF TypeOK, Snapshots, Stores
<1>2. PublishedUnder(v.control).values[s] <= store[s]
  BY <1>1 DEF PublishedUnder, NothingAhead, Made, NoStores
<1>3. TunedUnder(v.tuning)[s] <= store[s]
  BY <1>1 DEF TunedUnder, NothingAhead, Made, NoStores
<1> QED
  BY <1>2, <1>3

LEMMA SampleControlInductive ==
  ASSUME TypeOK, TypeOK', IInv, NEW r \in Readers, SampleControl(r)
  PROVE IInv'
<1>1. /\ rpc[r] = "idle" /\ rpc' = [rpc EXCEPT ![r] = "sampling"]
      /\ snap' = [snap EXCEPT ![r] = SampledControl] /\ disturbed' = (disturbed /\ r # Daemon)
      /\ UNCHANGED <<header, controllers, published, trace>>
  BY DEF SampleControl, At
<1>2. /\ Kept /\ NothingAhead' /\ NoToggleLost'
      /\ \A q \in Readers : snap'[q] = snap[q] /\ Vouched(snap[q]) => Vouched(snap[q])'
      /\ Vouched(trace.sampled)' /\ trace'.sampled.left = {}
  BY <1>1, ReadingLeaves
<1>3. SampledControl.control = controlSeq /\ SampledControl.left = Settings
  BY DEF SampledControl, NoSnapshot
<1>4. Snapped'
  BY <1>1, <1>2, <1>3 DEF IInv, Snapped, TypeOK, header
<1>5. Undisturbed'
  BY <1>1, <1>3, ReaderAssumption DEF IInv, Undisturbed, TypeOK, header
<1>6. UndisturbedTraceAgrees'
  BY <1>1 DEF IInv, UndisturbedTraceAgrees
<1> QED
  BY <1>2, <1>4, <1>5, <1>6 DEF IInv

LEMMA SampleTuningInductive ==
  ASSUME TypeOK, TypeOK', IInv, NEW r \in Readers, SampleTuning(r)
  PROVE IInv'
<1> DEFINE v == [snap[r] EXCEPT !.tuning = tuningSeq]
<1>1. /\ rpc[r] = "sampling" /\ rpc' = [rpc EXCEPT ![r] = "reading"] /\ snap' = [snap EXCEPT ![r] = v]
      /\ UNCHANGED <<header, controllers, published, trace, disturbed>>
  BY DEF SampleTuning, At
<1>2. /\ Kept /\ NothingAhead' /\ NoToggleLost'
      /\ \A q \in Readers : snap'[q] = snap[q] /\ Vouched(snap[q]) => Vouched(snap[q])'
      /\ Vouched(trace.sampled)' /\ trace'.sampled.left = {}
  BY <1>1, ReadingLeaves
<1>3. snap[r] \in Snapshots /\ snap[r].control <= controlSeq /\ snap[r].left = Settings
  BY <1>1 DEF IInv, Snapped, TypeOK
<1>4. /\ v.control = snap[r].control /\ v.tuning = tuningSeq /\ v.left = Settings /\ snap'[r] = v
      /\ \A q \in Readers \ {r} : snap'[q] = snap[q] /\ rpc'[q] = rpc[q]
      /\ rpc'[r] = "reading"
  BY <1>1, <1>3 DEF TypeOK, Snapshots
<1> HIDE DEF v
<1>5. tuningSeq >= PublishedUnder(v.control).tuning
  <2>1. tuningSeq \in Nat /\ controlSeq \in Nat /\ v.control \in Nat /\ v.control <= controlSeq
    BY <1>3, <1>4 DEF TypeOK, Snapshots
  <2>2. CASE v.control = 0
    BY <2>1, <2>2 DEF PublishedUnder
  <2>3. CASE v.control \in 1 .. controlSeq
    <3>1. published[v.control].tuning \in Nat /\ published[v.control].tuning <= tuningSeq
      BY <2>3, PublicationType DEF IInv, NothingAhead, Publications
    <3> QED
      BY <2>1, <2>3, <3>1 DEF PublishedUnder
  <2> QED
    BY <2>1, <2>2, <2>3
<1>6. Vouched(snap[r])'
  BY <1>1, <1>3, <1>4, <1>5 DEF Vouched, PublishedUnder, header, TypeOK
<1>7. Snapped'
  BY <1>1, <1>2, <1>4, <1>6 DEF IInv, Snapped, header
<1>8. Undisturbed'
  BY <1>1, <1>4, ReaderAssumption DEF IInv, Undisturbed, header
<1> QED
  BY <1>1, <1>2, <1>7, <1>8 DEF IInv, UndisturbedTraceAgrees

LEMMA ReadSettingInductive ==
  ASSUME TypeOK, TypeOK', IInv, NEW r \in Readers, ReadSetting(r)
  PROVE IInv'
<1>1. PICK s \in snap[r].left :
        /\ At(r, "reading", IF snap[r].left = {s} THEN "read" ELSE "reading")
        /\ snap' = [snap EXCEPT ![r].values[s] = store[s], ![r].left = @ \ {s}]
  BY DEF ReadSetting
<1>2. UNCHANGED <<header, controllers, published, trace, disturbed>>
  BY DEF ReadSetting
<1>3. /\ Kept /\ NothingAhead' /\ NoToggleLost'
      /\ \A q \in Readers : snap'[q] = snap[q] /\ Vouched(snap[q]) => Vouched(snap[q])'
      /\ Vouched(trace.sampled)' /\ trace'.sampled.left = {}
  BY <1>2, ReadingLeaves
<1>4. /\ snap[r] \in Snapshots /\ s \in Settings /\ Vouched(snap[r])
  BY <1>1 DEF IInv, Snapped, TypeOK, Snapshots, At
<1>5. /\ snap'[r].control = snap[r].control /\ snap'[r].tuning = snap[r].tuning
      /\ snap'[r].left = snap[r].left \ {s}
      /\ \A t \in Settings : snap'[r].values[t] = IF t = s THEN store[s] ELSE snap[r].values[t]
      /\ \A q \in Readers \ {r} : snap'[q] = snap[q]
  <2>1. snap \in [Readers -> Snapshots] /\ snap[r].values \in [Settings -> Nat]
    BY <1>4 DEF TypeOK, Snapshots, Stores
  <2>2. \A q \in Readers \ {r} : snap'[q] = snap[q]
    BY <1>1, <2>1
  <2>3. /\ snap'[r].control = snap[r].control /\ snap'[r].tuning = snap[r].tuning
        /\ snap'[r].left = snap[r].left \ {s}
    BY <1>1, <2>1, SMTT(60)
  <2>4. \A t \in Settings : snap'[r].values[t] = IF t = s THEN store[s] ELSE snap[r].values[t]
    BY <1>1, <2>1, SMTT(60)
  <2> QED
    BY <2>2, <2>3, <2>4
<1>6. /\ \A q \in Readers \ {r} : rpc'[q] = rpc[q]
      /\ rpc[r] = "reading" /\ rpc'[r] \in {"reading", "read"} /\ (rpc'[r] = "read" => snap[r].left = {s})
  BY <1>1 DEF At, TypeOK
<1>7. store[s] >= PublishedUnder(snap[r].control).values[s] /\ store[s] >= TunedUnder(snap[r].tuning)[s]
  BY <1>4, ReadIsVouched DEF IInv, Vouched
<1>8. Vouched(snap[r])'
  <2>1. \A t \in Settings \ snap'[r].left :
          /\ snap'[r].values[t] >= PublishedUnder(snap[r].control).values[t]
          /\ snap'[r].values[t] >= TunedUnder(snap[r].tuning)[t]
    BY <1>4, <1>5, <1>7 DEF Vouched
  <2> QED
    BY <1>2, <1>4, <1>5, <2>1 DEF Vouched, PublishedUnder, TunedUnder, header, controllers
<1>9. Snapped'
  BY <1>2, <1>3, <1>5, <1>6, <1>8 DEF IInv, Snapped, header
<1>10. Undisturbed'
  BY <1>2, <1>5, <1>6, ReaderAssumption DEF IInv, Undisturbed, header
<1> QED
  BY <1>2, <1>3, <1>9, <1>10 DEF IInv, UndisturbedTraceAgrees

LEMMA EndInductive ==
  ASSUME TypeOK, TypeOK', IInv, NEW r \in Readers, Finish(r) \/ (Reject /\ r = Daemon)
  PROVE IInv'
<1>1. /\ rpc[r] \in {"reading", "read"} /\ rpc' = [rpc EXCEPT ![r] = "idle"] /\ snap' = [snap EXCEPT ![r] = NoSnapshot]
      /\ UNCHANGED <<header, controllers, published, disturbed>>
  BY DEF Finish, Reject, At
<1>2. /\ Kept /\ NothingAhead' /\ NoToggleLost'
      /\ \A q \in Readers : snap'[q] = snap[q] /\ Vouched(snap[q]) => Vouched(snap[q])'
      /\ UNCHANGED trace => Vouched(trace.sampled)' /\ trace'.sampled.left = {}
  BY <1>1, ReadingLeaves
<1>3. /\ \A q \in Readers \ {r} : snap'[q] = snap[q] /\ rpc'[q] = rpc[q]
      /\ rpc'[r] = "idle"
  BY <1>1 DEF TypeOK
<1>4. CASE UNCHANGED trace
  BY <1>1, <1>2, <1>3, <1>4, ReaderAssumption DEF IInv, Snapped, Undisturbed, UndisturbedTraceAgrees, header
<1>5. CASE /\ r = Daemon /\ rpc[r] = "read"
           /\ trace' = [sampled |-> snap[r], end |-> controlSeq, disturbed |-> disturbed]
  <2>1. trace'.sampled = snap[r] /\ trace'.end = controlSeq /\ trace'.disturbed = disturbed
    BY <1>5
  <2>2. Vouched(snap[r]) /\ snap[r].left = {} /\ (~disturbed => snap[r].control = controlSeq)
    BY <1>5 DEF IInv, Snapped, Undisturbed
  <2>3. Vouched(trace.sampled)' /\ trace'.sampled.left = {}
    BY <1>1, <2>1, <2>2 DEF Vouched, PublishedUnder, TunedUnder, header, controllers
  <2>4. Snapped' /\ Undisturbed'
    BY <1>1, <1>2, <1>3, <1>5, <2>3 DEF IInv, Snapped, Undisturbed, header
  <2>5. UndisturbedTraceAgrees'
    BY <2>1, <2>2 DEF UndisturbedTraceAgrees
  <2> QED
    BY <1>2, <2>4, <2>5 DEF IInv
<1> QED
  BY <1>4, <1>5 DEF Finish, Reject, At

-----------------------------------------------------------------------------
(* Every variable keeps its type. *)
THEOREM TypeCorrect == Spec => []TypeOK
<1>1. TypeOK /\ [Next]_vars => TypeOK'
  BY ControllerTyped, ReaderTyped DEF Next
<1> QED
  BY <1>1, InitTyped, PTL DEF Spec

(* The invariant is inductive: what is published is stored, what is read is
   vouched for, and an undisturbed request has the last generation. *)
THEOREM Invariance == Spec => [](TypeOK /\ IInv)
<1>1. Init => TypeOK /\ IInv
  <2> SUFFICES ASSUME Init PROVE TypeOK /\ IInv
    OBVIOUS
  <2>1. NothingAhead
    BY DEF Init, NothingAhead, Made, NoBatch, NoStores
  <2>2. Snapped
    BY DEF Init, Snapped, Vouched, PublishedUnder, TunedUnder, NoTrace, NoSnapshot, NoStores
  <2>3. NoToggleLost /\ Undisturbed /\ UndisturbedTraceAgrees
    BY ReaderAssumption DEF Init, NoToggleLost, Undisturbed, UndisturbedTraceAgrees, NoTrace, NoSnapshot
  <2> QED
    BY <2>1, <2>2, <2>3, InitTyped DEF IInv
<1>2. TypeOK /\ IInv /\ [Next]_vars => TypeOK' /\ IInv'
  <2> SUFFICES ASSUME TypeOK, IInv, [Next]_vars PROVE TypeOK' /\ IInv'
    OBVIOUS
  <2>1. TypeOK'
    BY ControllerTyped, ReaderTyped DEF Next
  <2>2. CASE \E c \in Controllers :
               BeginBatch(c) \/ StoreSetting(c) \/ LoadSwitch(c) \/ Toggle(c) \/ PublishTuning(c) \/ Publish(c)
    BY <2>1, <2>2, ControllerInductive
  <2>3. CASE Claim
    BY <2>1, <2>3, ClaimInductive
  <2>4. CASE Reject
    BY <2>1, <2>4, EndInductive, ReaderAssumption
  <2>5. CASE \E r \in Readers : SampleControl(r) \/ SampleTuning(r) \/ ReadSetting(r) \/ Finish(r)
    BY <2>1, <2>5, SampleControlInductive, SampleTuningInductive, ReadSettingInductive, EndInductive
  <2>6. CASE UNCHANGED vars
    BY <2>1, <2>6 DEF vars, header, controllers, readers, IInv, NothingAhead, Made, Snapped, Vouched,
                      PublishedUnder, TunedUnder, NoToggleLost, Undisturbed, UndisturbedTraceAgrees
  <2> QED
    BY <2>2, <2>3, <2>4, <2>5, <2>6 DEF Next
<1> QED
  BY <1>1, <1>2, PTL DEF Spec

(* A generation vouches for the settings recorded with it, for any controllers. *)
THEOREM GenerationsAreHonest == Spec => []GenerationsVouch
<1>1. TypeOK /\ IInv => GenerationsVouch
  <2> SUFFICES ASSUME TypeOK, IInv, NEW v \in Sampled
               PROVE /\ v.tuning >= PublishedUnder(v.control).tuning
                     /\ \A s \in Settings : v.values[s] >= PublishedUnder(v.control).values[s]
                     /\ \A s \in Tuning : v.values[s] >= TunedUnder(v.tuning)[s]
    BY DEF GenerationsVouch
  <2>1. Vouched(v) /\ v.left = {}
    BY DEF Sampled, IInv, Snapped
  <2> QED
    BY <2>1, SettingAssumption DEF Vouched
<1> QED
  BY <1>1, Invariance, PTL

(* Toggles of one switch add up, for any controllers. *)
THEOREM TogglesAddUp == Spec => []NoToggleLost
<1>1. TypeOK /\ IInv => NoToggleLost
  BY DEF IInv
<1> QED
  BY <1>1, Invariance, PTL

(* A trace that no controller disturbed names one generation at both its ends. *)
THEOREM TracesAgree == Spec => []UndisturbedTraceAgrees
<1>1. TypeOK /\ IInv => UndisturbedTraceAgrees
  BY DEF IInv
<1> QED
  BY <1>1, Invariance, PTL
=============================================================================
