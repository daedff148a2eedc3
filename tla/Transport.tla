----------------------------- MODULE Transport -----------------------------
(***************************************************************************)
(* Device-local transport: a layer's composition exports a pair of buffers *)
(* in video memory and offers it to the daemon under a fresh generation,   *)
(* over a socket beside the frame channel; the daemon imports the pair in  *)
(* one of a few slots and answers.  From then on requests name the         *)
(* generation, and the frame never leaves video memory.  A request that    *)
(* names what the daemon does not hold is a miss, after which the layer    *)
(* offers again.  The channel itself is FrameChannel's: here it is one     *)
(* request and what became of it.                                          *)
(***************************************************************************)
EXTENDS Naturals, Sequences

CONSTANTS
  Layers,          \* game devices that loaded the layer
  NumSlots,        \* kSlots, the pairs a daemon holds at a time
  SocketHeld,      \* the service manager holds the socket, not the daemon
  RebuildsForTier, \* E::rebuilds_for_tier: a tier change forgets the imports
  MaxOffers,       \* bound: offers made, and the generations they draw
  MaxPairs,        \* bound: pairs of buffers ever exported
  MaxFaults        \* bound: daemon ends and tier changes

NoLayer == "none"

ASSUME LayerAssumption == NoLayer \notin Layers
ASSUME SlotAssumption == NumSlots \in Nat \ {0}
ASSUME BoundAssumption == MaxOffers \in Nat /\ MaxPairs \in Nat /\ MaxFaults \in Nat
ASSUME OptionAssumption == SocketHeld \in BOOLEAN /\ RebuildsForTier \in BOOLEAN

VARIABLES
  (* Each layer's composition. *)
  export,     \* _export: it may export its buffers
  pair,       \* its buffers: an exported pair's number, or Staging
  ready,      \* _transportReady
  gen,        \* _transportGen, of the latest offer
  offer,      \* _offer: the offer whose answer it awaits, or NoOffer
  lpc,        \* where it is in a present
  producer,   \* who presents: the channel's lock
  (* The socket, where an offer is known by its generation. *)
  backlog,    \* offers sent and not accepted
  sent,       \* the pair whose descriptors each offer carries
  reply,      \* what came back on each offer's connection
  (* The daemon. *)
  wpc,
  helperState,
  held,       \* held_: the generation in each slot, or NoOffer
  imported,   \* the pair each slot's descriptors gave
  nextSlot,   \* next_slot_
  taking,     \* the offer it accepted last
  used,       \* the pair, or Staging, it serves the request from
  (* The channel. *)
  asker, named, asked,  \* the request's layer, transportGen, and where its frame is
  outcome,    \* what became of it; "none" when it failed, or is over
  miss,       \* transportMiss
  (* The bounds. *)
  offers, pairs, faults

composition == <<export, pair, ready, gen, offer>>
present == <<lpc, producer>>
socket == <<backlog, sent, reply>>
slots == <<held, imported, nextSlot>>
daemon == <<wpc, helperState, taking>>
channel == <<asker, named, asked, outcome, miss, used>>
bounds == <<offers, pairs, faults>>
vars == <<composition, present, socket, slots, daemon, channel, bounds>>

Staging == 0     \* host memory, the channel's own slots
NoOffer == 0
Slots == 0 .. NumSlots - 1
Pairs == 0 .. MaxPairs
Generations == 1 .. MaxOffers
LayerPCs == {"out", "admitted", "prepared", "waiting", "composing"}
WorkerPCs == {"down", "building", "loop", "taking", "inferring"}

TypeOK ==
  /\ export \in [Layers -> BOOLEAN] /\ ready \in [Layers -> BOOLEAN]
  /\ pair \in [Layers -> Pairs]
  /\ gen \in [Layers -> Generations \cup {NoOffer}]
  /\ offer \in [Layers -> Generations \cup {NoOffer}]
  /\ lpc \in [Layers -> LayerPCs] /\ producer \in Layers \cup {NoLayer}
  /\ backlog \in Seq(Generations)
  /\ sent \in [Generations -> Pairs]
  /\ reply \in [Generations -> {"none", "imported", "refused", "closed"}]
  /\ wpc \in WorkerPCs /\ helperState \in {"Stopped", "Starting", "Running"}
  /\ held \in [Slots -> Generations \cup {NoOffer}] /\ imported \in [Slots -> Pairs]
  /\ nextSlot \in Slots
  /\ taking \in Generations \cup {NoOffer}
  /\ used \in Pairs /\ asked \in Pairs
  /\ asker \in Layers \cup {NoLayer}
  /\ named \in Generations \cup {NoOffer} /\ miss \in Generations \cup {NoOffer}
  /\ outcome \in {"none", "asked", "taken", "ok"}
  /\ offers \in 0 .. MaxOffers /\ pairs \in Pairs /\ faults \in 0 .. MaxFaults

Init ==
  /\ export = [l \in Layers |-> TRUE] /\ ready = [l \in Layers |-> FALSE]
  /\ pair = [l \in Layers |-> Staging]
  /\ gen = [l \in Layers |-> NoOffer] /\ offer = [l \in Layers |-> NoOffer]
  /\ lpc = [l \in Layers |-> "out"] /\ producer = NoLayer
  /\ backlog = <<>>
  /\ sent = [g \in Generations |-> Staging] /\ reply = [g \in Generations |-> "none"]
  /\ wpc = "down" /\ helperState = "Stopped"
  /\ held = [s \in Slots |-> NoOffer] /\ imported = [s \in Slots |-> Staging]
  /\ nextSlot = 0 /\ taking = NoOffer /\ used = Staging
  /\ asker = NoLayer /\ named = NoOffer /\ asked = Staging /\ outcome = "none" /\ miss = NoOffer
  /\ offers = 0 /\ pairs = 0 /\ faults = 0

Outstanding == outcome \in {"asked", "taken"}

(* A request failed, or its answer is composed: nothing is left of it. *)
Settle ==
  /\ outcome' = "none"
  /\ asker' = NoLayer /\ named' = NoOffer /\ asked' = Staging /\ used' = Staging

-----------------------------------------------------------------------------
(* A layer's composition.                                                  *)

Withdraw(l) == offer' = [offer EXCEPT ![l] = NoOffer]

(* Exported memory, or staging memory where exporting fails. *)
NewBuffers(l) ==
  \/ /\ export[l]
     /\ pairs < MaxPairs /\ pairs' = pairs + 1
     /\ pair' = [pair EXCEPT ![l] = pairs + 1]
  \/ /\ pair' = [pair EXCEPT ![l] = Staging]
     /\ UNCHANGED pairs

(* Buffers of another size: whatever was offered was of the old ones. *)
BuggyRemake(l) ==
  /\ Withdraw(l)
  /\ NewBuffers(l)
  /\ UNCHANGED <<export, ready, gen>>

Remake(l) ==
  /\ Withdraw(l)
  /\ ready' = [ready EXCEPT ![l] = FALSE]
  /\ NewBuffers(l)
  /\ UNCHANGED <<export, gen>>

(* No more exporting: host memory from now on. *)
DisableExport(l) ==
  /\ Withdraw(l)
  /\ export' = [export EXCEPT ![l] = FALSE]
  /\ ready' = [ready EXCEPT ![l] = FALSE]
  /\ pair' = [pair EXCEPT ![l] = Staging]
  /\ UNCHANGED <<gen, pairs>>

SetReady(l) ==
  /\ Withdraw(l)
  /\ ready' = [ready EXCEPT ![l] = TRUE]
  /\ UNCHANGED <<export, pair, gen, pairs>>

(* The pair is exported memory the daemon has not acknowledged. *)
Pending(l) == pair[l] # Staging /\ ~ready[l]

Listening == SocketHeld \/ wpc # "down"

-----------------------------------------------------------------------------
(* A layer's present.  The tests of the helper's state and of the channel  *)
(* are one step here and several in FrameChannel.                          *)

Leave(l) ==
  /\ lpc' = [lpc EXCEPT ![l] = "out"]
  /\ producer' = NoLayer

Goto(l, pc) ==
  /\ lpc' = [lpc EXCEPT ![l] = pc]
  /\ UNCHANGED producer

(* No daemon serves: its successor gets a fresh offer. *)
FindNoHelper(l) ==
  /\ lpc[l] = "out" /\ producer = NoLayer
  /\ helperState # "Running"
  /\ offer[l] # NoOffer /\ Withdraw(l)
  /\ UNCHANGED <<export, pair, ready, gen, present, socket, slots, daemon, channel, bounds>>

Enter(l) ==
  /\ lpc[l] = "out" /\ producer = NoLayer
  /\ helperState = "Running" /\ ~Outstanding
  /\ producer' = l
  /\ lpc' = [lpc EXCEPT ![l] = "admitted"]
  /\ UNCHANGED <<composition, socket, slots, daemon, channel, bounds>>

(* The composition makes its buffers, if it has none for this size. *)
Prepare(l) ==
  /\ lpc[l] = "admitted"
  /\ Goto(l, "prepared")
  /\ Remake(l) \/ UNCHANGED <<composition, pairs>>
  /\ UNCHANGED <<socket, slots, daemon, channel, offers, faults>>

(* The composition cannot run, or one of the layer's own steps fails. *)
Abandon(l) ==
  /\ lpc[l] \in {"admitted", "prepared"}
  /\ Leave(l)
  /\ UNCHANGED <<composition, socket, slots, daemon, channel, bounds>>

(* SendOffer(): descriptors of the pair, under a generation never used. *)
SendOffer(l) ==
  /\ lpc[l] = "prepared" /\ Pending(l) /\ offer[l] = NoOffer
  /\ Listening
  /\ offers < MaxOffers /\ offers' = offers + 1
  /\ gen' = [gen EXCEPT ![l] = offers + 1]
  /\ offer' = [offer EXCEPT ![l] = offers + 1]
  /\ sent' = [sent EXCEPT ![offers + 1] = pair[l]]
  /\ backlog' = Append(backlog, offers + 1)
  /\ UNCHANGED <<export, pair, ready, reply, present, slots, daemon, channel, pairs, faults>>

(* It could not be sent: a refusal, unless the daemon stopped meanwhile. *)
SendFails(l) ==
  /\ lpc[l] = "prepared" /\ Pending(l) /\ offer[l] = NoOffer
  /\ IF helperState = "Running"
     THEN DisableExport(l) /\ UNCHANGED present
     ELSE Leave(l) /\ UNCHANGED <<composition, pairs>>
  /\ UNCHANGED <<socket, slots, daemon, channel, offers, faults>>

BuggyAccepted(answer) == answer \in {"imported", "refused"}

(* The one byte of an answer says whether the daemon imported the pair. *)
Accepted(answer) == answer = "imported"

(* The answer, which is awaited five seconds at most. *)
PollOffer(l) ==
  /\ lpc[l] = "prepared" /\ Pending(l) /\ offer[l] # NoOffer
  /\ LET answer == reply[offer[l]] IN
       \/ /\ Accepted(answer)
          /\ SetReady(l) /\ UNCHANGED present
       \/ /\ answer = "none" \/ (answer = "refused" /\ ~Accepted(answer))
          /\ DisableExport(l) /\ UNCHANGED present
       \/ /\ answer = "none"
          /\ Leave(l) /\ UNCHANGED <<composition, pairs>>
       \/ /\ answer = "closed"
          /\ Withdraw(l) /\ Leave(l) /\ UNCHANGED <<export, pair, ready, gen, pairs>>
  /\ UNCHANGED <<socket, slots, daemon, channel, offers, faults>>

(* Leg 1 puts the frame in the pair, or in staging memory and from there   *)
(* in the channel's slot, and the request says where it is.                *)
Ask(l) ==
  /\ lpc[l] = "prepared" /\ ~Pending(l)
  /\ asker' = l
  /\ named' = IF ready[l] THEN gen[l] ELSE NoOffer
  /\ asked' = pair[l]
  /\ outcome' = "asked"
  /\ Goto(l, "waiting")
  /\ UNCHANGED <<composition, miss, used, socket, slots, daemon, bounds>>

BuggyForgo(l) == Leave(l) /\ UNCHANGED ready

(* No answer: a daemon that missed the pair gets it offered again. *)
Forgo(l) ==
  /\ Leave(l)
  /\ ready' = [ready EXCEPT ![l] = @ /\ miss # gen[l]]

(* Not in time, or the channel refuses it to begin with. *)
GiveUp(l) ==
  /\ (lpc[l] = "waiting" /\ Outstanding) \/ (lpc[l] = "prepared" /\ ~Pending(l))
  /\ Forgo(l)
  /\ UNCHANGED <<export, pair, gen, offer, socket, slots, daemon, channel, bounds>>

Receive(l) ==
  /\ lpc[l] = "waiting" /\ ~Outstanding
  /\ IF outcome = "ok" THEN Goto(l, "composing") /\ UNCHANGED ready ELSE Forgo(l)
  /\ UNCHANGED <<export, pair, gen, offer, socket, slots, daemon, channel, bounds>>

Compose(l) ==
  /\ lpc[l] = "composing"
  /\ Leave(l)
  /\ Settle
  /\ UNCHANGED <<composition, socket, slots, daemon, miss, bounds>>

(* Between presents, the game makes a swapchain anew, or another game comes *)
(* in its place: a new composition, on a device that exports memory.        *)
Recreate(l) ==
  /\ lpc[l] = "out"
  /\ export' = [export EXCEPT ![l] = TRUE]
  /\ pair' = [pair EXCEPT ![l] = Staging]
  /\ ready' = [ready EXCEPT ![l] = FALSE]
  /\ Withdraw(l)
  /\ UNCHANGED <<gen, present, socket, slots, daemon, channel, bounds>>

-----------------------------------------------------------------------------
(* The daemon.                                                             *)

BuggyForget ==
  /\ imported' = [s \in Slots |-> Staging]
  /\ UNCHANGED held

(* forget_imports(), and the memory goes with the network it was for. *)
Forget ==
  /\ held' = [s \in Slots |-> NoOffer]
  /\ imported' = [s \in Slots |-> Staging]

(* Mapping: an old request is answered as failed. *)
Start ==
  /\ wpc = "down"
  /\ wpc' = "building" /\ helperState' = "Starting"
  /\ held' = [s \in Slots |-> NoOffer] /\ imported' = [s \in Slots |-> Staging]
  /\ nextSlot' = 0
  /\ IF Outstanding THEN Settle ELSE UNCHANGED <<outcome, asker, named, asked, used>>
  /\ UNCHANGED <<taking, miss, composition, present, socket, bounds>>

Built ==
  /\ wpc = "building"
  /\ wpc' = "loop" /\ helperState' = "Running"
  /\ UNCHANGED <<taking, composition, present, socket, slots, channel, bounds>>

AcceptOffer ==
  /\ wpc = "loop" /\ backlog # <<>>
  /\ taking' = Head(backlog) /\ backlog' = Tail(backlog)
  /\ wpc' = "taking"
  /\ UNCHANGED <<helperState, sent, reply, composition, present, slots, channel, bounds>>

Advance(s) == (s + 1) % NumSlots

(* The slot of an offer: its generation's, or else the next in turn. *)
Known(g) == \E s \in Slots : held[s] = g
SlotFor(g) == IF Known(g) THEN CHOOSE s \in Slots : held[s] = g ELSE nextSlot

(* The layer may have closed its end; the pair is imported all the same.   *)
(* An import that fails leaves the slot its old pair; an offer that does   *)
(* not come within 100 ms of its connection is closed unanswered.          *)
Import ==
  /\ wpc = "taking"
  /\ \/ /\ held' = [held EXCEPT ![SlotFor(taking)] = taking]
        /\ imported' = [imported EXCEPT ![SlotFor(taking)] = sent[taking]]
        /\ nextSlot' = IF Known(taking) THEN nextSlot ELSE Advance(nextSlot)
        /\ reply' = [reply EXCEPT ![taking] = "imported"]
     \/ /\ nextSlot' = IF Known(taking) THEN nextSlot ELSE Advance(nextSlot)
        /\ reply' = [reply EXCEPT ![taking] = "refused"]
        /\ UNCHANGED <<held, imported>>
     \/ /\ reply' = [reply EXCEPT ![taking] = "closed"]
        /\ UNCHANGED slots
  /\ taking' = NoOffer
  /\ wpc' = "loop"
  /\ UNCHANGED <<helperState, backlog, sent, composition, present, channel, bounds>>

(* process(): the channel's slots, or those of the pair it names; or its    *)
(* settings are refused before.                                            *)
TakeRequest ==
  /\ wpc = "loop" /\ outcome = "asked"
  /\ \/ /\ outcome' = "taken" /\ wpc' = "inferring"
        /\ \/ named = NoOffer /\ used' = Staging
           \/ \E s \in Slots : named # NoOffer /\ held[s] = named /\ used' = imported[s]
        /\ UNCHANGED <<asker, named, asked>>
     \/ Settle /\ UNCHANGED wpc
  /\ UNCHANGED <<miss, helperState, taking, composition, present, socket, slots, bounds>>

Miss ==
  /\ wpc = "loop" /\ outcome = "asked"
  /\ named # NoOffer /\ ~Known(named)
  /\ miss' = named
  /\ Settle
  /\ UNCHANGED <<daemon, composition, present, socket, slots, bounds>>

Infer ==
  /\ wpc = "inferring"
  /\ \/ outcome' = "ok" /\ UNCHANGED <<asker, named, asked, used>>
     \/ Settle
  /\ wpc' = "loop"
  /\ UNCHANGED <<miss, helperState, taking, composition, present, socket, slots, bounds>>

(* A tier change rebuilds HIP's network, and its imports are gone. *)
Retier ==
  /\ RebuildsForTier
  /\ wpc = "loop" /\ outcome # "asked"
  /\ faults < MaxFaults /\ faults' = faults + 1
  /\ wpc' = "building" /\ helperState' = "Starting"
  /\ Forget
  /\ UNCHANGED <<nextSlot, taking, composition, present, socket, channel, offers, pairs>>

(* Killed anywhere, or stopped or failed where it can be.  A connection it *)
(* had taken is closed, and with a socket of its own all that waited are.  *)
End ==
  /\ wpc # "down"
  /\ faults < MaxFaults /\ faults' = faults + 1
  /\ wpc' = "down"
  /\ helperState' \in {helperState} \cup (IF wpc \in {"building", "loop"} THEN {"Stopped"} ELSE {})
  /\ Forget
  /\ taking' = NoOffer
  /\ LET lost == {taking} \cup (IF SocketHeld THEN {} ELSE {backlog[i] : i \in DOMAIN backlog})
     IN reply' = [g \in Generations |-> IF g \in lost THEN "closed" ELSE reply[g]]
  /\ backlog' = IF SocketHeld THEN backlog ELSE <<>>
  /\ UNCHANGED <<nextSlot, sent, composition, present, channel, offers, pairs>>

-----------------------------------------------------------------------------
Present(l) ==
  \/ FindNoHelper(l) \/ Prepare(l) \/ Abandon(l) \/ SendOffer(l) \/ SendFails(l) \/ PollOffer(l)
  \/ Ask(l) \/ GiveUp(l) \/ Receive(l) \/ Compose(l)

Work == Start \/ Built \/ AcceptOffer \/ Import \/ TakeRequest \/ Miss \/ Infer

Next ==
  \/ Work \/ Retier \/ End
  \/ \E l \in Layers : Enter(l) \/ Present(l) \/ Recreate(l)

Spec == Init /\ [][Next]_vars

(* A game goes on presenting: now and then it finds the lock free, the     *)
(* composition runs, the request is made, and its answer comes in time.  A *)
(* daemon goes on, another starts when one has ended, and the settings are *)
(* now and then such that it looks for the pair.                           *)
LayerFairness ==
  \A l \in Layers :
    /\ WF_vars(Present(l))
    /\ SF_vars(Enter(l)) /\ SF_vars(Prepare(l)) /\ SF_vars(Ask(l)) /\ SF_vars(Receive(l))

FairSpec == Spec /\ LayerFairness /\ WF_vars(Work) /\ SF_vars(Miss)

-----------------------------------------------------------------------------
(* A request is served from the very memory its frame is in: no generation *)
(* outlives the pair it was drawn for, on either side of the socket        *)
(* (engine.frames(), EnsureTransport, import, forget_imports).             *)
FrameWhereNamed == outcome = "taken" => used = asked

(* No request names a pair whose import was not acknowledged to this very  *)
(* layer: an offer that waits, was refused or was lost carries no frame.   *)
NoFrameOnPending == Outstanding /\ named # NoOffer => reply[named] = "imported" /\ sent[named] = asked

(* Over device-local memory too, what a game composes is the answer to its *)
(* frame, in the buffers it composes from.                                 *)
Exchange == INSTANCE FrameExchange WITH
  Games <- Layers,
  Questions <- Layers \X Pairs,
  Nothing <- <<NoLayer, Staging>>,
  pending <- IF Outstanding THEN <<asker, asked>> ELSE <<NoLayer, Staging>>,
  holds <- [l \in Layers |-> IF lpc[l] \in {"waiting", "composing"} THEN <<l, pair[l]>>
                                                               ELSE <<NoLayer, Staging>>],
  shown <- [l \in Layers |-> IF lpc[l] = "composing" THEN <<asker, used>> ELSE <<NoLayer, Staging>>]

ImplementsExchange == Exchange!Spec

(* A layer does not go on naming a pair no daemon holds: after a restart,  *)
(* a tier change or an eviction it is told, and offers anew.               *)
MissHeals == \A l \in Layers : ready[l] /\ ~Known(gen[l]) ~> ~ready[l]

=============================================================================
