-------------------------- MODULE TransportProofs ---------------------------
(***************************************************************************)
(* The safety of the device-local transport, for any number of games,      *)
(* slots, offers, pairs of buffers and ends of the daemon, and whoever     *)
(* holds the socket; and that it implements FrameExchange.                 *)
(***************************************************************************)
EXTENDS Transport, TLAPS

(* Whoever is in a present holds the channel's lock. *)
LockHeld == \A l \in Layers : lpc[l] # "out" => producer = l

(* What has been drawn of the generations: no offer is known, anywhere,    *)
(* before it is made.                                                      *)
Drawn ==
  /\ \A l \in Layers : gen[l] <= offers
  /\ \A i \in DOMAIN backlog : backlog[i] <= offers
  /\ taking <= offers /\ named <= offers
  /\ \A s \in Slots : held[s] <= offers
  /\ \A g \in Generations : g > offers => reply[g] = "none"

(* An offer that is on its way was not answered, and is in one place.      *)
Unanswered ==
  /\ taking # NoOffer <=> wpc = "taking"
  /\ taking # NoOffer => reply[taking] = "none"
  /\ \A i \in DOMAIN backlog : reply[backlog[i]] = "none" /\ backlog[i] # taking
  /\ \A i, j \in DOMAIN backlog : backlog[i] = backlog[j] => i = j

(* A composition that is ready has the buffers the daemon acknowledged,    *)
(* and one that waits for an answer those it offered.                      *)
Acknowledged ==
  \A l \in Layers :
    /\ ready[l] => gen[l] # NoOffer /\ reply[gen[l]] = "imported" /\ sent[gen[l]] = pair[l]
    /\ offer[l] # NoOffer => offer[l] = gen[l] /\ sent[gen[l]] = pair[l]

(* A slot has the memory that its generation's offer carried.              *)
SlotsHoldSent == \A s \in Slots : held[s] # NoOffer => imported[s] = sent[held[s]]

(* The request is the one of the layer that waits for it, and says where   *)
(* its frame is.                                                           *)
OneRequest ==
  /\ \A l \in Layers :
       /\ lpc[l] \in {"admitted", "prepared"} => ~Outstanding
       /\ lpc[l] = "waiting" /\ outcome # "none" => asker = l /\ asked = pair[l]
       /\ lpc[l] = "composing" => outcome = "ok" /\ asker = l /\ used = pair[l]
  /\ Outstanding => asker \in Layers
  /\ Outstanding /\ named = NoOffer => asked = Staging
  /\ outcome \in {"taken", "ok"} => used = asked
  /\ wpc = "inferring" => outcome = "taken"

IInv ==
  /\ LockHeld /\ Drawn /\ Unanswered /\ Acknowledged /\ SlotsHoldSent /\ OneRequest
  /\ FrameWhereNamed /\ NoFrameOnPending

-----------------------------------------------------------------------------
(* Types.                                                                  *)

(* The slot of an offer is a slot, and so is the next one in turn. *)
LEMMA SlotTypes ==
  ASSUME TypeOK
  PROVE  /\ \A g : SlotFor(g) \in Slots
         /\ Advance(nextSlot) \in Slots
<1>1. Advance(nextSlot) \in Slots
  BY SlotAssumption DEF TypeOK, Advance, Slots
<1>2. ASSUME NEW g PROVE SlotFor(g) \in Slots
  <2>1. CASE Known(g)
    BY <2>1, Zenon DEF SlotFor, Known
  <2>2. CASE ~Known(g)
    BY <2>2 DEF SlotFor, TypeOK
  <2> QED
    BY <2>1, <2>2
<1> QED
  BY <1>1, <1>2

(* The offers that end with a daemon. *)
Lost == {taking} \cup (IF SocketHeld THEN {} ELSE {backlog[i] : i \in DOMAIN backlog})

(* What the end of a daemon does. *)
LEMMA EndFacts ==
  ASSUME End
  PROVE  /\ wpc # "down" /\ wpc' = "down"
         /\ helperState' = helperState \/ helperState' = "Stopped"
         /\ Forget /\ taking' = NoOffer
         /\ faults < MaxFaults /\ faults' = faults + 1
         /\ UNCHANGED <<nextSlot, sent, composition, present, channel, offers, pairs>>
BY DEF End

LEMMA EndAnswers ==
  ASSUME End
  PROVE  /\ reply' = [g \in Generations |-> IF g \in Lost THEN "closed" ELSE reply[g]]
         /\ (SocketHeld /\ backlog' = backlog) \/ (~SocketHeld /\ backlog' = <<>>)
BY OptionAssumption DEF End, Lost

LEMMA DaemonTypes ==
  ASSUME TypeOK, wpc = "taking" => taking # NoOffer, Work \/ Retier \/ End
  PROVE  TypeOK'
<1> USE BoundAssumption, SlotAssumption
        DEF TypeOK, Pairs, Generations, Staging, NoOffer, WorkerPCs, Settle, Forget,
            composition, present, socket, slots, daemon, channel, bounds
<1>1. CASE Start
  <2>1. held' \in [Slots -> Generations \cup {NoOffer}] /\ imported' \in [Slots -> Pairs] /\ nextSlot' \in Slots
    BY <1>1 DEF Start, Slots
  <2> QED
    BY <1>1, <2>1 DEF Start, Outstanding
<1>2. CASE Built
  BY <1>2 DEF Built
<1>3. CASE AcceptOffer
  <2>1. Head(backlog) \in Generations /\ Tail(backlog) \in Seq(Generations)
    BY <1>3 DEF AcceptOffer
  <2> QED
    BY <1>3, <2>1 DEF AcceptOffer
<1>4. CASE Import
  <2>1. SlotFor(taking) \in Slots /\ Advance(nextSlot) \in Slots
    BY SlotTypes
  <2>2. nextSlot' \in Slots
    BY <1>4, <2>1 DEF Import
  <2>3. held' \in [Slots -> Generations \cup {NoOffer}]
    BY <1>4, <2>1 DEF Import
  <2>4. imported' \in [Slots -> Pairs]
    <3>1. sent[taking] \in Pairs
      BY <1>4 DEF Import
    <3> QED
      BY <1>4, <2>1, <3>1 DEF Import
  <2>5. reply' \in [Generations -> {"none", "imported", "refused", "closed"}]
    BY <1>4 DEF Import
  <2> QED
    BY <1>4, <2>2, <2>3, <2>4, <2>5 DEF Import
<1>5. CASE TakeRequest
  BY <1>5, SMTT(60) DEF TakeRequest
<1>6. CASE Miss
  BY <1>6, SMTT(60) DEF Miss
<1>7. CASE Infer
  BY <1>7, SMTT(60) DEF Infer
<1>8. CASE Retier
  BY <1>8 DEF Retier
<1>9. CASE End
  <2>1. reply' \in [Generations -> {"none", "imported", "refused", "closed"}]
    BY <1>9, EndAnswers
  <2>2. backlog' \in Seq(Generations)
    <3>1. CASE backlog' = backlog
      BY <3>1
    <3>2. CASE backlog' = <<>>
      BY <3>2
    <3> QED
      BY <1>9, <3>1, <3>2, EndAnswers
  <2>3. Forget /\ wpc' = "down" /\ taking' = NoOffer /\ faults' \in 0 .. MaxFaults
    BY <1>9, EndFacts
  <2>4. helperState' \in {"Stopped", "Starting", "Running"}
    BY <1>9, EndFacts
  <2>5. UNCHANGED <<nextSlot, sent, composition, present, channel, offers, pairs>>
    BY <1>9, EndFacts
  <2> QED
    BY <2>1, <2>2, <2>3, <2>4, <2>5
<1> QED
  BY <1>1, <1>2, <1>3, <1>4, <1>5, <1>6, <1>7, <1>8, <1>9 DEF Work

(* A layer's step keeps every type. *)
LEMMA LayerTypes ==
  ASSUME TypeOK, NEW l \in Layers, Enter(l) \/ Present(l) \/ Recreate(l)
  PROVE  TypeOK'
<1> USE BoundAssumption
        DEF TypeOK, Pairs, Generations, Staging, NoOffer, LayerPCs, Settle, Leave, Goto, Withdraw,
            composition, present, socket, slots, daemon, channel, bounds
<1>1. ASSUME NewBuffers(l) PROVE pair' \in [Layers -> Pairs] /\ pairs' \in Pairs
  <2>1. CASE export[l] /\ pairs < MaxPairs /\ pairs' = pairs + 1 /\ pair' = [pair EXCEPT ![l] = pairs + 1]
    BY <2>1
  <2>2. CASE pair' = [pair EXCEPT ![l] = Staging] /\ UNCHANGED pairs
    BY <2>2
  <2> QED
    BY <1>1, <2>1, <2>2 DEF NewBuffers
<1>2. ASSUME DisableExport(l)
      PROVE  /\ export' \in [Layers -> BOOLEAN] /\ ready' \in [Layers -> BOOLEAN]
             /\ pair' \in [Layers -> Pairs] /\ offer' \in [Layers -> Generations \cup {NoOffer}]
             /\ gen' \in [Layers -> Generations \cup {NoOffer}] /\ pairs' \in Pairs
  BY <1>2 DEF DisableExport
<1>3. ASSUME Leave(l) PROVE lpc' \in [Layers -> LayerPCs] /\ producer' \in Layers \cup {NoLayer}
  BY <1>3, Zenon
<1>4. ASSUME /\ lpc' \in [Layers -> LayerPCs] /\ producer' \in Layers \cup {NoLayer}
             /\ export' \in [Layers -> BOOLEAN] /\ ready' \in [Layers -> BOOLEAN]
             /\ pair' \in [Layers -> Pairs] /\ offer' \in [Layers -> Generations \cup {NoOffer}]
             /\ gen' \in [Layers -> Generations \cup {NoOffer}] /\ pairs' \in Pairs,
             UNCHANGED <<socket, slots, daemon, channel, offers, faults>>
       PROVE  TypeOK'
  BY <1>4, ZenonT(60)
<1>5. CASE FindNoHelper(l)
  BY <1>5 DEF FindNoHelper
<1>6. CASE Enter(l)
  BY <1>6 DEF Enter
<1>7. CASE Prepare(l)
  <2>1. CASE Remake(l)
    BY <1>1, <1>7, <2>1 DEF Prepare, Remake
  <2>2. CASE UNCHANGED <<composition, pairs>>
    BY <1>7, <2>2 DEF Prepare
  <2> QED
    BY <1>7, <2>1, <2>2 DEF Prepare
<1>8. CASE Abandon(l)
  BY <1>8 DEF Abandon
<1>9. CASE SendOffer(l)
  <2>1. offers + 1 \in Generations
    BY <1>9 DEF SendOffer
  <2> QED
    BY <1>9, <2>1 DEF SendOffer
<1>10. CASE SendFails(l)
  <2>1. UNCHANGED <<socket, slots, daemon, channel, offers, faults>>
    BY <1>10, Zenon DEF SendFails
  <2>2. CASE DisableExport(l) /\ UNCHANGED present
    BY <1>2, <1>4, <2>1, <2>2, Zenon
  <2>3. CASE Leave(l) /\ UNCHANGED <<composition, pairs>>
    BY <1>3, <1>4, <2>1, <2>3, Zenon
  <2> QED
    BY <1>10, <2>2, <2>3, Zenon DEF SendFails
<1>11. CASE PollOffer(l)
  <2>1. UNCHANGED <<socket, slots, daemon, channel, offers, faults>>
    BY <1>11, Zenon DEF PollOffer
  <2>2. CASE DisableExport(l) /\ UNCHANGED present
    BY <1>2, <1>4, <2>1, <2>2, Zenon
  <2>3. CASE SetReady(l) /\ UNCHANGED present
    <3>1. /\ ready' \in [Layers -> BOOLEAN] /\ offer' \in [Layers -> Generations \cup {NoOffer}]
          /\ UNCHANGED <<export, pair, gen, pairs>>
      BY <2>3 DEF SetReady
    <3> QED
      BY <1>4, <2>1, <2>3, <3>1, Zenon
  <2>4. CASE Leave(l) /\ UNCHANGED <<export, pair, ready, gen, pairs>> /\ (Withdraw(l) \/ UNCHANGED offer)
    <3>1. offer' \in [Layers -> Generations \cup {NoOffer}]
      BY <2>4
    <3> QED
      BY <1>3, <1>4, <2>1, <2>4, <3>1, Zenon
  <2> QED
    BY <1>11, <2>2, <2>3, <2>4, Zenon DEF PollOffer
<1>12. CASE Ask(l)
  BY <1>12 DEF Ask
<1>13. ASSUME Forgo(l)
       PROVE  /\ lpc' \in [Layers -> LayerPCs] /\ producer' \in Layers \cup {NoLayer}
              /\ ready' \in [Layers -> BOOLEAN]
  BY <1>13, Zenon DEF Forgo
<1>14. CASE GiveUp(l)
  <2>1. Forgo(l) /\ UNCHANGED <<export, pair, gen, offer, socket, slots, daemon, channel, bounds>>
    BY <1>14, Zenon DEF GiveUp
  <2>2. /\ lpc' \in [Layers -> LayerPCs] /\ producer' \in Layers \cup {NoLayer}
        /\ ready' \in [Layers -> BOOLEAN]
    BY <1>13, <2>1
  <2> QED
    BY <2>1, <2>2, ZenonT(60)
<1>15. CASE Receive(l)
  <2>1. UNCHANGED <<export, pair, gen, offer, socket, slots, daemon, channel, bounds>>
    BY <1>15, Zenon DEF Receive
  <2>2. /\ lpc' \in [Layers -> LayerPCs] /\ producer' \in Layers \cup {NoLayer}
        /\ ready' \in [Layers -> BOOLEAN]
    <3>1. CASE Forgo(l)
      BY <1>13, <3>1
    <3>2. CASE Goto(l, "composing") /\ UNCHANGED ready
      BY <3>2, Zenon DEF Goto, LayerPCs
    <3> QED
      BY <1>15, <3>1, <3>2, Zenon DEF Receive
  <2> QED
    BY <2>1, <2>2, ZenonT(60)
<1>16. CASE Compose(l)
  <2>1. lpc' \in [Layers -> LayerPCs] /\ producer' \in Layers \cup {NoLayer}
    BY <1>16, Zenon DEF Compose
  <2>2. /\ outcome' \in {"none", "asked", "taken", "ok"} /\ asker' \in Layers \cup {NoLayer}
        /\ named' \in Generations \cup {NoOffer} /\ asked' \in Pairs /\ used' \in Pairs
    BY <1>16 DEF Compose
  <2>3. UNCHANGED <<composition, socket, slots, daemon, miss, bounds>>
    BY <1>16, Zenon DEF Compose
  <2> QED
    BY <2>1, <2>2, <2>3, ZenonT(60)
<1>17. CASE Recreate(l)
  <2>1. /\ export' \in [Layers -> BOOLEAN] /\ ready' \in [Layers -> BOOLEAN]
        /\ pair' \in [Layers -> Pairs] /\ offer' \in [Layers -> Generations \cup {NoOffer}]
    BY <1>17 DEF Recreate
  <2>2. UNCHANGED <<gen, present, socket, slots, daemon, channel, bounds>>
    BY <1>17, Zenon DEF Recreate
  <2> QED
    BY <2>1, <2>2, ZenonT(60)
<1> QED
  BY <1>5, <1>6, <1>7, <1>8, <1>9, <1>10, <1>11, <1>12, <1>14, <1>15, <1>16, <1>17 DEF Present

-----------------------------------------------------------------------------
(* The invariant.                                                          *)

(* An import puts its pair in a slot, if in any. *)
LEMMA ImportSlots ==
  ASSUME TypeOK, Import, NEW s \in Slots
  PROVE  \/ held'[s] = held[s] /\ imported'[s] = imported[s]
         \/ held'[s] = taking /\ imported'[s] = sent[taking]
<1>1. SlotFor(taking) \in Slots
  BY SlotTypes
<1> QED
  BY <1>1 DEF Import, TypeOK, slots

(* And it answers the offer. *)
LEMMA ImportFacts ==
  ASSUME TypeOK, Import
  PROVE  /\ wpc = "taking" /\ wpc' = "loop" /\ taking' = NoOffer
         /\ \E a \in {"imported", "refused", "closed"} : reply' = [reply EXCEPT ![taking] = a]
         /\ UNCHANGED <<backlog, sent, composition, present, channel, bounds>>
<1>1. \E a \in {"imported", "refused", "closed"} : reply' = [reply EXCEPT ![taking] = a]
  BY Zenon DEF Import
<1> QED
  BY <1>1 DEF Import

(* Accepting an offer moves it, unanswered, from the socket to the daemon. *)
LEMMA AcceptKeeps ==
  ASSUME TypeOK, Drawn, Unanswered, AcceptOffer
  PROVE  Drawn' /\ Unanswered'
<1>1. /\ backlog \in Seq(Generations) /\ backlog # <<>>
      /\ taking' = Head(backlog) /\ backlog' = Tail(backlog) /\ wpc' = "taking"
      /\ UNCHANGED <<reply, gen, offers, named, held>>
  BY DEF AcceptOffer, TypeOK, composition, slots, channel, bounds
<1>2. taking' = backlog[1] /\ 1 \in DOMAIN backlog /\ taking' \in Generations
  BY <1>1
<1>3. \A i \in DOMAIN backlog' : i \in Nat /\ backlog'[i] = backlog[i + 1] /\ i + 1 \in DOMAIN backlog /\ i + 1 # 1
  BY <1>1
<1>4. Unanswered'
  <2>1. taking' # NoOffer
    BY <1>2, BoundAssumption DEF Generations, NoOffer
  <2>2. reply[taking'] = "none"
    BY <1>2 DEF Unanswered
  <2>3. ASSUME NEW i \in DOMAIN backlog' PROVE reply[backlog'[i]] = "none" /\ backlog'[i] # taking'
    BY <1>2, <1>3, <2>3 DEF Unanswered
  <2>4. ASSUME NEW i \in DOMAIN backlog', NEW j \in DOMAIN backlog', backlog'[i] = backlog'[j] PROVE i = j
    <3>1. i + 1 = j + 1
      BY <1>3, <2>4 DEF Unanswered
    <3> QED
      BY <1>3, <3>1
  <2> QED
    BY <1>1, <2>1, <2>2, <2>3, <2>4 DEF Unanswered
<1>5. Drawn'
  BY <1>1, <1>2, <1>3 DEF Drawn
<1> QED
  BY <1>4, <1>5

(* Answering the offer in hand disturbs no other, nor what is held. *)
LEMMA ImportKeeps ==
  ASSUME TypeOK, IInv, Import
  PROVE  IInv'
<1>1. /\ wpc = "taking" /\ wpc' = "loop" /\ taking' = NoOffer
      /\ UNCHANGED <<backlog, sent, gen, ready, pair, offer, offers, outcome, named, asked>>
  BY ImportFacts DEF composition, channel, bounds
<1>2. taking \in Generations /\ reply[taking] = "none" /\ taking <= offers
  BY <1>1 DEF IInv, Unanswered, Drawn, TypeOK
<1>3. \A g \in Generations : g # taking => reply'[g] = reply[g]
  BY ImportFacts DEF TypeOK
<1>4. \A s \in Slots :
        (held'[s] = held[s] /\ imported'[s] = imported[s]) \/ (held'[s] = taking /\ imported'[s] = sent[taking])
  BY ImportSlots, Zenon
<1>5. SlotsHoldSent'
  BY <1>1, <1>4 DEF IInv, SlotsHoldSent
<1>6. Drawn'
  <2>1. NoOffer <= offers
    BY DEF TypeOK, NoOffer
  <2>2. \A s \in Slots : held'[s] <= offers
    BY <1>2, <1>4 DEF IInv, Drawn
  <2>3. \A g \in Generations : g > offers => reply'[g] = "none"
    BY <1>2, <1>3 DEF IInv, Drawn, TypeOK, Generations
  <2> QED
    BY <1>1, <2>1, <2>2, <2>3 DEF IInv, Drawn
<1>7. Unanswered'
  <2>1. \A i \in DOMAIN backlog : backlog[i] \in Generations /\ backlog[i] # NoOffer
    BY BoundAssumption DEF TypeOK, Generations, NoOffer
  <2>2. \A i \in DOMAIN backlog : reply'[backlog[i]] = "none"
    BY <1>3, <2>1 DEF IInv, Unanswered
  <2> QED
    BY <1>1, <2>1, <2>2 DEF IInv, Unanswered
<1>8. \A g \in Generations : reply[g] # "none" => reply'[g] = reply[g]
  BY <1>2, <1>3
<1>9. Acknowledged'
  BY <1>1, <1>8 DEF IInv, Acknowledged, TypeOK
<1>10. NoFrameOnPending'
  BY <1>1, <1>8 DEF IInv, NoFrameOnPending, Outstanding, TypeOK
<1>11. UNCHANGED <<present, composition, channel>> /\ wpc' # "inferring"
  BY ImportFacts
<1>12. LockHeld' /\ OneRequest' /\ FrameWhereNamed'
  BY <1>11 DEF IInv, LockHeld, OneRequest, FrameWhereNamed, Outstanding, present, composition, channel
<1> QED
  BY <1>5, <1>6, <1>7, <1>9, <1>10, <1>12 DEF IInv

(* The end of a daemon closes connections that were not answered, only.    *)
LEMMA EndKeeps ==
  ASSUME TypeOK, IInv, End
  PROVE  Drawn' /\ Unanswered' /\ Acknowledged' /\ SlotsHoldSent' /\ NoFrameOnPending'
<1>1. /\ wpc' = "down" /\ taking' = NoOffer
      /\ held' = [s \in Slots |-> NoOffer]
      /\ UNCHANGED <<sent, gen, ready, pair, offer, offers, outcome, named, asked>>
  BY EndFacts DEF Forget, composition, channel, bounds
<1>2. reply' = [g \in Generations |-> IF g \in Lost THEN "closed" ELSE reply[g]]
  BY EndAnswers
<1>3. \A g \in Generations : reply[g] # "none" => g \notin Lost
  BY DEF IInv, Unanswered, Lost, NoOffer, Generations
<1>4. \A g \in Generations : reply[g] # "none" => reply'[g] = reply[g]
  BY <1>2, <1>3
<1>5. \A g \in Lost : g <= offers
  BY DEF IInv, Drawn, Lost
<1>6. Drawn'
  <2>1. \A g \in Generations : g > offers => reply'[g] = "none"
    BY <1>2, <1>5 DEF IInv, Drawn, TypeOK, Generations
  <2>2. NoOffer <= offers /\ \A s \in Slots : held'[s] <= offers
    BY <1>1 DEF TypeOK, NoOffer
  <2>3. \A i \in DOMAIN backlog' : backlog'[i] <= offers
    BY EndAnswers DEF IInv, Drawn
  <2> QED
    BY <1>1, <2>1, <2>2, <2>3 DEF IInv, Drawn
<1>7. Unanswered'
  <2>1. CASE SocketHeld /\ backlog' = backlog
    <3>1. \A i \in DOMAIN backlog : backlog[i] \in Generations /\ backlog[i] # NoOffer /\ backlog[i] \notin Lost
      BY <2>1, BoundAssumption DEF TypeOK, IInv, Unanswered, Lost, Generations, NoOffer
    <3>2. \A i \in DOMAIN backlog : reply'[backlog[i]] = "none"
      BY <1>2, <3>1 DEF IInv, Unanswered
    <3> QED
      BY <1>1, <2>1, <3>1, <3>2 DEF IInv, Unanswered
  <2>2. CASE backlog' = <<>>
    BY <1>1, <2>2 DEF Unanswered
  <2> QED
    BY <2>1, <2>2, EndAnswers
<1>8. Acknowledged'
  BY <1>1, <1>4 DEF IInv, Acknowledged, TypeOK
<1>9. NoFrameOnPending'
  BY <1>1, <1>4 DEF IInv, NoFrameOnPending, Outstanding, TypeOK
<1>10. SlotsHoldSent'
  BY <1>1 DEF SlotsHoldSent
<1> QED
  BY <1>6, <1>7, <1>8, <1>9, <1>10

LEMMA AcceptInductive ==
  ASSUME TypeOK, IInv, AcceptOffer
  PROVE  IInv'
<1>1. /\ wpc = "loop" /\ wpc' = "taking"
      /\ UNCHANGED <<sent, reply, composition, present, slots, channel, bounds>>
  BY DEF AcceptOffer
<1>2. Drawn' /\ Unanswered'
  BY AcceptKeeps DEF IInv
<1>3. LockHeld' /\ SlotsHoldSent'
  BY <1>1 DEF IInv, LockHeld, SlotsHoldSent, composition, present, slots
<1>4. Acknowledged' /\ FrameWhereNamed' /\ NoFrameOnPending'
  BY <1>1 DEF IInv, Acknowledged, FrameWhereNamed, NoFrameOnPending, Outstanding, composition, present, slots, channel, bounds
<1>5. OneRequest'
  BY <1>1 DEF IInv, OneRequest, Outstanding, composition, present, slots, channel, bounds
<1> QED
  BY <1>2, <1>3, <1>4, <1>5 DEF IInv

(* A request that fails leaves nothing behind. *)
LEMMA SettleKeeps ==
  ASSUME TypeOK, IInv, Outstanding, Settle, UNCHANGED <<composition, present, socket, slots, taking, bounds>>,
         wpc \in {"loop", "inferring"}, wpc' = "loop"
  PROVE  IInv'
<1>1. outcome' = "none" /\ named' = NoOffer /\ ~Outstanding'
  BY DEF Settle, Outstanding
<1>2. LockHeld' /\ Acknowledged' /\ SlotsHoldSent'
  BY DEF IInv, LockHeld, Acknowledged, SlotsHoldSent, composition, present, socket, slots
<1>3. Drawn'
  BY <1>1 DEF IInv, Drawn, TypeOK, composition, socket, slots, bounds, NoOffer
<1>4. Unanswered'
  BY DEF IInv, Unanswered, socket
<1>5. OneRequest'
  BY <1>1 DEF IInv, OneRequest, Outstanding, present
<1>6. FrameWhereNamed' /\ NoFrameOnPending'
  BY <1>1 DEF FrameWhereNamed, NoFrameOnPending
<1> QED
  BY <1>2, <1>3, <1>4, <1>5, <1>6 DEF IInv

LEMMA MissKeeps ==
  ASSUME TypeOK, IInv, Miss
  PROVE  IInv'
<1>1. /\ wpc = "loop" /\ outcome = "asked" /\ Settle /\ UNCHANGED <<wpc, taking>>
      /\ UNCHANGED <<composition, present, socket, slots, bounds>>
  BY DEF Miss, daemon
<1> QED
  BY <1>1, SettleKeeps DEF Outstanding

(* An answer is of the memory that the frame was served from. *)
LEMMA InferKeeps ==
  ASSUME TypeOK, IInv, Infer
  PROVE  IInv'
<1>1. /\ wpc = "inferring" /\ wpc' = "loop" /\ outcome = "taken"
      /\ UNCHANGED <<composition, present, socket, slots, taking, bounds>>
  BY DEF Infer, IInv, OneRequest
<1>2. CASE Settle
  BY <1>1, <1>2, SettleKeeps DEF Outstanding
<1>3. CASE outcome' = "ok" /\ UNCHANGED <<asker, named, asked, used>>
  <2>1. LockHeld' /\ Acknowledged' /\ SlotsHoldSent'
    BY <1>1 DEF IInv, LockHeld, Acknowledged, SlotsHoldSent, composition, present, socket, slots
  <2>2. Drawn'
    BY <1>1, <1>3 DEF IInv, Drawn, composition, socket, slots, bounds
  <2>3. Unanswered'
    BY <1>1 DEF IInv, Unanswered, socket
  <2>4. OneRequest'
    BY <1>1, <1>3 DEF IInv, OneRequest, Outstanding, composition, present
  <2>5. FrameWhereNamed' /\ NoFrameOnPending'
    BY <1>3 DEF FrameWhereNamed, NoFrameOnPending, Outstanding
  <2> QED
    BY <2>1, <2>2, <2>3, <2>4, <2>5 DEF IInv
<1> QED
  BY <1>2, <1>3 DEF Infer

(* A request is taken from the slot that its generation names. *)
LEMMA TakeKeeps ==
  ASSUME TypeOK, IInv, TakeRequest
  PROVE  IInv'
<1>1. /\ wpc = "loop" /\ outcome = "asked" /\ Outstanding
      /\ UNCHANGED <<composition, present, socket, slots, taking, bounds>>
  BY DEF TakeRequest, Outstanding
<1>2. CASE Settle /\ UNCHANGED wpc
  BY <1>1, <1>2, SettleKeeps
<1>3. CASE /\ outcome' = "taken" /\ wpc' = "inferring" /\ UNCHANGED <<asker, named, asked>>
           /\ \/ named = NoOffer /\ used' = Staging
              \/ \E s \in Slots : named # NoOffer /\ held[s] = named /\ used' = imported[s]
  <2>1. used' = asked
    BY <1>1, <1>3 DEF IInv, OneRequest, SlotsHoldSent, NoFrameOnPending
  <2>2. LockHeld' /\ Acknowledged' /\ SlotsHoldSent'
    BY <1>1 DEF IInv, LockHeld, Acknowledged, SlotsHoldSent, composition, present, socket, slots
  <2>3. Drawn' /\ Unanswered'
    BY <1>1, <1>3 DEF IInv, Drawn, Unanswered, composition, socket, slots, bounds
  <2>4. OneRequest'
    BY <1>1, <1>3, <2>1 DEF IInv, OneRequest, Outstanding, composition, present
  <2>5. FrameWhereNamed' /\ NoFrameOnPending'
    BY <1>1, <1>3, <2>1 DEF IInv, FrameWhereNamed, NoFrameOnPending, Outstanding, socket
  <2> QED
    BY <2>2, <2>3, <2>4, <2>5 DEF IInv
<1> QED
  BY <1>2, <1>3 DEF TakeRequest

LEMMA EndInductive ==
  ASSUME TypeOK, IInv, End
  PROVE  IInv'
<1>1. wpc' = "down" /\ UNCHANGED <<composition, present, channel>>
  BY EndFacts
<1>2. LockHeld' /\ OneRequest' /\ FrameWhereNamed'
  BY <1>1 DEF IInv, LockHeld, OneRequest, FrameWhereNamed, Outstanding, composition, present, channel
<1> QED
  BY <1>2, EndKeeps DEF IInv

(* The daemon's steps keep the invariant. *)
LEMMA DaemonKeeps ==
  ASSUME TypeOK, IInv, Work \/ Retier \/ End
  PROVE  IInv'
<1>1. CASE AcceptOffer
  BY <1>1, AcceptInductive
<1>2. CASE Import
  BY <1>2, ImportKeeps
<1>3. CASE TakeRequest
  BY <1>3, TakeKeeps
<1>4. CASE Miss
  BY <1>4, MissKeeps
<1>5. CASE Infer
  BY <1>5, InferKeeps
<1>6. CASE End
  BY <1>6, EndInductive
<1>7. CASE Start \/ Built \/ Retier
  <2> USE DEF TypeOK, IInv, LockHeld, Drawn, Unanswered, Acknowledged, SlotsHoldSent, OneRequest,
              FrameWhereNamed, NoFrameOnPending, Outstanding, Settle, Forget, Generations, Pairs, Staging, NoOffer,
              composition, present, socket, slots, daemon, channel, bounds
  <2>1. CASE Start
    BY <2>1, SMTT(60) DEF Start
  <2>2. CASE Built
    BY <2>2, SMTT(60) DEF Built
  <2>3. CASE Retier
    BY <2>3, SMTT(60) DEF Retier
  <2> QED
    BY <1>7, <2>1, <2>2, <2>3
<1> QED
  BY <1>1, <1>2, <1>3, <1>4, <1>5, <1>6, <1>7 DEF Work

(* What a layer's own step, before it asks, leaves as it was: the lock, the *)
(* request, the daemon's slots and the socket.                             *)
LEMMA BeforeAsking ==
  ASSUME TypeOK, IInv, NEW l \in Layers, lpc[l] \in {"admitted", "prepared"},
         Goto(l, "prepared") \/ Leave(l) \/ UNCHANGED present,
         \A m \in Layers : m # l => pair'[m] = pair[m],
         UNCHANGED <<slots, daemon, channel>>
  PROVE  LockHeld' /\ OneRequest' /\ FrameWhereNamed'
<1>1. /\ \A m \in Layers : m # l => lpc'[m] = lpc[m]
      /\ lpc'[l] \in {"admitted", "prepared", "out"}
      /\ producer' = producer \/ (lpc'[l] = "out" /\ producer = l)
  BY DEF Goto, Leave, present, TypeOK, IInv, LockHeld
<1>2. LockHeld'
  BY <1>1 DEF IInv, LockHeld
<1>3. ~Outstanding /\ ~Outstanding'
  BY DEF IInv, OneRequest, Outstanding, channel
<1>4. OneRequest'
  BY <1>1, <1>3 DEF IInv, OneRequest, channel, daemon, Outstanding
<1>5. FrameWhereNamed'
  BY DEF IInv, FrameWhereNamed, channel
<1> QED
  BY <1>2, <1>4, <1>5

(* New buffers are neither ready nor offered. *)
LEMMA PrepareKeeps ==
  ASSUME TypeOK, IInv, NEW l \in Layers, Prepare(l)
  PROVE  IInv'
<1>1. /\ lpc[l] = "admitted" /\ Goto(l, "prepared")
      /\ UNCHANGED <<socket, slots, daemon, channel, offers, gen>>
  BY DEF Prepare, Remake, composition
<1>2. \A m \in Layers : m # l => pair'[m] = pair[m] /\ ready'[m] = ready[m] /\ offer'[m] = offer[m]
  BY DEF Prepare, Remake, NewBuffers, Withdraw, composition, TypeOK
<1>3. \/ pair'[l] = pair[l] /\ ready'[l] = ready[l] /\ offer'[l] = offer[l]
      \/ ~ready'[l] /\ offer'[l] = NoOffer
  BY DEF Prepare, Remake, Withdraw, composition, TypeOK
<1>4. LockHeld' /\ OneRequest' /\ FrameWhereNamed'
  BY <1>1, <1>2, BeforeAsking
<1>5. Acknowledged'
  BY <1>1, <1>2, <1>3 DEF IInv, Acknowledged, socket
<1>6. Drawn' /\ Unanswered' /\ SlotsHoldSent' /\ NoFrameOnPending'
  BY <1>1 DEF IInv, Drawn, Unanswered, SlotsHoldSent, NoFrameOnPending, Outstanding, socket, slots, daemon, channel
<1> QED
  BY <1>4, <1>5, <1>6 DEF IInv

(* An offer is of a generation nobody knows yet. *)
LEMMA OfferKeeps ==
  ASSUME TypeOK, IInv, NEW l \in Layers, SendOffer(l)
  PROVE  IInv'
<1> DEFINE new == offers + 1
<1>1. /\ lpc[l] = "prepared" /\ ~ready[l]
      /\ new \in Generations /\ new # NoOffer /\ offers' = new /\ offers \in Nat
      /\ gen' = [gen EXCEPT ![l] = new] /\ offer' = [offer EXCEPT ![l] = new]
      /\ sent' = [sent EXCEPT ![new] = pair[l]]
      /\ backlog' = Append(backlog, new)
      /\ UNCHANGED <<pair, ready, reply, present, slots, daemon, channel>>
  BY BoundAssumption DEF SendOffer, Pending, TypeOK, Generations, NoOffer
<1>2. \A g \in Generations : g <= offers => sent'[g] = sent[g]
  BY <1>1 DEF TypeOK, Generations
<1>3. LockHeld' /\ OneRequest' /\ FrameWhereNamed'
  BY <1>1, BeforeAsking
<1>4. Acknowledged'
  <2>1. \A m \in Layers : m # l => gen'[m] = gen[m] /\ offer'[m] = offer[m]
    BY <1>1 DEF TypeOK
  <2>2. gen'[l] = new /\ offer'[l] = new /\ sent'[new] = pair[l]
    BY <1>1 DEF TypeOK
  <2>3. \A m \in Layers : gen[m] # NoOffer => sent'[gen[m]] = sent[gen[m]]
    BY <1>2 DEF TypeOK, IInv, Drawn
  <2> QED
    BY <1>1, <2>1, <2>2, <2>3 DEF IInv, Acknowledged
<1>5. /\ \A i \in DOMAIN backlog : backlog'[i] = backlog[i] /\ backlog[i] \in Generations
      /\ DOMAIN backlog' = DOMAIN backlog \cup {Len(backlog) + 1}
      /\ backlog'[Len(backlog) + 1] = new
      /\ Len(backlog) + 1 \notin DOMAIN backlog
  BY <1>1 DEF TypeOK
<1>6. Unanswered'
  <2>2. reply[new] = "none"
    BY <1>1 DEF IInv, Drawn
  <2>3. taking # new
    BY <1>1 DEF IInv, Drawn, TypeOK, Generations, NoOffer
  <2>4. \A i \in DOMAIN backlog : backlog[i] # new
    BY <1>1 DEF IInv, Drawn, TypeOK, Generations
  <2>5. UNCHANGED <<reply, taking, wpc>>
    BY <1>1 DEF daemon
  <2>6. \A i \in DOMAIN backlog' : reply[backlog'[i]] = "none" /\ backlog'[i] # taking
    BY <1>5, <2>2, <2>3 DEF IInv, Unanswered
  <2>7. \A i, j \in DOMAIN backlog' : backlog'[i] = backlog'[j] => i = j
    BY <1>5, <2>4 DEF IInv, Unanswered
  <2> QED
    BY <2>5, <2>6, <2>7 DEF IInv, Unanswered
<1>7. Drawn'
  <2>1. \A m \in Layers : gen'[m] <= new
    BY <1>1, SMTT(60) DEF TypeOK, IInv, Drawn, Generations, NoOffer
  <2>2. \A i \in DOMAIN backlog' : backlog'[i] <= new
    BY <1>1, <1>5 DEF IInv, Drawn, Generations
  <2>3. taking <= new /\ named <= new /\ \A s \in Slots : held[s] <= new
    BY <1>1 DEF TypeOK, IInv, Drawn, Generations, NoOffer
  <2>4. \A g \in Generations : g > new => reply[g] = "none"
    BY <1>1 DEF IInv, Drawn, Generations
  <2>5. UNCHANGED <<taking, named, held, reply>>
    BY <1>1 DEF slots, daemon, channel
  <2> QED
    BY <1>1, <2>1, <2>2, <2>3, <2>4, <2>5 DEF Drawn
<1>8. SlotsHoldSent'
  <2>1. \A s \in Slots : held[s] # NoOffer => sent'[held[s]] = sent[held[s]]
    BY <1>2 DEF TypeOK, IInv, Drawn
  <2> QED
    BY <1>1, <2>1 DEF IInv, SlotsHoldSent, slots
<1>9. NoFrameOnPending'
  <2>1. named # NoOffer => sent'[named] = sent[named]
    BY <1>2 DEF TypeOK, IInv, Drawn
  <2> QED
    BY <1>1, <2>1 DEF IInv, NoFrameOnPending, Outstanding, channel
<1> QED
  BY <1>3, <1>4, <1>6, <1>7, <1>8, <1>9 DEF IInv

(* Only an acknowledged offer makes its buffers ready. *)
LEMMA PollKeeps ==
  ASSUME TypeOK, IInv, NEW l \in Layers, SendFails(l) \/ PollOffer(l)
  PROVE  IInv'
<1>1. lpc[l] = "prepared" /\ UNCHANGED <<socket, slots, daemon, channel, offers, gen>>
  BY DEF SendFails, PollOffer, DisableExport, SetReady, composition
<1>2. Leave(l) \/ UNCHANGED present
  BY DEF SendFails, PollOffer
<1>3. \A m \in Layers : m # l => pair'[m] = pair[m] /\ ready'[m] = ready[m] /\ offer'[m] = offer[m]
  BY DEF SendFails, PollOffer, DisableExport, SetReady, Withdraw, composition, TypeOK
<1>4. \/ pair'[l] = pair[l] /\ ready'[l] = ready[l] /\ (offer'[l] = offer[l] \/ offer'[l] = NoOffer)
      \/ ~ready'[l] /\ offer'[l] = NoOffer
      \/ offer'[l] = NoOffer /\ pair'[l] = pair[l] /\ offer[l] # NoOffer /\ reply[offer[l]] = "imported"
  BY DEF SendFails, PollOffer, DisableExport, SetReady, Accepted, Withdraw, composition, TypeOK
<1>5. LockHeld' /\ OneRequest' /\ FrameWhereNamed'
  BY <1>1, <1>2, <1>3, BeforeAsking
<1>6. Acknowledged'
  BY <1>1, <1>3, <1>4 DEF IInv, Acknowledged, socket
<1>7. Drawn' /\ Unanswered' /\ SlotsHoldSent' /\ NoFrameOnPending'
  BY <1>1 DEF IInv, Drawn, Unanswered, SlotsHoldSent, NoFrameOnPending, Outstanding, socket, slots, daemon, channel
<1> QED
  BY <1>5, <1>6, <1>7 DEF IInv

(* The request is for the buffers that are there. *)
LEMMA AskKeeps ==
  ASSUME TypeOK, IInv, NEW l \in Layers, Ask(l)
  PROVE  IInv'
<1>1. /\ lpc[l] = "prepared" /\ lpc' = [lpc EXCEPT ![l] = "waiting"] /\ producer' = producer
      /\ asker' = l /\ asked' = pair[l] /\ outcome' = "asked"
      /\ UNCHANGED <<composition, socket, slots, daemon, offers>>
  BY DEF Ask, Goto, bounds
<1>2. (ready[l] /\ named' = gen[l]) \/ (~ready[l] /\ named' = NoOffer /\ pair[l] = Staging)
  BY DEF Ask, Pending, TypeOK
<1>3. LockHeld'
  BY <1>1 DEF IInv, LockHeld, TypeOK
<1>4. \A m \in Layers : m # l => lpc[m] = "out"
  BY <1>1 DEF IInv, LockHeld
<1>5. OneRequest'
  <2>1. wpc # "inferring"
    BY <1>1 DEF IInv, OneRequest, Outstanding
  <2>2. named' = NoOffer => asked' = Staging
    BY <1>1, <1>2 DEF IInv, Acknowledged
  <2> QED
    BY <1>1, <1>4, <2>1, <2>2 DEF OneRequest, Outstanding, TypeOK, composition, daemon
<1>6. NoFrameOnPending'
  BY <1>1, <1>2 DEF IInv, Acknowledged, NoFrameOnPending, Outstanding, socket
<1>7. Drawn'
  BY <1>1, <1>2 DEF IInv, Drawn, composition, socket, slots, daemon, TypeOK, NoOffer
<1>8. Unanswered' /\ Acknowledged' /\ SlotsHoldSent' /\ FrameWhereNamed'
  BY <1>1 DEF IInv, Unanswered, Acknowledged, SlotsHoldSent, FrameWhereNamed, composition, socket, slots, daemon
<1> QED
  BY <1>3, <1>5, <1>6, <1>7, <1>8 DEF IInv

(* What comes back to a layer that waits is its own request's answer. *)
LEMMA ReceiveKeeps ==
  ASSUME TypeOK, IInv, NEW l \in Layers, Receive(l)
  PROVE  IInv'
<1>1. /\ lpc[l] = "waiting" /\ ~Outstanding
      /\ UNCHANGED <<export, pair, gen, offer, socket, slots, daemon, channel, bounds>>
      /\ \/ outcome = "ok" /\ lpc' = [lpc EXCEPT ![l] = "composing"] /\ UNCHANGED <<producer, ready>>
         \/ lpc' = [lpc EXCEPT ![l] = "out"] /\ producer' = NoLayer
  BY DEF Receive, Goto, Forgo, Leave
<1>2. \A m \in Layers : ready'[m] => ready[m]
  BY DEF Receive, Forgo, TypeOK
<1>3. \A m \in Layers : m # l => lpc[m] = "out" /\ lpc'[m] = "out"
  BY <1>1 DEF IInv, LockHeld, TypeOK
<1>4. LockHeld'
  BY <1>1, <1>3 DEF IInv, LockHeld, TypeOK
<1>5. OneRequest'
  BY <1>1, <1>3 DEF IInv, OneRequest, Outstanding, TypeOK, daemon, channel
<1>6. Acknowledged'
  BY <1>1, <1>2 DEF IInv, Acknowledged, socket
<1>7. Drawn' /\ Unanswered' /\ SlotsHoldSent' /\ NoFrameOnPending' /\ FrameWhereNamed'
  BY <1>1 DEF IInv, Drawn, Unanswered, SlotsHoldSent, NoFrameOnPending, FrameWhereNamed, Outstanding,
              socket, slots, daemon, channel, bounds
<1> QED
  BY <1>4, <1>5, <1>6, <1>7 DEF IInv

(* A layer's steps keep the invariant. *)
LEMMA LayerKeeps ==
  ASSUME TypeOK, IInv, NEW l \in Layers, Enter(l) \/ Present(l) \/ Recreate(l)
  PROVE  IInv'
<1> USE LayerAssumption
    DEF TypeOK, IInv, LockHeld, Drawn, Unanswered, Acknowledged, SlotsHoldSent, OneRequest,
        FrameWhereNamed, NoFrameOnPending, Outstanding, Settle, Generations, Pairs, Staging, NoOffer,
        Leave, Goto, Withdraw, composition, present, socket, slots, daemon, channel, bounds
<1>1. CASE FindNoHelper(l)
  BY <1>1 DEF FindNoHelper
<1>2. CASE Enter(l)
  BY <1>2 DEF Enter
<1>3. CASE Prepare(l)
  BY <1>3, PrepareKeeps
<1>4. CASE Abandon(l)
  BY <1>4 DEF Abandon
<1>5. CASE SendOffer(l)
  BY <1>5, OfferKeeps
<1>6. CASE SendFails(l) \/ PollOffer(l)
  BY <1>6, PollKeeps
<1>8. CASE Ask(l)
  BY <1>8, AskKeeps
<1>9. CASE GiveUp(l)
  BY <1>9 DEF GiveUp, Forgo
<1>10. CASE Receive(l)
  BY <1>10, ReceiveKeeps
<1>11. CASE Compose(l)
  BY <1>11 DEF Compose
<1>12. CASE Recreate(l)
  BY <1>12 DEF Recreate
<1> QED
  BY <1>1, <1>2, <1>3, <1>4, <1>5, <1>6, <1>8, <1>9, <1>10, <1>11, <1>12 DEF Present

-----------------------------------------------------------------------------
(* The invariant that relates offers, what both sides hold and the request, *)
(* with the types it needs, holds for any constants.                       *)
THEOREM Invariance == Spec => [](TypeOK /\ IInv)
<1>1. Init => TypeOK /\ IInv
  <2> SUFFICES ASSUME Init PROVE TypeOK /\ IInv
    OBVIOUS
  <2>1. TypeOK
    BY BoundAssumption, SlotAssumption
       DEF Init, TypeOK, Generations, Pairs, Slots, LayerPCs, WorkerPCs, Staging, NoOffer
  <2>2. IInv
    BY DEF Init, IInv, LockHeld, Drawn, Unanswered, Acknowledged, SlotsHoldSent, OneRequest, FrameWhereNamed,
           NoFrameOnPending, Outstanding, Staging, NoOffer, Generations
  <2> QED
    BY <2>1, <2>2
<1>2. TypeOK /\ IInv /\ [Next]_vars => (TypeOK /\ IInv)'
  <2> SUFFICES ASSUME TypeOK, IInv, [Next]_vars PROVE (TypeOK /\ IInv)'
    OBVIOUS
  <2>1. CASE Work \/ Retier \/ End
    <3>1. wpc = "taking" => taking # NoOffer
      BY DEF IInv, Unanswered
    <3> QED
      BY <2>1, <3>1, DaemonTypes, DaemonKeeps
  <2>2. ASSUME NEW l \in Layers, Enter(l) \/ Present(l) \/ Recreate(l) PROVE (TypeOK /\ IInv)'
    BY <2>2, LayerTypes, LayerKeeps
  <2>3. CASE UNCHANGED vars
    BY <2>3 DEF vars, composition, present, socket, slots, daemon, channel, bounds, TypeOK, IInv, LockHeld, Drawn,
                Unanswered, Acknowledged, SlotsHoldSent, OneRequest, FrameWhereNamed, NoFrameOnPending, Outstanding
  <2> QED
    BY <2>1, <2>2, <2>3 DEF Next
<1> QED
  BY <1>1, <1>2, PTL DEF Spec

(* Every variable keeps its type. *)
THEOREM TypeCorrect == Spec => []TypeOK
BY Invariance, PTL

(* A request is served from the memory its frame is in. *)
THEOREM ServedWhereNamed == Spec => []FrameWhereNamed
<1>1. IInv => FrameWhereNamed
  BY DEF IInv
<1> QED
  BY <1>1, Invariance, PTL

(* No request names an offer that was not acknowledged. *)
THEOREM NonePending == Spec => []NoFrameOnPending
<1>1. IInv => NoFrameOnPending
  BY DEF IInv
<1> QED
  BY <1>1, Invariance, PTL

-----------------------------------------------------------------------------
(* The exchange.                                                           *)

(* What it maps to is the request, and whom it is for. *)
LEMMA Hidden ==
  ASSUME Outstanding' <=> Outstanding, UNCHANGED <<asker, asked, used, lpc>>,
         \A l \in Layers : lpc[l] \in {"waiting", "composing"} => pair'[l] = pair[l]
  PROVE  UNCHANGED Exchange!vars
BY DEF Exchange!vars

(* A question is never nothing. *)
LEMMA Asked ==
  ASSUME NEW l \in Layers, NEW p
  PROVE  <<l, p>> # <<NoLayer, Staging>>
BY LayerAssumption

(* The daemon is seen when it answers, or refuses. *)
LEMMA DaemonSteps ==
  ASSUME TypeOK, IInv, Work \/ Retier \/ End
  PROVE  [Exchange!Next]_(Exchange!vars)
<1>1. UNCHANGED <<lpc, pair>>
  BY DEF Work, Start, Built, AcceptOffer, Import, TakeRequest, Miss, Infer, Retier, End, composition, present
<1>2. CASE Outstanding /\ ~Outstanding'
  <2>1. \A l \in Layers : lpc[l] # "composing"
    BY <1>2 DEF IInv, OneRequest, Outstanding
  <2>2. Exchange!Settle
    BY <1>1, <1>2, <2>1, Asked DEF Exchange!Settle, IInv, OneRequest
  <2> QED
    BY <2>2 DEF Exchange!Next
<1>3. CASE ~(Outstanding /\ ~Outstanding')
  <2>1. Outstanding' <=> Outstanding
    BY <1>3 DEF Work, Start, Built, AcceptOffer, Import, TakeRequest, Miss, Infer, Retier, End, Outstanding, Settle,
                channel
  <2>2. UNCHANGED <<asker, asked>> /\ (Outstanding \/ UNCHANGED used)
    <3>1. CASE Infer
      BY <1>3, <3>1 DEF Infer, Outstanding, Settle, IInv, OneRequest
    <3>2. CASE Start \/ TakeRequest \/ Miss
      BY <1>3, <3>2 DEF Start, TakeRequest, Miss, Outstanding, Settle
    <3>3. CASE Built \/ AcceptOffer \/ Import \/ Retier \/ End
      BY <3>3 DEF Built, AcceptOffer, Import, Retier, End, channel
    <3> QED
      BY <3>1, <3>2, <3>3 DEF Work
  <2>4. Outstanding => \A l \in Layers : lpc[l] # "composing"
    BY DEF IInv, OneRequest, Outstanding
  <2>5. UNCHANGED Exchange!vars
    BY <1>1, <2>1, <2>2, <2>4 DEF Exchange!vars
  <2> QED
    BY <2>5
<1> QED
  BY <1>2, <1>3

(* A layer is seen when it asks, shows an answer or is done. *)
LEMMA LayerSteps ==
  ASSUME TypeOK, IInv, NEW l \in Layers, Enter(l) \/ Present(l) \/ Recreate(l)
  PROVE  [Exchange!Next]_(Exchange!vars)
<1>1. CASE lpc[l] \notin {"waiting", "composing"} /\ ~Ask(l)
  <2>1. UNCHANGED <<channel>>
    BY <1>1 DEF Present, FindNoHelper, Enter, Prepare, Abandon, SendOffer, SendFails, PollOffer, GiveUp, Receive,
                Compose, Recreate
  <2>2. \A m \in Layers : m # l => lpc'[m] = lpc[m] /\ pair'[m] = pair[m]
    BY <1>1 DEF TypeOK, Present, FindNoHelper, Enter, Prepare, Remake, NewBuffers, Abandon, SendOffer, SendFails,
                DisableExport, PollOffer, SetReady, GiveUp, Forgo, Receive, Compose, Recreate, Leave, Goto,
                composition, present
  <2>3. lpc'[l] \notin {"waiting", "composing"}
    BY <1>1 DEF TypeOK, Present, FindNoHelper, Enter, Prepare, Abandon, SendOffer, SendFails, PollOffer,
                GiveUp, Forgo, Receive, Compose, Recreate, Leave, Goto, present
  <2>4. UNCHANGED Exchange!vars
    BY <1>1, <2>1, <2>2, <2>3 DEF Exchange!vars, channel, Outstanding
  <2> QED
    BY <2>4
<1>2. CASE Ask(l)
  <2>1. /\ lpc[l] = "prepared" /\ lpc' = [lpc EXCEPT ![l] = "waiting"] /\ pair' = pair
        /\ asker' = l /\ asked' = pair[l] /\ outcome' = "asked"
    BY <1>2 DEF Ask, Goto, composition
  <2>2. ~Outstanding /\ \A m \in Layers : m # l => lpc[m] = "out"
    BY <2>1 DEF IInv, OneRequest, LockHeld
  <2>3. <<l, pair[l]>> \in Layers \X Pairs
    BY DEF TypeOK
  <2>4. Exchange!Ask(l)
    BY <2>1, <2>2, <2>3 DEF Exchange!Ask, Outstanding, TypeOK
  <2> QED
    BY <2>4 DEF Exchange!Next
<1>3. CASE Receive(l) /\ lpc' = [lpc EXCEPT ![l] = "composing"]
  <2>1. lpc[l] = "waiting" /\ outcome = "ok" /\ ~Outstanding /\ UNCHANGED <<pair, channel>>
    BY <1>3 DEF Receive, Forgo, Leave, TypeOK, Outstanding
  <2>2. asker = l /\ asked = pair[l] /\ used = asked
    BY <2>1 DEF IInv, OneRequest
  <2>3. Exchange!Show(l)
    BY <1>3, <2>1, <2>2, Asked DEF Exchange!Show, TypeOK, channel, Outstanding
  <2> QED
    BY <2>3 DEF Exchange!Next
<1>4. CASE lpc[l] \in {"waiting", "composing"} /\ lpc' = [lpc EXCEPT ![l] = "out"]
  <2>1. pair' = pair /\ (Outstanding' <=> Outstanding) /\ (Outstanding => UNCHANGED channel)
    <3>1. GiveUp(l) \/ Receive(l) \/ Compose(l)
      BY <1>4 DEF Present, FindNoHelper, Enter, Prepare, Abandon, SendOffer, SendFails, PollOffer, Ask, Recreate
    <3>2. CASE GiveUp(l) \/ Receive(l)
      BY <3>2 DEF GiveUp, Receive, Outstanding, channel
    <3>3. CASE Compose(l)
      <4>1. outcome = "ok" /\ outcome' = "none" /\ pair' = pair
        BY <3>3 DEF Compose, Settle, composition, IInv, OneRequest
      <4> QED
        BY <4>1 DEF Outstanding
    <3> QED
      BY <3>1, <3>2, <3>3
  <2>2. \A m \in Layers : m # l => lpc[m] = "out"
    BY <1>4 DEF IInv, LockHeld
  <2>3. Exchange!Finish(l)
    BY <1>4, <2>1, <2>2, Asked DEF Exchange!Finish, TypeOK, channel
  <2> QED
    BY <2>3 DEF Exchange!Next
<1>5. lpc[l] \in {"waiting", "composing"} =>
        \/ Receive(l) /\ lpc' = [lpc EXCEPT ![l] = "composing"]
        \/ lpc' = [lpc EXCEPT ![l] = "out"]
  BY DEF Present, FindNoHelper, Enter, Prepare, Abandon, SendOffer, SendFails, PollOffer, Ask, GiveUp, Receive,
         Compose, Recreate, Forgo, Leave, Goto
<1> QED
  BY <1>1, <1>2, <1>3, <1>4, <1>5

(* Over device-local memory, too, a game composes the answer to its own    *)
(* frame, in the buffers it composes from.                                 *)
THEOREM Implements == Spec => ImplementsExchange
<1>1. Init => Exchange!Init
  BY DEF Init, Exchange!Init, Outstanding
<1>2. TypeOK /\ IInv /\ [Next]_vars => [Exchange!Next]_(Exchange!vars)
  <2> SUFFICES ASSUME TypeOK, IInv, [Next]_vars
               PROVE  [Exchange!Next]_(Exchange!vars)
    OBVIOUS
  <2>1. CASE UNCHANGED vars
    BY <2>1, Hidden DEF vars, composition, present, channel, Outstanding
  <2>2. CASE Next
    BY <2>2, DaemonSteps, LayerSteps DEF Next
  <2> QED
    BY <2>1, <2>2
<1> QED
  BY <1>1, <1>2, Invariance, PTL DEF Spec, ImplementsExchange, Exchange!Spec
=============================================================================
