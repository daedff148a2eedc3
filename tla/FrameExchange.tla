---------------------------- MODULE FrameExchange ----------------------------
(***************************************************************************)
(* What the frame channel promises the games that use it, with no word of  *)
(* sequence numbers, slots or helper states: one frame at a time is with   *)
(* the daemon, it comes back, and what a game shows is the answer to the   *)
(* frame it asked about, which by then is no longer with the daemon.       *)
(***************************************************************************)
CONSTANTS
  Games,
  Questions,   \* the frames that can be asked about, with their extents
  Nothing

VARIABLES
  pending,     \* the frame that is with the daemon
  holds,       \* the frame each game asked about and waits for
  shown        \* the answer each game composes onto its own frame

vars == <<pending, holds, shown>>

Init ==
  /\ pending = Nothing
  /\ holds = [g \in Games |-> Nothing]
  /\ shown = [g \in Games |-> Nothing]

(* Nobody waits, and the daemon has nothing. *)
Ask(g) ==
  /\ pending = Nothing
  /\ \A h \in Games : holds[h] = Nothing
  /\ \E q \in Questions : pending' = q /\ holds' = [holds EXCEPT ![g] = q]
  /\ UNCHANGED shown

(* Answered, or failed: a game cannot tell until it looks. *)
Settle ==
  /\ pending # Nothing
  /\ pending' = Nothing
  /\ UNCHANGED <<holds, shown>>

Show(g) ==
  /\ holds[g] # Nothing /\ shown[g] = Nothing
  /\ pending = Nothing
  /\ shown' = [shown EXCEPT ![g] = holds[g]]
  /\ UNCHANGED <<pending, holds>>

(* The present is over, with an answer shown or without: the game gave up, *)
(* was refused, or ended.  What is with the daemon stays there.            *)
Finish(g) ==
  /\ holds[g] # Nothing
  /\ holds' = [holds EXCEPT ![g] = Nothing]
  /\ shown' = [shown EXCEPT ![g] = Nothing]
  /\ UNCHANGED pending

Next == Settle \/ \E g \in Games : Ask(g) \/ Show(g) \/ Finish(g)

Spec == Init /\ [][Next]_vars
=============================================================================
