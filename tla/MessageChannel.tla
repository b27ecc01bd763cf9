--------------------------- MODULE MessageChannel ---------------------------
(***************************************************************************)
(* What the bridge of NodeTwo promises for the messages a phone writes: a  *)
(* bounded first-in-first-out channel.  It may turn away the newest        *)
(* message when it is full, and loses the first ones as long as no topic   *)
(* is known; from the first delivery on, whatever was accepted is          *)
(* delivered once, in order, under topics that never go back.              *)
(***************************************************************************)
EXTENDS Integers, Sequences

CONSTANTS Capacity,   \* messages it holds, beside the two that enter and leave
          Topics      \* numbered in the order they are chosen

VARIABLES sent,       \* number of messages written so far
          transit,    \* messages on their way, oldest first
          out         \* what has been delivered: message and topic

Init == sent = 0 /\ transit = <<>> /\ out = <<>>

Accept ==
  /\ Len(transit) < Capacity + 2
  /\ sent' = sent + 1
  /\ transit' = Append(transit, sent')
  /\ UNCHANGED out

TurnAway ==
  /\ Len(transit) > Capacity
  /\ transit' = SubSeq(transit, 1, Len(transit) - 1)
  /\ UNCHANGED <<sent, out>>

LoseFirst ==
  /\ transit # <<>> /\ out = <<>>
  /\ transit' = Tail(transit)
  /\ UNCHANGED <<sent, out>>

Deliver(topic) ==
  /\ transit # <<>>
  /\ out # <<>> => out[Len(out)].topic <= topic
  /\ out' = Append(out, [msg |-> Head(transit), topic |-> topic])
  /\ transit' = Tail(transit)
  /\ UNCHANGED sent

Next == Accept \/ TurnAway \/ LoseFirst \/ \E topic \in Topics : Deliver(topic)

Spec == Init /\ [][Next]_<<sent, transit, out>>
=============================================================================
