--------------------------- MODULE PacketChannel ---------------------------
(***************************************************************************)
(* What the Bluetooth stack is promised of the packets the controller      *)
(* sends it: whole, in order, one at a time. A packet may be refused before *)
(* it is in the channel, not after, unless the channel is reopened. While  *)
(* the channel is broken it promises nothing, but it is empty when it      *)
(* mends.                                                                  *)
(***************************************************************************)
EXTENDS Sequences

CONSTANT Packets

VARIABLES waiting, handed, broken       \* handed = <<>>: nothing in hand

Init == waiting = <<>> /\ handed = <<>> /\ broken = FALSE

Accept == /\ \E p \in Packets : waiting' = Append(waiting, p)
          /\ UNCHANGED handed
Take == /\ waiting # <<>> /\ handed = <<>>
        /\ handed' = Head(waiting) /\ waiting' = Tail(waiting)
Done == handed' = <<>> /\ UNCHANGED waiting
Reopen == waiting' = <<>> /\ UNCHANGED handed

Break == broken' = TRUE
Mend == broken /\ broken' = FALSE /\ waiting' = <<>>

Next ==
  \/ ~broken /\ ~broken' /\ (Accept \/ Take \/ Done \/ Reopen)
  \/ Break \/ Mend

Spec == Init /\ [][Next]_<<waiting, handed, broken>>
=============================================================================
