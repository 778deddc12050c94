---------------------------- MODULE PacketChannel ----------------------------
(***************************************************************************)
(* What one direction of a connection promises its two ends: packets come   *)
(* out as they went in, in order and at most once, until the connection is   *)
(* over.                                                                     *)
(***************************************************************************)
EXTENDS Naturals, Sequences

CONSTANT Packets

VARIABLES
  sent,      \* packets put in so far
  received,  \* packets taken out so far
  over       \* nothing will be taken out any more

vars == <<sent, received, over>>

Init == sent = <<>> /\ received = <<>> /\ over = FALSE

Send(p) ==
  /\ sent' = Append(sent, p)
  /\ UNCHANGED <<received, over>>

Deliver ==
  /\ ~over /\ Len(received) < Len(sent)
  /\ received' = Append(received, sent[Len(received) + 1])
  /\ UNCHANGED <<sent, over>>

End ==
  /\ over' = TRUE
  /\ UNCHANGED <<sent, received>>

Next == Deliver \/ End \/ \E p \in Packets : Send(p)

Spec == Init /\ [][Next]_vars
=============================================================================
