---------------------------- MODULE PairingService ----------------------------
(***************************************************************************)
(* What the operational server promises its clients.  The two sides of a     *)
(* hash are given to clients that register; a side is nobody's or one        *)
(* client's, passes from one client to another only by way of nobody, and is  *)
(* emptied for a client whose service has ended.  Packets go to their sender's *)
(* partners, and answers to the sender itself.  Where a registration and a     *)
(* departure under one hash overlap, one of them may be undone for the other    *)
(* side: the hash is blurred from then on.                                     *)
(***************************************************************************)
EXTENDS Naturals, Sequences

CONSTANTS Clients, Hashes, None, Packets

VARIABLES
  side,     \* the client on each side of each hash
  claims,   \* registrations <<client, role, hash>> so far
  ended,    \* clients whose service has ended
  blurred,  \* hashes one of whose registrations or departures was undone
  inbox     \* packets each client has yet to read

vars == <<side, claims, ended, blurred, inbox>>

Roles == {"display", "control"}
Other(r) == IF r = "display" THEN "control" ELSE "display"

Partners(c, d) ==
  \E h \in Hashes, r \in Roles : <<c, r, h>> \in claims /\ <<d, Other(r), h>> \in claims

Init ==
  /\ side = [h \in Hashes |-> [r \in Roles |-> None]]
  /\ claims = {} /\ ended = {} /\ blurred = {}
  /\ inbox = [c \in Clients |-> <<>>]

\* A client takes a side that is free.
Register(c, r, h) ==
  /\ c \notin ended /\ side[h][r] = None
  /\ side'   = [side EXCEPT ![h][r] = c]
  /\ claims' = claims \cup {<<c, r, h>>}
  /\ UNCHANGED <<ended, blurred, inbox>>

\* The same, and a client that had left the other side meanwhile is put back.
RegisterOver(c, r, h) ==
  /\ c \notin ended /\ side[h][r] = None /\ side[h][Other(r)] = None
  /\ \E d \in Clients :
       /\ <<d, Other(r), h>> \in claims /\ (d \in ended \/ h \in blurred)
       /\ side' = [side EXCEPT ![h][r] = c, ![h][Other(r)] = d]
  /\ claims'  = claims \cup {<<c, r, h>>}
  /\ blurred' = blurred \cup {h}
  /\ UNCHANGED <<ended, inbox>>

\* A client whose service has ended leaves its side; whose side it is can be told only as
\* long as the hash is not blurred.
Leaves(c, r, h) ==
  c \in ended /\ <<c, r, h>> \in claims /\ (side[h][r] = c \/ h \in blurred)

Release(c, r, h) ==
  /\ Leaves(c, r, h)
  /\ side' = [side EXCEPT ![h][r] = None]
  /\ UNCHANGED <<claims, ended, blurred, inbox>>

\* The same, and a client that had taken the other side meanwhile is dropped.
ReleaseOver(c, r, h) ==
  /\ Leaves(c, r, h) /\ side[h][Other(r)] # None
  /\ side'    = [side EXCEPT ![h][r] = None, ![h][Other(r)] = None]
  /\ blurred' = blurred \cup {h}
  /\ UNCHANGED <<claims, ended, inbox>>

End(c) ==
  /\ ended' = ended \cup {c}
  /\ UNCHANGED <<side, claims, blurred, inbox>>

\* A packet of c for d.
Deliver(c, d, p) ==
  /\ p.from = c /\ (c = d \/ Partners(c, d))
  /\ inbox' = [inbox EXCEPT ![d] = Append(@, p)]
  /\ UNCHANGED <<side, claims, ended, blurred>>

\* A client reads, or goes away.
Read(c) ==
  /\ inbox[c] # <<>>
  /\ inbox' = [inbox EXCEPT ![c] = Tail(@)]
  /\ UNCHANGED <<side, claims, ended, blurred>>
Drop(c) ==
  /\ inbox' = [inbox EXCEPT ![c] = <<>>]
  /\ UNCHANGED <<side, claims, ended, blurred>>

Next ==
  \/ \E c \in Clients, r \in Roles, h \in Hashes :
       Register(c, r, h) \/ RegisterOver(c, r, h) \/ Release(c, r, h) \/ ReleaseOver(c, r, h)
  \/ \E c \in Clients : End(c) \/ Read(c) \/ Drop(c)
  \/ \E c, d \in Clients, p \in Packets : Deliver(c, d, p)

Spec == Init /\ [][Next]_vars
=============================================================================
