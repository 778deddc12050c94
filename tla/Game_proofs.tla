------------------------------ MODULE Game_proofs ------------------------------
(***************************************************************************)
(* Proofs about Game, for any number of control clients, of scores, of       *)
(* replays and of events that end inside a packet.                           *)
(***************************************************************************)
EXTENDS Game, WellFoundedInduction, TLAPS

-----------------------------------------------------------------------------
(* Queues.                                                                   *)

\* Some element of a queue, or every one, is in P; at most one is.
Has(s, P)  == \E i \in DOMAIN s : s[i] \in P
Only(s, P) == \A i \in DOMAIN s : s[i] \in P
Once(s, P) == \A i, j \in DOMAIN s : s[i] \in P /\ s[j] \in P => i = j

\* Only elements of P come before an e; some e comes behind every d; an e is the last.
Before(s, P, e) == \A i \in DOMAIN s : s[i] = e => \A j \in 1..(i - 1) : s[j] \in P
Behind(s, d, e) == \A i \in DOMAIN s : s[i] = d => \E j \in (i + 1)..Len(s) : s[j] = e
AtEnd(s, e)     == \A i \in DOMAIN s : s[i] = e => i = Len(s)

LEMMA TailPoints ==
  ASSUME NEW S, NEW s \in Seq(S), s # <<>>
  PROVE  /\ Tail(s) \in Seq(S) /\ Len(Tail(s)) = Len(s) - 1 /\ Len(s) \in Nat \ {0}
         /\ Head(s) = s[1] /\ Head(s) \in S /\ 1 \in DOMAIN s
         /\ \A i \in DOMAIN Tail(s) : i + 1 \in DOMAIN s /\ Tail(s)[i] = s[i + 1]
         /\ \A i \in DOMAIN s : i = 1 \/ (i - 1 \in DOMAIN Tail(s) /\ Tail(s)[i - 1] = s[i])
<1>1. /\ Tail(s) \in Seq(S) /\ Len(Tail(s)) = Len(s) - 1 /\ Len(s) \in Nat \ {0}
      /\ Head(s) = s[1] /\ 1 \in DOMAIN s /\ DOMAIN s = 1..Len(s)
      /\ DOMAIN Tail(s) = 1..(Len(s) - 1)
  OBVIOUS
<1>2. Head(s) \in S
  OBVIOUS
<1>3. \A i \in 1..(Len(s) - 1) : Tail(s)[i] = s[i + 1]
  OBVIOUS
<1>4. \A i \in 1..Len(s) : i = 1 \/ (i - 1 \in 1..(Len(s) - 1) /\ Tail(s)[i - 1] = s[i])
  <2> SUFFICES ASSUME NEW i \in 1..Len(s), i # 1
               PROVE  i - 1 \in 1..(Len(s) - 1) /\ Tail(s)[i - 1] = s[i]
    OBVIOUS
  <2>1. i - 1 \in 1..(Len(s) - 1) /\ (i - 1) + 1 = i
    BY <1>1
  <2> QED BY <1>3, <2>1
<1>5. \A i \in 1..(Len(s) - 1) : i + 1 \in 1..Len(s)
  BY <1>1
<1> QED BY <1>1, <1>2, <1>3, <1>4, <1>5

LEMMA AppendPoints ==
  ASSUME NEW S, NEW s \in Seq(S), NEW e \in S
  PROVE  /\ Append(s, e) \in Seq(S) /\ Len(Append(s, e)) = Len(s) + 1 /\ Len(s) \in Nat
         /\ \A i \in DOMAIN s : i \in DOMAIN Append(s, e) /\ Append(s, e)[i] = s[i]
         /\ \A i \in DOMAIN Append(s, e) : i \in DOMAIN s \/ i = Len(s) + 1
         /\ Append(s, e)[Len(s) + 1] = e
OBVIOUS

LEMMA TailHas ==
  ASSUME NEW S, NEW s \in Seq(S), s # <<>>, NEW P
  PROVE  /\ Has(s, P) <=> (Head(s) \in P \/ Has(Tail(s), P))
         /\ Only(s, P) <=> (Head(s) \in P /\ Only(Tail(s), P))
         /\ Once(s, P) => Once(Tail(s), P) /\ (Head(s) \in P => ~Has(Tail(s), P))
<1>1. Has(s, P) <=> (Head(s) \in P \/ Has(Tail(s), P))
  BY TailPoints DEF Has
<1>2. Only(s, P) <=> (Head(s) \in P /\ Only(Tail(s), P))
  <2>1. ASSUME Head(s) \in P, Only(Tail(s), P), NEW i \in DOMAIN s PROVE s[i] \in P
    <3>1. i = 1 \/ (i - 1 \in DOMAIN Tail(s) /\ Tail(s)[i - 1] = s[i])
      BY TailPoints
    <3> QED BY <2>1, <3>1, TailPoints DEF Only
  <2>2. ASSUME Only(s, P) PROVE Head(s) \in P /\ Only(Tail(s), P)
    BY <2>2, TailPoints DEF Only
  <2> QED BY <2>1, <2>2 DEF Only
<1>3. Once(s, P) => Once(Tail(s), P)
  <2> SUFFICES ASSUME Once(s, P), NEW i \in DOMAIN Tail(s), NEW j \in DOMAIN Tail(s),
                      Tail(s)[i] \in P, Tail(s)[j] \in P
               PROVE  i = j
    BY DEF Once
  <2>1. i + 1 = j + 1
    BY TailPoints DEF Once
  <2> QED BY <2>1, TailPoints
<1>4. Once(s, P) /\ Head(s) \in P => ~Has(Tail(s), P)
  <2> SUFFICES ASSUME Once(s, P), Head(s) \in P, NEW i \in DOMAIN Tail(s), Tail(s)[i] \in P
               PROVE  FALSE
    BY DEF Has
  <2>1. i + 1 = 1
    BY TailPoints DEF Once
  <2> QED BY <2>1, TailPoints
<1> QED BY <1>1, <1>2, <1>3, <1>4

LEMMA AppendHas ==
  ASSUME NEW S, NEW s \in Seq(S), NEW e \in S, NEW P
  PROVE  /\ Has(Append(s, e), P) <=> (Has(s, P) \/ e \in P)
         /\ Only(Append(s, e), P) <=> (Only(s, P) /\ e \in P)
         /\ Once(s, P) /\ (e \notin P \/ ~Has(s, P)) => Once(Append(s, e), P)
<1>1. Has(Append(s, e), P) <=> (Has(s, P) \/ e \in P)
  BY AppendPoints DEF Has
<1>2. Only(Append(s, e), P) <=> (Only(s, P) /\ e \in P)
  BY AppendPoints DEF Only
<1>3. Once(s, P) /\ (e \notin P \/ ~Has(s, P)) => Once(Append(s, e), P)
  BY AppendPoints DEF Once, Has
<1> QED BY <1>1, <1>2, <1>3

LEMMA TailOrder ==
  ASSUME NEW S, NEW s \in Seq(S), s # <<>>, NEW P, NEW d, NEW e
  PROVE  /\ Before(s, P, e) => Before(Tail(s), P, e) /\ (Head(s) \notin P => ~Has(Tail(s), {e}))
         /\ Behind(s, d, e) => Behind(Tail(s), d, e) /\ (Head(s) = d => Has(Tail(s), {e}))
         /\ AtEnd(s, e) => AtEnd(Tail(s), e) /\ (Head(s) = e => Tail(s) = <<>>)
<1>1. ASSUME Before(s, P, e) PROVE Before(Tail(s), P, e)
  <2> SUFFICES ASSUME NEW i \in DOMAIN Tail(s), Tail(s)[i] = e, NEW j \in 1..(i - 1)
               PROVE  Tail(s)[j] \in P
    BY DEF Before
  <2>1. s[i + 1] = e /\ j + 1 \in 1..((i + 1) - 1) /\ j \in DOMAIN Tail(s)
    BY TailPoints
  <2> QED BY <1>1, <2>1, TailPoints DEF Before
<1>2. ASSUME Before(s, P, e), Head(s) \notin P PROVE ~Has(Tail(s), {e})
  <2> SUFFICES ASSUME NEW i \in DOMAIN Tail(s), Tail(s)[i] = e PROVE FALSE
    BY DEF Has
  <2>1. s[i + 1] = e /\ 1 \in 1..((i + 1) - 1)
    BY TailPoints
  <2> QED BY <1>2, <2>1, TailPoints DEF Before
<1>3. ASSUME Behind(s, d, e) PROVE Behind(Tail(s), d, e)
  <2> SUFFICES ASSUME NEW i \in DOMAIN Tail(s), Tail(s)[i] = d
               PROVE  \E j \in (i + 1)..Len(Tail(s)) : Tail(s)[j] = e
    BY DEF Behind
  <2>1. PICK j \in ((i + 1) + 1)..Len(s) : s[j] = e
    BY <1>3, TailPoints DEF Behind
  <2>2. j - 1 \in (i + 1)..Len(Tail(s)) /\ Tail(s)[j - 1] = e
    BY <2>1, TailPoints
  <2> QED BY <2>2
<1>4. ASSUME Behind(s, d, e), Head(s) = d PROVE Has(Tail(s), {e})
  <2>1. PICK j \in (1 + 1)..Len(s) : s[j] = e
    BY <1>4, TailPoints DEF Behind
  <2>2. j - 1 \in DOMAIN Tail(s) /\ Tail(s)[j - 1] = e
    BY <2>1, TailPoints
  <2> QED BY <2>2 DEF Has
<1>5. ASSUME AtEnd(s, e) PROVE AtEnd(Tail(s), e)
  BY <1>5, TailPoints DEF AtEnd
<1>6. ASSUME AtEnd(s, e), Head(s) = e PROVE Tail(s) = <<>>
  BY <1>6, TailPoints DEF AtEnd
<1> QED BY <1>1, <1>2, <1>3, <1>4, <1>5, <1>6

LEMMA AppendOrder ==
  ASSUME NEW S, NEW s \in Seq(S), NEW x \in S, NEW P, NEW d, NEW e
  PROVE  /\ Before(s, P, e) /\ (x = e => Only(s, P)) => Before(Append(s, x), P, e)
         /\ x # d /\ (Behind(s, d, e) \/ x = e) => Behind(Append(s, x), d, e)
         /\ ~Has(s, {e}) => AtEnd(Append(s, x), e)
<1>1. ASSUME Before(s, P, e), x = e => Only(s, P) PROVE Before(Append(s, x), P, e)
  BY <1>1, AppendPoints DEF Before, Only
<1>2. ASSUME Behind(s, d, e), x # d PROVE Behind(Append(s, x), d, e)
  BY <1>2, AppendPoints DEF Behind
<1>3. ASSUME x = e, x # d PROVE Behind(Append(s, x), d, e)
  BY <1>3, AppendPoints DEF Behind
<1>4. ASSUME ~Has(s, {e}) PROVE AtEnd(Append(s, x), e)
  BY <1>4, AppendPoints DEF AtEnd, Has
<1> QED BY <1>1, <1>2, <1>3, <1>4

-----------------------------------------------------------------------------
(* Framing.                                                                  *)

Cells == {"displayRegistered", "controlRegistered", "controlUnregistered", "payload", "code",
          "HELO", "START", "<CONTROL>", "axes", "REPLAY:1", "name", "[!PU", "MP!]"}
Names == {"displayRegistered", "controlRegistered", "controlUnregistered",
          "HELO", "START", "CONTROL", "REPLAY"}

\* A packet has four or five cells, begins with its identifier and ends with the magic field.
LEMMA WireShape ==
  /\ DOMAIN WireOf = Names
  /\ Identifiers = {"displayRegistered", "controlRegistered", "controlUnregistered", "payload"}
  /\ \A p \in Names :
       /\ WireOf[p] \in Seq(Cells) /\ Len(WireOf[p]) \in {4, 5}
       /\ WireOf[p][1] \in Identifiers
       /\ \A i \in 2..Len(WireOf[p]) : WireOf[p][i] \notin Identifiers
       /\ \A i \in 2..Len(WireOf[p]) :
            <<WireOf[p][i - 1], WireOf[p][i]>> = Magic <=> i = Len(WireOf[p])
<1>1. DOMAIN WireOf = Names
  BY DEF WireOf, Names
<1>2. Identifiers = {"displayRegistered", "controlRegistered", "controlUnregistered", "payload"}
  BY DEF WireOf, Identifiers
<1>3. ASSUME NEW p \in Names
      PROVE  /\ WireOf[p] \in Seq(Cells) /\ Len(WireOf[p]) \in {4, 5}
             /\ WireOf[p][1] \in Identifiers
             /\ \A i \in 2..Len(WireOf[p]) : WireOf[p][i] \notin Identifiers
             /\ \A i \in 2..Len(WireOf[p]) :
                  <<WireOf[p][i - 1], WireOf[p][i]>> = Magic <=> i = Len(WireOf[p])
  <2>1. CASE p \in {"displayRegistered", "controlRegistered", "controlUnregistered"}
    <3>1. WireOf[p] = <<p, "code", "[!PU", "MP!]">>
      BY <2>1 DEF WireOf
    <3> QED BY <1>2, <2>1, <3>1 DEF Magic, Cells
  <2>2. CASE p \in {"HELO", "START"}
    <3>1. WireOf[p] = <<"payload", p, "[!PU", "MP!]">>
      BY <2>2 DEF WireOf
    <3> QED BY <1>2, <2>2, <3>1 DEF Magic, Cells
  <2>3. CASE p = "CONTROL"
    <3>1. WireOf[p] = <<"payload", "<CONTROL>", "axes", "[!PU", "MP!]">>
      BY <2>3 DEF WireOf
    <3> QED BY <1>2, <2>3, <3>1 DEF Magic, Cells
  <2>4. CASE p = "REPLAY"
    <3>1. WireOf[p] = <<"payload", "REPLAY:1", "name", "[!PU", "MP!]">>
      BY <2>4 DEF WireOf
    <3> QED BY <1>2, <2>4, <3>1 DEF Magic, Cells
  <2> QED BY <2>1, <2>2, <2>3, <2>4 DEF Names
<1> QED BY <1>1, <1>2, <1>3

\* The length of the cells at the offset 0 decides how much of the old content stays.
LEMMA OverlaidPoints ==
  ASSUME NEW S, NEW old \in Seq(S), NEW cells \in Seq(S)
  PROVE  /\ Overlaid(old, cells) \in Seq(S)
         /\ Len(cells) <= Len(Overlaid(old, cells))
         /\ \A i \in DOMAIN cells : Overlaid(old, cells)[i] = cells[i]
         /\ \A i \in DOMAIN Overlaid(old, cells) :
              i \in DOMAIN cells \/ (i \in DOMAIN old /\ Overlaid(old, cells)[i] = old[i])
<1> DEFINE rest == SubSeq(old, Len(cells) + 1, Len(old))
<1>1. /\ rest \in Seq(S) /\ Len(cells) \in Nat /\ Len(old) \in Nat
      /\ Len(rest) = IF Len(old) > Len(cells) THEN Len(old) - Len(cells) ELSE 0
      /\ \A i \in 1..Len(rest) : rest[i] = old[Len(cells) + i]
  OBVIOUS
<1>2. Overlaid(old, cells) = cells \o rest
  BY DEF Overlaid
<1>3. /\ cells \o rest \in Seq(S) /\ Len(cells \o rest) = Len(cells) + Len(rest)
      /\ \A i \in 1..Len(cells) : (cells \o rest)[i] = cells[i]
      /\ \A i \in (Len(cells) + 1)..(Len(cells) + Len(rest)) :
           (cells \o rest)[i] = rest[i - Len(cells)]
  BY <1>1
<1>4. ASSUME NEW i \in (Len(cells) + 1)..(Len(cells) + Len(rest))
      PROVE  i \in 1..Len(old) /\ (cells \o rest)[i] = old[i]
  <2>1. i - Len(cells) \in 1..Len(rest) /\ Len(cells) + (i - Len(cells)) = i
    BY <1>1
  <2>2. rest[i - Len(cells)] = old[i]
    BY <1>1, <2>1
  <2> QED BY <1>1, <1>3, <2>2
<1> HIDE DEF rest
<1> QED BY <1>1, <1>2, <1>3, <1>4

\* A whole packet at the beginning of an event is the one that is handed over.
LEMMA WholeHanded ==
  ASSUME NEW S, NEW old \in Seq(S), NEW cells \in Seq(S), NEW p \in Names,
         Len(WireOf[p]) <= Len(cells),
         \A i \in 1..Len(WireOf[p]) : cells[i] = WireOf[p][i]
  PROVE  Handed(old, cells) = WireOf[p]
<1> DEFINE all  == Overlaid(old, cells)
           L    == Len(WireOf[p])
           ends == {i \in 2..Len(all) : <<all[i - 1], all[i]>> = Magic}
<1>1. /\ all \in Seq(S) /\ Len(cells) <= Len(all)
      /\ \A i \in DOMAIN cells : all[i] = cells[i]
  BY OverlaidPoints
<1>2. /\ L \in {4, 5} /\ WireOf[p] \in Seq(Cells)
      /\ \A i \in 2..L : <<WireOf[p][i - 1], WireOf[p][i]>> = Magic <=> i = L
      /\ L <= Len(cells) /\ \A i \in 1..L : cells[i] = WireOf[p][i]
  BY WireShape
<1>3. MagicEnd(all) = IF ends = {} \/ Min(ends) < 4 THEN 0 ELSE Min(ends)
  BY DEF MagicEnd
<1>4. Handed(old, cells) = SubSeq(all, 1, MagicEnd(all))
  BY DEF Handed
<1>5. Len(WireOf[p]) = L
  OBVIOUS
<1> HIDE DEF all, L
<1>6. /\ Len(cells) \in Nat /\ Len(all) \in Nat /\ L <= Len(all)
      /\ \A i \in 1..L : all[i] = WireOf[p][i]
  <2>1. Len(cells) \in Nat /\ DOMAIN cells = 1..Len(cells) /\ Len(all) \in Nat
    BY <1>1
  <2>2. 1..L \subseteq DOMAIN cells /\ L <= Len(all)
    BY <1>1, <1>2, <2>1
  <2> QED BY <1>1, <1>2, <2>1, <2>2
<1>7. L \in ends
  <2>1. L \in 2..Len(all) /\ L - 1 \in 1..L /\ L \in 1..L /\ L \in 2..L
    BY <1>2, <1>6
  <2>2. <<WireOf[p][L - 1], WireOf[p][L]>> = Magic
    BY <1>2, <2>1
  <2> QED BY <1>6, <2>1, <2>2
<1>8. ends \subseteq Nat /\ \A i \in ends : L <= i
  <2>1. \A i \in ends : i \in Nat /\ i >= 2
    BY <1>6
  <2> SUFFICES ASSUME NEW i \in ends, i < L PROVE FALSE
    BY <1>2, <2>1
  <2>2. i \in 2..L /\ i - 1 \in 1..L /\ i \in 1..L
    BY <1>2, <2>1
  <2>3. <<WireOf[p][i - 1], WireOf[p][i]>> = Magic
    BY <1>6, <2>2
  <2> QED BY <1>2, <2>2, <2>3
<1> HIDE DEF ends
<1>9. Min(ends) = L
  <2>1. Min(ends) \in ends /\ \A i \in ends : Min(ends) <= i
    BY <1>7, <1>8 DEF Min
  <2>2. Min(ends) \in Nat /\ L <= Min(ends) /\ Min(ends) <= L
    BY <1>7, <1>8, <2>1
  <2> QED BY <1>2, <2>2
<1>10. MagicEnd(all) = L
  BY <1>2, <1>3, <1>7, <1>9
<1>11. /\ SubSeq(all, 1, L) \in Seq(S) /\ Len(SubSeq(all, 1, L)) = L
       /\ \A i \in 1..L : SubSeq(all, 1, L)[i] = all[i]
  BY <1>1, <1>2, <1>6
<1>12. SubSeq(all, 1, L) = WireOf[p]
  BY <1>2, <1>5, <1>6, <1>11
<1> QED BY <1>4, <1>10, <1>12

\* A stream of whole packets: it begins with an identifier, and where there is one a packet
\* starts, which another or the end follows.
StartsAt(s, p, i) ==
  LET next == i + Len(WireOf[p]) IN
  /\ next <= Len(s) + 1 /\ (next <= Len(s) => s[next] \in Identifiers)
  /\ \A k \in 1..Len(WireOf[p]) : s[i + k - 1] = WireOf[p][k]

GoCells == {"START", "REPLAY:1"}
Whole(s) ==
  /\ s # <<>> => s[1] \in Identifiers
  /\ \A i \in DOMAIN s : s[i] \in Identifiers => \E p \in Names : StartsAt(s, p, i)
  /\ \A i \in DOMAIN s : s[i] \in GoCells => i > 1 /\ s[i - 1] = "payload"

LEMMA WireHas ==
  ASSUME NEW p \in Names
  PROVE  /\ Has(WireOf[p], {"payload"}) <=> p \in {"HELO", "START", "CONTROL", "REPLAY"}
         /\ Has(WireOf[p], GoCells) <=> p \in {"START", "REPLAY"}
         /\ Has(WireOf[p], {"HELO"}) <=> p = "HELO"
         /\ Once(WireOf[p], GoCells)
         /\ \A i \in DOMAIN WireOf[p] : WireOf[p][i] \in GoCells => i > 1 /\ WireOf[p][i - 1] = "payload"
<1> USE DEF Has, Once, GoCells
<1>1. CASE p \in {"displayRegistered", "controlRegistered", "controlUnregistered"}
  <2>1. WireOf[p] = <<p, "code", "[!PU", "MP!]">>
    BY <1>1 DEF WireOf
  <2> QED BY <1>1, <2>1
<1>2. CASE p \in {"HELO", "START"}
  <2>1. WireOf[p] = <<"payload", p, "[!PU", "MP!]">>
    BY <1>2 DEF WireOf
  <2> QED BY <1>2, <2>1
<1>3. CASE p = "CONTROL"
  <2>1. WireOf[p] = <<"payload", "<CONTROL>", "axes", "[!PU", "MP!]">>
    BY <1>3 DEF WireOf
  <2> QED BY <1>3, <2>1
<1>4. CASE p = "REPLAY"
  <2>1. WireOf[p] = <<"payload", "REPLAY:1", "name", "[!PU", "MP!]">>
    BY <1>4 DEF WireOf
  <2> QED BY <1>4, <2>1
<1> QED BY <1>1, <1>2, <1>3, <1>4 DEF Names

LEMMA ConcatPoints ==
  ASSUME NEW S, NEW s \in Seq(S), NEW t \in Seq(S)
  PROVE  /\ s \o t \in Seq(S) /\ Len(s \o t) = Len(s) + Len(t) /\ Len(s) \in Nat /\ Len(t) \in Nat
         /\ \A i \in 1..Len(s) : (s \o t)[i] = s[i]
         /\ \A k \in 1..Len(t) : (s \o t)[Len(s) + k] = t[k]
         /\ \A i \in 1..(Len(s) + Len(t)) : i \in 1..Len(s) \/ i - Len(s) \in 1..Len(t)
<1>1. /\ s \o t \in Seq(S) /\ Len(s \o t) = Len(s) + Len(t) /\ Len(s) \in Nat /\ Len(t) \in Nat
      /\ \A i \in 1..Len(s) : (s \o t)[i] = s[i]
      /\ \A i \in (Len(s) + 1)..(Len(s) + Len(t)) : (s \o t)[i] = t[i - Len(s)]
  OBVIOUS
<1>2. ASSUME NEW k \in 1..Len(t) PROVE (s \o t)[Len(s) + k] = t[k]
  <2>1. Len(s) + k \in (Len(s) + 1)..(Len(s) + Len(t)) /\ (Len(s) + k) - Len(s) = k
    BY <1>1
  <2> QED BY <1>1, <2>1
<1>3. \A i \in 1..(Len(s) + Len(t)) : i \in 1..Len(s) \/ i - Len(s) \in 1..Len(t)
  BY <1>1
<1> QED BY <1>1, <1>2, <1>3

LEMMA ConcatHas ==
  ASSUME NEW S, NEW s \in Seq(S), NEW t \in Seq(S), NEW P
  PROVE  /\ Has(s \o t, P) <=> (Has(s, P) \/ Has(t, P))
         /\ Once(s, P) /\ Once(t, P) /\ (~Has(s, P) \/ ~Has(t, P)) => Once(s \o t, P)
<1> DEFINE u == s \o t
<1>1. /\ Len(u) = Len(s) + Len(t) /\ Len(s) \in Nat /\ Len(t) \in Nat
      /\ \A i \in 1..Len(s) : u[i] = s[i]
      /\ \A k \in 1..Len(t) : u[Len(s) + k] = t[k]
      /\ \A i \in 1..(Len(s) + Len(t)) : i \in 1..Len(s) \/ i - Len(s) \in 1..Len(t)
      /\ DOMAIN s = 1..Len(s) /\ DOMAIN t = 1..Len(t) /\ DOMAIN u = 1..Len(u)
  BY ConcatPoints
<1> HIDE DEF u
<1>2. ASSUME NEW i \in DOMAIN u
      PROVE  \/ i \in DOMAIN s /\ u[i] = s[i]
             \/ i - Len(s) \in DOMAIN t /\ u[i] = t[i - Len(s)]
  <2>1. CASE i - Len(s) \in 1..Len(t)
    <3>1. Len(s) + (i - Len(s)) = i
      BY <1>1
    <3> QED BY <1>1, <2>1, <3>1
  <2> QED BY <1>1, <2>1
<1>3. \A i \in DOMAIN s : i \in DOMAIN u /\ u[i] = s[i]
  BY <1>1
<1>4. \A k \in DOMAIN t : Len(s) + k \in DOMAIN u /\ u[Len(s) + k] = t[k]
  BY <1>1
<1>5. Has(u, P) <=> (Has(s, P) \/ Has(t, P))
  BY <1>2, <1>3, <1>4 DEF Has
<1>6. ASSUME Once(s, P), Once(t, P), ~Has(s, P) \/ ~Has(t, P) PROVE Once(u, P)
  <2> SUFFICES ASSUME NEW i \in DOMAIN u, NEW j \in DOMAIN u, u[i] \in P, u[j] \in P
               PROVE  i = j
    BY DEF Once
  <2>1. CASE i \in DOMAIN s /\ u[i] = s[i]
    <3>1. Has(s, P)
      BY <2>1 DEF Has
    <3>2. j \in DOMAIN s /\ u[j] = s[j]
      BY <1>2, <1>6, <3>1 DEF Has
    <3> QED BY <1>6, <2>1, <3>2 DEF Once
  <2>2. CASE i - Len(s) \in DOMAIN t /\ u[i] = t[i - Len(s)]
    <3>1. Has(t, P)
      BY <2>2 DEF Has
    <3>2. j - Len(s) \in DOMAIN t /\ u[j] = t[j - Len(s)]
      BY <1>2, <1>6, <3>1 DEF Has
    <3>3. i - Len(s) = j - Len(s)
      BY <1>6, <2>2, <3>2 DEF Once
    <3> QED BY <1>1, <3>3
  <2> QED BY <1>2, <2>1, <2>2
<1> QED BY <1>5, <1>6 DEF u

\* A packet written behind a stream of whole ones.
LEMMA ConcatWhole ==
  ASSUME NEW s \in Seq(Cells), Whole(s), NEW p \in Names
  PROVE  Whole(s \o WireOf[p])
<1> DEFINE w == WireOf[p]
           u == s \o w
<1>1. /\ w \in Seq(Cells) /\ Len(w) \in {4, 5} /\ w[1] \in Identifiers
      /\ \A k \in 2..Len(w) : w[k] \notin Identifiers
      /\ \A k \in DOMAIN w : w[k] \in GoCells => k > 1 /\ w[k - 1] = "payload"
  BY WireShape, WireHas
<1>2. /\ Len(u) = Len(s) + Len(w) /\ Len(s) \in Nat
      /\ \A i \in 1..Len(s) : u[i] = s[i]
      /\ \A k \in 1..Len(w) : u[Len(s) + k] = w[k]
      /\ \A i \in 1..Len(u) : i \in 1..Len(s) \/ i - Len(s) \in 1..Len(w)
      /\ DOMAIN s = 1..Len(s) /\ DOMAIN w = 1..Len(w) /\ DOMAIN u = 1..Len(u)
  BY <1>1, ConcatPoints
<1>3. WireOf[p] = w
  OBVIOUS
<1> HIDE DEF w, u
<1>4. u[Len(s) + 1] \in Identifiers
  BY <1>1, <1>2
<1>5. u[1] \in Identifiers
  <2>1. CASE Len(s) = 0
    BY <1>4, <2>1
  <2>2. CASE Len(s) > 0
    <3>1. 1 \in 1..Len(s) /\ s # <<>>
      BY <1>2, <2>2
    <3> QED BY <1>2, <3>1 DEF Whole
  <2> QED BY <1>2, <2>1, <2>2
<1>6. ASSUME NEW i \in 1..Len(s), u[i] \in Identifiers PROVE \E q \in Names : StartsAt(u, q, i)
  <2>1. PICK q \in Names : StartsAt(s, q, i)
    BY <1>2, <1>6 DEF Whole
  <2>2. Len(WireOf[q]) \in {4, 5}
    BY WireShape
  <2>3. i + Len(WireOf[q]) <= Len(s) + 1 /\ i + Len(WireOf[q]) <= Len(u) + 1
    BY <1>1, <1>2, <2>1, <2>2 DEF StartsAt
  <2>4. ASSUME NEW k \in 1..Len(WireOf[q]) PROVE u[i + k - 1] = WireOf[q][k]
    <3>1. i + k - 1 \in 1..Len(s)
      BY <1>2, <2>2, <2>3
    <3> QED BY <1>2, <2>1, <3>1 DEF StartsAt
  <2>5. u[i + Len(WireOf[q])] \in Identifiers
    <3>1. CASE i + Len(WireOf[q]) = Len(s) + 1
      BY <1>4, <3>1
    <3>2. CASE i + Len(WireOf[q]) <= Len(s)
      <4>1. i + Len(WireOf[q]) \in 1..Len(s)
        BY <1>2, <2>2, <3>2
      <4> QED BY <1>2, <2>1, <3>2, <4>1 DEF StartsAt
    <3> QED BY <1>2, <2>2, <2>3, <3>1, <3>2
  <2> QED BY <2>3, <2>4, <2>5 DEF StartsAt
<1>7. StartsAt(u, p, Len(s) + 1)
  <2>1. ASSUME NEW k \in 1..Len(w) PROVE u[(Len(s) + 1) + k - 1] = w[k]
    <3>1. (Len(s) + 1) + k - 1 = Len(s) + k
      BY <1>2
    <3> QED BY <1>2, <3>1
  <2>2. (Len(s) + 1) + Len(w) = Len(u) + 1 /\ Len(u) \in Nat
    BY <1>1, <1>2
  <2> QED BY <1>3, <2>1, <2>2 DEF StartsAt
<1>8. ASSUME NEW i \in 1..Len(u), u[i] \in Identifiers PROVE \E q \in Names : StartsAt(u, q, i)
  <2>1. CASE i - Len(s) \in 1..Len(w)
    <3>1. i = Len(s) + (i - Len(s))
      BY <1>2
    <3>2. w[i - Len(s)] \in Identifiers
      BY <1>2, <1>8, <2>1, <3>1
    <3>3. i - Len(s) = 1
      BY <1>1, <2>1, <3>2
    <3>4. i = Len(s) + 1
      BY <1>2, <3>3
    <3> QED BY <1>7, <3>4
  <2> QED BY <1>2, <1>6, <1>8, <2>1
<1>9. ASSUME NEW i \in 1..Len(u), u[i] \in GoCells PROVE i > 1 /\ u[i - 1] = "payload"
  <2>1. CASE i \in 1..Len(s)
    <3>1. i > 1 /\ s[i - 1] = "payload"
      BY <1>2, <1>9, <2>1 DEF Whole
    <3>2. i - 1 \in 1..Len(s)
      BY <1>2, <2>1, <3>1
    <3> QED BY <1>2, <3>1, <3>2
  <2>2. CASE i - Len(s) \in 1..Len(w)
    <3>1. i = Len(s) + (i - Len(s))
      BY <1>2
    <3>2. w[i - Len(s)] \in GoCells
      BY <1>2, <1>9, <2>2, <3>1
    <3>3. i - Len(s) > 1 /\ w[(i - Len(s)) - 1] = "payload"
      BY <1>1, <1>2, <2>2, <3>2
    <3>4. (i - Len(s)) - 1 \in 1..Len(w) /\ i - 1 = Len(s) + ((i - Len(s)) - 1) /\ i > 1
      BY <1>1, <1>2, <2>2, <3>3
    <3> QED BY <1>2, <3>3, <3>4
  <2> QED BY <1>2, <2>1, <2>2
<1>10. Whole(u)
  BY <1>2, <1>5, <1>8, <1>9 DEF Whole
<1> QED BY <1>10 DEF u, w

\* What is left when an event has brought n cells.
LEMMA DropPoints ==
  ASSUME NEW S, NEW s \in Seq(S), NEW n \in 1..Len(s)
  PROVE  LET cells == SubSeq(s, 1, n)
             rest  == SubSeq(s, n + 1, Len(s))
         IN  /\ cells \in Seq(S) /\ Len(cells) = n
             /\ rest \in Seq(S) /\ Len(rest) = Len(s) - n /\ Len(s) \in Nat
             /\ \A i \in 1..n : cells[i] = s[i]
             /\ \A i \in 1..(Len(s) - n) : rest[i] = s[n + i]
OBVIOUS

LEMMA DropHas ==
  ASSUME NEW S, NEW s \in Seq(S), NEW n \in 1..Len(s), NEW P
  PROVE  LET cells == SubSeq(s, 1, n)
             rest  == SubSeq(s, n + 1, Len(s))
         IN  /\ Has(s, P) <=> (Has(cells, P) \/ Has(rest, P))
             /\ Once(s, P) => Once(rest, P) /\ (Has(cells, P) => ~Has(rest, P))
<1> DEFINE cells == SubSeq(s, 1, n)
           rest  == SubSeq(s, n + 1, Len(s))
<1>1. /\ Len(cells) = n /\ Len(rest) = Len(s) - n /\ Len(s) \in Nat
      /\ \A i \in 1..n : cells[i] = s[i]
      /\ \A i \in 1..(Len(s) - n) : rest[i] = s[n + i]
      /\ DOMAIN s = 1..Len(s) /\ DOMAIN cells = 1..n /\ DOMAIN rest = 1..(Len(s) - n)
  <2>1. /\ cells \in Seq(S) /\ Len(cells) = n
        /\ rest \in Seq(S) /\ Len(rest) = Len(s) - n /\ Len(s) \in Nat
        /\ \A i \in 1..n : cells[i] = s[i]
        /\ \A i \in 1..(Len(s) - n) : rest[i] = s[n + i]
    BY DropPoints
  <2> HIDE DEF cells, rest
  <2> QED BY <2>1
<1> HIDE DEF cells, rest
<1>2. \A i \in DOMAIN cells : i \in DOMAIN s /\ cells[i] = s[i]
  BY <1>1
<1>3. \A i \in DOMAIN rest : n + i \in DOMAIN s /\ rest[i] = s[n + i]
  BY <1>1
<1>4. ASSUME NEW i \in DOMAIN s, i \notin DOMAIN cells
      PROVE  i - n \in DOMAIN rest /\ rest[i - n] = s[i]
  <2>1. i - n \in 1..(Len(s) - n) /\ n + (i - n) = i
    BY <1>1, <1>4
  <2> QED BY <1>1, <2>1
<1>5. Has(s, P) <=> (Has(cells, P) \/ Has(rest, P))
  BY <1>2, <1>3, <1>4 DEF Has
<1>6. ASSUME Once(s, P), NEW i \in DOMAIN rest, NEW j \in DOMAIN rest, rest[i] \in P, rest[j] \in P
      PROVE  i = j
  <2>1. n + i = n + j
    BY <1>3, <1>6 DEF Once
  <2> QED BY <1>1, <2>1
<1>7. ASSUME Once(s, P), NEW i \in DOMAIN cells, NEW j \in DOMAIN rest, cells[i] \in P, rest[j] \in P
      PROVE  FALSE
  <2>1. i = n + j
    BY <1>2, <1>3, <1>7 DEF Once
  <2> QED BY <1>1, <2>1
<1>8. Once(s, P) => Once(rest, P) /\ (Has(cells, P) => ~Has(rest, P))
  BY <1>6, <1>7 DEF Once, Has
<1> QED BY <1>5, <1>8 DEF cells, rest

\* An event that does not end inside a packet begins with a whole one, and is that packet if
\* it brings only one; what it leaves is made of whole packets.
LEMMA DropWhole ==
  ASSUME NEW s \in Seq(Cells), Whole(s), NEW n \in 1..Len(s),
         ~Inside(SubSeq(s, n + 1, Len(s)))
  PROVE  LET cells == SubSeq(s, 1, n)
             rest  == SubSeq(s, n + 1, Len(s))
         IN  /\ Whole(rest)
             /\ \E p \in Names :
                  /\ Len(WireOf[p]) <= n
                  /\ \A i \in 1..Len(WireOf[p]) : cells[i] = WireOf[p][i]
                  /\ ~Several(cells) => cells = WireOf[p]
<1> DEFINE cells == SubSeq(s, 1, n)
           rest  == SubSeq(s, n + 1, Len(s))
<1>1. /\ Len(cells) = n /\ Len(rest) = Len(s) - n /\ Len(s) \in Nat
      /\ \A i \in 1..n : cells[i] = s[i]
      /\ \A i \in 1..(Len(s) - n) : rest[i] = s[n + i]
      /\ DOMAIN s = 1..Len(s) /\ DOMAIN cells = 1..n /\ DOMAIN rest = 1..(Len(s) - n)
      /\ rest # <<>> => Head(rest) = rest[1]
      /\ cells \in Seq(Cells)
  <2>1. /\ cells \in Seq(Cells) /\ Len(cells) = n
        /\ rest \in Seq(Cells) /\ Len(rest) = Len(s) - n /\ Len(s) \in Nat
        /\ \A i \in 1..n : cells[i] = s[i]
        /\ \A i \in 1..(Len(s) - n) : rest[i] = s[n + i]
    BY DropPoints
  <2> HIDE DEF cells, rest
  <2> QED BY <2>1
<1>2. ~Inside(rest)
  OBVIOUS
<1> HIDE DEF cells, rest
<1>3. ASSUME n + 1 <= Len(s) PROVE s[n + 1] \in Identifiers
  <2>1. rest # <<>> /\ rest[1] = s[n + 1]
    BY <1>1, <1>3
  <2> QED BY <1>1, <1>2, <2>1 DEF Inside
<1>4. PICK p \in Names : StartsAt(s, p, 1)
  BY <1>1 DEF Whole
<1> DEFINE L == Len(WireOf[p])
<1>5. L \in {4, 5} /\ (\A k \in 2..L : WireOf[p][k] \notin Identifiers) /\ WireOf[p] \in Seq(Cells)
      /\ WireOf[p][1] \in Identifiers
  BY WireShape
<1>6. /\ 1 + L <= Len(s) + 1 /\ (1 + L <= Len(s) => s[1 + L] \in Identifiers)
      /\ \A k \in 1..L : s[k] = WireOf[p][k]
  <2>1. /\ 1 + L <= Len(s) + 1 /\ (1 + L <= Len(s) => s[1 + L] \in Identifiers)
        /\ \A k \in 1..L : s[1 + k - 1] = WireOf[p][k]
    BY <1>4 DEF StartsAt
  <2>2. \A k \in 1..L : 1 + k - 1 = k
    BY <1>5
  <2> HIDE DEF L
  <2> QED BY <2>1, <2>2
<1>7. Len(WireOf[p]) = L
  OBVIOUS
<1> HIDE DEF L
<1>8. L <= n
  <2> SUFFICES ASSUME n < L PROVE FALSE
    BY <1>1, <1>5
  <2>1. n + 1 \in 2..L /\ n + 1 \in 1..L /\ n + 1 <= Len(s)
    BY <1>1, <1>5, <1>6
  <2> QED BY <1>3, <1>5, <1>6, <2>1
<1>9. \A i \in 1..L : cells[i] = WireOf[p][i] /\ i \in 1..n
  BY <1>1, <1>5, <1>6, <1>8
<1>10. ASSUME ~Several(cells) PROVE cells = WireOf[p]
  <2>1. n = L
    <3> SUFFICES ASSUME L < n PROVE FALSE
      BY <1>1, <1>5, <1>8
    <3>1. 1 + L \in 1..n /\ 1 \in 1..n /\ 1 < 1 + L /\ 1 + L <= Len(s) /\ 1 \in 1..L
      BY <1>1, <1>5
    <3>2. cells[1 + L] \in Identifiers /\ cells[1] \in Identifiers
      BY <1>1, <1>5, <1>6, <1>9, <3>1
    <3> QED BY <1>1, <1>10, <3>1, <3>2 DEF Several
  <2> QED BY <1>1, <1>5, <1>7, <1>9, <2>1
<1>11. ASSUME NEW i \in 1..(Len(s) - n), rest[i] \in Identifiers
       PROVE  \E q \in Names : StartsAt(rest, q, i)
  <2>1. n + i \in 1..Len(s) /\ s[n + i] \in Identifiers
    BY <1>1, <1>11
  <2>2. PICK q \in Names : StartsAt(s, q, n + i)
    BY <1>1, <2>1 DEF Whole
  <2> DEFINE M == Len(WireOf[q])
  <2>3. M \in {4, 5} /\ Len(WireOf[q]) = M
    BY WireShape
  <2>4. /\ (n + i) + M <= Len(s) + 1 /\ ((n + i) + M <= Len(s) => s[(n + i) + M] \in Identifiers)
        /\ \A k \in 1..M : s[(n + i) + k - 1] = WireOf[q][k]
    BY <2>2 DEF StartsAt
  <2> HIDE DEF M
  <2>5. ASSUME NEW k \in 1..M PROVE rest[i + k - 1] = WireOf[q][k]
    <3>1. i + k - 1 \in 1..(Len(s) - n) /\ n + (i + k - 1) = (n + i) + k - 1
      BY <1>1, <2>3, <2>4
    <3>2. rest[i + k - 1] = s[n + (i + k - 1)]
      BY <1>1, <3>1
    <3>3. s[(n + i) + k - 1] = WireOf[q][k]
      BY <2>4
    <3> QED BY <3>1, <3>2, <3>3
  <2>6. ASSUME i + M <= Len(rest) PROVE rest[i + M] \in Identifiers
    <3>1. i + M \in 1..(Len(s) - n) /\ n + (i + M) = (n + i) + M /\ (n + i) + M <= Len(s)
      BY <1>1, <2>3, <2>6
    <3>2. rest[i + M] = s[n + (i + M)]
      BY <1>1, <3>1
    <3> QED BY <2>4, <3>1, <3>2
  <2>7. i + M <= Len(rest) + 1
    BY <1>1, <2>3, <2>4
  <2> QED BY <2>3, <2>5, <2>6, <2>7 DEF StartsAt
<1>12. ASSUME NEW i \in 1..(Len(s) - n), rest[i] \in GoCells
       PROVE  i > 1 /\ rest[i - 1] = "payload"
  <2>1. n + i \in 1..Len(s) /\ s[n + i] \in GoCells
    BY <1>1, <1>12
  <2>2. s[(n + i) - 1] = "payload"
    BY <1>1, <2>1 DEF Whole
  <2>3. i # 1
    <3> SUFFICES ASSUME i = 1 PROVE FALSE
      OBVIOUS
    <3>1. s[n + 1] \in Identifiers /\ s[n + 1] \in GoCells
      BY <1>1, <1>3, <2>1
    <3> QED BY <3>1, WireShape DEF GoCells
  <2>4. i - 1 \in 1..(Len(s) - n) /\ n + (i - 1) = (n + i) - 1 /\ i > 1
    BY <1>1, <2>3
  <2> QED BY <1>1, <2>2, <2>4
<1>13. Whole(rest)
  <2>1. rest # <<>> => rest[1] \in Identifiers
    BY <1>1, <1>2 DEF Inside
  <2> QED BY <1>1, <1>11, <1>12, <2>1 DEF Whole
<1> QED BY <1>7, <1>8, <1>9, <1>10, <1>13 DEF cells, rest

-----------------------------------------------------------------------------
(* The invariant.                                                            *)

Early    == {"Disconnected", "Connecting", "Connected"}
Playing  == {"Activating", "Activated"}
Statuses == Early \cup Playing \cup {"Handshaking", "Registered", "Handshaked", "Deactivated"}
Codes    == {"rightCode", "wrongCode"}
Go       == {"START", "REPLAY"}
Asks     == Codes \cup Go \cup {"HELO", "CONTROL", "left"}
Says     == {"register", "OLEH", "SCORE:0", "SCORE", "FINISH"}
Notices  == {"refused", "displayUnregistered"}
Told     == Says \cup Notices \cup {"registered"}

\* The control client in use is the only one that may be told of its registration, and a
\* control client leaves only while no packet of the stream is cut.
Types ==
  /\ phone \in Phones /\ paired \in 0..phone /\ telling \in {0, paired}
  /\ status \in Statuses /\ (socket = "dialling" => status = "Connecting")
  /\ served \in {"new", "served", "failed", "removed", "orphaned"} /\ (served = "new" => paired = 0)
  /\ incoming \in Seq(Cells) /\ stream \in Seq(Cells)
  /\ timers \in [0..Scores -> Nat]
  /\ splits \in Nat /\ (splits # 0 => phone = 1)
  /\ upward \in [Phones -> Seq(Asks)] /\ toServer \in Seq(Says) /\ toControl \in Seq(Told)
  /\ skipped \in BOOLEAN /\ inherited \in BOOLEAN

\* Control clients come one after the other.  One that has been replaced has packets on the
\* way only while it is in the pair, and says last that it has left.
Succession ==
  /\ \A p \in Phones : p # phone /\ upward[p] # <<>> => p < phone /\ paired = p
  /\ \A p \in Phones : AtEnd(upward[p], "left")
  /\ ~Has(upward[phone], {"left"})

\* A control client that is not in the pair has shaken no hands and is told nothing but a
\* refusal; one that is in it has asked for that.  One whose connection was lost is in no
\* pair, and neither says nor hears anything.
Outside ==
  /\ paired # phone => /\ status \in Early \cup {"Handshaking"} \/ socket = "lost"
                       /\ Only(toControl, {"refused"})
                       /\ Only(upward[phone], Codes \cup {"HELO"})
  /\ status \in Early => paired # phone /\ upward[phone] = <<>>
  /\ socket = "lost" => /\ status \notin Early /\ paired # phone
                        /\ upward[phone] = <<>> /\ toControl = <<>>

Framed == splits = 0 => Whole(stream)

\* Until the first control client is in the pair, and while the answer to the registration
\* of one that came into no game is not written, the display client has nothing to say.
Hushed == (telling = phone /\ ~inherited) \/ (phone = 1 /\ paired # 1)
Calm ==
  Hushed => /\ \A r \in 0..Scores : timers[r] = 0
            /\ Only(toServer, {"register"})
            /\ ~Has(stream, {"payload"})
            /\ phone = 1 => ~Has(incoming, {"payload"})

\* So the answer comes before all that is said to the control client, which waits for it.
Answered ==
  ~inherited => /\ telling = phone => status = "Handshaking" /\ Only(toControl, Notices)
                /\ Has(toControl, {"registered"}) => status = "Handshaking"
                /\ Before(toControl, Notices, "registered")

\* A game that has been begun and is not over for the control client is in one of five
\* places: asked for, on the way to the display client, at a timer, or its end on the way back.
Asked     == \E p \in Phones : Has(upward[p], Go)
Brought   == Has(stream, GoCells)
Ticking   == \E r \in 0..Scores : timers[r] > 0
EndSent   == Has(toServer, {"FINISH"})
EndPassed == Has(toControl, {"FINISH"})
Open      == Asked \/ Brought \/ Ticking \/ EndSent \/ EndPassed

\* Each place holds one at most, and one of them at most holds any.
Single ==
  /\ \A p \in Phones : Once(upward[p], Go)
  /\ \A p, q \in Phones : Has(upward[p], Go) /\ Has(upward[q], Go) => p = q
  /\ Once(stream, GoCells) /\ Once(toServer, {"FINISH"}) /\ Once(toControl, {"FINISH"})
  /\ \A r \in 0..Scores : timers[r] <= 1
  /\ \A r, s \in 0..Scores : timers[r] > 0 /\ timers[s] > 0 => r = s
Apart ==
  /\ Asked   => ~Brought /\ ~Ticking /\ ~EndSent /\ ~EndPassed
  /\ Brought => ~Ticking /\ ~EndSent /\ ~EndPassed
  /\ Ticking => ~EndSent /\ ~EndPassed
  /\ EndSent => ~EndPassed
OneOpen ==
  Undisturbed => Single /\ Apart /\ (paired = phone /\ Open => status \in Playing)

\* A first score is followed by the end of its game.
Followed ==
  /\ Ticking \/ Behind(toServer, "SCORE:0", "FINISH")
  /\ Ticking \/ EndSent \/ Behind(toControl, "SCORE:0", "FINISH")

\* What the control client waits for is on its way, as long as every event is one packet and
\* the service serves the display client.
Awaited ==
  splits = 0 /\ ~skipped /\ served = "served" /\ paired = phone =>
    /\ status = "Handshaking" =>
         \/ telling = phone \/ Has(upward[phone], {"HELO"}) \/ Has(stream, {"HELO"})
         \/ Has(toServer, {"OLEH"}) \/ Has(toControl, {"OLEH"}) \/ Has(toControl, {"registered"})
    /\ status = "Activating" =>
         \/ Has(upward[phone], Go) \/ Brought
         \/ Has(toServer, {"SCORE:0"}) \/ Has(toControl, {"SCORE:0"})
    /\ status = "Activated" => Ticking \/ EndSent \/ EndPassed

Inv == /\ Types /\ Succession /\ Outside /\ Framed /\ Calm /\ Answered
       /\ OneOpen /\ Followed /\ Awaited

LEMMA InvInit == Init => Inv
<1> SUFFICES ASSUME Init PROVE Inv
  OBVIOUS
<1> USE BoundsAssumption
<1>1. /\ 1 \in Phones /\ \A P : ~Has(<<>>, P) /\ Once(<<>>, P) /\ Only(<<>>, P)
      /\ \A P, d, e : Before(<<>>, P, e) /\ Behind(<<>>, d, e) /\ AtEnd(<<>>, e)
      /\ Whole(<<>>)
  BY DEF Phones, Has, Once, Only, Before, Behind, AtEnd, Whole
<1>2. /\ \A p \in Phones : upward[p] = <<>>
      /\ \A r \in 0..Scores : timers[r] = 0
      /\ toServer = <<>> /\ toControl = <<>> /\ stream = <<>> /\ incoming = <<>>
      /\ phone = 1 /\ paired = 0 /\ telling = 0 /\ status = "Disconnected" /\ socket = "none"
      /\ served = "new"
  BY DEF Init
<1>3. Types
  <2>1. upward \in [Phones -> Seq(Asks)] /\ timers \in [0..Scores -> Nat]
    BY DEF Init
  <2>2. splits \in Nat /\ splits = 0 /\ skipped \in BOOLEAN /\ inherited \in BOOLEAN
    BY DEF Init
  <2>3. <<>> \in Seq(Cells) /\ <<>> \in Seq(Says) /\ <<>> \in Seq(Told)
    OBVIOUS
  <2> QED BY <1>1, <1>2, <2>1, <2>2, <2>3 DEF Types, Statuses, Early
<1>4. Succession /\ Outside /\ Framed /\ Calm /\ Answered
  BY <1>1, <1>2 DEF Succession, Outside, Framed, Calm, Answered, Early
<1>5. ~Asked /\ ~Brought /\ ~Ticking /\ ~EndSent /\ ~EndPassed
  BY <1>1, <1>2 DEF Asked, Brought, Ticking, EndSent, EndPassed
<1>6. OneOpen
  BY <1>1, <1>2, <1>5 DEF OneOpen, Single, Apart, Open
<1>7. Followed /\ Awaited
  BY <1>1, <1>2 DEF Followed, Awaited
<1> QED BY <1>3, <1>4, <1>6, <1>7 DEF Inv

\* What the connection of a control client comes to, and the loading of the policy, change
\* none of the queues.
LEMMA DialKeeps ==
  ASSUME Inv, PressConnect \/ DidConnect \/ DidNotConnect \/ PolicyLoaded \/ SocketError
  PROVE  Inv'
<1>1. /\ UNCHANGED <<phone, incoming, timers, splits, skipped, network, service>>
      /\ status' = status \/ (status \in Early /\ status' \in Early)
      /\ socket' = "dialling" => status' = "Connecting"
      /\ socket' = "lost" <=> socket = "lost"
      /\ socket = "lost" => status' = status
  BY DEF Inv, Types, Outside, PressConnect, DidConnect, DidNotConnect, PolicyLoaded, SocketError,
         app, screen, Early
<1>2. UNCHANGED <<phone, incoming, timers, splits, skipped, upward, toServer, toControl, stream,
                  served, paired, telling, inherited>>
  BY <1>1 DEF network, service
<1>3. Types' /\ Succession' /\ Framed' /\ Calm' /\ Followed'
  BY <1>1, <1>2 DEF Inv, Types, Succession, Framed, Calm, Hushed, Followed, Ticking, EndSent, Statuses
<1>4. Outside'
  BY <1>1, <1>2 DEF Inv, Outside
<1>5. Answered'
  BY <1>1, <1>2 DEF Inv, Answered, Early
<1>6. OneOpen'
  BY <1>1, <1>2 DEF Inv, OneOpen, Undisturbed, Single, Apart, Open, Asked, Brought, Ticking,
                    EndSent, EndPassed, Playing, Early
<1>7. Awaited'
  BY <1>1, <1>2 DEF Inv, Awaited, Brought, Ticking, EndSent, EndPassed, Early
<1> QED BY <1>3, <1>4, <1>5, <1>6, <1>7 DEF Inv

LEMMA RequestPoints ==
  ASSUME Types, NEW e \in Asks, Request(<<e>>), socket # "lost"
  PROVE  /\ upward' \in [Phones -> Seq(Asks)]
         /\ upward'[phone] = Append(upward[phone], e)
         /\ \A p \in Phones : p # phone => upward'[p] = upward[p]
         /\ UNCHANGED <<toServer, toControl, stream>>
<1>1. upward[phone] \in Seq(Asks) /\ phone \in Phones
  BY DEF Types
<1>2. upward[phone] \o <<e>> = Append(upward[phone], e) /\ Append(upward[phone], e) \in Seq(Asks)
  BY <1>1
<1> QED BY <1>1, <1>2 DEF Types, Request

\* Registering: only a control client that has not asked for anything does.
LEMMA RegisterKeeps ==
  ASSUME Inv, PressRegister
  PROVE  Inv'
<1>1. PICK code \in Codes : Request(<<code, "HELO">>)
  BY DEF PressRegister, Codes
<1> DEFINE both == <<code, "HELO">>
<1>2. /\ status = "Connected" /\ status' = "Handshaking"
      /\ UNCHANGED <<phone, socket, screen, service, toServer, toControl, stream>>
  BY <1>1 DEF PressRegister, Request
<1>3. UNCHANGED <<phone, socket, incoming, timers, splits, skipped, toServer, toControl, stream,
                  served, paired, telling, inherited>>
  BY <1>2 DEF screen, service
<1>4. paired # phone /\ upward[phone] = <<>> /\ phone \in Phones /\ socket # "lost"
  BY <1>2 DEF Inv, Outside, Early, Types
<1>5. /\ both \in Seq(Asks)
      /\ ~Has(both, {"left"}) /\ AtEnd(both, "left") /\ Only(both, Codes \cup {"HELO"})
      /\ ~Has(both, Go) /\ Once(both, Go)
  BY DEF Has, AtEnd, Only, Once, Codes, Go, Asks
<1>6. upward' = [upward EXCEPT ![phone] = both]
  <2>1. <<>> \o both = both
    OBVIOUS
  <2> QED BY <1>1, <1>4, <2>1 DEF Request
<1>7. upward'[phone] = both /\ \A p \in Phones : p # phone => upward'[p] = upward[p]
  BY <1>4, <1>6 DEF Inv, Types
<1> HIDE DEF both
<1>8. Types'
  BY <1>2, <1>3, <1>4, <1>5, <1>6 DEF Inv, Types, Statuses
<1>9. Succession'
  BY <1>3, <1>5, <1>7 DEF Inv, Succession
<1>10. Outside'
  BY <1>2, <1>3, <1>4, <1>5, <1>7 DEF Inv, Outside, Early
<1>11. Framed' /\ Calm' /\ Followed'
  BY <1>3 DEF Inv, Framed, Calm, Hushed, Followed, Ticking, EndSent
<1>12. Answered'
  BY <1>2, <1>3, <1>4 DEF Inv, Answered, Types, Phones
<1>13. OneOpen'
  <2>1. Asked' => Asked
    BY <1>5, <1>7 DEF Asked
  <2>2. ASSUME Single PROVE Single'
    BY <1>3, <1>5, <1>7, <2>2 DEF Single
  <2> QED BY <1>3, <1>4, <2>1, <2>2 DEF Inv, OneOpen, Undisturbed, Apart, Open, Brought, Ticking,
                                    EndSent, EndPassed
<1>14. Awaited'
  BY <1>3, <1>4 DEF Awaited
<1> QED BY <1>8, <1>9, <1>10, <1>11, <1>12, <1>13, <1>14 DEF Inv

\* What a control client says when its connection was lost goes nowhere.
LEMMA LostAskKeeps ==
  ASSUME Inv, PressHandshake \/ PressActivate \/ PressReplay \/ Accelerometer, socket = "lost"
  PROVE  Inv'
<1>1. /\ status' \in {"Handshaking", "Activating", "Activated"}
      /\ UNCHANGED <<phone, socket, incoming, timers, splits, skipped, upward, toServer, toControl,
                     stream, served, paired, telling, inherited>>
  BY DEF PressHandshake, PressActivate, PressReplay, Accelerometer, Begun, Request, screen, service
<1>2. /\ paired # phone /\ upward[phone] = <<>> /\ toControl = <<>> /\ telling # phone
      /\ socket # "dialling"
  BY BoundsAssumption DEF Inv, Outside, Types, Phones
<1>3. ~Has(toControl, {"registered"})
  BY <1>2 DEF Has
<1>4. Types' /\ Succession' /\ Framed' /\ Calm' /\ Followed'
  BY <1>1, <1>2 DEF Inv, Types, Succession, Framed, Calm, Hushed, Followed, Ticking, EndSent,
                    Statuses, Playing
<1>5. Outside' /\ Answered'
  BY <1>1, <1>2, <1>3 DEF Inv, Outside, Answered, Early
<1>6. OneOpen' /\ Awaited'
  BY <1>1, <1>2 DEF Inv, OneOpen, Undisturbed, Single, Apart, Open, Asked, Brought, Ticking,
                    EndSent, EndPassed, Awaited
<1> QED BY <1>4, <1>5, <1>6 DEF Inv

\* The other things a control client says, once it is in the pair.
LEMMA AskKeeps ==
  ASSUME Inv, PressHandshake \/ PressActivate \/ PressReplay \/ Accelerometer, socket # "lost"
  PROVE  Inv'
<1>1. PICK e \in Go \cup {"HELO", "CONTROL"} :
        /\ Request(<<e>>)
        /\ e = "HELO" => status = "Registered" /\ status' = "Handshaking"
        /\ e \in Go => status \in {"Handshaked", "Deactivated"} /\ status' = "Activating"
        /\ e = "CONTROL" => status = "Activated" /\ status' = "Activated"
        /\ UNCHANGED <<phone, socket, screen, service>>
  <2>1. CASE PressHandshake
    BY <2>1 DEF PressHandshake, Go
  <2>2. CASE PressActivate
    BY <2>2 DEF PressActivate, Begun, Go
  <2>3. CASE PressReplay
    BY <2>3 DEF PressReplay, Begun, Go
  <2>4. CASE Accelerometer
    BY <2>4 DEF Accelerometer, Go
  <2> QED BY <2>1, <2>2, <2>3, <2>4
<1>2. e \in Asks /\ e \notin Codes \cup {"left"}
  BY DEF Asks, Go, Codes
<1>3. /\ upward' \in [Phones -> Seq(Asks)]
      /\ upward'[phone] = Append(upward[phone], e)
      /\ \A p \in Phones : p # phone => upward'[p] = upward[p]
      /\ UNCHANGED <<toServer, toControl, stream>>
  BY <1>1, <1>2, RequestPoints DEF Inv
<1>4. UNCHANGED <<phone, socket, incoming, timers, splits, skipped, served, paired, telling, inherited>>
  BY <1>1 DEF screen, service
<1>5. /\ paired = phone /\ phone \in Phones /\ upward[phone] \in Seq(Asks)
      /\ status \in {"Registered", "Handshaked", "Deactivated", "Activated"}
      /\ status' \in {"Handshaking", "Activating", "Activated"}
      /\ Has(upward'[phone], {e})
  <2>1. status \in {"Registered", "Handshaked", "Deactivated", "Activated"}
        /\ status' \in {"Handshaking", "Activating", "Activated"}
    BY <1>1
  <2>2. phone \in Phones /\ upward[phone] \in Seq(Asks)
    BY DEF Inv, Types
  <2> QED BY <1>2, <1>3, <2>1, <2>2, AppendHas DEF Inv, Outside, Early
<1>6. Types'
  BY <1>1, <1>3, <1>4, <1>5 DEF Inv, Types, Statuses, Playing
<1>7. Succession'
  <2>1. ~Has(upward'[phone], {"left"}) /\ AtEnd(upward'[phone], "left")
    <3>1. ~Has(upward[phone], {"left"}) /\ e \notin {"left"}
      BY <1>2 DEF Inv, Succession
    <3>2. ~Has(Append(upward[phone], e), {"left"})
      BY <1>2, <1>5, <3>1, AppendHas
    <3>3. AtEnd(Append(upward[phone], e), "left")
      BY <1>2, <1>5, <3>1, AppendOrder
    <3> QED BY <1>3, <3>2, <3>3
  <2> QED BY <1>3, <1>4, <1>5, <2>1 DEF Inv, Succession
<1>8. Outside'
  BY <1>3, <1>4, <1>5 DEF Outside, Early
<1>9. Framed' /\ Calm' /\ Followed'
  BY <1>3, <1>4 DEF Inv, Framed, Calm, Hushed, Followed, Ticking, EndSent
<1>10. Answered'
  BY <1>3, <1>4, <1>5 DEF Inv, Answered
<1>11. OneOpen'
  <2> SUFFICES ASSUME Undisturbed PROVE (Single /\ Apart /\ (paired = phone /\ Open => status \in Playing))'
    BY <1>4 DEF OneOpen, Undisturbed
  <2>1. Single /\ Apart /\ (Open => status \in Playing)
    BY <1>5 DEF Inv, OneOpen
  <2>2. UNCHANGED <<Brought, Ticking, EndSent, EndPassed>>
    BY <1>3, <1>4 DEF Brought, Ticking, EndSent, EndPassed
  <2>3. CASE e \in Go
    <3>1. ~Open /\ status' \in Playing
      BY <1>1, <2>1, <2>3 DEF Playing
    <3>2. \A p \in Phones : ~Has(upward[p], Go)
      BY <3>1 DEF Open, Asked
    <3>3. /\ \A p \in Phones : p # phone => ~Has(upward'[p], Go)
          /\ Once(upward'[phone], Go)
      BY <1>2, <1>3, <1>5, <2>1, <3>2, AppendHas DEF Single
    <3>4. Single'
      BY <1>3, <1>4, <2>1, <3>2, <3>3 DEF Single
    <3>5. Apart'
      BY <2>2, <3>1 DEF Apart, Open
    <3> QED BY <3>1, <3>4, <3>5
  <2>4. CASE e \notin Go
    <3>1. \A p \in Phones : Has(upward'[p], Go) <=> Has(upward[p], Go)
      <4>1. Has(Append(upward[phone], e), Go) <=> Has(upward[phone], Go)
        BY <1>2, <1>5, <2>4, AppendHas
      <4> QED BY <1>3, <4>1
    <3>2. Asked' <=> Asked
      BY <3>1 DEF Asked
    <3>3. Once(upward'[phone], Go)
      BY <1>2, <1>3, <1>5, <2>1, <2>4, AppendHas DEF Single
    <3>4. Single'
      BY <1>3, <1>4, <2>1, <3>1, <3>3 DEF Single
    <3>5. status' \in Playing \/ ~Open
      BY <1>1, <2>1, <2>4 DEF Playing
    <3> QED BY <2>1, <2>2, <3>2, <3>4, <3>5 DEF Apart, Open
  <2> QED BY <2>3, <2>4
<1>12. Awaited'
  <2>1. status' = "Handshaking" => e = "HELO"
    BY <1>1
  <2>2. status' = "Activating" => e \in Go
    BY <1>1
  <2>3. status' = "Activated" => status = "Activated"
    BY <1>1
  <2>4. e \in Go => Has(upward'[phone], Go)
    BY <1>2, <1>3, <1>5, AppendHas
  <2> QED BY <1>3, <1>4, <1>5, <2>1, <2>2, <2>3, <2>4 DEF Inv, Awaited, Ticking, EndSent, EndPassed
<1> QED BY <1>6, <1>7, <1>8, <1>9, <1>10, <1>11, <1>12 DEF Inv

LEMMA AnswerCases ==
  ASSUME NEW found \in Statuses, NEW packet
  PROVE  \/ /\ Answer(found, packet) = found
            /\ packet # "registered"
            /\ ~(found = "Handshaking" /\ packet = "OLEH")
            /\ ~(found = "Activating" /\ packet = "SCORE:0")
            /\ ~(found = "Activated" /\ packet = "FINISH")
         \/ packet = "registered" /\ Answer(found, packet) = "Registered"
         \/ found = "Handshaking" /\ packet = "OLEH" /\ Answer(found, packet) = "Handshaked"
         \/ found = "Activating" /\ packet = "SCORE:0" /\ Answer(found, packet) = "Activated"
         \/ found = "Activated" /\ packet = "FINISH" /\ Answer(found, packet) = "Deactivated"
BY DEF Answer, Statuses, Early, Playing

LEMMA ReceiveKeeps ==
  ASSUME Inv, DidReceivePacket
  PROVE  Inv'
<1> DEFINE packet == Head(toControl)
           rest   == Tail(toControl)
<1>1. /\ toControl # <<>> /\ toControl' = rest /\ status' = Answer(status, packet)
      /\ UNCHANGED <<phone, socket, incoming, timers, splits, skipped, upward, toServer, stream,
                     served, paired, telling, inherited>>
  BY DEF DidReceivePacket, screen, service
<1>2. toControl \in Seq(Told) /\ status \in Statuses
  BY DEF Inv, Types
<1>3. /\ rest \in Seq(Told)
      /\ \A P : /\ Has(toControl, P) <=> (packet \in P \/ Has(rest, P))
                /\ Only(toControl, P) <=> (packet \in P /\ Only(rest, P))
                /\ Once(toControl, P) => Once(rest, P) /\ (packet \in P => ~Has(rest, P))
      /\ \A P, e : Before(toControl, P, e) =>
                     Before(rest, P, e) /\ (packet \notin P => ~Has(rest, {e}))
      /\ \A d, e : Behind(toControl, d, e) => Behind(rest, d, e) /\ (packet = d => Has(rest, {e}))
  BY <1>1, <1>2, TailPoints, TailHas, TailOrder
<1>4. \/ /\ status' = status
         /\ packet # "registered"
         /\ ~(status = "Handshaking" /\ packet = "OLEH")
         /\ ~(status = "Activating" /\ packet = "SCORE:0")
         /\ ~(status = "Activated" /\ packet = "FINISH")
      \/ packet = "registered" /\ status' = "Registered"
      \/ status = "Handshaking" /\ packet = "OLEH" /\ status' = "Handshaked"
      \/ status = "Activating" /\ packet = "SCORE:0" /\ status' = "Activated"
      \/ status = "Activated" /\ packet = "FINISH" /\ status' = "Deactivated"
  BY <1>1, <1>2, AnswerCases
<1>5. packet \in Notices => status' = status
  BY <1>4 DEF Notices
<1> HIDE DEF packet, rest
<1>6. paired # phone => packet = "refused" /\ packet \in Notices /\ Only(rest, {"refused"})
  BY <1>3 DEF Inv, Outside, Notices
<1>7. status \in Early => status' = status
  BY <1>5, <1>6 DEF Inv, Outside
<1>15. socket # "lost"
  BY <1>1 DEF Inv, Outside
<1>8. Types'
  BY <1>1, <1>2, <1>3, <1>4, <1>7, <1>15 DEF Inv, Types, Statuses, Early, Playing
<1>9. Succession' /\ Framed' /\ Calm'
  BY <1>1 DEF Inv, Succession, Framed, Calm, Hushed
<1>10. Outside'
  <2>1. status' \in Early => status' = status
    BY <1>4 DEF Early
  <2> QED BY <1>1, <1>5, <1>6, <1>15, <2>1 DEF Inv, Outside
<1>11. Answered'
  <2> SUFFICES ASSUME ~inherited PROVE Answered'
    BY <1>1 DEF Answered
  <2>1. Before(rest, Notices, "registered")
        /\ (Has(rest, {"registered"}) => packet \in Notices /\ status = "Handshaking")
    BY <1>3 DEF Inv, Answered
  <2>2. telling = phone => status = "Handshaking" /\ packet \in Notices /\ Only(rest, Notices)
    BY <1>3 DEF Inv, Answered
  <2> QED BY <1>1, <1>5, <2>1, <2>2 DEF Answered
<1>12. OneOpen'
  <2> SUFFICES ASSUME Undisturbed PROVE (Single /\ Apart /\ (paired = phone /\ Open => status \in Playing))'
    BY <1>1 DEF OneOpen, Undisturbed
  <2>1. Single /\ Apart /\ (paired = phone /\ Open => status \in Playing)
    BY DEF Inv, OneOpen
  <2>2. (EndPassed' => EndPassed) /\ (packet = "FINISH" => EndPassed /\ ~EndPassed')
    BY <1>1, <1>3, <2>1 DEF EndPassed, Single
  <2>3. UNCHANGED <<Asked, Brought, Ticking, EndSent>>
    BY <1>1 DEF Asked, Brought, Ticking, EndSent
  <2>4. Single'
    BY <1>1, <1>3, <2>1 DEF Single
  <2>5. Apart' /\ (Open' => Open)
    BY <2>1, <2>2, <2>3 DEF Apart, Open
  <2>6. packet = "FINISH" => ~Open'
    BY <2>1, <2>2, <2>3 DEF Apart, Open
  <2>7. packet = "registered" => status = "Handshaking"
    BY <1>3 DEF Inv, Answered, Undisturbed
  <2>8. status \in Playing => \/ status' \in Playing \/ packet \in {"FINISH", "registered"}
    BY <1>4 DEF Playing
  <2> QED BY <1>1, <2>1, <2>4, <2>5, <2>6, <2>7, <2>8 DEF Playing
<1>13. Followed'
  BY <1>1, <1>3 DEF Inv, Followed, Ticking, EndSent
<1>14. Awaited'
  <2> SUFFICES ASSUME splits = 0 /\ ~skipped /\ served = "served" /\ paired = phone PROVE Awaited'
    BY <1>1 DEF Awaited
  <2>1. ASSUME status' = "Handshaking"
        PROVE  \/ telling = phone \/ Has(upward[phone], {"HELO"}) \/ Has(stream, {"HELO"})
               \/ Has(toServer, {"OLEH"}) \/ Has(rest, {"OLEH"}) \/ Has(rest, {"registered"})
    <3>1. status = "Handshaking" /\ packet \notin {"OLEH"} /\ packet \notin {"registered"}
      BY <1>4, <2>1
    <3> QED BY <1>3, <3>1 DEF Inv, Awaited
  <2>2. ASSUME status' = "Activating"
        PROVE  \/ Has(upward[phone], Go) \/ Brought
               \/ Has(toServer, {"SCORE:0"}) \/ Has(rest, {"SCORE:0"})
    <3>1. status = "Activating" /\ packet \notin {"SCORE:0"}
      BY <1>4, <2>2
    <3> QED BY <1>3, <3>1 DEF Inv, Awaited
  <2>3. ASSUME status' = "Activated" PROVE Ticking \/ EndSent \/ Has(rest, {"FINISH"})
    <3>1. \/ status = "Activated" /\ packet \notin {"FINISH"}
          \/ packet = "SCORE:0"
      BY <1>4, <2>3
    <3>2. CASE status = "Activated" /\ packet \notin {"FINISH"}
      BY <1>3, <3>2 DEF Inv, Awaited, EndPassed
    <3>3. CASE packet = "SCORE:0"
      BY <1>3, <3>3 DEF Inv, Followed
    <3> QED BY <3>1, <3>2, <3>3
  <2> QED BY <1>1, <2>1, <2>2, <2>3 DEF Awaited, Brought, Ticking, EndSent, EndPassed
<1> QED BY <1>8, <1>9, <1>10, <1>11, <1>12, <1>13, <1>14 DEF Inv

\* Nothing is said to or by the next control client, and what the application of the last one
\* does without a connection goes nowhere.
LEMMA DepartKeeps ==
  ASSUME Inv, Leave \/ Lose
  PROVE  Inv'
<1>1. /\ phone < MaxPhones /\ paired = phone /\ splits = 0 /\ phone' = phone + 1
      /\ \/ status' = "Disconnected" /\ socket' = "none"
         \/ status' = status /\ socket' = "lost"
      /\ upward' = [upward EXCEPT ![phone] = Append(@, "left")]
      /\ toControl' = <<>>
      /\ UNCHANGED <<incoming, timers, splits, skipped, toServer, stream,
                     served, paired, telling, inherited>>
  BY DEF Leave, Lose, Depart, FreshApp, screen, service
<1>2. /\ phone \in Phones /\ phone + 1 \in Phones /\ phone \in Nat \ {0} /\ phone + 1 # phone
      /\ phone + 1 # 1 /\ paired # phone + 1 /\ telling # phone + 1
      /\ upward \in [Phones -> Seq(Asks)] /\ upward[phone] \in Seq(Asks) /\ "left" \in Asks
      /\ "left" \notin Go
  BY <1>1, BoundsAssumption DEF Inv, Types, Phones, Asks, Go
<1>3. /\ Append(upward[phone], "left") \in Seq(Asks)
      /\ Has(Append(upward[phone], "left"), Go) <=> Has(upward[phone], Go)
      /\ Once(upward[phone], Go) => Once(Append(upward[phone], "left"), Go)
      /\ AtEnd(Append(upward[phone], "left"), "left")
  <2>1. ~Has(upward[phone], {"left"})
    BY DEF Inv, Succession
  <2> QED BY <1>2, <2>1, AppendPoints, AppendHas, AppendOrder
<1>4. /\ upward'[phone] = Append(upward[phone], "left")
      /\ \A p \in Phones : p # phone => upward'[p] = upward[p]
      /\ upward' \in [Phones -> Seq(Asks)]
      /\ upward'[phone + 1] = <<>>
  BY <1>1, <1>2, <1>3 DEF Inv, Succession
<1>5. \A P : ~Has(<<>>, P) /\ Only(<<>>, P) /\ Once(<<>>, P)
  BY DEF Has, Only, Once
<1>14. status \notin Early
  BY <1>1 DEF Inv, Outside
<1>6. Types'
  BY <1>1, <1>2, <1>4 DEF Inv, Types, Statuses, Early
<1>7. Succession'
  <2>1. \A p \in Phones : AtEnd(upward'[p], "left")
    BY <1>3, <1>4 DEF Inv, Succession
  <2>2. ASSUME NEW p \in Phones, p # phone + 1, upward'[p] # <<>> PROVE p < phone + 1 /\ paired = p
    <3>1. CASE p = phone
      BY <1>1, <1>2, <3>1
    <3>2. CASE p # phone
      BY <1>1, <1>2, <1>4, <2>2, <3>2 DEF Inv, Succession
    <3> QED BY <3>1, <3>2
  <2> QED BY <1>1, <1>4, <1>5, <2>1, <2>2 DEF Succession
<1>8. Outside'
  BY <1>1, <1>2, <1>4, <1>5, <1>14 DEF Outside, Early
<1>9. Framed' /\ Calm'
  BY <1>1, <1>2 DEF Inv, Framed, Calm, Hushed
<1>10. Answered'
  <2>1. Before(<<>>, Notices, "registered")
    BY DEF Before
  <2> QED BY <1>1, <1>2, <1>5, <2>1 DEF Answered
<1>11. OneOpen'
  <2> SUFFICES ASSUME Undisturbed PROVE Single' /\ Apart'
    BY <1>1, <1>2 DEF OneOpen, Undisturbed
  <2>1. Single /\ Apart
    BY DEF Inv, OneOpen
  <2>2. \A p \in Phones : (Has(upward'[p], Go) <=> Has(upward[p], Go)) /\ Once(upward'[p], Go)
    BY <1>3, <1>4, <2>1 DEF Single
  <2>3. Single'
    BY <1>1, <1>5, <2>1, <2>2 DEF Single
  <2>4. (Asked' <=> Asked) /\ ~EndPassed' /\ UNCHANGED <<Brought, Ticking, EndSent>>
    BY <1>1, <1>5, <2>2 DEF Asked, EndPassed, Brought, Ticking, EndSent
  <2> QED BY <2>1, <2>3, <2>4 DEF Apart
<1>12. Followed'
  <2>1. Behind(<<>>, "SCORE:0", "FINISH")
    BY DEF Behind
  <2> QED BY <1>1, <2>1 DEF Inv, Followed, Ticking
<1>13. Awaited'
  BY <1>1, <1>2 DEF Awaited
<1> QED BY <1>6, <1>7, <1>8, <1>9, <1>10, <1>11, <1>12, <1>13 DEF Inv

LEMMA StartAgainKeeps ==
  ASSUME Inv, StartAgain
  PROVE  Inv'
<1>1. /\ socket = "lost" /\ status' = "Disconnected" /\ socket' = "none"
      /\ UNCHANGED <<phone, incoming, timers, splits, skipped, upward, toServer, toControl, stream,
                     served, paired, telling, inherited>>
  BY DEF StartAgain, FreshApp, screen, network, service
<1>2. paired # phone /\ upward[phone] = <<>> /\ toControl = <<>> /\ telling # phone
  BY <1>1, BoundsAssumption DEF Inv, Outside, Types, Phones
<1>3. ~Has(toControl, {"registered"})
  BY <1>2 DEF Has
<1>4. Types' /\ Succession' /\ Framed' /\ Calm' /\ Followed'
  BY <1>1, <1>2 DEF Inv, Types, Succession, Framed, Calm, Hushed, Followed, Ticking, EndSent,
                    Statuses, Early
<1>5. Outside' /\ Answered'
  BY <1>1, <1>2, <1>3 DEF Inv, Outside, Answered, Early
<1>6. OneOpen' /\ Awaited'
  BY <1>1, <1>2 DEF Inv, OneOpen, Undisturbed, Single, Apart, Open, Asked, Brought, Ticking,
                    EndSent, EndPassed, Awaited
<1> QED BY <1>4, <1>5, <1>6 DEF Inv

-----------------------------------------------------------------------------
(* The service.                                                              *)

\* A packet written to the display client.
LEMMA StreamGrows ==
  ASSUME Types, Framed, NEW p \in Names, ToDisplay(p)
  PROVE  /\ stream' \in Seq(Cells) /\ (splits = 0 => Whole(stream'))
         /\ Has(stream', {"payload"}) <=>
              (Has(stream, {"payload"}) \/ p \in {"HELO", "START", "CONTROL", "REPLAY"})
         /\ Has(stream', {"HELO"}) <=> (Has(stream, {"HELO"}) \/ p = "HELO")
         /\ Has(stream', GoCells) <=> (Has(stream, GoCells) \/ p \in Go)
         /\ Once(stream, GoCells) /\ (p \notin Go \/ ~Has(stream, GoCells)) => Once(stream', GoCells)
<1>1. stream \in Seq(Cells) /\ WireOf[p] \in Seq(Cells) /\ stream' = stream \o WireOf[p]
  BY WireShape DEF Types, ToDisplay
<1>2. stream' \in Seq(Cells)
  BY <1>1, ConcatPoints
<1>3. splits = 0 => Whole(stream')
  BY <1>1, ConcatWhole DEF Framed
<1>4. \A P : /\ Has(stream', P) <=> (Has(stream, P) \/ Has(WireOf[p], P))
             /\ Once(stream, P) /\ Once(WireOf[p], P) /\ (~Has(stream, P) \/ ~Has(WireOf[p], P))
                  => Once(stream', P)
  BY <1>1, ConcatHas
<1> QED BY <1>2, <1>3, <1>4, WireHas DEF Go

\* What the display client is told of its control client, if it is in the pair itself.
LEMMA PartnerTold ==
  ASSUME Types, Framed, NEW p \in {"controlRegistered", "controlUnregistered"}, ToPartner(p)
  PROVE  /\ stream' \in Seq(Cells) /\ (splits = 0 => Whole(stream'))
         /\ Has(stream', {"payload"}) <=> Has(stream, {"payload"})
         /\ Has(stream', GoCells) <=> Has(stream, GoCells)
         /\ Once(stream, GoCells) => Once(stream', GoCells)
<1>1. p \in Names /\ p \notin {"HELO", "START", "CONTROL", "REPLAY"} /\ p \notin Go /\ p # "HELO"
  BY DEF Names, Go
<1>2. CASE InPair
  BY <1>1, <1>2, StreamGrows DEF ToPartner
<1>3. CASE ~InPair
  BY <1>3 DEF ToPartner, Types, Framed
<1> QED BY <1>2, <1>3

\* A request that the service takes from a control client.
LEMMA TakenPoints ==
  ASSUME Inv, NEW p \in Phones, upward[p] # <<>>, upward' = [upward EXCEPT ![p] = Tail(@)]
  PROVE  /\ upward' \in [Phones -> Seq(Asks)] /\ Head(upward[p]) \in Asks
         /\ \A q \in Phones : q # p => upward'[q] = upward[q]
         /\ \A P : /\ Has(upward[p], P) <=> (Head(upward[p]) \in P \/ Has(upward'[p], P))
                   /\ Only(upward[p], P) <=> (Head(upward[p]) \in P /\ Only(upward'[p], P))
                   /\ Once(upward[p], P) =>
                        Once(upward'[p], P) /\ (Head(upward[p]) \in P => ~Has(upward'[p], P))
         /\ \A q \in Phones : AtEnd(upward'[q], "left")
         /\ Head(upward[p]) = "left" => upward'[p] = <<>> /\ p # phone
         /\ ~Has(upward'[phone], {"left"})
         /\ p = phone \/ (p < phone /\ paired = p)
         /\ p # paired => p = phone /\ status = "Handshaking"
                          /\ Head(upward[p]) \in Codes \cup {"HELO"}
                          /\ Only(upward'[phone], Codes \cup {"HELO"})
         /\ p = phone => status \notin Early /\ socket # "lost"
<1> DEFINE s == upward[p]
<1>1. /\ s \in Seq(Asks) /\ phone \in Phones
      /\ upward'[p] = Tail(s) /\ \A q \in Phones : q # p => upward'[q] = upward[q]
  BY DEF Inv, Types
<1>2. /\ Tail(s) \in Seq(Asks) /\ Head(s) \in Asks
      /\ \A P : /\ Has(s, P) <=> (Head(s) \in P \/ Has(Tail(s), P))
                /\ Only(s, P) <=> (Head(s) \in P /\ Only(Tail(s), P))
                /\ Once(s, P) => Once(Tail(s), P) /\ (Head(s) \in P => ~Has(Tail(s), P))
      /\ \A e : AtEnd(s, e) => AtEnd(Tail(s), e) /\ (Head(s) = e => Tail(s) = <<>>)
  BY <1>1, TailPoints, TailHas, TailOrder
<1>3. upward' \in [Phones -> Seq(Asks)]
  BY <1>1, <1>2 DEF Inv, Types
<1> HIDE DEF s
<1>4. upward[p] = s
  BY DEF s
<1>5. \A q \in Phones : AtEnd(upward'[q], "left")
  BY <1>1, <1>2, <1>4 DEF Inv, Succession
<1>6. Head(s) = "left" => Tail(s) = <<>> /\ p # phone
  BY <1>2, <1>4 DEF Inv, Succession
<1>7. ~Has(upward'[phone], {"left"})
  BY <1>1, <1>2, <1>4 DEF Inv, Succession
<1>8. p = phone \/ (p < phone /\ paired = p)
  BY DEF Inv, Succession
<1>9. p = phone => status \notin Early
  BY DEF Inv, Outside
<1>11. p = phone => socket # "lost"
  BY DEF Inv, Outside
<1>10. p # paired => p = phone /\ status = "Handshaking" /\ Head(s) \in Codes \cup {"HELO"}
                     /\ Only(upward'[phone], Codes \cup {"HELO"})
  BY <1>1, <1>2, <1>4, <1>8, <1>9, <1>11 DEF Inv, Outside
<1> QED BY <1>1, <1>2, <1>3, <1>4, <1>5, <1>6, <1>7, <1>8, <1>9, <1>10, <1>11

\* A registration that succeeds: games are on the way only if it inherits them.
LEMMA RegisteredKeeps ==
  ASSUME Inv, NEW p \in Phones, ServeControl(p), Head(upward[p]) = "rightCode", served # "new", paired = 0
  PROVE  Inv'
<1>1. /\ upward[p] # <<>> /\ upward' = [upward EXCEPT ![p] = Tail(@)]
      /\ paired' = p /\ telling' = p /\ inherited' = (inherited \/ Busy)
      /\ ToPartner("controlRegistered")
      /\ UNCHANGED <<phone, status, socket, incoming, timers, splits, skipped, toServer, toControl,
                     served>>
  BY DEF ServeControl, Register, app, screen
<1>2. /\ p = phone /\ status = "Handshaking" /\ phone \in Phones /\ phone \in Nat \ {0}
      /\ paired # phone /\ telling # phone /\ socket # "lost"
  <2>1. p # paired /\ phone \in Nat \ {0} /\ phone \in Phones
    BY BoundsAssumption DEF Inv, Types, Phones
  <2>2. p = phone /\ status = "Handshaking" /\ socket # "lost"
    BY <1>1, <2>1, TakenPoints
  <2> QED BY <2>1, <2>2 DEF Inv, Types
<1>3. /\ upward' \in [Phones -> Seq(Asks)]
      /\ \A q \in Phones : q # phone => upward'[q] = <<>> /\ upward[q] = <<>>
      /\ Only(upward'[phone], Codes \cup {"HELO"})
      /\ \A q \in Phones : AtEnd(upward'[q], "left")
      /\ ~Has(upward'[phone], {"left"})
  <2>1. \A q \in Phones : q # phone => upward[q] = <<>>
    BY <1>2 DEF Inv, Succession, Phones
  <2> QED BY <1>1, <1>2, <2>1, TakenPoints
<1>4. /\ stream' \in Seq(Cells) /\ (splits = 0 => Whole(stream'))
      /\ Has(stream', {"payload"}) <=> Has(stream, {"payload"})
      /\ Has(stream', GoCells) <=> Has(stream, GoCells)
      /\ Once(stream, GoCells) => Once(stream', GoCells)
  BY <1>1, PartnerTold DEF Inv
<1>5. Types'
  BY <1>1, <1>2, <1>3, <1>4 DEF Inv, Types, Busy
<1>6. Succession' /\ Outside' /\ Framed'
  BY <1>1, <1>2, <1>3, <1>4 DEF Succession, Outside, Framed, Early
<1>7. ASSUME ~inherited'
      PROVE  /\ ~inherited /\ \A r \in 0..Scores : timers[r] = 0
             /\ toServer = <<>> /\ ~Has(stream, {"payload"})
  <2>1. ~Busy /\ ~inherited
    BY <1>1, <1>7
  <2>2. timers \in [0..Scores -> Nat] /\ stream \in Seq(Cells)
    BY DEF Inv, Types
  <2>3. \A r \in 0..Scores : timers[r] = 0
    BY <2>1, <2>2 DEF Busy
  <2>4. ~Has(stream, {"payload"})
    BY <2>1, <2>2 DEF Busy, Has, ToSet
  <2> QED BY <2>1, <2>3, <2>4 DEF Busy
<1>8. Calm'
  <2> SUFFICES ASSUME Hushed' PROVE Calm'
    BY DEF Calm
  <2>1. ~inherited'
    BY <1>1, <1>2 DEF Hushed
  <2>2. phone = 1 => ~Has(incoming, {"payload"})
    BY <1>2 DEF Inv, Calm, Hushed
  <2>3. Only(<<>>, {"register"})
    BY DEF Only
  <2> QED BY <1>1, <1>4, <1>7, <2>1, <2>2, <2>3 DEF Calm
<1>9. Answered'
  <2>1. Only(toControl, {"refused"}) => Only(toControl, Notices)
    BY DEF Only, Notices
  <2> QED BY <1>1, <1>2, <1>7, <2>1 DEF Inv, Answered, Outside
<1>10. OneOpen'
  <2> SUFFICES ASSUME Undisturbed' PROVE Single' /\ ~Open'
    BY DEF OneOpen, Apart, Open
  <2>1. splits = 0 /\ ~inherited' /\ ~inherited /\ Single
    BY <1>1, <1>7 DEF Undisturbed, Inv, OneOpen
  <2>2. \A q \in Phones : ~Has(upward'[q], Go) /\ Once(upward'[q], Go)
    <3>1. ~Has(upward'[phone], Go)
      BY <1>3 DEF Only, Has, Go, Codes
    <3>2. ~Has(<<>>, Go)
      BY DEF Has
    <3> QED BY <1>3, <3>1, <3>2 DEF Once, Has
  <2>3. ~Has(stream, GoCells)
    <3>1. Whole(stream) /\ stream \in Seq(Cells)
      BY <2>1 DEF Inv, Framed, Types
    <3>2. ASSUME NEW i \in DOMAIN stream, stream[i] \in GoCells PROVE FALSE
      <4>1. i > 1 /\ stream[i - 1] = "payload"
        BY <3>1, <3>2 DEF Whole
      <4>2. i - 1 \in DOMAIN stream
        BY <3>1, <4>1
      <4> QED BY <1>7, <2>1, <4>1, <4>2 DEF Has
    <3> QED BY <3>2 DEF Has
  <2>4. ~Has(toControl, {"FINISH"}) /\ ~Has(toServer, {"FINISH"})
    <3>1. Only(toControl, {"refused"}) /\ toServer = <<>>
      BY <1>2, <1>7, <2>1 DEF Inv, Outside
    <3> QED BY <3>1 DEF Only, Has
  <2>5. ~Open'
    BY <1>1, <1>4, <1>7, <2>1, <2>2, <2>3, <2>4 DEF Open, Asked, Brought, Ticking, EndSent, EndPassed
  <2>6. Single'
    BY <1>1, <1>4, <2>1, <2>2 DEF Single
  <2> QED BY <2>5, <2>6
<1>11. Followed'
  BY <1>1 DEF Inv, Followed, Ticking, EndSent
<1>12. Awaited'
  BY <1>1, <1>2 DEF Awaited
<1> QED BY <1>5, <1>6, <1>8, <1>9, <1>10, <1>11, <1>12 DEF Inv

\* A registration that is refused, and what is not relayed.
LEMMA UnheardKeeps ==
  ASSUME Inv, NEW p \in Phones, ServeControl(p),
         \/ Head(upward[p]) \in Codes /\ ~(Head(upward[p]) = "rightCode" /\ served # "new" /\ paired = 0)
         \/ Head(upward[p]) \notin Codes \cup {"left"} /\ (paired # p \/ ~InPair)
  PROVE  Inv'
<1> DEFINE packet == Head(upward[p])
<1>1. /\ upward[p] # <<>> /\ upward' = [upward EXCEPT ![p] = Tail(@)]
      /\ UNCHANGED <<phone, status, socket, incoming, timers, splits, skipped, toServer, stream,
                     served, paired, telling, inherited>>
      /\ toControl' = toControl \/ toControl' = Append(toControl, "refused")
  BY DEF ServeControl, Register, Relay, ToPartner, ToPhone, Codes, app, screen, service
<1>2. /\ upward' \in [Phones -> Seq(Asks)]
      /\ \A q \in Phones : q # p => upward'[q] = upward[q]
      /\ \A P : /\ Has(upward[p], P) <=> (packet \in P \/ Has(upward'[p], P))
                /\ Once(upward[p], P) => Once(upward'[p], P)
      /\ \A q \in Phones : AtEnd(upward'[q], "left")
      /\ ~Has(upward'[phone], {"left"})
      /\ p = phone => status \notin Early /\ socket # "lost"
      /\ p # paired => p = phone /\ Only(upward'[phone], Codes \cup {"HELO"})
      /\ p = phone \/ (p < phone /\ paired = p)
      /\ served = "served" => packet \notin Go /\ (packet = "HELO" => paired # p)
  <2>1. packet \in Asks /\ (p # paired => packet \in Codes \cup {"HELO"})
    BY <1>1, TakenPoints
  <2>2. served = "served" => packet \notin Go /\ (packet = "HELO" => paired # p)
    BY <2>1 DEF Codes, Go, InPair
  <2> QED BY <1>1, <2>2, TakenPoints
<1>3. phone \in Phones /\ toControl \in Seq(Told) /\ "refused" \in Told
  BY DEF Inv, Types, Told, Notices
<1>4. /\ toControl' \in Seq(Told)
      /\ \A e \in Told : e # "refused" => (Has(toControl', {e}) <=> Has(toControl, {e}))
      /\ Only(toControl, {"refused"}) => Only(toControl', {"refused"})
      /\ Once(toControl, {"FINISH"}) => Once(toControl', {"FINISH"})
      /\ Only(toControl, Notices) => Only(toControl', Notices)
      /\ Before(toControl, Notices, "registered") => Before(toControl', Notices, "registered")
      /\ Behind(toControl, "SCORE:0", "FINISH") => Behind(toControl', "SCORE:0", "FINISH")
  <2>1. CASE toControl' = Append(toControl, "refused")
    <3>1. /\ Append(toControl, "refused") \in Seq(Told)
          /\ \A e \in Told : e # "refused" =>
               (Has(Append(toControl, "refused"), {e}) <=> Has(toControl, {e}))
      BY <1>3, AppendPoints, AppendHas
    <3>2. /\ Only(toControl, {"refused"}) => Only(Append(toControl, "refused"), {"refused"})
          /\ Once(toControl, {"FINISH"}) => Once(Append(toControl, "refused"), {"FINISH"})
      BY <1>3, AppendHas
    <3>3. /\ Before(toControl, Notices, "registered") =>
               Before(Append(toControl, "refused"), Notices, "registered")
          /\ Behind(toControl, "SCORE:0", "FINISH") =>
               Behind(Append(toControl, "refused"), "SCORE:0", "FINISH")
      BY <1>3, AppendOrder
    <3>4. Only(toControl, Notices) => Only(Append(toControl, "refused"), Notices)
      BY <1>3, AppendHas DEF Notices
    <3> QED BY <2>1, <3>1, <3>2, <3>3, <3>4
  <2> QED BY <1>1, <1>3, <2>1
<1> HIDE DEF packet
<1>5. {"OLEH", "SCORE:0", "FINISH", "registered"} \subseteq Told
  BY DEF Told, Says
<1>6. Types'
  BY <1>1, <1>2, <1>4 DEF Inv, Types
<1>7. Succession'
  BY <1>1, <1>2 DEF Inv, Succession
<1>8. Outside'
  <2>1. paired # phone => Only(upward'[phone], Codes \cup {"HELO"})
    BY <1>2, <1>3 DEF Inv, Outside
  <2>2. status \in Early => upward'[phone] = <<>>
    BY <1>2, <1>3 DEF Inv, Outside
  <2>3. socket = "lost" => upward'[phone] = <<>> /\ toControl' = <<>>
    <3>1. CASE p = phone
      BY <1>2, <3>1
    <3>2. CASE p # phone
      <4>1. toControl' = toControl
        BY <3>2 DEF ServeControl, Register, Relay, Disconnection, ToPhone
      <4> QED BY <1>2, <1>3, <3>2, <4>1 DEF Inv, Outside
    <3> QED BY <3>1, <3>2
  <2> QED BY <1>1, <1>4, <2>1, <2>2, <2>3 DEF Inv, Outside
<1>9. Framed' /\ Calm'
  BY <1>1 DEF Inv, Framed, Calm, Hushed
<1>10. Answered'
  BY <1>1, <1>4, <1>5 DEF Inv, Answered
<1>11. \A q \in Phones : /\ Has(upward'[q], Go) => Has(upward[q], Go)
                         /\ served = "served" /\ Has(upward[q], Go) => Has(upward'[q], Go)
  BY <1>2
<1>12. /\ Asked' => Asked
       /\ EndPassed' <=> EndPassed
       /\ UNCHANGED <<Brought, Ticking, EndSent>>
  BY <1>1, <1>4, <1>5, <1>11 DEF Asked, EndPassed, Brought, Ticking, EndSent
<1>13. OneOpen'
  <2>1. ASSUME Single PROVE Single'
    BY <1>1, <1>2, <1>4, <1>11, <2>1 DEF Single
  <2> QED BY <1>1, <1>12, <2>1 DEF Inv, OneOpen, Undisturbed, Apart, Open
<1>14. Followed'
  BY <1>1, <1>4, <1>12 DEF Inv, Followed
<1>15. Awaited'
  <2>1. served = "served" /\ paired = phone => (Has(upward[phone], {"HELO"}) => Has(upward'[phone], {"HELO"}))
    BY <1>2, <1>3
  <2> QED BY <1>1, <1>3, <1>4, <1>5, <1>11, <1>12, <2>1 DEF Inv, Awaited
<1> QED BY <1>6, <1>7, <1>8, <1>9, <1>10, <1>13, <1>14, <1>15 DEF Inv

\* A payload that is relayed: a game asked for is on the way to the display client.
LEMMA RelayedKeeps ==
  ASSUME Inv, NEW p \in Phones, ServeControl(p),
         Head(upward[p]) \notin Codes \cup {"left"}, paired = p, InPair
  PROVE  Inv'
<1> DEFINE packet == Head(upward[p])
<1>1. /\ upward[p] # <<>> /\ telling # p /\ upward' = [upward EXCEPT ![p] = Tail(@)]
      /\ ToDisplay(packet)
      /\ UNCHANGED <<phone, status, socket, incoming, timers, splits, skipped, toServer, toControl,
                     served, paired, telling, inherited>>
  BY DEF ServeControl, Relay, ToPartner, Codes, app, screen, service, ThreadFree
<1>2. /\ upward' \in [Phones -> Seq(Asks)] /\ packet \in Go \cup {"HELO", "CONTROL"}
      /\ \A q \in Phones : q # p => upward'[q] = upward[q]
      /\ \A P : /\ Has(upward[p], P) <=> (packet \in P \/ Has(upward'[p], P))
                /\ Once(upward[p], P) => Once(upward'[p], P) /\ (packet \in P => ~Has(upward'[p], P))
      /\ \A q \in Phones : AtEnd(upward'[q], "left")
      /\ ~Has(upward'[phone], {"left"})
      /\ p = phone \/ p < phone
      /\ p = phone => socket # "lost"
  <2>1. packet \in Asks
    BY <1>1, TakenPoints
  <2>2. packet \in Go \cup {"HELO", "CONTROL"}
    BY <2>1 DEF Asks, Go, Codes
  <2> QED BY <1>1, <2>2, TakenPoints
<1>3. /\ packet \in Names
      /\ stream' \in Seq(Cells) /\ (splits = 0 => Whole(stream'))
      /\ Has(stream', {"HELO"}) <=> (Has(stream, {"HELO"}) \/ packet = "HELO")
      /\ Has(stream', GoCells) <=> (Has(stream, GoCells) \/ packet \in Go)
      /\ Once(stream, GoCells) /\ (packet \notin Go \/ ~Has(stream, GoCells)) => Once(stream', GoCells)
  <2>1. packet \in Names
    BY <1>2 DEF Names, Go
  <2> QED BY <1>1, <2>1, StreamGrows DEF Inv
<1>4. phone \in Phones /\ phone \in Nat \ {0} /\ p \in Nat \ {0}
  BY BoundsAssumption DEF Inv, Types, Phones
<1> HIDE DEF packet
<1>5. Types'
  BY <1>1, <1>2, <1>3 DEF Inv, Types
<1>6. Succession'
  BY <1>1, <1>2 DEF Inv, Succession
<1>7. Outside'
  BY <1>1, <1>2, <1>4 DEF Inv, Outside
<1>8. Framed'
  BY <1>1, <1>3 DEF Framed
<1>9. Calm'
  <2>1. telling # phone /\ ~(phone = 1 /\ paired # 1)
    BY <1>1, <1>2, <1>4 DEF Inv, Types
  <2> QED BY <1>1, <2>1 DEF Calm, Hushed
<1>10. Answered'
  BY <1>1 DEF Inv, Answered
<1>11. OneOpen'
  <2> SUFFICES ASSUME Undisturbed PROVE (Single /\ Apart /\ (paired = phone /\ Open => status \in Playing))'
    BY <1>1 DEF OneOpen, Undisturbed
  <2>1. Single /\ Apart /\ (paired = phone /\ Open => status \in Playing)
    BY DEF Inv, OneOpen
  <2>2. UNCHANGED <<Ticking, EndSent, EndPassed>>
    BY <1>1 DEF Ticking, EndSent, EndPassed
  <2>3. \A q \in Phones : Has(upward'[q], Go) => Has(upward[q], Go)
    BY <1>2
  <2>4. \A q \in Phones : Once(upward'[q], Go)
    BY <1>2, <2>1 DEF Single
  <2>5. CASE packet \in Go
    <3>1. Has(upward[p], Go) /\ Asked /\ ~Brought
      BY <1>2, <2>1, <2>5 DEF Asked, Apart
    <3>2. ~Asked' /\ Brought'
      BY <1>2, <1>3, <2>1, <2>3, <2>5, <3>1 DEF Asked, Brought, Single
    <3>3. Once(stream', GoCells)
      BY <1>3, <2>1, <3>1 DEF Single, Brought
    <3>4. Single'
      BY <1>1, <2>1, <2>3, <2>4, <3>3 DEF Single
    <3> QED BY <1>1, <2>1, <2>2, <3>1, <3>2, <3>4 DEF Apart, Open
  <2>6. CASE packet \notin Go
    <3>1. Once(stream', GoCells) /\ (Brought' <=> Brought)
      BY <1>3, <2>1, <2>6 DEF Single, Brought
    <3>2. Asked' => Asked
      BY <2>3 DEF Asked
    <3>3. Single'
      BY <1>1, <2>1, <2>3, <2>4, <3>1 DEF Single
    <3> QED BY <1>1, <2>1, <2>2, <3>1, <3>2, <3>3 DEF Apart, Open
  <2> QED BY <2>5, <2>6
<1>12. Followed'
  BY <1>1 DEF Inv, Followed, Ticking, EndSent
<1>13. Awaited'
  <2> SUFFICES ASSUME splits = 0 /\ ~skipped /\ paired = phone PROVE Awaited'
    BY <1>1 DEF Awaited
  <2>1. Has(upward[phone], {"HELO"}) \/ Has(stream, {"HELO"})
          => Has(upward'[phone], {"HELO"}) \/ Has(stream', {"HELO"})
    BY <1>1, <1>2, <1>3
  <2>2. Has(upward[phone], Go) \/ Brought => Has(upward'[phone], Go) \/ Brought'
    BY <1>1, <1>2, <1>3 DEF Brought
  <2> QED BY <1>1, <2>1, <2>2 DEF Inv, Awaited, Ticking, EndSent, EndPassed
<1> QED BY <1>5, <1>6, <1>7, <1>8, <1>9, <1>10, <1>11, <1>12, <1>13 DEF Inv

\* A control client in the pair has left, and was the last to be heard.
LEMMA DisconnectionKeeps ==
  ASSUME Inv, NEW p \in Phones, ServeControl(p), Head(upward[p]) = "left"
  PROVE  Inv'
<1>1. /\ upward[p] # <<>> /\ telling # p /\ upward' = [upward EXCEPT ![p] = Tail(@)]
      /\ Disconnection(p)
      /\ UNCHANGED <<phone, status, socket, incoming, timers, splits, skipped, toServer>>
  BY DEF ServeControl, app, screen, ThreadFree
<1>2. /\ p # phone /\ p < phone /\ paired = p /\ upward'[p] = <<>>
      /\ upward' \in [Phones -> Seq(Asks)]
      /\ \A q \in Phones : q # p => upward'[q] = upward[q]
      /\ \A P : Has(upward[p], P) <=> ("left" \in P \/ Has(upward'[p], P))
      /\ \A P : Once(upward[p], P) => Once(upward'[p], P)
      /\ \A q \in Phones : AtEnd(upward'[q], "left")
      /\ ~Has(upward'[phone], {"left"})
  <2>1. p # phone /\ p < phone /\ paired = p /\ upward'[p] = <<>>
    BY <1>1, TakenPoints
  <2>2. /\ upward' \in [Phones -> Seq(Asks)]
        /\ \A q \in Phones : q # p => upward'[q] = upward[q]
        /\ \A q \in Phones : AtEnd(upward'[q], "left")
        /\ ~Has(upward'[phone], {"left"})
    BY <1>1, TakenPoints
  <2>3. \A P : /\ Has(upward[p], P) <=> (Head(upward[p]) \in P \/ Has(upward'[p], P))
               /\ Once(upward[p], P) => Once(upward'[p], P)
    BY <1>1, TakenPoints
  <2> QED BY <2>1, <2>2, <2>3
<1>3. /\ paired' = 0 /\ telling = 0 /\ ToPartner("controlUnregistered")
      /\ UNCHANGED <<toControl, served, telling, inherited>>
  BY <1>1, <1>2 DEF Inv, Types, Disconnection
<1>4. phone \in Phones /\ phone \in Nat \ {0} /\ p \in Nat \ {0} /\ phone # 1
  BY <1>2, BoundsAssumption DEF Inv, Types, Phones
<1>5. /\ stream' \in Seq(Cells) /\ (splits = 0 => Whole(stream'))
      /\ Has(stream', GoCells) <=> Has(stream, GoCells)
      /\ Once(stream, GoCells) => Once(stream', GoCells)
  BY <1>3, PartnerTold DEF Inv
<1>6. Types'
  BY <1>1, <1>2, <1>3, <1>4, <1>5 DEF Inv, Types
<1>7. Succession'
  BY <1>1, <1>2 DEF Inv, Succession
<1>8. Outside'
  BY <1>1, <1>2, <1>3, <1>4 DEF Inv, Outside
<1>9. Framed' /\ Calm'
  BY <1>1, <1>3, <1>4, <1>5 DEF Framed, Calm, Hushed
<1>10. Answered'
  BY <1>1, <1>3 DEF Inv, Answered
<1>11. OneOpen'
  <2>1. \A q \in Phones : Has(upward'[q], Go) <=> Has(upward[q], Go)
    BY <1>2 DEF Go
  <2>2. (Asked' <=> Asked) /\ (Brought' <=> Brought) /\ UNCHANGED <<Ticking, EndSent, EndPassed>>
    BY <1>1, <1>3, <1>5, <2>1 DEF Asked, Brought, Ticking, EndSent, EndPassed
  <2>3. ASSUME Single PROVE Single'
    BY <1>1, <1>2, <1>3, <1>5, <2>1, <2>3 DEF Single
  <2> QED BY <1>1, <1>3, <1>4, <2>2, <2>3 DEF Inv, OneOpen, Undisturbed, Apart
<1>12. Followed'
  BY <1>1, <1>3 DEF Inv, Followed, Ticking, EndSent
<1>13. Awaited'
  BY <1>1, <1>3, <1>4 DEF Awaited
<1> QED BY <1>6, <1>7, <1>8, <1>9, <1>10, <1>11, <1>12, <1>13 DEF Inv

\* The answer to the registration is written.
LEMMA RespondKeeps ==
  ASSUME Inv, NEW p \in Phones, RespondControl(p)
  PROVE  Inv'
<1>1. /\ telling = p /\ telling' = 0
      /\ toControl' = IF p = phone THEN Append(toControl, "registered") ELSE toControl
      /\ UNCHANGED <<phone, status, socket, incoming, timers, splits, skipped, upward, toServer,
                     stream, served, paired, inherited>>
  BY DEF RespondControl, ToPhone, app, screen
<1>2. /\ phone \in Nat \ {0} /\ p \in Nat \ {0} /\ paired = p
      /\ toControl \in Seq(Told) /\ "registered" \in Told
  BY <1>1, BoundsAssumption DEF Inv, Types, Phones, Told
<1>3. /\ toControl' \in Seq(Told)
      /\ \A e \in Told : e # "registered" => (Has(toControl', {e}) <=> Has(toControl, {e}))
      /\ p = phone => Has(toControl', {"registered"})
      /\ Once(toControl, {"FINISH"}) => Once(toControl', {"FINISH"})
      /\ Before(toControl, Notices, "registered") /\ (p = phone => Only(toControl, Notices))
           => Before(toControl', Notices, "registered")
      /\ Behind(toControl, "SCORE:0", "FINISH") => Behind(toControl', "SCORE:0", "FINISH")
  <2> DEFINE longer == Append(toControl, "registered")
  <2>1. /\ longer \in Seq(Told)
        /\ \A e \in Told : e # "registered" => (Has(longer, {e}) <=> Has(toControl, {e}))
        /\ Has(longer, {"registered"})
    BY <1>2, AppendPoints, AppendHas
  <2>2. Once(toControl, {"FINISH"}) => Once(longer, {"FINISH"})
    BY <1>2, AppendHas
  <2>3. /\ Before(toControl, Notices, "registered") /\ Only(toControl, Notices)
             => Before(longer, Notices, "registered")
        /\ Behind(toControl, "SCORE:0", "FINISH") => Behind(longer, "SCORE:0", "FINISH")
    BY <1>2, AppendOrder
  <2>4. toControl' = IF p = phone THEN longer ELSE toControl
    BY <1>1
  <2> HIDE DEF longer
  <2> QED BY <1>2, <2>1, <2>2, <2>3, <2>4
<1>4. {"OLEH", "SCORE:0", "FINISH"} \subseteq Told
  BY DEF Told, Says
<1>5. Types' /\ Succession' /\ Framed'
  BY <1>1, <1>2, <1>3 DEF Inv, Types, Succession, Framed
<1>6. Outside'
  BY <1>1, <1>2 DEF Inv, Outside
<1>7. Calm'
  BY <1>1, <1>2 DEF Inv, Calm, Hushed
<1>8. Answered'
  <2>1. ~inherited /\ p = phone => status = "Handshaking" /\ Only(toControl, Notices)
    BY <1>1 DEF Inv, Answered
  <2>2. p # phone => toControl' = toControl
    BY <1>1
  <2> QED BY <1>1, <1>2, <1>3, <2>1, <2>2 DEF Inv, Answered
<1>9. (EndPassed' <=> EndPassed) /\ UNCHANGED <<Asked, Brought, Ticking, EndSent>>
  BY <1>1, <1>3, <1>4 DEF Asked, Brought, Ticking, EndSent, EndPassed
<1>10. OneOpen'
  <2>1. ASSUME Single PROVE Single'
    BY <1>1, <1>3, <2>1 DEF Single
  <2> QED BY <1>1, <1>9, <2>1 DEF Inv, OneOpen, Undisturbed, Apart, Open
<1>11. Followed'
  BY <1>1, <1>3, <1>9 DEF Inv, Followed
<1>12. Awaited'
  BY <1>1, <1>2, <1>3, <1>4, <1>9 DEF Inv, Awaited
<1> QED BY <1>5, <1>6, <1>7, <1>8, <1>10, <1>11, <1>12 DEF Inv

\* What the display client says is passed on to the control client in its pair.
LEMMA PassKeeps ==
  ASSUME Inv, ServeDisplay
  PROVE  Inv'
<1> DEFINE packet == Head(toServer)
           rest   == Tail(toServer)
           longer == Append(toControl, packet)
<1>1. /\ toServer # <<>> /\ toServer' = rest
      /\ IF packet = "register" THEN ToDisplay("displayRegistered") /\ UNCHANGED toControl
         ELSE UNCHANGED stream /\ toControl' = IF paired = phone THEN longer ELSE toControl
      /\ UNCHANGED <<phone, status, socket, incoming, timers, splits, skipped, upward, paired,
                     telling, inherited>>
      /\ served' = IF packet = "register" THEN "served" ELSE served
      /\ served \in {"new", "served"}
  <2>1. packet = "register" \/ IsRelayed(packet)
    BY DEF IsRelayed, TakenFor, TypeOf
  <2>2. ~IsRelayed("register")
    BY DEF IsRelayed
  <2> HIDE DEF packet, longer
  <2>3. Append(toControl, packet) = longer /\ Head(toServer) = packet
    BY DEF longer, packet
  <2> QED BY <2>1, <2>2, <2>3 DEF ServeDisplay, ToPhone, app, screen
<1>2. toServer \in Seq(Says) /\ toControl \in Seq(Told) /\ phone \in Nat \ {0}
  BY BoundsAssumption DEF Inv, Types, Phones
<1>3. /\ rest \in Seq(Says) /\ packet \in Says
      /\ \A P : /\ Has(toServer, P) <=> (packet \in P \/ Has(rest, P))
                /\ Only(toServer, P) <=> (packet \in P /\ Only(rest, P))
                /\ Once(toServer, P) => Once(rest, P) /\ (packet \in P => ~Has(rest, P))
      /\ \A d, e : Behind(toServer, d, e) => Behind(rest, d, e) /\ (packet = d => Has(rest, {e}))
  BY <1>1, <1>2, TailPoints, TailHas, TailOrder
<1>4. packet \in Told
  BY <1>3 DEF Told
<1>5. /\ longer \in Seq(Told)
      /\ \A P : /\ Has(longer, P) <=> (Has(toControl, P) \/ packet \in P)
                /\ Once(toControl, P) /\ (packet \notin P \/ ~Has(toControl, P)) => Once(longer, P)
      /\ \A P, e : Before(toControl, P, e) /\ packet # e => Before(longer, P, e)
      /\ \A d, e : packet # d /\ (Behind(toControl, d, e) \/ packet = e) => Behind(longer, d, e)
  BY <1>2, <1>4, AppendPoints, AppendHas, AppendOrder
<1> HIDE DEF packet, rest, longer
<1>6. packet # "registered"
  BY <1>3 DEF Says
<1>7. \/ toControl' = toControl
      \/ toControl' = longer /\ paired = phone /\ packet # "register"
  BY <1>1
<1>8. /\ stream' \in Seq(Cells) /\ (splits = 0 => Whole(stream'))
      /\ \A P \in {{"payload"}, {"HELO"}, GoCells} : Has(stream', P) <=> Has(stream, P)
      /\ Once(stream, GoCells) => Once(stream', GoCells)
  <2>1. CASE packet = "register"
    BY <1>1, <2>1, StreamGrows DEF Inv, Names, Go
  <2>2. CASE packet # "register"
    BY <1>1, <2>2 DEF Inv, Types, Framed
  <2> QED BY <2>1, <2>2
<1>9. Types'
  BY <1>1, <1>2, <1>3, <1>5, <1>7, <1>8 DEF Inv, Types
<1>10. Succession' /\ Framed'
  BY <1>1, <1>8 DEF Inv, Succession, Framed
<1>11. Outside'
  <2>1. socket = "lost" => paired # phone
    BY DEF Inv, Outside
  <2> QED BY <1>1, <1>7, <2>1 DEF Inv, Outside
<1>12. Calm'
  BY <1>1, <1>3, <1>8 DEF Inv, Calm, Hushed
<1>13. Answered'
  <2> SUFFICES ASSUME ~inherited PROVE Answered'
    BY <1>1 DEF Answered
  <2>1. telling = phone => toControl' = toControl
    BY <1>3, <1>7 DEF Inv, Calm, Hushed
  <2>2. Has(toControl', {"registered"}) => Has(toControl, {"registered"})
    BY <1>5, <1>6, <1>7
  <2>3. Before(toControl', Notices, "registered")
    BY <1>5, <1>6, <1>7 DEF Inv, Answered
  <2> QED BY <1>1, <2>1, <2>2, <2>3 DEF Inv, Answered
<1>14. (Asked' <=> Asked) /\ (Brought' <=> Brought) /\ (Ticking' <=> Ticking)
  BY <1>1, <1>8 DEF Asked, Brought, Ticking
<1>15. /\ EndSent' => EndSent
       /\ EndPassed' => EndPassed \/ (EndSent /\ packet = "FINISH")
  BY <1>1, <1>3, <1>5, <1>7 DEF EndSent, EndPassed
<1>16. OneOpen'
  <2> SUFFICES ASSUME Undisturbed PROVE (Single /\ Apart /\ (paired = phone /\ Open => status \in Playing))'
    BY <1>1 DEF OneOpen, Undisturbed
  <2>1. Single /\ Apart /\ (paired = phone /\ Open => status \in Playing)
    BY DEF Inv, OneOpen
  <2>2. packet = "FINISH" => EndSent /\ ~EndSent'
    BY <1>1, <1>3, <2>1 DEF EndSent, Single
  <2>3. Once(toControl', {"FINISH"})
    <3>1. packet \notin {"FINISH"} \/ ~Has(toControl, {"FINISH"})
      BY <2>1, <2>2 DEF Apart, EndPassed
    <3> QED BY <1>5, <1>7, <2>1, <3>1 DEF Single
  <2>4. Single'
    BY <1>1, <1>3, <1>8, <2>1, <2>3 DEF Single
  <2>5. Apart' /\ (Open' => Open)
    BY <1>14, <1>15, <2>1, <2>2 DEF Apart, Open
  <2> QED BY <1>1, <2>1, <2>4, <2>5
<1>17. Followed'
  <2> SUFFICES ASSUME ~Ticking PROVE Behind(rest, "SCORE:0", "FINISH")
                                     /\ (EndSent' \/ Behind(toControl', "SCORE:0", "FINISH"))
    BY <1>1, <1>14 DEF Followed
  <2>1. Behind(toServer, "SCORE:0", "FINISH") /\ (EndSent \/ Behind(toControl, "SCORE:0", "FINISH"))
    BY DEF Inv, Followed
  <2>2. packet = "SCORE:0" => EndSent'
    BY <1>1, <1>3, <2>1 DEF EndSent
  <2>3. packet # "FINISH" => (EndSent' <=> EndSent)
    BY <1>1, <1>3 DEF EndSent
  <2>4. CASE toControl' = longer
    BY <1>3, <1>5, <2>1, <2>2, <2>3, <2>4
  <2>5. CASE toControl' = toControl
    <3>1. CASE packet = "FINISH"
      <4>1. paired # phone
        <5>1. toControl' = IF paired = phone THEN longer ELSE toControl
          BY <1>1, <3>1
        <5>2. toControl # longer
          BY <1>2, <1>4, AppendPoints DEF longer
        <5> QED BY <2>5, <5>1, <5>2
      <4>2. Behind(toControl, "SCORE:0", "FINISH")
        BY <4>1 DEF Inv, Outside, Only, Behind
      <4> QED BY <1>3, <2>1, <2>5, <4>2
    <3>2. CASE packet # "FINISH"
      BY <1>3, <2>1, <2>3, <2>5, <3>2
    <3> QED BY <3>1, <3>2
  <2> QED BY <1>7, <2>4, <2>5
<1>18. Awaited'
  <2> SUFFICES ASSUME paired = phone, served = "served" PROVE Awaited'
    BY <1>1, <1>2 DEF Inv, Types, Awaited
  <2>1. ASSUME NEW e \in Says \ {"register"}, Has(toServer, {e}) \/ Has(toControl, {e})
        PROVE  Has(rest, {e}) \/ Has(toControl', {e})
    BY <1>1, <1>3, <1>5, <2>1
  <2>2. Has(toControl, {"registered"}) => Has(toControl', {"registered"})
    BY <1>5, <1>7
  <2>3. {"OLEH", "SCORE:0", "FINISH"} \subseteq Says \ {"register"}
    BY DEF Says
  <2> QED BY <1>1, <1>8, <1>14, <2>1, <2>2, <2>3 DEF Inv, Awaited, EndSent, EndPassed
<1> QED BY <1>9, <1>10, <1>11, <1>12, <1>13, <1>16, <1>17, <1>18 DEF Inv

\* A relay that throws loses what was to be relayed, and that concerns no control client that
\* is still there.
LEMMA RelayFailsKeeps ==
  ASSUME Inv, RelayFails
  PROVE  Inv'
<1> DEFINE packet == Head(toServer)
           rest   == Tail(toServer)
<1>1. /\ toServer # <<>> /\ toServer' = rest /\ paired # 0 /\ paired # phone /\ served' = "failed"
      /\ UNCHANGED <<phone, status, socket, incoming, timers, splits, skipped, upward, toControl,
                     stream, paired, telling, inherited>>
  BY DEF RelayFails, app, screen
<1>2. toServer \in Seq(Says) /\ phone \in Nat \ {0}
  BY BoundsAssumption DEF Inv, Types, Phones
<1>3. /\ rest \in Seq(Says)
      /\ \A P : /\ Has(rest, P) => Has(toServer, P)
                /\ Only(toServer, P) => Only(rest, P)
                /\ Once(toServer, P) => Once(rest, P)
      /\ \A d, e : Behind(toServer, d, e) => Behind(rest, d, e)
  BY <1>1, <1>2, TailPoints, TailHas, TailOrder
<1> HIDE DEF packet, rest
<1>4. Types' /\ Succession' /\ Framed' /\ Calm'
  BY <1>1, <1>3 DEF Inv, Types, Succession, Framed, Calm, Hushed
<1>5. Outside' /\ Answered' /\ Awaited'
  BY <1>1 DEF Inv, Outside, Answered, Awaited
<1>6. (EndSent' => EndSent) /\ UNCHANGED <<Asked, Brought, Ticking, EndPassed>>
  BY <1>1, <1>3 DEF Asked, Brought, Ticking, EndSent, EndPassed
<1>7. OneOpen'
  <2>1. ASSUME Single PROVE Single'
    BY <1>1, <1>3, <2>1 DEF Single
  <2> QED BY <1>1, <1>6, <2>1 DEF Inv, OneOpen, Undisturbed, Apart, Open
<1>8. Followed'
  <2>1. Behind(toControl, "SCORE:0", "FINISH")
    BY <1>1 DEF Inv, Outside, Only, Behind
  <2> QED BY <1>1, <1>3, <1>6, <2>1 DEF Inv, Followed
<1> QED BY <1>4, <1>5, <1>7, <1>8 DEF Inv

\* The control client in the pair is told that the display client is gone, or is not.
LEMMA EndDisplayKeeps ==
  ASSUME Inv, EndDisplay
  PROVE  Inv'
<1> DEFINE longer == Append(toControl, "displayUnregistered")
<1>1. /\ served = "failed" /\ served' \in {"removed", "orphaned"}
      /\ toControl' = toControl \/ (toControl' = longer /\ paired = phone)
      /\ UNCHANGED <<phone, status, socket, incoming, timers, splits, skipped, upward, toServer,
                     stream, paired, telling, inherited>>
  BY DEF EndDisplay, ToPhone, app, screen
<1>2. toControl \in Seq(Told) /\ "displayUnregistered" \in Told /\ "displayUnregistered" \in Notices
  BY DEF Inv, Types, Told, Notices
<1>3. /\ longer \in Seq(Told)
      /\ \A e \in {"registered", "FINISH"} : Has(longer, {e}) <=> Has(toControl, {e})
      /\ Only(toControl, Notices) => Only(longer, Notices)
      /\ Once(toControl, {"FINISH"}) => Once(longer, {"FINISH"})
      /\ Before(toControl, Notices, "registered") => Before(longer, Notices, "registered")
      /\ Behind(toControl, "SCORE:0", "FINISH") => Behind(longer, "SCORE:0", "FINISH")
  <2>1. longer \in Seq(Told)
    BY <1>2, AppendPoints
  <2>2. /\ \A e \in {"registered", "FINISH"} : Has(longer, {e}) <=> Has(toControl, {e})
        /\ Only(toControl, Notices) => Only(longer, Notices)
        /\ Once(toControl, {"FINISH"}) => Once(longer, {"FINISH"})
    BY <1>2, AppendHas
  <2>3. /\ Before(toControl, Notices, "registered") => Before(longer, Notices, "registered")
        /\ Behind(toControl, "SCORE:0", "FINISH") => Behind(longer, "SCORE:0", "FINISH")
    BY <1>2, AppendOrder
  <2> QED BY <2>1, <2>2, <2>3
<1> HIDE DEF longer
<1>4. /\ toControl' \in Seq(Told)
      /\ \A e \in {"registered", "FINISH"} : Has(toControl', {e}) <=> Has(toControl, {e})
      /\ Only(toControl, Notices) => Only(toControl', Notices)
      /\ Once(toControl, {"FINISH"}) => Once(toControl', {"FINISH"})
      /\ Before(toControl, Notices, "registered") => Before(toControl', Notices, "registered")
      /\ Behind(toControl, "SCORE:0", "FINISH") => Behind(toControl', "SCORE:0", "FINISH")
      /\ paired # phone => toControl' = toControl
  BY <1>1, <1>2, <1>3
<1>5. Types' /\ Succession' /\ Framed' /\ Calm' /\ Awaited'
  BY <1>1, <1>4 DEF Inv, Types, Succession, Framed, Calm, Hushed, Awaited
<1>6. Outside' /\ Answered'
  BY <1>1, <1>4 DEF Inv, Outside, Answered
<1>7. (EndPassed' <=> EndPassed) /\ UNCHANGED <<Asked, Brought, Ticking, EndSent>>
  BY <1>1, <1>4 DEF Asked, Brought, Ticking, EndSent, EndPassed
<1>8. OneOpen'
  <2>1. ASSUME Single PROVE Single'
    BY <1>1, <1>4, <2>1 DEF Single
  <2> QED BY <1>1, <1>7, <2>1 DEF Inv, OneOpen, Undisturbed, Apart, Open
<1>9. Followed'
  BY <1>1, <1>4, <1>7 DEF Inv, Followed
<1> QED BY <1>5, <1>6, <1>8, <1>9 DEF Inv

\* What a control client that is gone had asked for may never be read.
LEMMA BreakKeeps ==
  ASSUME Inv, NEW p \in Phones, Break(p)
  PROVE  Inv'
<1> DEFINE last == <<"left">>
<1>1. /\ p # phone /\ upward[p] # <<>> /\ upward' = [upward EXCEPT ![p] = last]
      /\ telling' \in {telling, 0} /\ (telling = phone => telling' = phone)
      /\ UNCHANGED <<phone, status, socket, incoming, timers, splits, skipped, toServer, toControl,
                     stream, served, paired, inherited>>
  BY DEF Break, app, screen
<1>2. /\ phone \in Nat \ {0} /\ phone \in Phones /\ p < phone /\ paired = p /\ paired # phone
  BY <1>1, BoundsAssumption DEF Inv, Types, Succession, Phones
<1>3. /\ last \in Seq(Asks) /\ AtEnd(last, "left") /\ ~Has(last, Go) /\ Once(last, Go)
  BY DEF Has, AtEnd, Once, Go, Asks
<1> HIDE DEF last
<1>4. /\ upward' \in [Phones -> Seq(Asks)] /\ upward'[p] = last
      /\ \A q \in Phones : q # p => upward'[q] = upward[q]
  BY <1>1, <1>3 DEF Inv, Types
<1>5. Types' /\ Framed'
  BY <1>1, <1>4 DEF Inv, Types, Framed
<1>6. Succession' /\ Outside'
  BY <1>1, <1>2, <1>3, <1>4 DEF Inv, Succession, Outside
<1>7. Calm' /\ Answered' /\ Awaited'
  BY <1>1, <1>2 DEF Inv, Calm, Hushed, Answered, Awaited
<1>8. \A q \in Phones : Has(upward'[q], Go) => Has(upward[q], Go)
  BY <1>3, <1>4
<1>9. (Asked' => Asked) /\ UNCHANGED <<Brought, Ticking, EndSent, EndPassed>>
  BY <1>1, <1>8 DEF Asked, Brought, Ticking, EndSent, EndPassed
<1>10. OneOpen'
  <2>1. ASSUME Single PROVE Single'
    BY <1>1, <1>3, <1>4, <1>8, <2>1 DEF Single
  <2> QED BY <1>1, <1>9, <2>1 DEF Inv, OneOpen, Undisturbed, Apart, Open
<1>11. Followed'
  BY <1>1, <1>9 DEF Inv, Followed
<1> QED BY <1>5, <1>6, <1>7, <1>10, <1>11 DEF Inv

-----------------------------------------------------------------------------
(* The display client.                                                       *)

\* The display client registers when its connection is up.
LEMMA ConnectedKeeps ==
  ASSUME Inv, SocketConnected
  PROVE  Inv'
<1>1. /\ toServer' = Append(toServer, "register")
      /\ UNCHANGED <<phone, status, socket, incoming, timers, splits, skipped, upward, toControl,
                     stream, served, paired, telling, inherited>>
  BY DEF SocketConnected, Send, app, service
<1>2. toServer \in Seq(Says) /\ "register" \in Says
  BY DEF Inv, Types, Says
<1>3. /\ toServer' \in Seq(Says)
      /\ \A P : /\ Has(toServer', P) <=> (Has(toServer, P) \/ "register" \in P)
                /\ Only(toServer', P) <=> (Only(toServer, P) /\ "register" \in P)
                /\ Once(toServer, P) /\ "register" \notin P => Once(toServer', P)
      /\ \A d, e : "register" # d /\ Behind(toServer, d, e) => Behind(toServer', d, e)
  <2>1. Append(toServer, "register") \in Seq(Says)
    BY <1>2, AppendPoints
  <2>2. \A P : /\ Has(toServer', P) <=> (Has(toServer, P) \/ "register" \in P)
               /\ Only(toServer', P) <=> (Only(toServer, P) /\ "register" \in P)
               /\ Once(toServer, P) /\ "register" \notin P => Once(toServer', P)
    BY <1>1, <1>2, AppendHas
  <2>3. \A d, e : "register" # d /\ Behind(toServer, d, e) => Behind(toServer', d, e)
    BY <1>1, <1>2, AppendOrder
  <2> QED BY <1>1, <2>1, <2>2, <2>3
<1>4. Types' /\ Succession' /\ Outside' /\ Framed' /\ Calm' /\ Answered'
  BY <1>1, <1>3 DEF Inv, Types, Succession, Outside, Framed, Calm, Hushed, Answered
<1>5. (EndSent' <=> EndSent) /\ UNCHANGED <<Asked, Brought, Ticking, EndPassed>>
  BY <1>1, <1>3 DEF Asked, Brought, Ticking, EndSent, EndPassed
<1>6. OneOpen'
  <2>1. ASSUME Single PROVE Single'
    BY <1>1, <1>3, <2>1 DEF Single
  <2> QED BY <1>1, <1>5, <2>1 DEF Inv, OneOpen, Undisturbed, Apart, Open
<1>7. Followed'
  BY <1>1, <1>3, <1>5 DEF Inv, Followed
<1>8. Awaited'
  BY <1>1, <1>3, <1>5 DEF Inv, Awaited
<1> QED BY <1>4, <1>6, <1>7, <1>8 DEF Inv

\* A timer fires: the next is set, or the end of the game is sent.
LEMMA ScoreKeeps ==
  ASSUME Inv, SendScore
  PROVE  Inv'
<1>1. PICK r \in 0..Scores :
        /\ timers[r] > 0
        /\ toServer' = Append(toServer, IF r > 0 THEN "SCORE" ELSE "FINISH")
        /\ timers' = [s \in 0..Scores |-> timers[s] + (IF s = r - 1 THEN 1 ELSE 0)
                                                    - (IF s = r THEN 1 ELSE 0)]
  BY DEF SendScore, Send
<1>2. UNCHANGED <<phone, status, socket, incoming, splits, skipped, upward, toControl, stream,
                  served, paired, telling, inherited>>
  BY DEF SendScore, app, service
<1> DEFINE said == IF r > 0 THEN "SCORE" ELSE "FINISH"
<1>3. /\ toServer \in Seq(Says) /\ said \in Says /\ Scores \in Nat
      /\ timers \in [0..Scores -> Nat] /\ said \in {"SCORE", "FINISH"}
      /\ r > 0 => said = "SCORE"
      /\ r = 0 => said = "FINISH"
  BY BoundsAssumption DEF Inv, Types, Says
<1>4. /\ Append(toServer, said) \in Seq(Says)
      /\ \A P : /\ Has(Append(toServer, said), P) <=> (Has(toServer, P) \/ said \in P)
                /\ Once(toServer, P) /\ (said \notin P \/ ~Has(toServer, P))
                     => Once(Append(toServer, said), P)
      /\ \A d, e : said # d /\ said = e => Behind(Append(toServer, said), d, e)
  BY <1>3, AppendPoints, AppendHas, AppendOrder
<1>5. toServer' = Append(toServer, said)
  BY <1>1
<1>6. /\ \A s \in 0..Scores : s # r /\ s # r - 1 => timers'[s] = timers[s]
      /\ timers'[r] = timers[r] - 1
      /\ r > 0 => r - 1 \in 0..Scores /\ timers'[r - 1] = timers[r - 1] + 1
      /\ timers' \in [0..Scores -> Nat]
  <2>1. \A s \in 0..Scores : timers[s] \in Nat
    BY <1>3
  <2>2. /\ \A s \in 0..Scores : s # r /\ s # r - 1 => timers'[s] = timers[s]
        /\ timers'[r] = timers[r] - 1
        /\ \A s \in 0..Scores : s = r - 1 => timers'[s] = timers[s] + 1
    BY <1>1, <1>3, <2>1
  <2>3. \A s \in 0..Scores : timers'[s] \in Nat
    BY <1>1, <2>1, <2>2
  <2>4. DOMAIN timers' = 0..Scores /\ timers' = [s \in 0..Scores |-> timers'[s]]
    BY <1>1
  <2>5. r > 0 => r - 1 \in 0..Scores
    BY <1>3
  <2>6. timers' \in [0..Scores -> Nat]
    BY <2>3, <2>4
  <2> QED BY <2>2, <2>5, <2>6
<1> HIDE DEF said
<1>7. Ticking
  BY <1>1 DEF Ticking
<1>8. IF r > 0 THEN Ticking' ELSE EndSent' /\ Behind(toServer', "SCORE:0", "FINISH")
  <2>1. CASE r > 0
    BY <1>3, <1>6, <2>1 DEF Ticking
  <2>2. CASE r = 0
    BY <1>3, <1>4, <1>5, <2>2 DEF EndSent
  <2> QED BY <2>1, <2>2
<1>9. Types'
  BY <1>2, <1>4, <1>5, <1>6 DEF Inv, Types
<1>10. Succession' /\ Outside' /\ Framed' /\ Answered'
  BY <1>2 DEF Inv, Succession, Outside, Framed, Answered
<1>11. Calm'
  <2>1. ~Hushed
    BY <1>1 DEF Inv, Calm
  <2> QED BY <1>2, <2>1 DEF Calm, Hushed
<1>12. OneOpen'
  <2> SUFFICES ASSUME Undisturbed PROVE (Single /\ Apart /\ (paired = phone /\ Open => status \in Playing))'
    BY <1>2 DEF OneOpen, Undisturbed
  <2>1. Single /\ Apart /\ (paired = phone => status \in Playing)
    BY <1>7 DEF Inv, OneOpen, Open
  <2>2. /\ timers[r] = 1 /\ \A s \in 0..Scores : s # r => timers[s] = 0
    BY <1>1, <1>3, <2>1 DEF Single
  <2>3. ~Asked' /\ ~Brought' /\ ~EndPassed' /\ ~EndSent
    BY <1>2, <1>7, <2>1 DEF Apart, Asked, Brought, EndPassed
  <2>4. Once(toServer', {"FINISH"})
    BY <1>4, <1>5, <2>1, <2>3 DEF Single, EndSent
  <2>5. CASE r > 0
    <3>1. \A s \in 0..Scores : timers'[s] = IF s = r - 1 THEN 1 ELSE 0
      BY <1>3, <1>6, <2>2, <2>5
    <3>2. /\ \A s \in 0..Scores : timers'[s] <= 1
          /\ \A s, t \in 0..Scores : timers'[s] > 0 /\ timers'[t] > 0 => s = t
      BY <3>1
    <3>3. ~EndSent'
      BY <1>3, <1>4, <1>5, <2>3, <2>5 DEF EndSent
    <3> QED BY <1>2, <2>1, <2>3, <2>4, <3>2, <3>3 DEF Single, Apart
  <2>6. CASE r = 0
    <3>1. \A s \in 0..Scores : timers'[s] = 0
      BY <1>3, <1>6, <2>2, <2>6
    <3>2. ~Ticking'
      BY <3>1 DEF Ticking
    <3> QED BY <1>2, <2>1, <2>3, <2>4, <3>1, <3>2 DEF Single, Apart
  <2> QED BY <1>3, <2>5, <2>6
<1>13. Followed'
  BY <1>8 DEF Followed
<1>14. Awaited'
  <2>1. Ticking' \/ EndSent'
    BY <1>8
  <2>2. \A P : Has(toServer, P) => Has(toServer', P)
    BY <1>4, <1>5
  <2> QED BY <1>2, <2>1, <2>2 DEF Inv, Awaited, Brought
<1> QED BY <1>9, <1>10, <1>11, <1>12, <1>13, <1>14 DEF Inv

LEMMA MagicEndRange ==
  ASSUME NEW S, NEW all \in Seq(S)
  PROVE  MagicEnd(all) \in 0..Len(all)
<1> DEFINE ends == {i \in 2..Len(all) : <<all[i - 1], all[i]>> = Magic}
<1>1. ends \subseteq 2..Len(all) /\ ends \subseteq Nat /\ Len(all) \in Nat
  OBVIOUS
<1>2. MagicEnd(all) = IF ends = {} \/ Min(ends) < 4 THEN 0 ELSE Min(ends)
  BY DEF MagicEnd
<1> HIDE DEF ends
<1>3. ASSUME ends # {} PROVE Min(ends) \in ends
  <2>1. PICK n \in ends : \A m \in ends : <<m, n>> \notin OpToRel(<, Nat)
    BY <1>1, <1>3, NatLessThanWellFounded, WFMin, Zenon
  <2>2. \A m \in ends : m \in Nat /\ n \in Nat
    BY <1>1
  <2>3. \A m \in ends : ~(m < n)
    BY <2>1, <2>2 DEF OpToRel
  <2>4. \A m \in ends : n <= m
    BY <2>2, <2>3
  <2> QED BY <2>4 DEF Min
<1>4. CASE ends = {}
  BY <1>1, <1>2, <1>4
<1>5. CASE ends # {}
  <2>1. Min(ends) \in 2..Len(all)
    BY <1>1, <1>3, <1>5
  <2>2. MagicEnd(all) \in {0, Min(ends)}
    BY <1>2
  <2> QED BY <1>1, <2>1, <2>2
<1> QED BY <1>4, <1>5

\* What the display client makes of the packet an event hands over.
LEMMA HandleCases ==
  ASSUME NEW packet, Handle(packet)
  PROVE  \/ packet # WireOf.HELO /\ ~Activates(packet) /\ UNCHANGED <<timers, toServer>>
         \/ packet = WireOf.HELO /\ packet[1] = "payload" /\ Send("OLEH") /\ UNCHANGED timers
         \/ Activates(packet) /\ packet[1] = "payload" /\ Activate
<1>1. WireOf.HELO[1] = "payload" /\ WireOf.HELO[2] = "HELO"
  BY DEF WireOf
<1> HIDE DEF WireOf
<1> QED BY <1>1 DEF Handle, Activates

LEMMA WireHandled ==
  ASSUME NEW p \in Names
  PROVE  (WireOf[p] = WireOf.HELO <=> p = "HELO") /\ (Activates(WireOf[p]) <=> p \in Go)
<1>1. CASE p \in {"displayRegistered", "controlRegistered", "controlUnregistered"}
  BY <1>1 DEF WireOf, Activates, Go
<1>2. CASE p \in {"HELO", "START", "CONTROL", "REPLAY"}
  BY <1>2 DEF WireOf, Activates, Go
<1> QED BY <1>1, <1>2 DEF Names

\* An event, as the invariant sees it: what the display client hears (go: a game begins,
\* hello: a handshake, else neither) is in what the event brought, or in the buffer; and it
\* is the first packet of the stream while no packet is cut, the only one of the event
\* while none is skipped.
Heard(go, hello) ==
  /\ stream' \in Seq(Cells) /\ incoming' \in Seq(Cells) /\ skipped' \in {skipped, TRUE}
  /\ splits' \in Nat /\ (splits' # 0 => phone = 1) /\ (splits' = 0 => splits = 0 /\ Whole(stream'))
  /\ \A P : Has(stream', P) => Has(stream, P)
  /\ Once(stream, GoCells) => Once(stream', GoCells)
  /\ ~Has(stream, {"payload"}) /\ ~Has(incoming, {"payload"}) => ~Has(incoming', {"payload"})
  /\ toServer' = (IF go THEN Append(toServer, "SCORE:0")
                  ELSE IF hello THEN Append(toServer, "OLEH") ELSE toServer)
  /\ timers' = (IF go THEN [timers EXCEPT ![Scores] = @ + 1] ELSE timers)
  /\ go \/ hello => Has(stream, {"payload"}) \/ (phone = 1 /\ Has(incoming, {"payload"}))
  /\ splits' = 0 /\ go => Has(stream, GoCells) /\ (Once(stream, GoCells) => ~Has(stream', GoCells))
  /\ splits' = 0 /\ ~skipped' =>
       /\ Has(stream, {"HELO"}) => (hello /\ ~go) \/ Has(stream', {"HELO"})
       /\ Has(stream, GoCells) => go \/ Has(stream', GoCells)

LEMMA DataHeard ==
  ASSUME Inv, SocketData
  PROVE  /\ \E go, hello \in BOOLEAN : Heard(go, hello)
         /\ UNCHANGED <<app, upward, toControl, service>>
<1>0. UNCHANGED <<app, upward, toControl, service>>
  BY DEF SocketData
<1>1. PICK n \in 1..Len(stream) :
        LET cells  == SubSeq(stream, 1, n)
            rest   == SubSeq(stream, n + 1, Len(stream))
            packet == Handed(incoming, cells)
        IN  /\ stream' = rest
            /\ splits' = splits + (IF Inside(rest) THEN 1 ELSE 0)
            /\ splits' <= (IF phone = 1 THEN MaxSplits ELSE 0)
            /\ skipped' = (skipped \/ Several(cells))
            /\ IF packet = <<>>
               THEN /\ incoming' = Overlaid(incoming, cells)
                    /\ UNCHANGED <<display, timers, toServer>>
               ELSE /\ incoming' = Kept(Overlaid(incoming, cells), Len(packet))
                    /\ Handle(packet)
  BY DEF SocketData
<1> DEFINE cells  == SubSeq(stream, 1, n)
           rest   == SubSeq(stream, n + 1, Len(stream))
           all    == Overlaid(incoming, cells)
           packet == Handed(incoming, cells)
<1>2. stream \in Seq(Cells) /\ incoming \in Seq(Cells) /\ splits \in Nat /\ (splits # 0 => phone = 1)
  BY DEF Inv, Types
<1>3. /\ cells \in Seq(Cells) /\ Len(cells) = n /\ rest \in Seq(Cells)
      /\ \A i \in 1..n : cells[i] = stream[i]
  BY <1>2, DropPoints
<1>4. \A P : /\ Has(stream, P) <=> (Has(cells, P) \/ Has(rest, P))
             /\ Once(stream, P) => Once(rest, P) /\ (Has(cells, P) => ~Has(rest, P))
  BY <1>2, DropHas
<1>5. splits = 0 /\ ~Inside(rest) =>
        /\ Whole(rest)
        /\ \E p \in Names :
             /\ Len(WireOf[p]) <= n
             /\ \A i \in 1..Len(WireOf[p]) : cells[i] = WireOf[p][i]
             /\ ~Several(cells) => cells = WireOf[p]
  BY <1>2, DropWhole DEF Inv, Framed
<1>6. packet = SubSeq(all, 1, MagicEnd(all))
  BY DEF Handed
<1>7. /\ stream' = rest /\ splits' = splits + (IF Inside(rest) THEN 1 ELSE 0)
      /\ splits' <= (IF phone = 1 THEN MaxSplits ELSE 0)
      /\ skipped' = (skipped \/ Several(cells))
      /\ IF packet = <<>> THEN incoming' = all /\ UNCHANGED <<timers, toServer>>
         ELSE incoming' = Kept(all, Len(packet)) /\ Handle(packet)
  BY <1>1
<1> HIDE DEF cells, rest, packet
<1>8. /\ all \in Seq(Cells)
      /\ \A i \in DOMAIN all : \/ i \in DOMAIN cells /\ all[i] = cells[i]
                               \/ i \in DOMAIN incoming /\ all[i] = incoming[i]
  BY <1>2, <1>3, OverlaidPoints
<1>9. \A p \in Names : Len(WireOf[p]) <= n /\ (\A i \in 1..Len(WireOf[p]) : cells[i] = WireOf[p][i])
                         => packet = WireOf[p]
  BY <1>2, <1>3, WholeHanded DEF packet
<1> HIDE DEF all
<1>10. /\ packet \in Seq(Cells)
       /\ packet # <<>> => packet[1] = all[1] /\ 1 \in DOMAIN all
  <2>1. MagicEnd(all) \in 0..Len(all) /\ Len(all) \in Nat
    BY <1>8, MagicEndRange
  <2> DEFINE m == MagicEnd(all)
  <2> HIDE DEF m
  <2>2. m \in 0..Len(all) /\ packet = SubSeq(all, 1, m)
    BY <1>6, <2>1 DEF m
  <2> QED BY <1>8, <2>1, <2>2
<1>11. \A P : Has(all, P) => Has(cells, P) \/ Has(incoming, P)
  BY <1>8 DEF Has
<1>12. /\ incoming' \in Seq(Cells)
       /\ \A i \in DOMAIN incoming' : i \in DOMAIN all /\ incoming'[i] = all[i]
  <2>1. CASE packet = <<>>
    BY <1>7, <1>8, <2>1
  <2>2. CASE packet # <<>>
    <3>1. incoming' = all \/ incoming' = SubSeq(all, 1, Len(all) - Len(packet))
      BY <1>7, <2>2 DEF Kept
    <3>2. Len(packet) \in Nat /\ Len(all) \in Nat /\ Len(all) - Len(packet) <= Len(all)
      BY <1>8, <1>10
    <3>3. CASE incoming' = all
      BY <1>8, <3>3
    <3>4. CASE incoming' = SubSeq(all, 1, Len(all) - Len(packet))
      BY <1>8, <3>2, <3>4
    <3> QED BY <3>1, <3>3, <3>4
  <2> QED BY <2>1, <2>2
<1>13. \A P : Has(incoming', P) => Has(cells, P) \/ Has(incoming, P)
  BY <1>11, <1>12 DEF Has
<1>14. PICK go, hello \in BOOLEAN :
         /\ go    => packet # <<>> /\ Activates(packet) /\ packet[1] = "payload" /\ Activate
         /\ hello => packet # <<>> /\ packet = WireOf.HELO /\ packet[1] = "payload" /\ ~go
                     /\ Send("OLEH") /\ UNCHANGED timers
         /\ ~go /\ ~hello => UNCHANGED <<timers, toServer>>
         /\ packet # <<>> => (go <=> Activates(packet)) /\ (hello /\ ~go <=> packet = WireOf.HELO)
  <2>1. CASE packet = <<>>
    BY <1>7, <2>1
  <2>2. CASE packet # <<>>
    <3>1. Handle(packet)
      BY <1>7, <2>2
    <3>2. \/ packet # WireOf.HELO /\ ~Activates(packet) /\ UNCHANGED <<timers, toServer>>
          \/ packet = WireOf.HELO /\ packet[1] = "payload" /\ Send("OLEH") /\ UNCHANGED timers
          \/ Activates(packet) /\ packet[1] = "payload" /\ Activate
      BY <3>1, HandleCases
    <3>3. ~Activates(WireOf.HELO)
      BY WireHandled DEF Names, Go
    <3> QED BY <2>2, <3>2, <3>3
  <2> QED BY <2>1, <2>2
<1>15. /\ splits' \in Nat /\ (splits' # 0 => phone = 1)
       /\ splits' = 0 => splits = 0 /\ ~Inside(rest)
  BY <1>2, <1>7
<1>16. ASSUME splits' = 0
       PROVE  \E p \in Names : /\ packet = WireOf[p] /\ packet # <<>>
                               /\ \A i \in DOMAIN packet : i \in DOMAIN cells /\ cells[i] = packet[i]
                               /\ ~skipped' => cells = packet
  <2>1. PICK p \in Names : /\ Len(WireOf[p]) <= n
                           /\ \A i \in 1..Len(WireOf[p]) : cells[i] = WireOf[p][i]
                           /\ ~Several(cells) => cells = WireOf[p]
    BY <1>5, <1>15, <1>16
  <2>2. packet = WireOf[p]
    BY <1>9, <2>1
  <2>3. WireOf[p] \in Seq(Cells) /\ Len(WireOf[p]) \in {4, 5}
    BY WireShape
  <2>4. packet # <<>> /\ DOMAIN packet = 1..Len(packet) /\ Len(packet) \in {4, 5} /\ Len(packet) <= n
    <3>1. packet \in Seq(Cells) /\ Len(packet) \in {4, 5} /\ Len(packet) <= n
      BY <2>1, <2>2, <2>3
    <3> QED BY <3>1
  <2>5. DOMAIN cells = 1..n
    BY <1>3
  <2>6. \A i \in DOMAIN packet : i \in DOMAIN cells /\ cells[i] = packet[i]
    BY <2>1, <2>2, <2>4, <2>5
  <2>7. ~skipped' => cells = packet
    BY <1>7, <2>1, <2>2
  <2> QED BY <2>2, <2>4, <2>6, <2>7
<1>17. go \/ hello => Has(stream, {"payload"}) \/ (phone = 1 /\ Has(incoming, {"payload"}))
  <2> SUFFICES ASSUME go \/ hello PROVE Has(stream, {"payload"}) \/ (phone = 1 /\ Has(incoming, {"payload"}))
    OBVIOUS
  <2>1. packet # <<>> /\ packet[1] = "payload"
    BY <1>14
  <2>2. CASE splits' = 0
    <3>1. 1 \in DOMAIN packet
      BY <1>10, <2>1
    <3>2. Has(cells, {"payload"})
      BY <1>16, <2>1, <2>2, <3>1 DEF Has
    <3> QED BY <1>4, <3>2
  <2>3. CASE splits' # 0
    <3>1. Has(all, {"payload"})
      BY <1>10, <2>1 DEF Has
    <3> QED BY <1>4, <1>11, <1>15, <2>3, <3>1
  <2> QED BY <2>2, <2>3
<1>18. splits' = 0 /\ go => Has(stream, GoCells) /\ (Once(stream, GoCells) => ~Has(rest, GoCells))
  <2> SUFFICES ASSUME splits' = 0, go PROVE Has(cells, GoCells)
    BY <1>4
  <2>1. PICK p \in Names : /\ packet = WireOf[p] /\ packet # <<>>
                           /\ \A i \in DOMAIN packet : i \in DOMAIN cells /\ cells[i] = packet[i]
    BY <1>16
  <2>2. p \in Go
    BY <1>14, <2>1, WireHandled
  <2>3. Has(packet, GoCells)
    BY <2>1, <2>2, WireHas DEF Go
  <2> QED BY <2>1, <2>3 DEF Has
<1>19. ASSUME splits' = 0, ~skipped'
       PROVE  /\ Has(stream, {"HELO"}) => (hello /\ ~go) \/ Has(rest, {"HELO"})
              /\ Has(stream, GoCells) => go \/ Has(rest, GoCells)
  <2>1. PICK p \in Names : packet = WireOf[p] /\ packet # <<>> /\ cells = packet
    BY <1>16, <1>19
  <2>2. Has(cells, {"HELO"}) => hello /\ ~go
    BY <1>14, <2>1, WireHas, WireHandled
  <2>3. Has(cells, GoCells) => go
    BY <1>14, <2>1, WireHas, WireHandled DEF Go
  <2> QED BY <1>4, <2>2, <2>3
<1>20. /\ toServer' = (IF go THEN Append(toServer, "SCORE:0")
                       ELSE IF hello THEN Append(toServer, "OLEH") ELSE toServer)
       /\ timers' = (IF go THEN [timers EXCEPT ![Scores] = @ + 1] ELSE timers)
  BY <1>14 DEF Activate, Send
<1>21. skipped' \in {skipped, TRUE}
  BY <1>7 DEF Inv, Types
<1>22. Heard(go, hello)
  BY <1>3, <1>4, <1>5, <1>7, <1>12, <1>13, <1>15, <1>17, <1>18, <1>19, <1>20, <1>21 DEF Heard
<1> QED BY <1>0, <1>22

LEMMA DataKeeps ==
  ASSUME Inv, SocketData
  PROVE  Inv'
<1>1. PICK go, hello \in BOOLEAN : Heard(go, hello)
  BY DataHeard
<1>2. UNCHANGED <<phone, status, socket, upward, toControl, served, paired, telling, inherited>>
  BY DataHeard DEF app, service
<1>3. /\ toServer \in Seq(Says) /\ timers \in [0..Scores -> Nat] /\ Scores \in Nat
      /\ "SCORE:0" \in Says /\ "OLEH" \in Says
  BY BoundsAssumption DEF Inv, Types, Says
<1>4. ASSUME NEW e \in Says \ {"register", "FINISH"}
      PROVE  /\ Append(toServer, e) \in Seq(Says)
             /\ \A P : Has(Append(toServer, e), P) <=> (Has(toServer, P) \/ e \in P)
             /\ Once(toServer, {"FINISH"}) => Once(Append(toServer, e), {"FINISH"})
             /\ e # "SCORE:0" /\ Behind(toServer, "SCORE:0", "FINISH")
                  => Behind(Append(toServer, e), "SCORE:0", "FINISH")
  <2>1. Append(toServer, e) \in Seq(Says)
    BY <1>3
  <2>2. \A P : Has(Append(toServer, e), P) <=> (Has(toServer, P) \/ e \in P)
    BY <1>3, AppendHas
  <2>3. Once(toServer, {"FINISH"}) => Once(Append(toServer, e), {"FINISH"})
    BY <1>3, AppendHas
  <2>4. e # "SCORE:0" /\ Behind(toServer, "SCORE:0", "FINISH")
          => Behind(Append(toServer, e), "SCORE:0", "FINISH")
    BY <1>3, AppendOrder
  <2> QED BY <2>1, <2>2, <2>3, <2>4
<1>5. /\ toServer' \in Seq(Says)
      /\ \A P : Has(toServer, P) => Has(toServer', P)
      /\ go => Has(toServer', {"SCORE:0"})
      /\ ~go /\ hello => Has(toServer', {"OLEH"})
      /\ Has(toServer', {"FINISH"}) => Has(toServer, {"FINISH"})
      /\ Once(toServer, {"FINISH"}) => Once(toServer', {"FINISH"})
      /\ ~go /\ Behind(toServer, "SCORE:0", "FINISH") => Behind(toServer', "SCORE:0", "FINISH")
  <2>1. CASE go
    <3>1. toServer' = Append(toServer, "SCORE:0")
      BY <1>1, <2>1 DEF Heard
    <3> QED BY <1>3, <1>4, <2>1, <3>1
  <2>2. CASE ~go /\ hello
    <3>1. toServer' = Append(toServer, "OLEH")
      BY <1>1, <2>2 DEF Heard
    <3> QED BY <1>3, <1>4, <2>2, <3>1
  <2>3. CASE ~go /\ ~hello
    <3>1. toServer' = toServer
      BY <1>1, <2>3 DEF Heard
    <3> QED BY <1>3, <2>3, <3>1
  <2> QED BY <2>1, <2>2, <2>3
<1>6. /\ timers' \in [0..Scores -> Nat]
      /\ go => timers'[Scores] = timers[Scores] + 1
               /\ \A r \in 0..Scores : r # Scores => timers'[r] = timers[r]
      /\ ~go => timers' = timers
  <2>1. CASE go
    <3>1. timers' = [timers EXCEPT ![Scores] = @ + 1]
      BY <1>1, <2>1 DEF Heard
    <3>2. Scores \in 0..Scores /\ timers[Scores] \in Nat
      BY <1>3
    <3> QED BY <1>3, <2>1, <3>1, <3>2
  <2>2. CASE ~go
    BY <1>1, <1>3, <2>2 DEF Heard
  <2> QED BY <2>1, <2>2
<1>7. /\ stream' \in Seq(Cells) /\ incoming' \in Seq(Cells) /\ skipped' \in {skipped, TRUE}
      /\ splits' \in Nat /\ (splits' # 0 => phone = 1)
      /\ splits' = 0 => splits = 0 /\ Whole(stream')
      /\ \A P : Has(stream', P) => Has(stream, P)
      /\ Once(stream, GoCells) => Once(stream', GoCells)
      /\ ~Has(stream, {"payload"}) /\ ~Has(incoming, {"payload"}) => ~Has(incoming', {"payload"})
      /\ go \/ hello => Has(stream, {"payload"}) \/ (phone = 1 /\ Has(incoming, {"payload"}))
      /\ splits' = 0 /\ go => Has(stream, GoCells) /\ (Once(stream, GoCells) => ~Has(stream', GoCells))
      /\ splits' = 0 /\ ~skipped' =>
           /\ Has(stream, {"HELO"}) => (hello /\ ~go) \/ Has(stream', {"HELO"})
           /\ Has(stream, GoCells) => go \/ Has(stream', GoCells)
  BY <1>1 DEF Heard
<1>8. go => Ticking'
  BY <1>3, <1>6 DEF Ticking
<1>9. ~go => (Ticking' <=> Ticking)
  BY <1>6 DEF Ticking
<1>10. /\ (Asked' <=> Asked) /\ (EndPassed' <=> EndPassed) /\ (EndSent' <=> EndSent)
       /\ Brought' => Brought
  BY <1>2, <1>5, <1>7 DEF Asked, Brought, EndSent, EndPassed
<1>11. Types' /\ Framed'
  BY <1>2, <1>5, <1>6, <1>7 DEF Inv, Types, Framed
<1>16. Succession' /\ Outside' /\ Answered'
  BY <1>2 DEF Inv, Succession, Outside, Answered
<1>12. Calm'
  <2> SUFFICES ASSUME Hushed PROVE Calm'
    BY <1>2 DEF Calm, Hushed
  <2>1. ~go /\ ~hello
    BY <1>7 DEF Inv, Calm
  <2>2. toServer' = toServer /\ timers' = timers
    BY <1>1, <2>1 DEF Heard
  <2> QED BY <1>2, <1>7, <2>2 DEF Inv, Calm
<1>13. OneOpen'
  <2> SUFFICES ASSUME Undisturbed' PROVE (Single /\ Apart /\ (paired = phone /\ Open => status \in Playing))'
    BY DEF OneOpen
  <2>1. splits' = 0 /\ Single /\ Apart /\ (paired = phone /\ Open => status \in Playing)
    BY <1>2, <1>7 DEF Inv, OneOpen, Undisturbed
  <2>2. CASE go
    <3>1. Brought /\ ~Brought' /\ ~Asked /\ ~Ticking /\ ~EndSent /\ ~EndPassed
      BY <1>7, <2>1, <2>2 DEF Brought, Single, Apart
    <3>2. \A r \in 0..Scores : timers[r] = 0
      BY <1>3, <3>1 DEF Ticking
    <3>3. /\ \A r \in 0..Scores : timers'[r] <= 1
          /\ \A r, s \in 0..Scores : timers'[r] > 0 /\ timers'[s] > 0 => r = s
      BY <1>3, <1>6, <2>2, <3>2
    <3>4. Single'
      BY <1>2, <1>5, <1>7, <2>1, <3>3 DEF Single
    <3>5. Open /\ Apart'
      BY <1>10, <3>1 DEF Apart, Open
    <3> QED BY <1>2, <2>1, <3>4, <3>5
  <2>3. CASE ~go
    <3>1. Single'
      BY <1>2, <1>5, <1>6, <1>7, <2>1, <2>3 DEF Single
    <3>2. Apart' /\ (Open' => Open)
      BY <1>9, <1>10, <2>1, <2>3 DEF Apart, Open
    <3> QED BY <1>2, <2>1, <3>1, <3>2
  <2> QED BY <2>2, <2>3
<1>14. Followed'
  BY <1>2, <1>5, <1>8, <1>9, <1>10 DEF Inv, Followed
<1>15. Awaited'
  <2> SUFFICES ASSUME splits' = 0, ~skipped', paired = phone PROVE Awaited'
    BY <1>2 DEF Awaited
  <2>1. splits = 0 /\ ~skipped
    <3>1. splits = 0 /\ (skipped' = skipped \/ skipped' = TRUE)
      BY <1>7
    <3>2. skipped' # TRUE
      OBVIOUS
    <3>3. skipped' = skipped
      BY <3>1, <3>2
    <3> QED BY <3>1, <3>3
  <2>2. Has(stream, {"HELO"}) => Has(toServer', {"OLEH"}) \/ Has(stream', {"HELO"})
    BY <1>5, <1>7
  <2>3. Brought => Has(toServer', {"SCORE:0"}) \/ Brought'
    BY <1>5, <1>7 DEF Brought
  <2>4. Ticking \/ EndSent \/ EndPassed => Ticking' \/ EndSent' \/ EndPassed'
    BY <1>8, <1>9, <1>10
  <2> QED BY <1>2, <1>5, <2>1, <2>2, <2>3, <2>4 DEF Inv, Awaited
<1> QED BY <1>11, <1>12, <1>13, <1>14, <1>15, <1>16 DEF Inv

-----------------------------------------------------------------------------
(* The theorems.                                                             *)

LEMMA InvStep == Inv /\ [Next]_vars => Inv'
<1> SUFFICES ASSUME Inv, [Next]_vars PROVE Inv'
  OBVIOUS
<1>1. CASE Phone
  BY <1>1, DialKeeps, RegisterKeeps, AskKeeps, LostAskKeeps, ReceiveKeeps, DepartKeeps,
     StartAgainKeeps DEF Phone, Press
<1>2. CASE Service
  <2>1. CASE ServeDisplay
    BY <2>1, PassKeeps
  <2>2. ASSUME NEW p \in Phones, ServeControl(p) PROVE Inv'
    <3> DEFINE packet == Head(upward[p])
    <3>1. CASE packet = "rightCode" /\ served # "new" /\ paired = 0
      BY <2>2, <3>1, RegisteredKeeps
    <3>2. CASE packet = "left"
      BY <2>2, <3>2, DisconnectionKeeps
    <3>3. CASE packet \notin Codes \cup {"left"} /\ paired = p /\ InPair
      BY <2>2, <3>3, RelayedKeeps
    <3>4. CASE \/ packet \in Codes /\ ~(packet = "rightCode" /\ served # "new" /\ paired = 0)
               \/ packet \notin Codes \cup {"left"} /\ (paired # p \/ ~InPair)
      BY <2>2, <3>4, UnheardKeeps
    <3> QED BY <3>1, <3>2, <3>3, <3>4
  <2>3. ASSUME NEW p \in Phones, RespondControl(p) PROVE Inv'
    BY <2>3, RespondKeeps
  <2>4. ASSUME NEW p \in Phones, Break(p) PROVE Inv'
    BY <2>4, BreakKeeps
  <2>5. CASE RelayFails \/ EndDisplay
    BY <2>5, RelayFailsKeeps, EndDisplayKeeps
  <2> QED BY <1>2, <2>1, <2>2, <2>3, <2>4, <2>5 DEF Service
<1>3. CASE Screen
  BY <1>3, DialKeeps, ConnectedKeeps, DataKeeps, ScoreKeeps DEF Screen
<1>4. CASE UNCHANGED vars
  <2>1. UNCHANGED <<phone, status, socket, incoming, timers, splits, skipped, upward, toServer,
                    toControl, stream, served, paired, telling, inherited>>
    BY <1>4 DEF vars, app, screen, network, service
  <2>2. UNCHANGED <<Asked, Brought, Ticking, EndSent, EndPassed>>
    BY <2>1 DEF Asked, Brought, Ticking, EndSent, EndPassed
  <2>3. Types' /\ Succession' /\ Outside' /\ Framed' /\ Calm' /\ Answered'
    BY <2>1 DEF Inv, Types, Succession, Outside, Framed, Calm, Hushed, Answered
  <2>4. OneOpen' /\ Followed' /\ Awaited'
    BY <2>1, <2>2 DEF Inv, OneOpen, Undisturbed, Single, Apart, Open, Followed, Awaited
  <2> QED BY <2>3, <2>4 DEF Inv
<1> QED BY <1>1, <1>2, <1>3, <1>4 DEF Next

LEMMA Invariance == Spec => []Inv
<1> QED BY InvInit, InvStep, PTL DEF Spec

LEMMA InGames ==
  ASSUME Types, NEW g \in Games
  PROVE  \/ \E r \in 0..Scores : g = <<"timer", r>> /\ timers[r] > 0
         \/ \E i \in DOMAIN toServer : g = <<"toServer", i>> /\ toServer[i] = "FINISH"
         \/ \E i \in DOMAIN toControl : g = <<"toControl", i>> /\ toControl[i] = "FINISH"
BY DEF Games

\* The display client plays one game at a time, however registrations, the control client's
\* departure and the timers fall, as long as no packet is cut and no game is inherited.
THEOREM OneGameAtATime == Spec => []OneGame
<1>1. ASSUME Inv PROVE OneGame
  <2> SUFFICES ASSUME Undisturbed, NEW g \in Games, NEW h \in Games PROVE g = h
    BY <1>1 DEF OneGame, Inv, OneOpen, Single
  <2>1. Single /\ Apart
    BY <1>1 DEF Inv, OneOpen
  <2> DEFINE At(x) == \/ \E r \in 0..Scores : x = <<"timer", r>> /\ timers[r] > 0
                      \/ \E i \in DOMAIN toServer : x = <<"toServer", i>> /\ toServer[i] = "FINISH"
                      \/ \E i \in DOMAIN toControl : x = <<"toControl", i>> /\ toControl[i] = "FINISH"
  <2>2. At(g) /\ At(h)
    BY <1>1, InGames DEF Inv
  <2>3. CASE \E r \in 0..Scores : g = <<"timer", r>> /\ timers[r] > 0
    BY <2>1, <2>2, <2>3 DEF Single, Apart, Ticking, EndSent, EndPassed, Has
  <2>4. CASE \E i \in DOMAIN toServer : g = <<"toServer", i>> /\ toServer[i] = "FINISH"
    BY <2>1, <2>2, <2>4 DEF Single, Apart, Ticking, EndSent, EndPassed, Has, Once
  <2>5. CASE \E i \in DOMAIN toControl : g = <<"toControl", i>> /\ toControl[i] = "FINISH"
    BY <2>1, <2>2, <2>5 DEF Single, Apart, Ticking, EndSent, EndPassed, Has, Once
  <2> QED BY <2>2, <2>3, <2>4, <2>5
<1> QED BY <1>1, Invariance, PTL

\* A control client in the pair whose game is under way is in it too.
THEOREM ScoresAlwaysHeard == Spec => []ScoresHeard
<1>1. ASSUME Inv PROVE ScoresHeard
  <2>1. Games # {} => Open
    BY <1>1, InGames DEF Inv, Open, Ticking, EndSent, EndPassed, Has
  <2> QED BY <1>1, <2>1 DEF Inv, OneOpen, ScoresHeard, Playing
<1> QED BY <1>1, Invariance, PTL

\* The response to its registration never sets a control client back that has shaken hands,
\* unless it came into another's game.
THEOREM NeverSetBack == Spec => []NotSetBack
<1>1. ASSUME Inv PROVE NotSetBack
  <2>1. "registered" \in ToSet(toControl) => Has(toControl, {"registered"})
    BY DEF ToSet, Has
  <2> QED BY <1>1, <2>1 DEF Inv, Answered, NotSetBack
<1> QED BY <1>1, Invariance, PTL

\* When all is quiet the button of a control client in the pair does something, as long as
\* every event is one packet and the service serves the display client.
THEOREM ButtonAlwaysWorks == Spec => []ButtonWorks
<1>1. ASSUME Inv PROVE ButtonWorks
  <2> SUFFICES ASSUME splits = 0, ~skipped, served = "served", Quiet, paired = phone
               PROVE  status \in {"Registered", "Handshaked", "Deactivated"}
    BY DEF ButtonWorks
  <2>1. \A P : ~Has(<<>>, P)
    BY DEF Has
  <2>2. \A P : ~Has(upward[phone], P) /\ ~Has(stream, P) /\ ~Has(toServer, P) /\ ~Has(toControl, P)
    BY <2>1 DEF Quiet
  <2>3. ~Ticking
    BY DEF Quiet, Games, Ticking
  <2>4. telling # phone
    BY <1>1, BoundsAssumption DEF Quiet, Inv, Types, Phones
  <2>5. status \notin {"Handshaking", "Activating", "Activated"}
    BY <1>1, <2>2, <2>3, <2>4 DEF Inv, Awaited, Brought, EndSent, EndPassed
  <2>6. socket # "lost"
    BY <1>1 DEF Inv, Outside
  <2> QED BY <1>1, <2>5, <2>6 DEF Inv, Types, Statuses, Playing, Outside
<1> QED BY <1>1, Invariance, PTL

\* Only an event takes cells from the stream.
LEMMA OthersAppend ==
  ASSUME Inv, Next, ~SocketData
  PROVE  Len(stream) <= Len(stream')
<1>1. stream \in Seq(Cells) /\ Len(stream) \in Nat
  BY DEF Inv, Types
<1>2. ASSUME NEW p \in Names, ToDisplay(p) PROVE Len(stream) <= Len(stream')
  <2>1. WireOf[p] \in Seq(Cells)
    BY WireShape
  <2>2. stream' = stream \o WireOf[p]
    BY <1>2 DEF ToDisplay
  <2> QED BY <1>1, <2>1, <2>2, ConcatPoints
<1>3. CASE Phone
  <2>1. CASE PressConnect \/ DidConnect \/ DidNotConnect
    BY <1>1, <2>1 DEF PressConnect, DidConnect, DidNotConnect, network
  <2>2. CASE PressRegister
    BY <1>1, <2>2 DEF PressRegister, Request
  <2>3. CASE PressHandshake \/ PressActivate \/ PressReplay \/ Accelerometer
    BY <1>1, <2>3 DEF PressHandshake, PressActivate, PressReplay, Accelerometer, Request
  <2>4. CASE DidReceivePacket \/ Leave \/ Lose \/ StartAgain
    BY <1>1, <2>4 DEF DidReceivePacket, Leave, Lose, Depart, StartAgain, network
  <2> QED BY <1>3, <2>1, <2>2, <2>3, <2>4 DEF Phone, Press
<1>4. CASE Service
  <2>1. CASE ServeDisplay
    BY <1>1, <1>2, <2>1 DEF ServeDisplay, Names
  <2>5. CASE RelayFails \/ EndDisplay
    BY <1>1, <2>5 DEF RelayFails, EndDisplay
  <2>6. ASSUME NEW p \in Phones, Break(p) PROVE Len(stream) <= Len(stream')
    BY <1>1, <2>6 DEF Break
  <2>2. ASSUME NEW p \in Phones, ServeControl(p) PROVE Len(stream) <= Len(stream')
    <3> DEFINE packet == Head(upward[p])
    <3>1. packet \in Asks
      BY <2>2, TakenPoints DEF ServeControl
    <3>2. CASE packet \in {"rightCode", "wrongCode"}
      BY <1>1, <1>2, <2>2, <3>2 DEF ServeControl, Register, ToPartner, Names
    <3>3. CASE packet = "left"
      BY <1>1, <1>2, <2>2, <3>3 DEF ServeControl, Disconnection, ToPartner, Names
    <3>4. CASE packet \notin {"rightCode", "wrongCode", "left"}
      <4>1. packet \in Names
        BY <3>1, <3>4 DEF Asks, Codes, Go, Names
      <4>2. Relay(p, packet)
        BY <2>2, <3>4 DEF ServeControl
      <4> QED BY <1>1, <1>2, <4>1, <4>2 DEF Relay, ToPartner
    <3> QED BY <3>2, <3>3, <3>4
  <2>3. ASSUME NEW p \in Phones, RespondControl(p) PROVE Len(stream) <= Len(stream')
    BY <1>1, <2>3 DEF RespondControl
  <2> QED BY <1>4, <2>1, <2>2, <2>3, <2>5, <2>6 DEF Service
<1>5. CASE Screen
  BY <1>1, <1>5 DEF Screen, PolicyLoaded, SocketConnected, SocketError, SendScore, network
<1> QED BY <1>3, <1>4, <1>5 DEF Next

\* The Flash socket finds its way back: whatever older events left in its buffer, an event
\* that begins with a whole packet hands over that packet.
THEOREM WholeAlwaysHanded == Spec => WholeIsHanded
<1> DEFINE A == \A p \in DOMAIN WireOf :
                  LET read == SubSeq(stream, 1, Len(stream) - Len(stream')) IN
                  IsPrefix(WireOf[p], read) => Handed(incoming, read) = WireOf[p]
<1>1. ASSUME Inv, [Next]_vars PROVE [A]_stream
  <2> SUFFICES ASSUME Next, NEW p \in Names,
                      IsPrefix(WireOf[p], SubSeq(stream, 1, Len(stream) - Len(stream')))
               PROVE  Handed(incoming, SubSeq(stream, 1, Len(stream) - Len(stream'))) = WireOf[p]
    BY <1>1, WireShape DEF vars, network
  <2> DEFINE read == SubSeq(stream, 1, Len(stream) - Len(stream'))
  <2>1. stream \in Seq(Cells) /\ incoming \in Seq(Cells) /\ stream' \in Seq(Cells)
    BY <1>1, InvStep DEF Inv, Types
  <2>2. WireOf[p] \in Seq(Cells) /\ Len(WireOf[p]) \in {4, 5}
    BY WireShape
  <2>3. read \in Seq(Cells)
    BY <2>1
  <2> HIDE DEF read
  <2>4. Len(WireOf[p]) <= Len(read) /\ SubSeq(WireOf[p], 1, Len(WireOf[p])) = SubSeq(read, 1, Len(WireOf[p]))
    BY DEF IsPrefix, read
  <2> DEFINE L == Len(WireOf[p])
  <2>5. \A i \in 1..L : read[i] = WireOf[p][i]
    <3> HIDE DEF L
    <3>1. L \in {4, 5} /\ L <= Len(read) /\ L = Len(WireOf[p])
          /\ SubSeq(WireOf[p], 1, L) = SubSeq(read, 1, L)
      BY <2>2, <2>4 DEF L
    <3>2. \A i \in 1..L : SubSeq(WireOf[p], 1, L)[i] = WireOf[p][i]
      BY <2>2, <3>1
    <3>3. \A i \in 1..L : SubSeq(read, 1, L)[i] = read[i]
      BY <2>3, <3>1
    <3> QED BY <3>1, <3>2, <3>3
  <2>6. Handed(incoming, read) = WireOf[p]
    BY <2>1, <2>3, <2>4, <2>5, WholeHanded
  <2> QED BY <2>6 DEF read
<1>2. Spec => [][A]_stream
  BY <1>1, Invariance, PTL DEF Spec
<1> QED BY <1>2 DEF WholeIsHanded
=============================================================================
