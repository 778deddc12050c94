-------------------------- MODULE PacketCodec_proofs --------------------------
(***************************************************************************)
(* Proofs about PacketCodec, for every magic field, size limit and set of    *)
(* packets: it implements PacketChannel, and nothing is received past a       *)
(* packet that is too long.                                                  *)
(***************************************************************************)
EXTENDS PacketCodec, WellFoundedInduction, TLAPS

Byte == 0..255

-----------------------------------------------------------------------------
(* Sequences.                                                                *)

LEMMA AppendPoints ==
  ASSUME NEW S, NEW s \in Seq(S), NEW e \in S
  PROVE  /\ Append(s, e) \in Seq(S) /\ Len(Append(s, e)) = Len(s) + 1 /\ Len(s) \in Nat
         /\ \A i \in 1..Len(s) : Append(s, e)[i] = s[i]
         /\ Append(s, e)[Len(s) + 1] = e
OBVIOUS

LEMMA TailPoints ==
  ASSUME NEW S, NEW s \in Seq(S), s # <<>>
  PROVE  /\ Tail(s) \in Seq(S) /\ Len(Tail(s)) = Len(s) - 1 /\ Len(s) \in Nat \ {0}
         /\ Head(s) = s[1] /\ Head(s) \in S
         /\ \A i \in 1..Len(Tail(s)) : Tail(s)[i] = s[i + 1]
<1>1. /\ Tail(s) \in Seq(S) /\ Len(Tail(s)) = Len(s) - 1 /\ Len(s) \in Nat \ {0}
      /\ Head(s) = s[1]
  OBVIOUS
<1>2. Head(s) \in S
  OBVIOUS
<1>3. \A i \in 1..Len(Tail(s)) : Tail(s)[i] = s[i + 1]
  OBVIOUS
<1> QED BY <1>1, <1>2, <1>3

LEMMA ConcatPoints ==
  ASSUME NEW S, NEW s \in Seq(S), NEW t \in Seq(S)
  PROVE  /\ s \o t \in Seq(S) /\ Len(s \o t) = Len(s) + Len(t) /\ Len(s) \in Nat /\ Len(t) \in Nat
         /\ \A i \in 1..Len(s) : (s \o t)[i] = s[i]
         /\ \A i \in 1..Len(t) : (s \o t)[Len(s) + i] = t[i]
OBVIOUS

LEMMA PrefixPoints ==
  ASSUME NEW S, NEW s \in Seq(S), NEW n \in 0..Len(s)
  PROVE  /\ SubSeq(s, 1, n) \in Seq(S) /\ Len(SubSeq(s, 1, n)) = n
         /\ \A i \in 1..n : SubSeq(s, 1, n)[i] = s[i]
OBVIOUS

LEMMA Wider == ASSUME NEW S, NEW T, S \subseteq T, NEW s \in Seq(S) PROVE s \in Seq(T)
OBVIOUS

LEMMA SameSeq ==
  ASSUME NEW S, NEW s \in Seq(S), NEW t \in Seq(S), Len(s) = Len(t), \A i \in 1..Len(s) : s[i] = t[i]
  PROVE  s = t
OBVIOUS

LEMMA SuffixPoints ==
  ASSUME NEW m \in Seq(Byte), NEW b \in Seq(Byte)
  PROVE  IsSuffix(m, b) <=>
           /\ Len(m) <= Len(b)
           /\ \A j \in 1..Len(m) : b[Len(b) - Len(m) + j] = m[j]
<1> DEFINE M == Reverse(m)
           B == Reverse(b)
<1>1. /\ M \in Seq(Byte) /\ Len(M) = Len(m) /\ \A i \in 1..Len(m) : M[i] = m[(Len(m) - i) + 1]
      /\ B \in Seq(Byte) /\ Len(B) = Len(b) /\ \A i \in 1..Len(b) : B[i] = b[(Len(b) - i) + 1]
      /\ Len(m) \in Nat /\ Len(b) \in Nat
  BY DEF Reverse
<1>2. IsSuffix(m, b) <=> Len(M) <= Len(B) /\ SubSeq(M, 1, Len(M)) = SubSeq(B, 1, Len(M))
  BY DEF IsSuffix, IsPrefix
<1> HIDE DEF M, B
<1>3. CASE ~(Len(m) <= Len(b))
  BY <1>1, <1>2, <1>3
<1>4. CASE Len(m) <= Len(b)
  <2>1. /\ SubSeq(M, 1, Len(m)) \in Seq(Byte) /\ Len(SubSeq(M, 1, Len(m))) = Len(m)
        /\ \A i \in 1..Len(m) : SubSeq(M, 1, Len(m))[i] = M[i]
        /\ SubSeq(B, 1, Len(m)) \in Seq(Byte) /\ Len(SubSeq(B, 1, Len(m))) = Len(m)
        /\ \A i \in 1..Len(m) : SubSeq(B, 1, Len(m))[i] = B[i]
    <3>1. Len(m) \in 0..Len(M) /\ Len(m) \in 0..Len(B)
      BY <1>1, <1>4
    <3> QED BY <1>1, <3>1, PrefixPoints
  <2>2. IsSuffix(m, b) <=> SubSeq(M, 1, Len(m)) = SubSeq(B, 1, Len(m))
    BY <1>1, <1>2, <1>4
  <2>3. IsSuffix(m, b) <=> \A i \in 1..Len(m) : M[i] = B[i]
    BY <2>1, <2>2, SameSeq
  <2>4. ASSUME \A i \in 1..Len(m) : M[i] = B[i], NEW j \in 1..Len(m)
        PROVE  b[Len(b) - Len(m) + j] = m[j]
    <3> DEFINE i == (Len(m) - j) + 1
    <3>1. i \in 1..Len(m) /\ i \in 1..Len(b) /\ (Len(m) - i) + 1 = j /\ (Len(b) - i) + 1 = Len(b) - Len(m) + j
      BY <1>1, <1>4
    <3> HIDE DEF i
    <3> QED BY <1>1, <2>4, <3>1
  <2>5. ASSUME \A j \in 1..Len(m) : b[Len(b) - Len(m) + j] = m[j], NEW i \in 1..Len(m)
        PROVE  M[i] = B[i]
    <3> DEFINE j == (Len(m) - i) + 1
    <3>1. j \in 1..Len(m) /\ i \in 1..Len(b) /\ (Len(b) - i) + 1 = Len(b) - Len(m) + j
      BY <1>1, <1>4
    <3>2. b[Len(b) - Len(m) + j] = m[j]
      BY <2>5, <3>1
    <3> QED BY <1>1, <3>1, <3>2
  <2> QED BY <1>4, <2>3, <2>4, <2>5
<1> QED BY <1>1, <1>3, <1>4

-----------------------------------------------------------------------------
(* Types and encodings.                                                      *)

LEMMA TypesAre ==
  Types = {"RegisterDisplayClientRequest", "UnregisterDisplayClientRequest",
           "RegisterControlClientRequest", "UnregisterControlClientRequest", "PayloadRequest",
           "RegisterDisplayClientResponse", "UnregisterDisplayClientResponse",
           "RegisterControlClientResponse", "UnregisterControlClientResponse",
           "PayloadResponse", "UnknownPacket"}
BY DEF Types, Ids

\* The types that have an identifier of their own.
OwnTypes == Types \ {"UnknownPacket", "PayloadResponse"}

LEMMA IdBytes ==
  ASSUME NEW t \in Types
  PROVE  /\ Ids[t] \in Nat
         /\ TypeBytes(t) \in Seq(Byte) /\ Len(TypeBytes(t)) = 3
         /\ TypeBytes(t)[1] * 65536 + TypeBytes(t)[2] * 256 + TypeBytes(t)[3] = Ids[t]
<1>1. Ids[t] \in {65536, 65537, 131072, 131073, 196608, 131071, 131070, 196607, 196606, 262143, 0}
  BY TypesAre DEF Ids
<1>2. (Ids[t] \div 65536) * 65536 + ((Ids[t] \div 256) % 256) * 256 + (Ids[t] % 256) = Ids[t]
  BY <1>1
<1> DEFINE a == Ids[t] \div 65536
           b == (Ids[t] \div 256) % 256
           c == Ids[t] % 256
<1>3. TypeBytes(t) = <<a, b, c>>
  BY DEF TypeBytes
<1>4. a \in Byte /\ b \in Byte /\ c \in Byte /\ a * 65536 + b * 256 + c = Ids[t] /\ Ids[t] \in Nat
  <2>1. Ids[t] \in Nat
    BY <1>1
  <2>2. a \in Byte /\ b \in Byte /\ c \in Byte
    BY <1>1 DEF Byte
  <2> QED BY <1>2, <2>1, <2>2
<1> HIDE DEF a, b, c
<1>5. \A x, y, z \in Byte : /\ <<x, y, z>> \in Seq(Byte) /\ Len(<<x, y, z>>) = 3
                          /\ <<x, y, z>>[1] = x /\ <<x, y, z>>[2] = y /\ <<x, y, z>>[3] = z
  OBVIOUS
<1> QED BY <1>3, <1>4, <1>5

\* Every type that has an identifier of its own is found again.
LEMMA RoundTrip == \A t \in OwnTypes : FromInt(Ids[t]) = t
<1> SUFFICES ASSUME NEW t \in OwnTypes PROVE FromInt(Ids[t]) = t
  OBVIOUS
<1>1. t \in Types /\ \A u \in Types : Ids[u] = Ids[t] => u = t
  BY TypesAre DEF Ids, OwnTypes
<1>2. HasPayloadBits(Ids[t]) <=> t = "PayloadRequest"
  BY TypesAre DEF HasPayloadBits, Ids, OwnTypes
<1> DEFINE exact == {u \in Types : Ids[u] = Ids[t]}
<1>3. exact = {t}
  BY <1>1
<1>4. (CHOOSE u \in exact : TRUE) = t
  BY <1>3
<1> QED BY <1>2, <1>3, <1>4 DEF FromInt

LEMMA FromIntType == ASSUME NEW n PROVE FromInt(n) \in Types
<1> DEFINE exact == {u \in Types : Ids[u] = n}
<1>1. exact # {} => (CHOOSE u \in exact : TRUE) \in exact
  OBVIOUS
<1>2. "PayloadRequest" \in Types /\ "UnknownPacket" \in Types
  BY TypesAre
<1> QED BY <1>1, <1>2 DEF FromInt

Messages == [type : Types, payload : Seq(Byte)]

LEMMA MagicBytes ==
  /\ MAGIC_FIELD \in Seq(Byte) /\ Len(MAGIC_FIELD) \in Nat \ {0}
  /\ PACKET_MAX_SIZE \in Nat /\ PACKET_MIN_SIZE = 3 + Len(MAGIC_FIELD)
<1>1. MAGIC_FIELD \in Seq(0..254) /\ MAGIC_FIELD # <<>>
  BY MagicAssumption
<1>2. Len(MAGIC_FIELD) \in Nat \ {0}
  BY <1>1
<1>3. 0..254 \subseteq Byte
  BY DEF Byte
<1>4. MAGIC_FIELD \in Seq(Byte)
  BY <1>1, <1>3, Wider
<1> QED BY <1>2, <1>4, SizeAssumption DEF PACKET_MIN_SIZE, ID_FIELD_LENGTH

LEMMA MessageFields ==
  ASSUME NEW p \in Messages
  PROVE  /\ p.type \in Types /\ p.payload \in Seq(Byte) /\ Len(p.payload) \in Nat
         /\ p = [type |-> p.type, payload |-> p.payload]
<1>1. p.type \in Types /\ p.payload \in Seq(Byte) /\ p = [type |-> p.type, payload |-> p.payload]
  BY DEF Messages
<1>2. p.payload \in Seq(Byte) /\ Len(p.payload) \in Nat
  BY <1>1
<1> QED BY <1>1, <1>2

LEMMA EncodePoints ==
  ASSUME NEW p \in Messages
  PROVE  /\ Encode(p) \in Seq(Byte)
         /\ Len(Encode(p)) = 3 + Len(p.payload) + Len(MAGIC_FIELD)
         /\ \A i \in 1..3 : Encode(p)[i] = TypeBytes(p.type)[i]
         /\ \A i \in 1..Len(p.payload) : Encode(p)[3 + i] = p.payload[i]
         /\ \A i \in 1..Len(MAGIC_FIELD) : Encode(p)[3 + Len(p.payload) + i] = MAGIC_FIELD[i]
<1> DEFINE t == TypeBytes(p.type)
           s == t \o p.payload
<1>1. t \in Seq(Byte) /\ Len(t) = 3 /\ p.payload \in Seq(Byte) /\ Len(p.payload) \in Nat
  BY MessageFields, IdBytes
<1> HIDE DEF t
<1>2. /\ s \in Seq(Byte) /\ Len(s) = 3 + Len(p.payload)
      /\ \A i \in 1..3 : s[i] = t[i]
      /\ \A i \in 1..Len(p.payload) : s[3 + i] = p.payload[i]
  <2>1. /\ s \in Seq(Byte) /\ Len(s) = Len(t) + Len(p.payload)
        /\ \A i \in 1..Len(t) : s[i] = t[i]
        /\ \A i \in 1..Len(p.payload) : s[Len(t) + i] = p.payload[i]
    <3>1. t \in Seq(Byte) /\ p.payload \in Seq(Byte)
      BY <1>1
    <3> QED BY <3>1, ConcatPoints
  <2> HIDE DEF s
  <2> QED BY <1>1, <2>1
<1> HIDE DEF s
<1>3. Encode(p) = s \o MAGIC_FIELD
  BY DEF Encode, s, t
<1>4. /\ Encode(p) \in Seq(Byte) /\ Len(Encode(p)) = Len(s) + Len(MAGIC_FIELD)
      /\ \A i \in 1..Len(s) : Encode(p)[i] = s[i]
      /\ \A i \in 1..Len(MAGIC_FIELD) : Encode(p)[Len(s) + i] = MAGIC_FIELD[i]
  <2> DEFINE e == s \o MAGIC_FIELD
  <2>1. /\ e \in Seq(Byte) /\ Len(e) = Len(s) + Len(MAGIC_FIELD)
        /\ \A i \in 1..Len(s) : e[i] = s[i]
        /\ \A i \in 1..Len(MAGIC_FIELD) : e[Len(s) + i] = MAGIC_FIELD[i]
    <3>1. s \in Seq(Byte) /\ MAGIC_FIELD \in Seq(Byte)
      BY <1>2, MagicBytes
    <3> QED BY <3>1, ConcatPoints
  <2> HIDE DEF e
  <2>2. Encode(p) = e
    BY <1>3 DEF e
  <2> QED BY <2>1, <2>2
<1>5. \A i \in 1..3 : Encode(p)[i] = t[i]
  BY <1>1, <1>2, <1>4
<1>6. \A i \in 1..Len(p.payload) : Encode(p)[3 + i] = p.payload[i]
  BY <1>1, <1>2, <1>4
<1> QED BY <1>2, <1>4, <1>5, <1>6 DEF t

\* A whole packet is recognised as one and decoded to what was sent.
LEMMA WholeFound ==
  ASSUME NEW p \in Messages
  PROVE  MagicFound(Encode(p))
<1> DEFINE e == Encode(p)
<1>1. e \in Seq(Byte) /\ Len(e) = 3 + Len(p.payload) + Len(MAGIC_FIELD)
      /\ \A i \in 1..Len(MAGIC_FIELD) : e[3 + Len(p.payload) + i] = MAGIC_FIELD[i]
  BY EncodePoints
<1>2. Len(p.payload) \in Nat
  BY MessageFields
<1> HIDE DEF e
<1>3. IsSuffix(MAGIC_FIELD, e)
  <2>1. Len(e) - Len(MAGIC_FIELD) = 3 + Len(p.payload) /\ Len(MAGIC_FIELD) <= Len(e)
    BY <1>1, <1>2, MagicBytes
  <2>2. \A i \in 1..Len(MAGIC_FIELD) : e[Len(e) - Len(MAGIC_FIELD) + i] = MAGIC_FIELD[i]
    BY <1>1, <2>1
  <2> QED BY <1>1, <2>1, <2>2, MagicBytes, SuffixPoints
<1>4. Len(e) >= PACKET_MIN_SIZE
  BY <1>1, <1>2, MagicBytes
<1> QED BY <1>3, <1>4 DEF MagicFound, e

LEMMA WholeDecoded ==
  ASSUME NEW p \in Messages, p.type \in OwnTypes
  PROVE  Decode(Encode(p)) = p
<1> DEFINE e == Encode(p)
<1>1. /\ e \in Seq(Byte) /\ Len(e) = 3 + Len(p.payload) + Len(MAGIC_FIELD)
      /\ \A i \in 1..3 : e[i] = TypeBytes(p.type)[i]
      /\ \A i \in 1..Len(p.payload) : e[3 + i] = p.payload[i]
  BY EncodePoints
<1>2. /\ p.type \in Types /\ p.payload \in Seq(Byte) /\ Len(p.payload) \in Nat
      /\ p = [type |-> p.type, payload |-> p.payload]
  BY MessageFields
<1> HIDE DEF e
<1>3. IdOf(e) = Ids[p.type]
  BY <1>1, <1>2, IdBytes DEF IdOf
<1>4. FromInt(IdOf(e)) = p.type
  BY <1>3, RoundTrip
<1>5. SubSeq(e, 4, Len(e) - Len(MAGIC_FIELD)) = p.payload
  <2> DEFINE n == Len(p.payload)
             s == SubSeq(e, 4, 3 + n)
  <2>1. s \in Seq(Byte) /\ Len(s) = n /\ \A i \in 1..n : s[i] = e[3 + i]
    BY <1>1, <1>2, MagicBytes
  <2>2. Len(e) - Len(MAGIC_FIELD) = 3 + n
    BY <1>1, <1>2, MagicBytes
  <2>3. s = p.payload
    <3> HIDE DEF s
    <3> QED BY <1>1, <1>2, <2>1, SameSeq
  <2> QED BY <2>2, <2>3
<1>6. Decode(e) = [type |-> p.type, payload |-> p.payload]
  <2>1. ID_FIELD_LENGTH + 1 = 4
    BY DEF ID_FIELD_LENGTH
  <2> QED BY <1>4, <1>5, <2>1 DEF Decode
<1> QED BY <1>2, <1>6 DEF e

\* A proper beginning of a packet whose payload brings no magic field is not taken for a packet.
LEMMA BeginningNotFound ==
  ASSUME NEW p \in Messages, Unambiguous(p), NEW b \in Seq(Byte), Len(b) < Len(Encode(p)),
         \A i \in 1..Len(b) : b[i] = Encode(p)[i]
  PROVE  ~MagicFound(b)
<1> DEFINE e == Encode(p)
           L == Len(MAGIC_FIELD)
           n == Len(p.payload)
           s == p.payload \o MAGIC_FIELD
           i == Len(b) - 2 - L
<1> SUFFICES ASSUME MagicFound(b) PROVE FALSE
  OBVIOUS
<1>1. /\ e \in Seq(Byte) /\ Len(e) = 3 + n + L
      /\ \A k \in 1..n : e[3 + k] = p.payload[k]
      /\ \A k \in 1..L : e[3 + n + k] = MAGIC_FIELD[k]
      /\ p.payload \in Seq(Byte) /\ n \in Nat /\ L \in Nat \ {0} /\ MAGIC_FIELD \in Seq(Byte)
  BY EncodePoints, MessageFields, MagicBytes
<1>2. /\ s \in Seq(Byte) /\ Len(s) = n + L
      /\ \A k \in 1..n : s[k] = p.payload[k]
      /\ \A k \in 1..L : s[n + k] = MAGIC_FIELD[k]
  BY <1>1, ConcatPoints
<1>3. Len(b) \in Nat /\ Len(b) >= 3 + L /\ \A j \in 1..L : b[Len(b) - L + j] = MAGIC_FIELD[j]
  BY <1>1, MagicBytes, SuffixPoints DEF MagicFound
<1>4. \A k \in 1..Len(b) : b[k] = e[k]
  OBVIOUS
<1>5. i \in 1..n /\ Len(b) < 3 + n + L
  BY <1>1, <1>3
<1>6. SubSeq(s, i, i + L - 1) # MAGIC_FIELD
  BY <1>5 DEF Unambiguous
<1> HIDE DEF e, s, L, n
<1>7. \A k \in 1..(n + L) : e[3 + k] = s[k]
  <2> SUFFICES ASSUME NEW k \in 1..(n + L) PROVE e[3 + k] = s[k]
    OBVIOUS
  <2>1. CASE k <= n
    <3>1. k \in 1..n
      BY <1>1, <2>1
    <3> QED BY <1>1, <1>2, <3>1
  <2>2. CASE k > n
    <3>1. k - n \in 1..L /\ n + (k - n) = k /\ 3 + n + (k - n) = 3 + k
      BY <1>1, <2>2
    <3> QED BY <1>1, <1>2, <3>1
  <2> QED BY <1>1, <2>1, <2>2
<1>8. /\ SubSeq(s, i, i + L - 1) \in Seq(Byte) /\ Len(SubSeq(s, i, i + L - 1)) = L
      /\ \A j \in 1..L : SubSeq(s, i, i + L - 1)[j] = s[i + j - 1]
  <2>1. i \in 1..Len(s) /\ i + L - 1 \in i..Len(s) /\ (i + L - 1) - i + 1 = L
    BY <1>1, <1>2, <1>5
  <2> HIDE DEF i
  <2> QED BY <1>1, <1>2, <2>1
<1>9. \A j \in 1..L : s[i + j - 1] = MAGIC_FIELD[j]
  <2> SUFFICES ASSUME NEW j \in 1..L PROVE s[i + j - 1] = MAGIC_FIELD[j]
    OBVIOUS
  <2>1. i + j - 1 \in 1..(n + L) /\ 3 + (i + j - 1) = Len(b) - L + j /\ Len(b) - L + j \in 1..Len(b)
    BY <1>1, <1>3, <1>5
  <2> QED BY <1>3, <1>4, <1>7, <2>1
<1>10. SubSeq(s, i, i + L - 1) = MAGIC_FIELD
  <2> HIDE DEF i
  <2> DEFINE u == SubSeq(s, i, i + L - 1)
  <2>1. u \in Seq(Byte) /\ Len(u) = L /\ Len(MAGIC_FIELD) = L /\ \A j \in 1..L : u[j] = MAGIC_FIELD[j]
    BY <1>8, <1>9 DEF L
  <2> HIDE DEF u
  <2>2. u = MAGIC_FIELD
    BY <1>1, <2>1, SameSeq
  <2> QED BY <2>2 DEF u
<1> QED BY <1>6, <1>10

-----------------------------------------------------------------------------
(* The first packet that is not plain.                                       *)

First(s) == CHOOSE n \in 1..Len(s) + 1 :
              /\ \A i \in 1..n - 1 : Plain(s[i])
              /\ n <= Len(s) => ~Plain(s[n])

LEMMA FirstIs ==
  ASSUME NEW s \in Seq(Messages)
  PROVE  /\ First(s) \in 1..Len(s) + 1
         /\ \A i \in 1..First(s) - 1 : Plain(s[i])
         /\ First(s) <= Len(s) => ~Plain(s[First(s)])
<1> DEFINE S == {n \in 1..Len(s) + 1 : n <= Len(s) => ~Plain(s[n])}
<1>1. Len(s) \in Nat /\ Len(s) + 1 \in S /\ S \subseteq Nat
  OBVIOUS
<1>2. PICK n \in S : \A m \in S : <<m, n>> \notin OpToRel(<, Nat)
  <2> HIDE DEF S
  <2> QED BY <1>1, NatLessThanWellFounded, WFMin, Zenon
<1>3. \A m \in S : m \in Nat /\ n \in Nat
  BY <1>1
<1>4. \A m \in S : ~(m < n)
  <2> HIDE DEF S
  <2> QED BY <1>2, <1>3, Zenon DEF OpToRel
<1>5. \A i \in 1..n - 1 : Plain(s[i])
  BY <1>1, <1>4
<1>6. n \in 1..Len(s) + 1 /\ (n <= Len(s) => ~Plain(s[n]))
  OBVIOUS
<1> QED BY <1>5, <1>6 DEF First

LEMMA FirstUnique ==
  ASSUME NEW s \in Seq(Messages), NEW n \in 1..Len(s) + 1,
         \A i \in 1..n - 1 : Plain(s[i]), n <= Len(s) => ~Plain(s[n])
  PROVE  n = First(s)
<1>1. /\ First(s) \in 1..Len(s) + 1 /\ Len(s) \in Nat
      /\ \A i \in 1..First(s) - 1 : Plain(s[i])
      /\ First(s) <= Len(s) => ~Plain(s[First(s)])
  BY FirstIs
<1>2. ~(n < First(s))
  BY <1>1
<1>3. ~(First(s) < n)
  BY <1>1
<1> QED BY <1>1, <1>2, <1>3

\* It stays the first; while there is none it moves on with the packets.
LEMMA FirstMoves ==
  ASSUME NEW s \in Seq(Messages), NEW p \in Messages
  PROVE  /\ First(s) <= Len(s) => First(Append(s, p)) = First(s)
         /\ First(s) = Len(s) + 1 =>
              First(Append(s, p)) = IF Plain(p) THEN First(s) + 1 ELSE First(s)
<1>1. /\ First(s) \in 1..Len(s) + 1 /\ Len(s) \in Nat
      /\ \A i \in 1..First(s) - 1 : Plain(s[i])
      /\ First(s) <= Len(s) => ~Plain(s[First(s)])
  BY FirstIs
<1> DEFINE t == Append(s, p)
<1>2. /\ t \in Seq(Messages) /\ Len(t) = Len(s) + 1
      /\ \A i \in 1..Len(s) : t[i] = s[i]
      /\ t[Len(s) + 1] = p
  BY AppendPoints
<1> HIDE DEF t
<1>3. \A i \in 1..First(s) - 1 : Plain(t[i])
  BY <1>1, <1>2
<1>4. First(s) <= Len(s) => First(t) = First(s)
  <2> SUFFICES ASSUME First(s) <= Len(s) PROVE First(t) = First(s)
    OBVIOUS
  <2>1. First(s) \in 1..Len(t) + 1 /\ ~Plain(t[First(s)])
    BY <1>1, <1>2
  <2> QED BY <1>2, <1>3, <2>1, FirstUnique
<1>5. First(s) = Len(s) + 1 /\ ~Plain(p) => First(t) = First(s)
  <2> SUFFICES ASSUME First(s) = Len(s) + 1, ~Plain(p) PROVE First(t) = First(s)
    OBVIOUS
  <2>1. First(s) \in 1..Len(t) + 1 /\ ~Plain(t[First(s)])
    BY <1>1, <1>2
  <2> QED BY <1>2, <1>3, <2>1, FirstUnique
<1>6. ASSUME First(s) = Len(s) + 1, Plain(p) PROVE First(t) = First(s) + 1
  <2>1. \A i \in 1..Len(t) : Plain(t[i])
    BY <1>1, <1>2, <1>3, <1>6
  <2>2. Len(t) + 1 = First(t)
    BY <1>1, <1>2, <2>1, FirstUnique
  <2> QED BY <1>1, <1>2, <1>6, <2>2
<1> QED BY <1>4, <1>5, <1>6 DEF t

-----------------------------------------------------------------------------
(* Packets laid out in bytes: off[i] is where packet i of s ends, w the bytes *)
(* from the end of packet n on, cut off somewhere unless they are the whole.  *)

LaidOut(off, s, n, w, whole) ==
  /\ \A i \in 1..Len(s) : off[i] = off[i - 1] + Len(Encode(s[i]))
  /\ \A i, j \in 0..Len(s) : i <= j => off[i] <= off[j]
  /\ off[n] + Len(w) <= off[Len(s)]
  /\ whole => off[n] + Len(w) = off[Len(s)]
  /\ \A i \in n + 1..Len(s) : \A j \in 1..Len(Encode(s[i])) :
       off[i - 1] + j - off[n] <= Len(w) => w[off[i - 1] + j - off[n]] = Encode(s[i])[j]

LEMMA LaidShorter ==
  ASSUME NEW s \in Seq(Messages), NEW n \in 0..Len(s), NEW off \in [0..Len(s) -> Nat],
         NEW w \in Seq(Byte), NEW whole, LaidOut(off, s, n, w, whole),
         NEW v \in Seq(Byte), Len(v) <= Len(w), \A i \in 1..Len(v) : v[i] = w[i]
  PROVE  LaidOut(off, s, n, v, FALSE)
<1>1. /\ Len(s) \in Nat /\ Len(v) \in Nat /\ Len(w) \in Nat
      /\ \A i \in 0..Len(s) : off[i] \in Nat
  <2>1. Len(s) \in Nat /\ Len(v) \in Nat /\ Len(w) \in Nat
    OBVIOUS
  <2> QED BY <2>1
<1>2. off[n] + Len(v) <= off[Len(s)]
  BY <1>1 DEF LaidOut
<1>3. ASSUME NEW i \in n + 1..Len(s), NEW j \in 1..Len(Encode(s[i])), off[i - 1] + j - off[n] <= Len(v)
      PROVE  v[off[i - 1] + j - off[n]] = Encode(s[i])[j]
  <2> DEFINE x == off[i - 1] + j - off[n]
  <2>1. i - 1 \in 0..Len(s) /\ n <= i - 1
    BY <1>1
  <2>2. off[n] <= off[i - 1] /\ off[n] \in Nat /\ off[i - 1] \in Nat
    BY <1>1, <2>1 DEF LaidOut
  <2>3. x \in 1..Len(v) /\ x <= Len(w)
    BY <1>1, <1>3, <2>2
  <2>4. w[x] = Encode(s[i])[j]
    BY <2>3 DEF LaidOut
  <2> QED BY <2>3, <2>4
<1> QED BY <1>2, <1>3 DEF LaidOut

\* The bytes begin as the next packet does.
LEMMA LaidBegin ==
  ASSUME NEW s \in Seq(Messages), NEW n \in 0..Len(s), NEW off \in [0..Len(s) -> Nat],
         NEW w \in Seq(Byte), NEW whole, LaidOut(off, s, n, w, whole), w # <<>>
  PROVE  /\ n < Len(s)
         /\ \A j \in 1..Len(Encode(s[n + 1])) : j <= Len(w) => w[j] = Encode(s[n + 1])[j]
<1>1. /\ Len(s) \in Nat /\ Len(w) \in Nat \ {0} /\ off[n] \in Nat
  OBVIOUS
<1>2. n # Len(s)
  BY <1>1 DEF LaidOut
<1>3. n + 1 \in n + 1..Len(s) /\ (n + 1) - 1 = n
  BY <1>1, <1>2
<1>4. ASSUME NEW j \in 1..Len(Encode(s[n + 1])), j <= Len(w) PROVE w[j] = Encode(s[n + 1])[j]
  <2>1. off[(n + 1) - 1] + j - off[n] = j
    BY <1>1, <1>3
  <2> QED BY <1>3, <1>4, <2>1 DEF LaidOut
<1> QED BY <1>1, <1>2, <1>4

\* Behind that packet they go on with the one after it.
LEMMA LaidNext ==
  ASSUME NEW s \in Seq(Messages), NEW n \in 0..Len(s), n < Len(s), NEW off \in [0..Len(s) -> Nat],
         NEW w \in Seq(Byte), NEW whole, LaidOut(off, s, n, w, whole),
         NEW v \in Seq(Byte), Len(w) = Len(Encode(s[n + 1])) + Len(v),
         \A i \in 1..Len(v) : v[i] = w[Len(Encode(s[n + 1])) + i]
  PROVE  LaidOut(off, s, n + 1, v, whole)
<1> DEFINE L == Len(Encode(s[n + 1]))
<1>1. /\ Len(s) \in Nat /\ Len(v) \in Nat /\ Len(w) \in Nat
      /\ \A i \in 0..Len(s) : off[i] \in Nat
  <2>1. Len(s) \in Nat /\ Len(v) \in Nat /\ Len(w) \in Nat
    OBVIOUS
  <2> QED BY <2>1
<1>2. s[n + 1] \in Messages /\ L \in Nat
  BY <1>1, EncodePoints
<1>3. n + 1 \in 1..Len(s) /\ (n + 1) - 1 = n
  BY <1>1
<1> HIDE DEF L
<1>4. off[n + 1] = off[n] + L
  BY <1>3 DEF LaidOut, L
<1>5. /\ off[n + 1] + Len(v) <= off[Len(s)]
      /\ whole => off[n + 1] + Len(v) = off[Len(s)]
  BY <1>1, <1>2, <1>4 DEF LaidOut, L
<1>6. ASSUME NEW i \in (n + 1) + 1..Len(s), NEW j \in 1..Len(Encode(s[i])), off[i - 1] + j - off[n + 1] <= Len(v)
      PROVE  v[off[i - 1] + j - off[n + 1]] = Encode(s[i])[j]
  <2> DEFINE x == off[i - 1] + j - off[n + 1]
  <2>1. i - 1 \in 0..Len(s) /\ n + 1 <= i - 1 /\ i \in n + 1..Len(s)
    BY <1>1
  <2>2. off[n + 1] <= off[i - 1] /\ off[n] \in Nat /\ off[i - 1] \in Nat /\ off[n + 1] \in Nat
    <3>1. n + 1 \in 0..Len(s) /\ n \in 0..Len(s)
      BY <1>1, <1>3
    <3> QED BY <1>1, <2>1, <3>1 DEF LaidOut
  <2>3. x \in 1..Len(v) /\ off[i - 1] + j - off[n] = L + x /\ L + x <= Len(w)
    <3>1. Len(w) = L + Len(v)
      BY DEF L
    <3>2. j \in Nat \ {0}
      <4>1. s[i] \in Messages
        BY <1>1, <2>1
      <4> QED BY <4>1, EncodePoints
    <3>3. \A a, b, c \in Nat : c <= a /\ a + j - c <= Len(v) /\ c = b + L =>
            a + j - c \in 1..Len(v) /\ a + j - b = L + (a + j - c) /\ L + (a + j - c) <= L + Len(v)
      BY <1>1, <1>2, <3>2
    <3> QED BY <1>4, <1>6, <2>2, <3>1, <3>3
  <2>4. w[L + x] = Encode(s[i])[j]
    BY <2>1, <2>3 DEF LaidOut
  <2> QED BY <2>3, <2>4 DEF L
<1> QED BY <1>5, <1>6 DEF LaidOut

\* A packet that is sent follows.
LEMMA LaidSend ==
  ASSUME NEW s \in Seq(Messages), NEW n \in 0..Len(s), NEW off \in [0..Len(s) -> Nat],
         NEW w \in Seq(Byte), LaidOut(off, s, n, w, TRUE), NEW p \in Messages
  PROVE  \E new \in [0..Len(Append(s, p)) -> Nat] :
           LaidOut(new, Append(s, p), n, w \o Encode(p), TRUE)
<1> DEFINE e   == Encode(p)
           t   == Append(s, p)
           v   == w \o e
           new == [i \in 0..Len(s) + 1 |-> IF i <= Len(s) THEN off[i] ELSE off[Len(s)] + Len(e)]
<1>1. /\ Len(s) \in Nat /\ Len(w) \in Nat
      /\ \A i \in 0..Len(s) : off[i] \in Nat
  OBVIOUS
<1>2. e \in Seq(Byte) /\ Len(e) \in Nat
  BY EncodePoints
<1>3. /\ t \in Seq(Messages) /\ Len(t) = Len(s) + 1
      /\ \A i \in 1..Len(s) : t[i] = s[i]
      /\ t[Len(s) + 1] = p
  BY AppendPoints
<1> HIDE DEF e, t
<1>4. /\ v \in Seq(Byte) /\ Len(v) = Len(w) + Len(e)
      /\ \A i \in 1..Len(w) : v[i] = w[i]
      /\ \A i \in 1..Len(e) : v[Len(w) + i] = e[i]
  BY <1>2, ConcatPoints
<1> HIDE DEF v
<1>5. /\ new \in [0..Len(t) -> Nat]
      /\ \A i \in 0..Len(s) : new[i] = off[i]
      /\ new[Len(s) + 1] = off[Len(s)] + Len(e)
  <2>1. \A i \in 0..Len(s) + 1 : (IF i <= Len(s) THEN off[i] ELSE off[Len(s)] + Len(e)) \in Nat
    BY <1>1, <1>2
  <2>2. new \in [0..Len(s) + 1 -> Nat]
    BY <2>1
  <2>3. \A i \in 0..Len(s) : new[i] = off[i]
    BY <1>1
  <2>4. new[Len(s) + 1] = off[Len(s)] + Len(e)
    BY <1>1
  <2> HIDE DEF new
  <2> QED BY <1>3, <2>2, <2>3, <2>4
<1> HIDE DEF new
<1>6. off[n] + Len(w) = off[Len(s)]
  BY DEF LaidOut
<1>7. ASSUME NEW i \in 1..Len(t) PROVE new[i] = new[i - 1] + Len(Encode(t[i]))
  <2>1. CASE i <= Len(s)
    <3>1. i \in 1..Len(s) /\ i - 1 \in 0..Len(s) /\ i \in 0..Len(s)
      BY <1>1, <2>1
    <3> QED BY <1>3, <1>5, <3>1 DEF LaidOut
  <2>2. CASE i = Len(s) + 1
    <3>1. i - 1 = Len(s) /\ Len(s) \in 0..Len(s)
      BY <1>1, <2>2
    <3> QED BY <1>3, <1>5, <2>2, <3>1 DEF e
  <2> QED BY <1>1, <1>3, <2>1, <2>2
<1>8. ASSUME NEW i \in 0..Len(t), NEW j \in 0..Len(t), i <= j PROVE new[i] <= new[j]
  <2>1. CASE j <= Len(s)
    <3>1. i \in 0..Len(s) /\ j \in 0..Len(s)
      BY <1>1, <1>8, <2>1
    <3> QED BY <1>5, <1>8, <3>1 DEF LaidOut
  <2>2. CASE j = Len(s) + 1 /\ i <= Len(s)
    <3>1. i \in 0..Len(s) /\ Len(s) \in 0..Len(s)
      BY <1>1, <2>2
    <3>2. off[i] <= off[Len(s)]
      BY <2>2, <3>1 DEF LaidOut
    <3> QED BY <1>1, <1>2, <1>5, <2>2, <3>1, <3>2
  <2>3. CASE j = Len(s) + 1 /\ i = Len(s) + 1
    <3>1. new[i] \in Nat
      BY <1>5
    <3> QED BY <2>3, <3>1
  <2> QED BY <1>1, <1>3, <1>8, <2>1, <2>2, <2>3
<1>9. new[n] = off[n] /\ new[n] + Len(v) = new[Len(t)] /\ off[n] \in Nat /\ new[Len(t)] \in Nat
  <2>1. Len(t) \in 0..Len(t)
    BY <1>1, <1>3
  <2> QED BY <1>1, <1>2, <1>3, <1>4, <1>5, <1>6, <2>1
<1>10. ASSUME NEW i \in n + 1..Len(t), NEW j \in 1..Len(Encode(t[i]))
       PROVE  v[new[i - 1] + j - new[n]] = Encode(t[i])[j]
  <2>1. CASE i <= Len(s)
    <3>1. /\ i \in n + 1..Len(s) /\ i \in 1..Len(s) /\ i \in 0..Len(s) /\ i - 1 \in 0..Len(s)
          /\ Len(s) \in 0..Len(s) /\ n <= i - 1 /\ i <= Len(s)
      BY <1>1, <2>1
    <3> DEFINE x == off[i - 1] + j - off[n]
    <3>2. /\ off[n] <= off[i - 1] /\ off[i] <= off[Len(s)] /\ off[i] = off[i - 1] + Len(Encode(s[i]))
          /\ t[i] = s[i] /\ new[i - 1] = off[i - 1]
      BY <1>3, <1>5, <3>1 DEF LaidOut
    <3>3. Len(Encode(s[i])) \in Nat
      BY <3>1, EncodePoints
    <3>4. x \in 1..Len(w)
      <4>1. /\ off[n] \in Nat /\ off[i] \in Nat /\ off[i - 1] \in Nat /\ off[Len(s)] \in Nat
            /\ j \in 1..Len(Encode(s[i]))
        BY <1>1, <3>1, <3>2
      <4>2. \A a, b, c, d, l, m \in Nat : \A k \in 1..l :
              c <= a /\ b <= d /\ b = a + l /\ c + m = d => a + k - c \in 1..m
        OBVIOUS
      <4> HIDE DEF x
      <4> QED BY <1>1, <1>6, <3>2, <3>3, <4>1, <4>2 DEF x
    <3>5. w[x] = Encode(s[i])[j]
      <4>1. j \in 1..Len(Encode(s[i])) /\ x <= Len(w)
        BY <1>1, <3>2, <3>4
      <4> QED BY <3>1, <4>1 DEF LaidOut
    <3> QED BY <1>4, <1>9, <3>2, <3>4, <3>5
  <2>2. CASE i = Len(s) + 1
    <3>1. i - 1 = Len(s) /\ Len(s) \in 0..Len(s) /\ t[i] = p
      BY <1>1, <1>3, <2>2
    <3>2. j \in 1..Len(e) /\ new[i - 1] = off[Len(s)]
      BY <1>5, <3>1 DEF e
    <3>3. new[i - 1] + j - new[n] = Len(w) + j
      BY <1>1, <1>6, <1>9, <3>2
    <3> QED BY <1>4, <3>1, <3>2, <3>3 DEF e
  <2> QED BY <1>1, <1>3, <2>1, <2>2
<1>11. LaidOut(new, t, n, v, TRUE)
  <2>1. new[n] + Len(v) <= new[Len(t)]
    BY <1>9
  <2> QED BY <1>7, <1>8, <1>9, <1>10, <2>1 DEF LaidOut
<1> QED BY <1>5, <1>11 DEF t, v, e

-----------------------------------------------------------------------------
(* The invariant.                                                            *)

Typed ==
  /\ sent \in Seq(Messages) /\ received \in Seq(Messages)
  /\ wire \in Seq(Byte) /\ buffer \in Seq(Byte)
  /\ up \in BOOLEAN /\ reader \in {"reading", "ended", "dead"}

\* Packets that are received are the ones that were sent, up to the first that is not plain.
Agree ==
  /\ \A i \in 1..Len(received) : i < First(sent) => received[i] = sent[i]
  /\ First(sent) = Len(sent) + 1 => Len(received) < First(sent)

\* Until then the buffer begins where a packet does, and so what is in it and on the wire is
\* the rest of what was sent.
OnTrack == reader = "reading" /\ Len(received) < First(sent)
Aligned ==
  OnTrack => \E off \in [0..Len(sent) -> Nat] :
               LaidOut(off, sent, Len(received), buffer \o wire, up)

\* No packet is read past its end.
Short ==
  /\ Len(buffer) < PACKET_MAX_SIZE
  /\ OnTrack /\ Len(received) < Len(sent) /\ Plain(sent[Len(received) + 1]) =>
       Len(buffer) < Len(Encode(sent[Len(received) + 1]))

\* NothingPastOversize in the terms of these proofs.
NonePast ==
  First(sent) <= Len(sent) /\ Unambiguous(sent[First(sent)]) /\ ~Fits(sent[First(sent)]) =>
    Len(received) < First(sent)

Inv == Typed /\ Agree /\ Aligned /\ Short /\ NonePast

LEMMA PacketsAreMessages == Packets \subseteq Messages
BY PacketsAssumption DEF Messages, Byte

LEMMA ConcatMore ==
  ASSUME NEW s \in Seq(Byte), NEW t \in Seq(Byte), NEW u \in Seq(Byte)
  PROVE  s \o (t \o u) = (s \o t) \o u
OBVIOUS

LEMMA ConcatMoved ==
  ASSUME NEW s \in Seq(Byte), NEW t \in Seq(Byte), t # <<>>
  PROVE  Append(s, Head(t)) \o Tail(t) = s \o t
<1> DEFINE b == Append(s, Head(t))
           r == Tail(t)
           u == b \o r
           v == s \o t
<1>1. /\ r \in Seq(Byte) /\ Len(r) = Len(t) - 1 /\ Len(t) \in Nat \ {0}
      /\ Head(t) = t[1] /\ Head(t) \in Byte
      /\ \A i \in 1..Len(r) : r[i] = t[i + 1]
  BY TailPoints
<1> HIDE DEF r
<1>2. /\ b \in Seq(Byte) /\ Len(b) = Len(s) + 1 /\ Len(s) \in Nat
      /\ \A i \in 1..Len(s) : b[i] = s[i]
      /\ b[Len(s) + 1] = t[1]
  BY <1>1, AppendPoints
<1> HIDE DEF b
<1>3. /\ u \in Seq(Byte) /\ Len(u) = Len(b) + Len(r)
      /\ \A i \in 1..Len(b) : u[i] = b[i]
      /\ \A i \in 1..Len(r) : u[Len(b) + i] = r[i]
  <2>1. b \in Seq(Byte) /\ r \in Seq(Byte)
    BY <1>1, <1>2
  <2> QED BY <2>1, ConcatPoints
<1>4. /\ v \in Seq(Byte) /\ Len(v) = Len(s) + Len(t)
      /\ \A i \in 1..Len(s) : v[i] = s[i]
      /\ \A i \in 1..Len(t) : v[Len(s) + i] = t[i]
  BY ConcatPoints
<1> HIDE DEF u, v
<1>5. Len(u) = Len(v)
  BY <1>1, <1>2, <1>3, <1>4
<1>6. ASSUME NEW i \in 1..Len(u) PROVE u[i] = v[i]
  <2>1. CASE i <= Len(s)
    <3>1. i \in 1..Len(s) /\ i \in 1..Len(b)
      BY <1>2, <2>1
    <3> QED BY <1>2, <1>3, <1>4, <3>1
  <2>2. CASE i = Len(s) + 1
    <3>1. i \in 1..Len(b) /\ 1 \in 1..Len(t)
      BY <1>1, <1>2, <2>2
    <3> QED BY <1>2, <1>3, <1>4, <2>2, <3>1
  <2>3. CASE i > Len(s) + 1
    <3> DEFINE k == i - Len(b)
    <3>1. k \in 1..Len(r) /\ i = Len(b) + k /\ k + 1 \in 1..Len(t) /\ i = Len(s) + (k + 1)
      BY <1>1, <1>2, <1>3, <2>3
    <3> HIDE DEF k
    <3>2. u[i] = r[k] /\ r[k] = t[k + 1]
      BY <1>1, <1>3, <3>1
    <3>3. v[i] = t[k + 1]
      BY <1>4, <3>1
    <3> QED BY <3>2, <3>3
  <2> QED BY <1>2, <2>1, <2>2, <2>3
<1>7. u = v
  BY <1>3, <1>4, <1>5, <1>6, SameSeq
<1> QED BY <1>7 DEF u, v, b, r

LEMMA EmptyConcat ==
  /\ <<>> \in Seq(Byte) /\ Len(<<>>) = 0
  /\ \A s \in Seq(Byte) : <<>> \o s = s
OBVIOUS

LEMMA InvInit == Init => Inv
<1> SUFFICES ASSUME Init PROVE Inv
  OBVIOUS
<1>1. /\ sent = <<>> /\ wire = <<>> /\ up = TRUE /\ buffer = <<>> /\ received = <<>>
      /\ reader = "reading"
  BY DEF Init
<1>2. <<>> \in Seq(Messages) /\ Len(<<>>) = 0
  OBVIOUS
<1>3. First(<<>>) = 1
  <2>1. First(<<>>) \in 1..Len(<<>>) + 1
    BY <1>2, FirstIs, Zenon
  <2> QED BY <1>2, <2>1
<1>4. Typed
  BY <1>1, <1>2, EmptyConcat DEF Typed
<1>5. Agree /\ NonePast
  BY <1>1, <1>2, <1>3 DEF Agree, NonePast
<1>6. Short
  BY <1>1, <1>2, SizeAssumption, MagicBytes DEF Short
<1>7. Aligned
  <2> DEFINE off == [i \in 0..0 |-> 0]
  <2>1. off \in [0..0 -> Nat] /\ off[0] = 0
    OBVIOUS
  <2>2. <<>> \o <<>> = <<>>
    BY EmptyConcat
  <2> HIDE DEF off
  <2>3. LaidOut(off, <<>>, 0, <<>>, TRUE)
    BY <1>2, <2>1 DEF LaidOut
  <2> QED BY <1>1, <1>2, <2>1, <2>2, <2>3 DEF Aligned
<1> QED BY <1>4, <1>5, <1>6, <1>7 DEF Inv

LEMMA CutKeeps ==
  ASSUME Inv, Cut
  PROVE  Inv'
<1>1. /\ up' = FALSE /\ UNCHANGED <<sent, buffer, received, reader>>
      /\ \E n \in 0..Len(wire) : wire' = SubSeq(wire, 1, n)
  BY DEF Cut
<1>2. PICK n \in 0..Len(wire) : wire' = SubSeq(wire, 1, n)
  BY <1>1
<1>3. /\ sent \in Seq(Messages) /\ received \in Seq(Messages)
      /\ wire \in Seq(Byte) /\ buffer \in Seq(Byte)
  BY DEF Inv, Typed
<1>4. wire' \in Seq(Byte) /\ Len(wire') = n /\ \A i \in 1..n : wire'[i] = wire[i]
  BY <1>2, <1>3, PrefixPoints
<1>5. Typed'
  BY <1>1, <1>3, <1>4 DEF Inv, Typed
<1>6. Agree' /\ NonePast' /\ Short'
  BY <1>1 DEF Inv, Agree, NonePast, Short, OnTrack
<1>7. Aligned'
  <2> SUFFICES ASSUME OnTrack
               PROVE  \E off \in [0..Len(sent) -> Nat] :
                        LaidOut(off, sent, Len(received), buffer \o wire', FALSE)
    BY <1>1 DEF Aligned, OnTrack
  <2>1. PICK off \in [0..Len(sent) -> Nat] :
          LaidOut(off, sent, Len(received), buffer \o wire, up)
    BY DEF Inv, Aligned
  <2> DEFINE w == buffer \o wire
             v == buffer \o wire'
  <2>2. /\ w \in Seq(Byte) /\ Len(w) = Len(buffer) + Len(wire) /\ Len(buffer) \in Nat /\ Len(wire) \in Nat
        /\ \A i \in 1..Len(buffer) : w[i] = buffer[i]
        /\ \A i \in 1..Len(wire) : w[Len(buffer) + i] = wire[i]
    BY <1>3, ConcatPoints
  <2>3. /\ v \in Seq(Byte) /\ Len(v) = Len(buffer) + Len(wire')
        /\ \A i \in 1..Len(buffer) : v[i] = buffer[i]
        /\ \A i \in 1..Len(wire') : v[Len(buffer) + i] = wire'[i]
    BY <1>3, <1>4, ConcatPoints
  <2> HIDE DEF w, v
  <2>4. Len(v) <= Len(w)
    BY <1>4, <2>2, <2>3
  <2>5. ASSUME NEW i \in 1..Len(v) PROVE v[i] = w[i]
    <3>1. CASE i <= Len(buffer)
      BY <2>2, <2>3, <3>1
    <3>2. CASE i > Len(buffer)
      <4> DEFINE k == i - Len(buffer)
      <4>1. k \in 1..n /\ k \in 1..Len(wire) /\ i = Len(buffer) + k
        BY <1>4, <2>2, <2>3, <3>2
      <4> HIDE DEF k
      <4> QED BY <1>4, <2>2, <2>3, <4>1
    <3> QED BY <2>2, <3>1, <3>2
  <2>6. Len(received) \in 0..Len(sent)
    <3>1. First(sent) \in 1..Len(sent) + 1 /\ Len(sent) \in Nat /\ Len(received) \in Nat
      BY <1>3, FirstIs
    <3> QED BY <3>1 DEF OnTrack
  <2>7. LaidOut(off, sent, Len(received), v, FALSE)
    <3>1. LaidOut(off, sent, Len(received), w, up)
      BY <2>1 DEF w
    <3> QED BY <1>3, <2>2, <2>3, <2>4, <2>5, <2>6, <3>1, LaidShorter
  <2> QED BY <2>7 DEF v
<1> QED BY <1>5, <1>6, <1>7 DEF Inv

LEMMA ReadEndKeeps ==
  ASSUME Inv, ReadEnd
  PROVE  Inv'
<1>1. /\ reader = "reading" /\ reader' = "ended" /\ buffer' = <<>>
      /\ UNCHANGED <<sent, wire, up, received>>
  BY DEF ReadEnd
<1>2. Typed'
  BY <1>1, EmptyConcat DEF Inv, Typed
<1>3. ~OnTrack'
  BY <1>1 DEF OnTrack
<1>4. Agree' /\ NonePast'
  BY <1>1 DEF Inv, Agree, NonePast
<1>5. Aligned' /\ Short'
  BY <1>1, <1>3, EmptyConcat, SizeAssumption, MagicBytes DEF Aligned, Short
<1> QED BY <1>2, <1>4, <1>5 DEF Inv

\* What is known of the first odd packet, and of the next one while the reader is on track.
LEMMA TrackPoints ==
  ASSUME Inv
  PROVE  /\ First(sent) \in 1..Len(sent) + 1 /\ Len(sent) \in Nat /\ Len(received) \in Nat
         /\ \A i \in 1..First(sent) - 1 : Plain(sent[i])
         /\ First(sent) <= Len(sent) => ~Plain(sent[First(sent)])
         /\ OnTrack => Len(received) \in 0..Len(sent)
<1>1. sent \in Seq(Messages) /\ Len(received) \in Nat
  BY DEF Inv, Typed
<1>2. /\ First(sent) \in 1..Len(sent) + 1 /\ Len(sent) \in Nat
      /\ \A i \in 1..First(sent) - 1 : Plain(sent[i])
      /\ First(sent) <= Len(sent) => ~Plain(sent[First(sent)])
  BY <1>1, FirstIs
<1>3. OnTrack => Len(received) \in 0..Len(sent)
  BY <1>1, <1>2 DEF OnTrack
<1> QED BY <1>1, <1>2, <1>3

LEMMA SendKeeps ==
  ASSUME Inv, NEW p \in Packets, Send(p)
  PROVE  Inv'
<1>1. /\ up /\ sent' = Append(sent, p) /\ wire' = wire \o Encode(p)
      /\ UNCHANGED <<up, buffer, received, reader>>
  BY DEF Send
<1>2. /\ sent \in Seq(Messages) /\ received \in Seq(Messages) /\ p \in Messages
      /\ wire \in Seq(Byte) /\ buffer \in Seq(Byte) /\ up = TRUE
  BY <1>1, PacketsAreMessages DEF Inv, Typed
<1>3. /\ First(sent) \in 1..Len(sent) + 1 /\ Len(sent) \in Nat /\ Len(received) \in Nat
      /\ OnTrack => Len(received) \in 0..Len(sent)
  BY TrackPoints
<1>4. Encode(p) \in Seq(Byte) /\ Len(Encode(p)) >= 4
  <2>1. /\ Encode(p) \in Seq(Byte) /\ Len(Encode(p)) = 3 + Len(p.payload) + Len(MAGIC_FIELD)
        /\ Len(p.payload) \in Nat
    BY <1>2, EncodePoints, MessageFields
  <2> QED BY <2>1, MagicBytes
<1>5. /\ sent' \in Seq(Messages) /\ Len(sent') = Len(sent) + 1
      /\ \A i \in 1..Len(sent) : sent'[i] = sent[i]
      /\ sent'[Len(sent) + 1] = p
  BY <1>1, <1>2, AppendPoints
<1>6. wire' \in Seq(Byte)
  BY <1>1, <1>2, <1>4, ConcatPoints
<1>7. /\ First(sent) <= Len(sent) => First(sent') = First(sent)
      /\ First(sent) = Len(sent) + 1 => First(sent') \in {First(sent), First(sent) + 1}
  BY <1>1, <1>2, FirstMoves
<1>8. OnTrack' => OnTrack
  BY <1>1, <1>3, <1>7 DEF Inv, Agree, OnTrack
<1>9. Typed'
  BY <1>1, <1>2, <1>5, <1>6 DEF Inv, Typed
<1>10. Agree'
  <2>1. ASSUME NEW i \in 1..Len(received), i < First(sent') PROVE received[i] = sent'[i]
    <3>1. i < First(sent) /\ i \in 1..Len(sent)
      <4>1. CASE First(sent) <= Len(sent)
        BY <1>3, <1>7, <2>1, <4>1
      <4>2. CASE First(sent) = Len(sent) + 1
        <5>1. Len(received) < First(sent)
          BY <4>2 DEF Inv, Agree
        <5> QED BY <1>3, <4>2, <5>1
      <4> QED BY <1>3, <4>1, <4>2
    <3> QED BY <1>5, <3>1 DEF Inv, Agree
  <2>2. First(sent') = Len(sent') + 1 => Len(received) < First(sent')
    BY <1>3, <1>5, <1>7 DEF Inv, Agree
  <2> QED BY <1>1, <2>1, <2>2 DEF Agree
<1>11. NonePast'
  <2> SUFFICES ASSUME First(sent') <= Len(sent'), Unambiguous(sent'[First(sent')]), ~Fits(sent'[First(sent')])
               PROVE  Len(received) < First(sent')
    BY <1>1 DEF NonePast
  <2>1. CASE First(sent) <= Len(sent)
    <3>1. First(sent) \in 1..Len(sent)
      BY <1>3, <2>1
    <3> QED BY <1>5, <1>7, <2>1, <3>1 DEF Inv, NonePast
  <2>2. CASE First(sent) = Len(sent) + 1
    BY <1>3, <1>7, <2>2 DEF Inv, Agree
  <2> QED BY <1>3, <2>1, <2>2
<1>12. ASSUME OnTrack
       PROVE  \E off \in [0..Len(sent') -> Nat] :
                LaidOut(off, sent', Len(received), buffer \o wire', TRUE)
  <2>1. PICK off \in [0..Len(sent) -> Nat] :
          LaidOut(off, sent, Len(received), buffer \o wire, TRUE)
    BY <1>2, <1>12 DEF Inv, Aligned
  <2>2. buffer \o wire \in Seq(Byte)
    BY <1>2, ConcatPoints
  <2>3. buffer \o wire' = (buffer \o wire) \o Encode(p)
    BY <1>1, <1>2, <1>4, ConcatMore
  <2> DEFINE w == buffer \o wire
  <2> HIDE DEF w
  <2>4. \E off2 \in [0..Len(Append(sent, p)) -> Nat] :
          LaidOut(off2, Append(sent, p), Len(received), w \o Encode(p), TRUE)
    <3>1. w \in Seq(Byte) /\ LaidOut(off, sent, Len(received), w, TRUE)
      BY <2>1, <2>2 DEF w
    <3> QED BY <1>2, <1>3, <1>12, <3>1, LaidSend
  <2> QED BY <1>1, <2>3, <2>4 DEF w
<1>13. Aligned'
  <2> SUFFICES ASSUME OnTrack'
               PROVE  \E off \in [0..Len(sent') -> Nat] :
                        LaidOut(off, sent', Len(received'), buffer' \o wire', up')
    BY DEF Aligned
  <2> QED BY <1>1, <1>2, <1>8, <1>12
<1>14. Short'
  <2> SUFFICES ASSUME OnTrack, Len(received) < Len(sent'), Plain(sent'[Len(received) + 1])
               PROVE  Len(buffer) < Len(Encode(sent'[Len(received) + 1]))
    BY <1>1, <1>8 DEF Inv, Short
  <2>1. CASE Len(received) < Len(sent)
    <3>1. sent'[Len(received) + 1] = sent[Len(received) + 1]
      BY <1>3, <1>5, <2>1
    <3> QED BY <2>1, <3>1 DEF Inv, Short
  <2>2. CASE Len(received) = Len(sent)
    <3>1. PICK off \in [0..Len(sent) -> Nat] :
            LaidOut(off, sent, Len(received), buffer \o wire, up)
      BY DEF Inv, Aligned
    <3>2. /\ buffer \o wire \in Seq(Byte) /\ Len(buffer \o wire) = Len(buffer) + Len(wire)
          /\ Len(buffer) \in Nat /\ Len(wire) \in Nat
      BY <1>2, ConcatPoints
    <3>3. buffer \o wire = <<>>
      <4> DEFINE w == buffer \o wire
      <4>1. w \in Seq(Byte) /\ LaidOut(off, sent, Len(received), w, up)
        BY <3>1, <3>2
      <4> HIDE DEF w
      <4>2. Len(received) \in 0..Len(sent) /\ ~(Len(received) < Len(sent))
        BY <1>3, <2>2
      <4>3. w = <<>>
        BY <1>2, <4>1, <4>2, LaidBegin
      <4> QED BY <4>3 DEF w
    <3>4. Len(buffer) = 0
      BY <3>2, <3>3, EmptyConcat
    <3>5. sent'[Len(received) + 1] = p
      BY <1>5, <2>2
    <3> QED BY <1>4, <3>4, <3>5
  <2> QED BY <1>3, <1>5, <2>1, <2>2
<1> QED BY <1>9, <1>10, <1>11, <1>13, <1>14 DEF Inv

-----------------------------------------------------------------------------
(* Reading a byte.                                                           *)

\* What the byte completes, the next packet, and the three things it may lead to.
Grown     == Append(buffer, Head(wire))
Due       == sent[Len(received) + 1]
Takes(p)  == received' = Append(received, p) /\ buffer' = <<>> /\ UNCHANGED reader
Continues == ~MagicFound(Grown) /\ ~Full(Grown) /\ buffer' = Grown /\ UNCHANGED <<received, reader>>
Gives     == reader' \in {"ended", "dead"} /\ buffer' = <<>> /\ UNCHANGED received

LEMMA ReadPoints ==
  ASSUME Inv, ReadByte
  PROVE  /\ reader = "reading" /\ wire # <<>> /\ wire' = Tail(wire) /\ UNCHANGED <<sent, up>>
         /\ Grown \in Seq(Byte) /\ Len(Grown) = Len(buffer) + 1 /\ Len(buffer) \in Nat
         /\ Tail(wire) \in Seq(Byte) /\ Grown \o Tail(wire) = buffer \o wire
         /\ \/ MagicFound(Grown) /\ Decode(Grown).type # "UnknownPacket"
               /\ Decode(Grown) \in Messages /\ Takes(Decode(Grown))
            \/ Continues
            \/ MagicFound(Grown) /\ Decode(Grown).type = "UnknownPacket" /\ Gives
            \/ ~MagicFound(Grown) /\ Full(Grown) /\ Gives
<1>1. /\ reader = "reading" /\ wire # <<>> /\ wire' = Tail(wire) /\ UNCHANGED <<sent, up>>
  BY DEF ReadByte
<1>2. wire \in Seq(Byte) /\ buffer \in Seq(Byte)
  BY DEF Inv, Typed
<1>3. Head(wire) \in Byte /\ Tail(wire) \in Seq(Byte)
  BY <1>1, <1>2, TailPoints
<1>4. Grown \in Seq(Byte) /\ Len(Grown) = Len(buffer) + 1 /\ Len(buffer) \in Nat
  BY <1>2, <1>3, AppendPoints DEF Grown
<1>5. Grown \o Tail(wire) = buffer \o wire
  BY <1>1, <1>2, ConcatMoved DEF Grown
<1>6. MagicFound(Grown) => Decode(Grown) \in Messages
  <2> SUFFICES ASSUME MagicFound(Grown) PROVE Decode(Grown) \in Messages
    OBVIOUS
  <2> DEFINE n == Len(Grown) - Len(MAGIC_FIELD)
  <2>1. n \in Nat /\ n <= Len(Grown) /\ ID_FIELD_LENGTH + 1 = 4
    BY <1>4, MagicBytes DEF MagicFound, ID_FIELD_LENGTH
  <2> HIDE DEF n
  <2>2. SubSeq(Grown, 4, n) \in Seq(Byte)
    BY <1>4, <2>1
  <2>3. FromInt(IdOf(Grown)) \in Types
    BY FromIntType
  <2> QED BY <2>1, <2>2, <2>3 DEF Decode, Messages, n
<1>7. \/ MagicFound(Grown) /\ Decode(Grown).type # "UnknownPacket" /\ Takes(Decode(Grown))
      \/ Continues
      \/ MagicFound(Grown) /\ Decode(Grown).type = "UnknownPacket" /\ Gives
      \/ ~MagicFound(Grown) /\ Full(Grown) /\ Gives
  BY DEF ReadByte, Grown, Takes, Continues, Gives, NextBuffer
<1> QED BY <1>1, <1>3, <1>4, <1>5, <1>6, <1>7

\* On track the byte belongs to the next packet, and completes it if it is its last.
LEMMA TrackedByte ==
  ASSUME Inv, ReadByte, OnTrack
  PROVE  /\ Len(received) + 1 \in 1..Len(sent) /\ Due \in Messages
         /\ \A i \in 1..Len(Grown) : i <= Len(Encode(Due)) => Grown[i] = Encode(Due)[i]
<1>1. /\ sent \in Seq(Messages) /\ wire \in Seq(Byte) /\ buffer \in Seq(Byte)
      /\ Len(received) \in 0..Len(sent) /\ Len(sent) \in Nat
  BY TrackPoints DEF Inv, Typed
<1>2. PICK off \in [0..Len(sent) -> Nat] :
        LaidOut(off, sent, Len(received), buffer \o wire, up)
  BY DEF Inv, Aligned
<1> DEFINE w == buffer \o wire
<1>3. wire # <<>> /\ Grown \in Seq(Byte) /\ Tail(wire) \in Seq(Byte) /\ w = Grown \o Tail(wire)
      /\ Len(Grown) = Len(buffer) + 1 /\ Len(buffer) \in Nat
  BY ReadPoints
<1>4. w \in Seq(Byte)
  BY <1>1, ConcatPoints
<1> HIDE DEF w
<1>5. /\ Len(w) = Len(Grown) + Len(Tail(wire)) /\ Len(Tail(wire)) \in Nat
      /\ \A i \in 1..Len(Grown) : w[i] = Grown[i]
  <2>1. Grown \in Seq(Byte) /\ Tail(wire) \in Seq(Byte)
    BY <1>3
  <2>2. /\ Len(Grown \o Tail(wire)) = Len(Grown) + Len(Tail(wire)) /\ Len(Tail(wire)) \in Nat
        /\ \A i \in 1..Len(Grown) : (Grown \o Tail(wire))[i] = Grown[i]
    BY <2>1, ConcatPoints
  <2> QED BY <1>3, <2>2
<1>6. w # <<>>
  BY <1>3, <1>5, EmptyConcat
<1>7. LaidOut(off, sent, Len(received), w, up)
  BY <1>2 DEF w
<1>8. /\ Len(received) < Len(sent)
      /\ \A j \in 1..Len(Encode(Due)) : j <= Len(w) => w[j] = Encode(Due)[j]
  BY <1>1, <1>4, <1>6, <1>7, LaidBegin DEF Due
<1>9. Len(received) + 1 \in 1..Len(sent) /\ Due \in Messages
  BY <1>1, <1>8 DEF Due
<1>10. ASSUME NEW i \in 1..Len(Grown), i <= Len(Encode(Due)) PROVE Grown[i] = Encode(Due)[i]
  <2>1. Len(Encode(Due)) \in Nat
    BY <1>9, EncodePoints
  <2>2. i \in 1..Len(Encode(Due)) /\ i <= Len(w)
    BY <1>3, <1>5, <1>10, <2>1
  <2> QED BY <1>5, <1>8, <2>2
<1> QED BY <1>9, <1>10

\* A plain packet is received when its last byte is read, and not before.
LEMMA PlainByte ==
  ASSUME Inv, ReadByte, OnTrack, Plain(Due)
  PROVE  \/ Len(Grown) < Len(Encode(Due)) /\ Continues
         \/ Len(Grown) = Len(Encode(Due)) /\ Takes(Due)
<1>1. /\ Len(received) + 1 \in 1..Len(sent) /\ Due \in Messages
      /\ \A i \in 1..Len(Grown) : i <= Len(Encode(Due)) => Grown[i] = Encode(Due)[i]
  BY TrackedByte
<1>2. /\ Encode(Due) \in Seq(Byte) /\ Len(Encode(Due)) \in Nat
      /\ Len(Encode(Due)) = 3 + Len(Due.payload) + Len(MAGIC_FIELD)
  BY <1>1, EncodePoints
<1>3. Len(buffer) < Len(Encode(Due))
  <2>1. Len(received) < Len(sent)
    BY <1>1, TrackPoints
  <2> QED BY <2>1 DEF Inv, Short, Due
<1>4. Grown \in Seq(Byte) /\ Len(Grown) <= Len(Encode(Due)) /\ Len(Grown) \in Nat
  <2>1. Grown \in Seq(Byte) /\ Len(Grown) = Len(buffer) + 1 /\ Len(buffer) \in Nat
    BY ReadPoints
  <2> QED BY <1>2, <1>3, <2>1
<1>5. CASE Len(Grown) < Len(Encode(Due))
  <2>1. ~MagicFound(Grown)
    BY <1>1, <1>4, <1>5, BeginningNotFound DEF Plain
  <2>2. ~Full(Grown)
    BY <1>2, <1>4, <1>5, MagicBytes DEF Plain, Fits, Full, ID_FIELD_LENGTH
  <2> QED BY <1>5, <2>1, <2>2, ReadPoints
<1>6. CASE Len(Grown) = Len(Encode(Due))
  <2>1. Grown = Encode(Due)
    BY <1>1, <1>2, <1>4, <1>6, SameSeq
  <2>2. Due.type \in OwnTypes
    BY <1>1, MessageFields DEF Plain, OwnTypes
  <2>3. MagicFound(Grown) /\ Decode(Grown) = Due
    BY <1>1, <2>1, <2>2, WholeFound, WholeDecoded
  <2>4. Decode(Grown).type # "UnknownPacket"
    BY <2>3 DEF Plain
  <2>5. Takes(Decode(Grown))
    BY <2>3, <2>4, ReadPoints DEF Continues
  <2> QED BY <1>6, <2>3, <2>5
<1> QED BY <1>2, <1>4, <1>5, <1>6

\* A packet that is too long is not received.
LEMMA OversizeByte ==
  ASSUME Inv, ReadByte, OnTrack, Unambiguous(Due), ~Fits(Due)
  PROVE  UNCHANGED received
<1>1. /\ Due \in Messages
      /\ \A i \in 1..Len(Grown) : i <= Len(Encode(Due)) => Grown[i] = Encode(Due)[i]
  BY TrackedByte
<1>2. /\ Len(Encode(Due)) = 3 + Len(Due.payload) + Len(MAGIC_FIELD) /\ Len(Due.payload) \in Nat
  BY <1>1, EncodePoints, MessageFields
<1>3. Grown \in Seq(Byte) /\ Len(Grown) = Len(buffer) + 1 /\ Len(buffer) \in Nat
  BY ReadPoints
<1>4. Len(buffer) < PACKET_MAX_SIZE
  BY DEF Inv, Short
<1>5. Len(Grown) < Len(Encode(Due))
  BY <1>2, <1>3, <1>4, MagicBytes DEF Fits, ID_FIELD_LENGTH
<1>6. ~MagicFound(Grown)
  BY <1>1, <1>3, <1>5, BeginningNotFound
<1> QED BY <1>6, ReadPoints DEF Continues, Gives

LEMMA ReadByteKeeps ==
  ASSUME Inv, ReadByte
  PROVE  Inv'
<1>1. /\ reader = "reading" /\ wire # <<>> /\ wire' = Tail(wire) /\ UNCHANGED <<sent, up>>
      /\ Grown \in Seq(Byte) /\ Len(Grown) = Len(buffer) + 1 /\ Len(buffer) \in Nat
      /\ Tail(wire) \in Seq(Byte) /\ Grown \o Tail(wire) = buffer \o wire
  BY ReadPoints
<1>2. \/ \E p \in Messages : MagicFound(Grown) /\ Takes(p)
      \/ Continues
      \/ Gives
  BY ReadPoints
<1>3. /\ First(sent) \in 1..Len(sent) + 1 /\ Len(sent) \in Nat /\ Len(received) \in Nat
      /\ \A i \in 1..First(sent) - 1 : Plain(sent[i])
      /\ First(sent) <= Len(sent) => ~Plain(sent[First(sent)])
      /\ OnTrack => Len(received) \in 0..Len(sent)
  BY TrackPoints
<1>4. sent \in Seq(Messages) /\ received \in Seq(Messages) /\ wire \in Seq(Byte) /\ buffer \in Seq(Byte)
  BY DEF Inv, Typed
<1>5. /\ received' \in Seq(Messages) /\ Len(received') \in {Len(received), Len(received) + 1}
      /\ \A i \in 1..Len(received) : received'[i] = received[i]
      /\ Len(received') = Len(received) => received' = received
  <2>1. CASE received' = received
    BY <1>3, <1>4, <2>1
  <2>2. ASSUME NEW p \in Messages, received' = Append(received, p)
        PROVE  /\ received' \in Seq(Messages) /\ Len(received') = Len(received) + 1
               /\ \A i \in 1..Len(received) : received'[i] = received[i]
    BY <1>4, <2>2, AppendPoints
  <2> QED BY <1>2, <1>3, <2>1, <2>2 DEF Takes, Continues, Gives
<1>6. buffer' \in Seq(Byte) /\ Len(buffer') < PACKET_MAX_SIZE
  <2>1. CASE buffer' = <<>>
    BY <2>1, EmptyConcat, SizeAssumption, MagicBytes
  <2>2. CASE Continues
    BY <1>1, <2>2, MagicBytes DEF Continues, Full
  <2> QED BY <1>2, <2>1, <2>2 DEF Takes, Gives
<1>7. Typed'
  BY <1>1, <1>2, <1>4, <1>5, <1>6 DEF Inv, Typed, Takes, Continues, Gives
<1>8. OnTrack' => OnTrack /\ (Continues \/ \E p \in Messages : MagicFound(Grown) /\ Takes(p))
  BY <1>1, <1>2, <1>3, <1>5 DEF OnTrack, Gives
<1>9. CASE ~OnTrack
  <2>1. ~(Len(received) < First(sent)) /\ ~OnTrack'
    BY <1>1, <1>8, <1>9 DEF OnTrack
  <2>2. Agree' /\ NonePast'
    <3>1. ASSUME NEW i \in 1..Len(received'), i < First(sent) PROVE received'[i] = sent[i]
      <4>1. i \in 1..Len(received)
        BY <1>3, <1>5, <2>1, <3>1
      <4> QED BY <1>5, <3>1, <4>1 DEF Inv, Agree
    <3>2. First(sent) # Len(sent) + 1
      BY <2>1 DEF Inv, Agree
    <3>3. NonePast'
      BY <1>1, <2>1 DEF Inv, NonePast
    <3> QED BY <1>1, <3>1, <3>2, <3>3 DEF Agree
  <2>3. Aligned' /\ Short'
    BY <1>6, <2>1 DEF Aligned, Short
  <2> QED BY <1>7, <2>2, <2>3 DEF Inv
<1>10. CASE OnTrack /\ Continues
  <2>1. UNCHANGED <<sent, received, reader, up>> /\ buffer' \o wire' = buffer \o wire
    BY <1>1, <1>10 DEF Continues
  <2>2. Agree' /\ NonePast' /\ Aligned'
    BY <2>1 DEF Inv, Agree, NonePast, Aligned, OnTrack
  <2>3. Short'
    <3> SUFFICES ASSUME Plain(Due)
                 PROVE  Len(Grown) < Len(Encode(Due))
      BY <1>6, <1>10, <2>1 DEF Short, Continues, Due
    <3>1. received' = Append(received, Due) => Len(received') = Len(received) + 1
      BY <1>4, TrackedByte, <1>10, AppendPoints
    <3> QED BY <1>3, <1>10, <2>1, <3>1, PlainByte DEF Takes
  <2> QED BY <1>7, <2>2, <2>3 DEF Inv
<1>11. CASE OnTrack /\ ~Continues /\ Plain(Due)
  <2>1. Len(Grown) = Len(Encode(Due)) /\ Takes(Due)
    BY <1>11, PlainByte
  <2>2. Len(received) + 1 \in 1..Len(sent) /\ Due \in Messages
        /\ Encode(Due) \in Seq(Byte) /\ Len(Encode(Due)) \in Nat
    BY <1>11, TrackedByte, EncodePoints
  <2>3. Len(received) + 1 < First(sent)
    BY <1>3, <1>11, <2>2 DEF Due, OnTrack
  <2>4. Len(received') = Len(received) + 1 /\ received'[Len(received) + 1] = Due
    BY <1>4, <2>1, <2>2, AppendPoints DEF Takes
  <2>5. Agree' /\ NonePast'
    <3>1. ASSUME NEW i \in 1..Len(received'), i < First(sent) PROVE received'[i] = sent[i]
      <4>1. CASE i = Len(received) + 1
        BY <2>4, <4>1 DEF Due
      <4>2. CASE i \in 1..Len(received)
        BY <1>5, <3>1, <4>2 DEF Inv, Agree
      <4> QED BY <1>3, <2>4, <4>1, <4>2
    <3> QED BY <1>1, <1>3, <2>3, <2>4, <3>1 DEF Agree, NonePast
  <2>6. Aligned'
    <3>1. PICK off \in [0..Len(sent) -> Nat] :
            LaidOut(off, sent, Len(received), buffer \o wire, up)
      BY <1>11 DEF Inv, Aligned
    <3> DEFINE w == buffer \o wire
               v == Tail(wire)
    <3>2. /\ w \in Seq(Byte) /\ v \in Seq(Byte) /\ Len(w) = Len(Grown) + Len(v)
          /\ \A i \in 1..Len(v) : w[Len(Grown) + i] = v[i]
      <4>1. Grown \in Seq(Byte) /\ v \in Seq(Byte)
        BY <1>1
      <4>2. /\ Grown \o v \in Seq(Byte) /\ Len(Grown \o v) = Len(Grown) + Len(v)
            /\ \A i \in 1..Len(v) : (Grown \o v)[Len(Grown) + i] = v[i]
        BY <4>1, ConcatPoints
      <4> QED BY <1>1, <4>1, <4>2
    <3>3. LaidOut(off, sent, Len(received), w, up)
      BY <3>1
    <3>4. buffer' \o wire' = v
      BY <1>1, <2>1, EmptyConcat DEF Takes
    <3> HIDE DEF w, v
    <3>5. Len(w) = Len(Encode(Due)) + Len(v) /\ \A i \in 1..Len(v) : v[i] = w[Len(Encode(Due)) + i]
      BY <2>1, <3>2
    <3>6. Len(received) \in 0..Len(sent) /\ Len(received) < Len(sent)
      BY <1>3, <2>2
    <3>7. LaidOut(off, sent, Len(received) + 1, v, up)
      BY <1>4, <3>2, <3>3, <3>5, <3>6, LaidNext DEF Due
    <3> QED BY <1>1, <2>4, <3>4, <3>7 DEF Aligned
  <2>7. Short'
    <3>1. buffer' = <<>> /\ Len(buffer') = 0
      BY <2>1, EmptyConcat DEF Takes
    <3> SUFFICES ASSUME Len(received') < Len(sent)
                 PROVE  0 < Len(Encode(sent[Len(received') + 1]))
      BY <1>1, <1>6, <3>1 DEF Short
    <3> DEFINE p == sent[Len(received') + 1]
    <3>2. p \in Messages
      BY <1>3, <1>4, <2>4
    <3> HIDE DEF p
    <3>3. Len(Encode(p)) = 3 + Len(p.payload) + Len(MAGIC_FIELD) /\ Len(p.payload) \in Nat
      BY <3>2, EncodePoints, MessageFields
    <3> QED BY <3>3, MagicBytes DEF p
  <2> QED BY <1>7, <2>5, <2>6, <2>7 DEF Inv
<1>12. CASE OnTrack /\ ~Continues /\ ~Plain(Due)
  <2>1. Len(received) + 1 = First(sent) /\ First(sent) <= Len(sent)
    <3>1. Len(received) + 1 \in 1..Len(sent)
      BY <1>12, TrackedByte
    <3>2. ~(Len(received) + 1 < First(sent))
      BY <1>3, <1>12 DEF Due
    <3> QED BY <1>3, <1>12, <3>1, <3>2 DEF OnTrack
  <2>2. ~OnTrack'
    <3>1. CASE Gives
      BY <3>1 DEF Gives, OnTrack
    <3>2. ASSUME NEW p \in Messages, Takes(p) PROVE ~OnTrack'
      <4>1. Len(received') = Len(received) + 1
        BY <1>4, <3>2, AppendPoints DEF Takes
      <4> QED BY <1>1, <1>3, <2>1, <4>1 DEF OnTrack
    <3> QED BY <1>2, <1>12, <3>1, <3>2
  <2>3. Agree'
    <3>1. ASSUME NEW i \in 1..Len(received'), i < First(sent) PROVE received'[i] = sent[i]
      <4>1. i \in 1..Len(received)
        BY <1>3, <1>5, <2>1, <3>1
      <4> QED BY <1>5, <3>1, <4>1 DEF Inv, Agree
    <3> QED BY <1>1, <1>3, <2>1, <3>1 DEF Agree
  <2>4. NonePast'
    <3> SUFFICES ASSUME Unambiguous(Due), ~Fits(Due) PROVE Len(received') < First(sent)
      BY <1>1, <2>1 DEF NonePast, Due
    <3>1. received' = received
      BY <1>12, OversizeByte
    <3> QED BY <1>3, <2>1, <3>1
  <2>5. Aligned' /\ Short'
    BY <1>6, <2>2 DEF Aligned, Short
  <2> QED BY <1>7, <2>3, <2>4, <2>5 DEF Inv
<1> QED BY <1>9, <1>10, <1>11, <1>12

LEMMA InvStep == Inv /\ [Next]_vars => Inv'
<1> SUFFICES ASSUME Inv, [Next]_vars PROVE Inv'
  OBVIOUS
<1>1. CASE UNCHANGED vars
  BY <1>1 DEF vars, Inv, Typed, Agree, Aligned, Short, NonePast, OnTrack
<1> QED BY <1>1, CutKeeps, ReadByteKeeps, ReadEndKeeps, SendKeeps DEF Next

LEMMA Invariance == Spec => []Inv
<1> QED BY InvInit, InvStep, PTL DEF Spec

-----------------------------------------------------------------------------
(* The theorems.                                                             *)

\* A packet that is too long ends the connection: nothing is received in its place or
\* behind it, whatever its bytes.
THEOREM NothingPast == Spec => []NothingPastOversize
<1>1. Inv => NothingPastOversize
  <2>1. FirstOdd = First(sent)
    BY DEF FirstOdd, First
  <2> QED BY <2>1 DEF Inv, NonePast, NothingPastOversize
<1> QED BY <1>1, Invariance, PTL

-----------------------------------------------------------------------------
(* The channel.                                                              *)

LEMMA PrefixAppend ==
  ASSUME NEW S, NEW s \in Seq(S), NEW x \in S, NEW n \in 0..Len(s)
  PROVE  SubSeq(Append(s, x), 1, n) = SubSeq(s, 1, n)
<1> DEFINE t == Append(s, x)
<1>1. /\ t \in Seq(S) /\ Len(t) = Len(s) + 1 /\ Len(s) \in Nat
      /\ \A i \in 1..Len(s) : t[i] = s[i]
  BY AppendPoints
<1> HIDE DEF t
<1>2. n \in 0..Len(t)
  BY <1>1
<1>3. /\ SubSeq(t, 1, n) \in Seq(S) /\ Len(SubSeq(t, 1, n)) = n
      /\ \A i \in 1..n : SubSeq(t, 1, n)[i] = t[i]
  BY <1>1, <1>2, PrefixPoints
<1>4. /\ SubSeq(s, 1, n) \in Seq(S) /\ Len(SubSeq(s, 1, n)) = n
      /\ \A i \in 1..n : SubSeq(s, 1, n)[i] = s[i]
  BY PrefixPoints
<1>5. \A i \in 1..n : SubSeq(t, 1, n)[i] = SubSeq(s, 1, n)[i]
  BY <1>1, <1>3, <1>4
<1>6. SubSeq(t, 1, n) = SubSeq(s, 1, n)
  BY <1>3, <1>4, <1>5, SameSeq
<1> QED BY <1>6 DEF t

LEMMA PrefixWhole ==
  ASSUME NEW S, NEW s \in Seq(S)
  PROVE  SubSeq(s, 1, Len(s)) = s
OBVIOUS

\* The packets that count, for any packets sent and received.
Counted(r, n) == IF Len(r) < n THEN r ELSE SubSeq(r, 1, n - 1)

LEMMA ChannelPoints ==
  /\ PlainSent = SubSeq(sent, 1, First(sent) - 1)
  /\ PlainReceived = Counted(received, First(sent))
  /\ PlainSent' = SubSeq(sent', 1, First(sent') - 1)
  /\ PlainReceived' = Counted(received', First(sent'))
BY DEF PlainSent, PlainReceived, FirstOdd, First, Counted

LEMMA ChannelInit == Init => Channel!Init
<1> SUFFICES ASSUME Init PROVE Channel!Init
  OBVIOUS
<1>1. /\ sent = <<>> /\ received = <<>> /\ reader = "reading" /\ <<>> \in Seq(Messages)
      /\ Len(<<>>) = 0
  BY DEF Init
<1>2. First(<<>>) = 1
  <2>1. First(<<>>) \in 1..Len(<<>>) + 1
    BY <1>1, FirstIs, Zenon
  <2> QED BY <1>1, <2>1
<1>3. PlainSent = <<>> /\ PlainReceived = <<>>
  <2>1. SubSeq(<<>>, 1, 0) = <<>>
    OBVIOUS
  <2> QED BY <1>1, <1>2, <2>1, ChannelPoints DEF Counted
<1> QED BY <1>1, <1>3 DEF Channel!Init

\* A packet goes into the channel, or comes behind one that is not plain.
LEMMA SendMaps ==
  ASSUME Inv, NEW p \in Packets, Send(p)
  PROVE  [Channel!Next]_Channel!vars
<1>1. sent' = Append(sent, p) /\ UNCHANGED <<received, reader>>
  BY DEF Send
<1>2. sent \in Seq(Messages) /\ received \in Seq(Messages) /\ p \in Messages
  BY PacketsAreMessages DEF Inv, Typed
<1>3. First(sent) \in 1..Len(sent) + 1 /\ Len(sent) \in Nat /\ Len(received) \in Nat
  BY TrackPoints
<1>4. /\ First(sent) <= Len(sent) => First(sent') = First(sent)
      /\ First(sent) = Len(sent) + 1 =>
           First(sent') = IF Plain(p) THEN First(sent) + 1 ELSE First(sent)
  BY <1>1, <1>2, FirstMoves
<1>5. CASE First(sent') = First(sent)
  <2>1. First(sent) - 1 \in 0..Len(sent)
    BY <1>3
  <2>2. PlainSent' = PlainSent
    BY <1>1, <1>2, <1>5, <2>1, ChannelPoints, PrefixAppend
  <2>3. PlainReceived' = PlainReceived
    BY <1>1, <1>5, ChannelPoints
  <2> QED BY <1>1, <2>2, <2>3 DEF Channel!vars
<1>6. CASE First(sent') # First(sent)
  <2>1. First(sent) = Len(sent) + 1 /\ First(sent') = First(sent) + 1
    BY <1>3, <1>4, <1>6
  <2>2. PlainSent = sent
    BY <1>2, <1>3, <2>1, ChannelPoints, PrefixWhole
  <2>3. PlainSent' = sent'
    <3>1. sent' \in Seq(Messages) /\ Len(sent') = First(sent') - 1
      BY <1>1, <1>2, <1>3, <2>1, AppendPoints
    <3> QED BY <3>1, ChannelPoints, PrefixWhole
  <2>4. Len(received) < First(sent) /\ Len(received) < First(sent')
    <3>1. Len(received) < First(sent)
      BY <2>1 DEF Inv, Agree
    <3> QED BY <1>3, <2>1, <3>1
  <2>5. PlainReceived' = PlainReceived
    BY <1>1, <2>4, ChannelPoints DEF Counted
  <2>6. Channel!Send(p)
    BY <1>1, <2>2, <2>3, <2>5 DEF Channel!Send
  <2> QED BY <2>6 DEF Channel!Next
<1> QED BY <1>5, <1>6

\* A byte delivers the next plain packet, or ends the channel, or leaves it alone.
LEMMA ReadByteMaps ==
  ASSUME Inv, ReadByte
  PROVE  [Channel!Next]_Channel!vars
<1>1. reader = "reading" /\ UNCHANGED sent
  BY ReadPoints
<1>2. \/ \E p \in Messages : MagicFound(Grown) /\ Takes(p)
      \/ Continues
      \/ Gives
  BY ReadPoints
<1>3. sent \in Seq(Messages) /\ received \in Seq(Messages)
  BY DEF Inv, Typed
<1>4. /\ First(sent) \in 1..Len(sent) + 1 /\ Len(sent) \in Nat /\ Len(received) \in Nat
      /\ \A i \in 1..First(sent) - 1 : Plain(sent[i])
      /\ First(sent) <= Len(sent) => ~Plain(sent[First(sent)])
  BY TrackPoints
<1>5. PlainSent' = PlainSent
  BY <1>1, ChannelPoints
<1>6. ASSUME PlainReceived' = PlainReceived PROVE [Channel!Next]_Channel!vars
  <2>1. CASE reader' = reader
    BY <1>5, <1>6, <2>1 DEF Channel!vars
  <2>2. CASE Gives
    <3>1. (reader # "reading")' = TRUE
      BY <2>2 DEF Gives
    <3>2. Channel!End
      BY <1>5, <1>6, <3>1 DEF Channel!End
    <3> QED BY <3>2 DEF Channel!Next
  <2> QED BY <1>2, <2>1, <2>2 DEF Takes, Continues
<1>7. CASE received' = received
  BY <1>1, <1>6, <1>7, ChannelPoints
<1>8. ASSUME NEW p \in Messages, received' = Append(received, p), First(sent) <= Len(received) + 1
      PROVE  [Channel!Next]_Channel!vars
  <2>1. Len(received') = Len(received) + 1 /\ First(sent) - 1 \in 0..Len(received)
    BY <1>3, <1>4, <1>8, AppendPoints
  <2>2. PlainReceived' = SubSeq(received', 1, First(sent) - 1)
    BY <1>1, <1>4, <1>8, <2>1, ChannelPoints DEF Counted
  <2>3. SubSeq(received', 1, First(sent) - 1) = SubSeq(received, 1, First(sent) - 1)
    BY <1>3, <1>8, <2>1, PrefixAppend
  <2>4. PlainReceived = SubSeq(received, 1, First(sent) - 1)
    <3>1. CASE Len(received) < First(sent)
      <4>1. First(sent) - 1 = Len(received)
        BY <1>4, <1>8, <3>1
      <4> QED BY <1>3, <3>1, <4>1, ChannelPoints, PrefixWhole DEF Counted
    <3>2. CASE ~(Len(received) < First(sent))
      BY <3>2, ChannelPoints DEF Counted
    <3> QED BY <3>1, <3>2
  <2> QED BY <1>6, <2>2, <2>3, <2>4
<1>9. ASSUME NEW p \in Messages, MagicFound(Grown), Takes(p), ~(First(sent) <= Len(received) + 1)
      PROVE  [Channel!Next]_Channel!vars
  <2>1. OnTrack /\ Len(received) + 1 < First(sent) /\ Len(received) + 1 \in 1..Len(sent)
        /\ Len(received) + 1 \in 1..First(sent) - 1
    BY <1>1, <1>4, <1>9 DEF OnTrack
  <2>2. Plain(Due)
    BY <1>4, <2>1 DEF Due
  <2>3. Takes(Due)
    BY <1>9, <2>1, <2>2, PlainByte DEF Continues
  <2>4. Due \in Messages /\ received' = Append(received, Due) /\ UNCHANGED reader
    BY <1>3, <2>1, <2>3 DEF Due, Takes
  <2>5. Len(received') = Len(received) + 1
    BY <1>3, <2>4, AppendPoints
  <2>6. PlainReceived = received /\ PlainReceived' = received'
    BY <1>1, <1>4, <2>1, <2>5, ChannelPoints DEF Counted
  <2>7. Len(PlainSent) = First(sent) - 1 /\ PlainSent[Len(received) + 1] = Due
    <3>1. First(sent) - 1 \in 0..Len(sent)
      BY <1>4
    <3>2. /\ Len(SubSeq(sent, 1, First(sent) - 1)) = First(sent) - 1
          /\ \A i \in 1..First(sent) - 1 : SubSeq(sent, 1, First(sent) - 1)[i] = sent[i]
      BY <1>3, <3>1, PrefixPoints
    <3> QED BY <2>1, <3>2, ChannelPoints DEF Due
  <2>8. Len(PlainReceived) < Len(PlainSent)
    BY <1>4, <2>1, <2>6, <2>7
  <2>9. Channel!Deliver
    <3>1. PlainReceived' = Append(PlainReceived, PlainSent[Len(PlainReceived) + 1])
      BY <2>4, <2>6, <2>7
    <3>2. (reader # "reading")' = (reader # "reading") /\ ~(reader # "reading")
      BY <1>1, <2>4
    <3> QED BY <1>5, <2>8, <3>1, <3>2 DEF Channel!Deliver
  <2> QED BY <2>9 DEF Channel!Next
<1> QED BY <1>2, <1>7, <1>8, <1>9 DEF Takes, Continues, Gives

LEMMA OtherMaps ==
  ASSUME Inv, Cut \/ ReadEnd \/ UNCHANGED vars
  PROVE  [Channel!Next]_Channel!vars
<1>1. UNCHANGED <<sent, received>>
  BY DEF Cut, ReadEnd, vars
<1>2. PlainSent' = PlainSent /\ PlainReceived' = PlainReceived
  BY <1>1, ChannelPoints
<1>3. CASE reader' = reader
  BY <1>2, <1>3 DEF Channel!vars
<1>4. CASE ReadEnd
  <2>1. (reader # "reading")' = TRUE
    BY <1>4 DEF ReadEnd
  <2>2. Channel!End
    BY <1>2, <2>1 DEF Channel!End
  <2> QED BY <2>2 DEF Channel!Next
<1> QED BY <1>3, <1>4 DEF Cut, vars

LEMMA StepMaps == Inv /\ [Next]_vars => [Channel!Next]_Channel!vars
BY SendMaps, ReadByteMaps, OtherMaps DEF Next

\* The reader makes the bytes of a connection a packet channel up to the first packet that is
\* not plain: packets come out as they went in, in order and once, until it is over.
THEOREM ImplementsChannel == Spec => ChannelSpec
BY ChannelInit, StepMaps, Invariance, PTL DEF Spec, ChannelSpec, Channel!Spec
=============================================================================
