----------------------------- MODULE PacketCodec -----------------------------
(***************************************************************************)
(* One direction of a connection, byte by byte: a client encodes packets    *)
(* (an identifier of three bytes, a payload, a magic field), the server's    *)
(* readFromInputStream finds where a packet ends, decode and fromInt give it *)
(* its type.  Definitions named X_Y are X with a fault Y, to show that a       *)
(* property needs X.                                                          *)
(***************************************************************************)
EXTENDS Naturals, Sequences, SequencesExt

CONSTANTS
  MAGIC_FIELD,      \* the bytes that end a packet
  PACKET_MAX_SIZE,  \* the reader's limit
  Packets,          \* what the client may send: records of a type and a payload
  MaxPackets        \* bound: packets sent on the connection

ID_FIELD_LENGTH == 3
PACKET_MIN_SIZE == ID_FIELD_LENGTH + Len(MAGIC_FIELD)

ASSUME MagicAssumption == MAGIC_FIELD \in Seq(0..254) \ {<<>>}
ASSUME SizeAssumption  == PACKET_MAX_SIZE \in Nat /\ PACKET_MIN_SIZE < PACKET_MAX_SIZE
ASSUME BoundAssumption == MaxPackets \in Nat

VARIABLES
  sent,      \* history: packets the client has encoded
  wire,      \* bytes on their way
  up,        \* the client's end is still open
  buffer,    \* bytes of the packet being read
  received,  \* packets decoded
  reader     \* the reader's thread: reading, ended (clientServed), dead (exception)

vars == <<sent, wire, up, buffer, received, reader>>

-----------------------------------------------------------------------------
(* OperationalProtocolPacketType.                                           *)

Ids == [RegisterDisplayClientRequest    |-> 65536,   \* 0x010000
        UnregisterDisplayClientRequest  |-> 65537,   \* 0x010001
        RegisterControlClientRequest    |-> 131072,  \* 0x020000
        UnregisterControlClientRequest  |-> 131073,  \* 0x020001
        PayloadRequest                  |-> 196608,  \* 0x030000
        RegisterDisplayClientResponse   |-> 131071,  \* 0x01FFFF
        UnregisterDisplayClientResponse |-> 131070,  \* 0x01FFFE
        RegisterControlClientResponse   |-> 196607,  \* 0x02FFFF
        UnregisterControlClientResponse |-> 196606,  \* 0x02FFFE
        PayloadResponse                 |-> 262143,  \* 0x03FFFF
        UnknownPacket                   |-> 0]       \* 0x000000
Types == DOMAIN Ids

ASSUME PacketsAssumption == Packets \subseteq [type : Types, payload : Seq(0..255)]

TypeBytes(t) == <<Ids[t] \div 65536, (Ids[t] \div 256) % 256, Ids[t] % 256>>
IdOf(b)      == b[1] * 65536 + b[2] * 256 + b[3]

\* id & PayloadRequest.getId() == PayloadRequest.getId()
HasPayloadBits(id) == (id \div 65536) % 4 = 3

\* The if-chain: the mask comes before the responses are compared.
FromInt_AnyBit(id) ==
  IF (id \div 65536) % 4 # 0 THEN "PayloadRequest"
  ELSE LET exact == {t \in Types : Ids[t] = id}
       IN IF exact = {} THEN "UnknownPacket" ELSE CHOOSE t \in exact : TRUE
FromInt(id) ==
  IF HasPayloadBits(id) THEN "PayloadRequest"
  ELSE LET exact == {t \in Types : Ids[t] = id}
       IN IF exact = {} THEN "UnknownPacket" ELSE CHOOSE t \in exact : TRUE

-----------------------------------------------------------------------------
(* OperationalProtocolPacket.                                               *)

Encode(p) == TypeBytes(p.type) \o p.payload \o MAGIC_FIELD

Decode(b) == [type    |-> FromInt(IdOf(b)),
              payload |-> SubSeq(b, ID_FIELD_LENGTH + 1, Len(b) - Len(MAGIC_FIELD))]

\* The reader's tests after each byte.
MagicFound(b) == Len(b) >= PACKET_MIN_SIZE /\ IsSuffix(MAGIC_FIELD, b)
Full_Early(b) == Len(b) >= PACKET_MAX_SIZE - 1
Full_Never(b) == FALSE
Full(b) == Len(b) >= PACKET_MAX_SIZE

\* The buffer the next packet is read into.
NextBuffer(b) == <<>>

-----------------------------------------------------------------------------
Init ==
  /\ sent = <<>> /\ wire = <<>> /\ up = TRUE
  /\ buffer = <<>> /\ received = <<>> /\ reader = "reading"

\* The client writes a packet.
Send(p) ==
  /\ up /\ Len(sent) < MaxPackets
  /\ sent' = Append(sent, p)
  /\ wire' = wire \o Encode(p)
  /\ UNCHANGED <<up, buffer, received, reader>>

\* The client's end goes away: what was on its way arrives up to some byte.
Cut ==
  /\ up /\ up' = FALSE
  /\ \E n \in 0..Len(wire) : wire' = SubSeq(wire, 1, n)
  /\ UNCHANGED <<sent, buffer, received, reader>>

\* A packet is complete (and decode throws if its type is unknown), or the limit is
\* reached and the packet counts as empty, or there is more to read.
ReadByte ==
  /\ reader = "reading" /\ wire # <<>>
  /\ wire' = Tail(wire)
  /\ LET b == Append(buffer, Head(wire))
         p == Decode(b)
     IN \/ /\ MagicFound(b) /\ p.type # "UnknownPacket"
           /\ received' = Append(received, p)
           /\ buffer' = NextBuffer(b)
           /\ UNCHANGED reader
        \/ /\ MagicFound(b) /\ p.type = "UnknownPacket"
           /\ reader' = "dead" /\ buffer' = <<>>
           /\ UNCHANGED received
        \/ /\ ~MagicFound(b) /\ Full(b)
           /\ reader' = "ended" /\ buffer' = <<>>
           /\ UNCHANGED received
        \/ /\ ~MagicFound(b) /\ ~Full(b)
           /\ buffer' = b
           /\ UNCHANGED <<received, reader>>
  /\ UNCHANGED <<sent, up>>

\* The end of the stream reads as 255, which no magic field ends with: the bytes
\* read so far are dropped.
ReadEnd ==
  /\ reader = "reading" /\ wire = <<>> /\ ~up
  /\ reader' = "ended" /\ buffer' = <<>>
  /\ UNCHANGED <<sent, wire, up, received>>

Next == Cut \/ ReadByte \/ ReadEnd \/ \E p \in Packets : Send(p)

Spec == Init /\ [][Next]_vars

\* The reader's thread runs; the client need not send or leave.
FairSpec == Spec /\ WF_vars(ReadByte) /\ WF_vars(ReadEnd)

-----------------------------------------------------------------------------
(* Properties.                                                              *)

\* Packets the reader can find the end of: the magic field ends them and occurs
\* nowhere before.
Unambiguous(p) ==
  LET s == p.payload \o MAGIC_FIELD
  IN \A i \in 1..Len(p.payload) : SubSeq(s, i, i + Len(MAGIC_FIELD) - 1) # MAGIC_FIELD
Fits(p)  == ID_FIELD_LENGTH + Len(p.payload) + Len(MAGIC_FIELD) <= PACKET_MAX_SIZE
Plain(p) == Unambiguous(p) /\ Fits(p) /\ p.type \notin {"UnknownPacket", "PayloadResponse"}

\* The first packet sent that is not plain, or one past the last.
FirstOdd == CHOOSE n \in 1..Len(sent) + 1 :
              /\ \A i \in 1..n - 1 : Plain(sent[i])
              /\ n <= Len(sent) => ~Plain(sent[n])

\* A packet that is too long ends the connection: neither it, nor a piece of it, nor
\* what follows is ever taken for a packet.
NothingPastOversize ==
  FirstOdd <= Len(sent) /\ Unambiguous(sent[FirstOdd]) /\ ~Fits(sent[FirstOdd])
    => Len(received) < FirstOdd

\* Up to the first packet whose payload holds a magic field, is too long or has no type
\* of its own, the reader makes a connection a packet channel, wherever the bytes are
\* cut: packets come out as they went in, in order and once.
PlainSent     == SubSeq(sent, 1, FirstOdd - 1)
PlainReceived == IF Len(received) < FirstOdd THEN received ELSE SubSeq(received, 1, FirstOdd - 1)

Channel == INSTANCE PacketChannel
             WITH sent <- PlainSent, received <- PlainReceived, over <- reader # "reading"
ChannelSpec == Channel!Spec

\* They are all received, unless the client's end goes away first.
Delivery ==
  \A n \in 1..MaxPackets : Len(PlainSent) >= n ~> Len(PlainReceived) >= n \/ ~up
=============================================================================
