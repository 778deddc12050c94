---------------------------- MODULE MCPacketCodec ----------------------------
(* Model-checking parameters for PacketCodec: the real magic field and        *)
(* identifiers with a limit that leaves eight bytes of payload.              *)
EXTENDS PacketCodec

Magic == <<91, 33, 80, 85, 77, 80, 33, 93>>  \* [!PUMP!]

P(t, b) == [type |-> t, payload |-> b]

\* An empty payload; one that fills the packet and is a magic field but for its last
\* byte; one that is a byte too long; one of no type; one that holds a magic field.
SomePackets ==
  {P("RegisterDisplayClientRequest", <<>>),
   P("PayloadRequest", <<91, 33, 80, 85, 77, 80, 33, 91>>),
   P("PayloadRequest", [i \in 1..9 |-> 0]),
   P("UnknownPacket", <<0>>),
   P("RegisterControlClientRequest", Magic)}

=============================================================================
