----------------------- MODULE OperationalServer_proofs -----------------------
(***************************************************************************)
(* Proofs about OperationalServer, for every set of connections and hashes. *)
(***************************************************************************)
EXTENDS OperationalServer, TLAPS

-----------------------------------------------------------------------------
(* Types.                                                                   *)

LEMMA OtherRole == \A r \in Roles : Other(r) \in Roles /\ Other(r) # r /\ Other(Other(r)) = r
BY DEF Roles, Other

LEMMA IdleType == Idle \in Locals /\ NoPair \in [Roles -> Refs]
BY DEF Idle, Locals, NoPair, Refs, Roles

LEMMA PacketType ==
  ASSUME NEW t \in PacketTypes, NEW c \in Conns, NEW p \in Payloads
  PROVE  Packet(t, c, p) \in Packets /\ Packet(t, c, p).from = c
BY DEF Packet, Packets

LEMMA TypesOfPackets ==
  \A r \in Roles : /\ RegisterResponse(r) \in PacketTypes
                   /\ UnregisterRequest(r) \in PacketTypes
                   /\ UnregisterResponse(r) \in PacketTypes
BY DEF PacketTypes

LEMMA GotoType ==
  ASSUME TypeOK, LocalsInUse, NEW c \in Conns, NEW p \in Points, NEW l \in Locals,
         InUse(p, l), Goto(c, p, l)
  PROVE  /\ pc' \in [Conns -> Points] /\ loc' \in [Conns -> Locals]
         /\ \A d \in Conns : InUse(pc'[d], loc'[d])
BY DEF TypeOK, LocalsInUse, Goto

LEMMA AnswerType ==
  ASSUME TypeOK, LocalsInUse, NEW c \in Conns, NEW l \in Locals, Answer(c, l)
  PROVE  /\ pc' \in [Conns -> Points] /\ loc' \in [Conns -> Locals]
         /\ \A d \in Conns : InUse(pc'[d], loc'[d])
<1>1. CASE l.reply = None
  <2>1. InUse("read", Idle) /\ "read" \in Points
    BY DEF InUse, Points
  <2> QED BY <1>1, <2>1, GotoType, IdleType DEF Answer
<1>2. CASE l.reply # None
  <2>1. InUse("respond", l) /\ "respond" \in Points
    BY <1>2 DEF InUse, Points, Locals
  <2> QED BY <1>2, <2>1, GotoType DEF Answer
<1> QED BY <1>1, <1>2

LEMMA RelayType ==
  ASSUME TypeOK, LocalsInUse, NEW c \in Conns, NEW l \in Locals, l.msg \in Packets,
         Relay(c, l)
  PROVE  /\ pc' \in [Conns -> Points] /\ loc' \in [Conns -> Locals]
         /\ \A d \in Conns : InUse(pc'[d], loc'[d])
<1>1. CASE l.peer = None
  BY <1>1, AnswerType DEF Relay
<1>2. CASE l.peer # None
  <2>1. InUse("forward", l) /\ "forward" \in Points
    BY <1>2 DEF InUse, Points, Locals, Refs
  <2> QED BY <1>2, <2>1, GotoType DEF Relay
<1> QED BY <1>1, <1>2

LEMMA AnswersTyped ==
  ASSUME TypeOK, NEW c \in Conns, NEW r \in Roles
  PROVE  /\ HashAnswers(c, r) \subseteq Hashes \cup {None}
         /\ \A h \in Hashes \cup {None} : PeerAnswers(c, r, h) \subseteq Refs
         /\ ContainsAnswers(c, r) \subseteq BOOLEAN
<1>1. \A h \in Hashes : PairAnswers(c, h) \subseteq [Roles -> Refs]
  BY IdleType DEF PairAnswers, TypeOK
<1>2. \A h \in Hashes \cup {None} : PeerAnswers(c, r, h) \subseteq Refs
  BY <1>1 DEF PeerAnswers, Refs
<1>3. HashAnswers(c, r) \subseteq Hashes \cup {None}
  BY DEF HashAnswers, TypeOK
<1>4. ContainsAnswers(c, r) \subseteq BOOLEAN
  BY DEF ContainsAnswers
<1> QED BY <1>2, <1>3, <1>4

\* Packets written to a socket keep its buffer typed; a lost write leaves it alone.
LEMMA DeliverType ==
  ASSUME TypeOK, NEW p \in Conns, NEW m \in Packets, Deliver(p, m) \/ Gone(p)
  PROVE  buf' \in [Conns -> Seq(Packets)]
<1>1. Append(buf[p], m) \in Seq(Packets)
  BY DEF TypeOK
<1> QED BY <1>1 DEF Deliver, Gone, TypeOK

\* Each action keeps the types and the locals in use; first the environment and
\* the accept loop.
LEMMA ClientTypes ==
  ASSUME Typed, NEW c \in Conns, Client(c) \/ Collect(c)
  PROVE  Typed'
<1>1. <<>> \in Seq(Packets)
  OBVIOUS
<1>2. ASSUME buf[c] # <<>> PROVE Tail(buf[c]) \in Seq(Packets)
  BY <1>2 DEF Typed, TypeOK
<1> QED BY <1>1, <1>2
  DEF Typed, TypeOK, LocalsInUse, Client, Connect, Leave, Drain, Collect, worker, registry, history

LEMMA AcceptTypes ==
  ASSUME Typed, (\E c \in Conns : Accept(c)) \/ StartThread \/ ListConnection
  PROVE  Typed'
<1> USE NoneAssumption, AcceptorAssumption DEF Typed
<1>1. CASE \E c \in Conns : Accept(c)
  BY <1>1 DEF TypeOK, LocalsInUse, Accept, worker, registry, history, Refs
<1>2. CASE StartThread
  <2>1. acceptor \in Conns /\ "read" \in Points /\ InUse("read", Idle)
    BY <1>2 DEF StartThread, TypeOK, Refs, Points, InUse
  <2>2. /\ pc' \in [Conns -> Points] /\ loc' \in [Conns -> Locals]
        /\ \A d \in Conns : InUse(pc'[d], loc'[d])
    BY <1>2, <2>1, GotoType, IdleType DEF StartThread
  <2> QED BY <1>2, <2>1, <2>2 DEF TypeOK, LocalsInUse, StartThread, worker, registry, history
<1>3. CASE ListConnection
  <2>1. acceptor \in Conns
    BY <1>3 DEF TypeOK, LocalsInUse, ListConnection, Refs
  <2> QED BY <1>3, <2>1 DEF TypeOK, LocalsInUse, ListConnection, registry, history, Refs
<1> QED BY <1>1, <1>2, <1>3

LEMMA InputTypes ==
  ASSUME Typed, NEW c \in Conns, Input(c) \/ EndOfStream(c)
  PROVE  Typed'
<1> USE DEF Typed
<1>1. /\ InUse("dead", Idle) /\ InUse("closing", Idle)
      /\ \A k \in Requests \ {"regControl"} : InUse(k, Idle)
      /\ {"dead", "closing"} \cup Requests \subseteq Points
  BY DEF InUse, Points, Requests, Ended
<1>2. \A h \in Hashes : LET l == [Idle EXCEPT !.hash = h]
                       IN l \in Locals /\ InUse("regControl", l)
  BY IdleType DEF InUse, Locals, Idle
<1>3. "regControl" \in Requests
  BY DEF Requests
<1>4. \/ /\ pc' \in [Conns -> Points] /\ loc' \in [Conns -> Locals]
         /\ \A d \in Conns : InUse(pc'[d], loc'[d])
      \/ UNCHANGED <<pc, loc>>
  <2>1. CASE Receive(c)
    BY <2>1, <1>1, <1>2, <1>3, GotoType, IdleType DEF Receive
  <2>2. CASE ReceiveResponse(c)
    BY <2>2 DEF ReceiveResponse
  <2>3. CASE ReceiveMalformed(c)
    BY <2>3, <1>1, GotoType, IdleType DEF ReceiveMalformed
  <2>4. CASE ReceiveOversize(c)
    BY <2>4, <1>1, GotoType, IdleType DEF ReceiveOversize
  <2>5. CASE EndOfStream(c)
    BY <2>5, <1>1, GotoType, IdleType DEF EndOfStream
  <2> QED BY <2>1, <2>2, <2>3, <2>4, <2>5 DEF Input
<1>5. sent' \in [Conns -> 0..MaxRequests]
  <2>1. ASSUME Take(c) PROVE sent' \in [Conns -> 0..MaxRequests]
    BY <2>1, RequestsAssumption DEF Take, TypeOK
  <2> QED BY <2>1 DEF Input, Receive, ReceiveResponse, ReceiveMalformed, ReceiveOversize,
                      EndOfStream, TypeOK
<1>6. UNCHANGED <<link, ctx, worker, registry, buf, history>>
  BY DEF Input, Receive, ReceiveResponse, ReceiveMalformed, ReceiveOversize, EndOfStream, Take
<1> QED BY <1>4, <1>5, <1>6 DEF TypeOK, LocalsInUse, worker, registry, history

\* Control and locals after a step; what the remaining action lemmas have in common.
Placed == /\ pc' \in [Conns -> Points] /\ loc' \in [Conns -> Locals]
          /\ \A d \in Conns : InUse(pc'[d], loc'[d])

LEMMA RegisterTypes ==
  ASSUME Typed, NEW c \in Conns, NEW r \in Roles, NEW h \in Hashes, NEW seen \in BOOLEAN,
         Register(c, r, h, seen)
  PROVE  Typed'
<1> USE DEF Typed
<1>1. Placed /\ ctx' \in Refs
  <2>1. CASE ctx' = c /\ Goto(c, "store", [Idle EXCEPT !.role = r, !.hash = h, !.snap = pair[h]])
    <3>1. [Idle EXCEPT !.role = r, !.hash = h, !.snap = pair[h]] \in Locals
      BY IdleType DEF Locals, Idle, TypeOK
    <3>2. InUse("store", [Idle EXCEPT !.role = r, !.hash = h, !.snap = pair[h]])
      BY DEF InUse, Idle
    <3>3. "store" \in Points
      BY DEF Points
    <3> QED BY <2>1, <3>1, <3>2, <3>3, GotoType DEF Placed, Refs
  <2>2. ASSUME NEW why \in {"ALREADY_REGISTERED", "UNKNOWN_HASH"}, UNCHANGED ctx,
               Answer(c, [Idle EXCEPT !.reply = Packet(RegisterResponse(r), c, why)])
        PROVE  Placed /\ ctx' \in Refs
    <3>1. Packet(RegisterResponse(r), c, why) \in Packets
      BY PacketType, TypesOfPackets DEF Payloads
    <3>2. [Idle EXCEPT !.reply = Packet(RegisterResponse(r), c, why)] \in Locals
      BY <3>1, IdleType DEF Locals, Idle
    <3> QED BY <2>2, <3>2, AnswerType DEF Placed, TypeOK
  <2> QED BY <2>1, <2>2 DEF Register
<1>2. torn' \in BOOLEAN /\ UNCHANGED <<link, sent, worker, registry, buf, claims, stale>>
  BY DEF Register, TypeOK
<1> QED BY <1>1, <1>2 DEF Placed, TypeOK, LocalsInUse, worker, registry

LEMMA StoreTypes ==
  ASSUME Typed, NEW c \in Conns, Store(c)
  PROVE  Typed'
<1> USE DEF Typed
<1> DEFINE r == loc[c].role
           h == loc[c].hash
           reply == Packet(RegisterResponse(r), c, h)
           l == [Idle EXCEPT !.role = r, !.hash = h, !.msg = reply, !.reply = reply]
<1>1. r \in Roles /\ h \in Hashes /\ loc[c].snap \in [Roles -> Refs]
  BY DEF TypeOK, LocalsInUse, InUse, Store, Locals
<1>2. reply \in Packets
  BY <1>1, PacketType, TypesOfPackets DEF Payloads
<1>3. l \in Locals /\ InUse("respond", l) /\ InUse("tell", l)
  BY <1>1, <1>2, IdleType DEF Locals, Idle, InUse
<1>4. Placed
  <2>1. {"respond", "tell"} \subseteq Points
    BY DEF Points
  <2>2. Goto(c, "respond", l) \/ Goto(c, "tell", l)
    BY DEF Store
  <2> QED BY <1>3, <2>1, <2>2, GotoType DEF Placed
<1>5. pair' \in [Hashes -> [Roles -> Refs]] /\ known' \in SUBSET Hashes
  <2>1. [loc[c].snap EXCEPT ![r] = c] \in [Roles -> Refs]
    BY <1>1 DEF Refs
  <2> QED BY <1>1, <2>1 DEF Store, TypeOK
<1>6. hashOf' \in [Roles -> [Conns -> Hashes \cup {None}]]
  BY <1>1 DEF Store, TypeOK
<1>7. clients' \in [Roles -> SUBSET Conns] /\ torn' \in BOOLEAN
  <2> PICK lost \in MayRace(Removing(c, r)) :
        /\ torn' = (torn \/ lost)
        /\ clients' = IF lost THEN clients ELSE [clients EXCEPT ![r] = @ \cup {c}]
    BY DEF Store
  <2>1. lost \in BOOLEAN
    BY DEF MayRace
  <2>2. clients' \in [Roles -> SUBSET Conns]
    BY <1>1, <2>1 DEF TypeOK
  <2>3. torn' \in BOOLEAN
    BY <2>1 DEF TypeOK
  <2> QED BY <2>2, <2>3
<1>8. claims' \in SUBSET (Conns \X Roles \X Hashes) /\ stale' \in SUBSET Hashes
  BY <1>1 DEF Store, TypeOK
<1>9. ctx' \in Refs /\ UNCHANGED <<link, sent, worker, buf>>
  BY DEF Store, Refs
<1> QED BY <1>4, <1>5, <1>6, <1>7, <1>8, <1>9 DEF Placed, TypeOK, LocalsInUse, worker

LEMMA TellTypes ==
  ASSUME Typed, NEW c \in Conns, Tell(c)
  PROVE  Typed'
<1> USE DEF Typed
<1>1. loc[c] \in Locals /\ loc[c].hash \in Hashes /\ loc[c].msg \in Packets
  BY DEF TypeOK, LocalsInUse, InUse, Tell
<1>2. PICK p \in PeerAnswers(c, "display", loc[c].hash) :
        /\ torn' = (torn \/ p # Peer("display", loc[c].hash))
        /\ Relay(c, [loc[c] EXCEPT !.peer = p])
  BY DEF Tell
<1>3. p \in Refs
  BY <1>1, <1>2, AnswersTyped DEF Roles
<1>4. [loc[c] EXCEPT !.peer = p] \in Locals /\ [loc[c] EXCEPT !.peer = p].msg \in Packets
  BY <1>1, <1>3 DEF Locals
<1>5. Placed
  BY <1>2, <1>4, RelayType DEF Placed
<1> QED BY <1>2, <1>5 DEF Tell, Placed, TypeOK, LocalsInUse, worker, registry

LEMMA UnregisterTypes ==
  ASSUME Typed, NEW c \in Conns, NEW r \in Roles, Unregister(c, r)
  PROVE  Typed'
<1> USE DEF Typed
<1>1. PICK h \in HashAnswers(c, r) : \E p \in PeerAnswers(c, Other(r), h) :
         /\ torn' = (torn \/ h # hashOf[r][c] \/ p # Peer(Other(r), h))
         /\ \/ h = None /\ Goto(c, "dead", Idle)
            \/ /\ h # None
               /\ LET m == Packet(UnregisterResponse(r), c, h)
                  IN Relay(c, [Idle EXCEPT !.peer = p, !.msg = m, !.reply = m])
  BY DEF Unregister
<1>2. h \in Hashes \cup {None}
  BY <1>1, AnswersTyped
<1>3. Placed
  <2>1. CASE h = None
    <3>1. "dead" \in Points /\ InUse("dead", Idle)
      BY DEF Points, Ended, InUse
    <3> QED BY <1>1, <2>1, <3>1, GotoType, IdleType DEF Placed
  <2>2. CASE h # None
    <3> DEFINE m == Packet(UnregisterResponse(r), c, h)
    <3>1. PICK p \in PeerAnswers(c, Other(r), h) :
            Relay(c, [Idle EXCEPT !.peer = p, !.msg = m, !.reply = m])
      BY <1>1, <2>2
    <3>2. p \in Refs /\ m \in Packets
      BY <1>2, <2>2, <3>1, AnswersTyped, OtherRole, PacketType, TypesOfPackets DEF Payloads
    <3> DEFINE l == [Idle EXCEPT !.peer = p, !.msg = m, !.reply = m]
    <3>3. l \in Locals /\ l.msg \in Packets
      BY <3>2, IdleType DEF Locals, Idle
    <3> QED BY <3>1, <3>3, RelayType DEF Placed
  <2> QED BY <2>1, <2>2
<1>4. torn' \in BOOLEAN
  BY <1>1, <1>2 DEF TypeOK
<1> QED BY <1>3, <1>4 DEF Unregister, Placed, TypeOK, LocalsInUse, worker, registry

LEMMA PayloadTypes ==
  ASSUME Typed, NEW c \in Conns, Payload(c)
  PROVE  Typed'
<1> USE DEF Typed
<1>1. ASSUME NEW r \in Roles, RelayPayload(c, r)
      PROVE  Placed /\ torn' \in BOOLEAN
  <2> PICK h \in HashAnswers(c, r) : \E p \in PeerAnswers(c, Other(r), h) :
          /\ torn' = (torn \/ (r = "control" /\ c \in clients["display"])
                           \/ h # hashOf[r][c] \/ p # Peer(Other(r), h))
          /\ Relay(c, [Idle EXCEPT !.peer = p, !.msg = Packet("PayloadRequest", c, "DATA")])
    BY <1>1 DEF RelayPayload
  <2>1. PICK p \in PeerAnswers(c, Other(r), h) :
          /\ torn' = (torn \/ (r = "control" /\ c \in clients["display"])
                           \/ h # hashOf[r][c] \/ p # Peer(Other(r), h))
          /\ Relay(c, [Idle EXCEPT !.peer = p, !.msg = Packet("PayloadRequest", c, "DATA")])
    OBVIOUS
  <2> DEFINE m == Packet("PayloadRequest", c, "DATA")
             l == [Idle EXCEPT !.peer = p, !.msg = m]
  <2>2. m \in Packets /\ p \in Refs
    BY <2>1, AnswersTyped, OtherRole, PacketType DEF PacketTypes, Payloads
  <2>3. l \in Locals /\ l.msg \in Packets
    BY <2>2, IdleType DEF Locals, Idle
  <2> QED BY <2>1, <2>3, RelayType DEF Placed, TypeOK
<1>2. ASSUME torn' = (torn \/ \E r \in Roles : c \in clients[r]), Goto(c, "read", Idle)
      PROVE  Placed /\ torn' \in BOOLEAN
  <2>1. "read" \in Points /\ InUse("read", Idle)
    BY DEF Points, InUse
  <2> QED BY <1>2, <2>1, GotoType, IdleType DEF Placed, TypeOK
<1>3. Placed /\ torn' \in BOOLEAN
  BY <1>1, <1>2 DEF Payload, Roles
<1> QED BY <1>3 DEF Payload, Placed, TypeOK, LocalsInUse, worker, registry

LEMMA WriteTypes ==
  ASSUME Typed, NEW c \in Conns, Forward(c) \/ Respond(c)
  PROVE  Typed'
<1> USE DEF Typed
<1>1. {"read", "closing"} \subseteq Points /\ InUse("read", Idle) /\ InUse("closing", Idle)
  BY DEF Points, InUse
<1>2. CASE Forward(c)
  <2>1. loc[c] \in Locals /\ loc[c].peer \in Conns /\ loc[c].msg \in Packets
    BY <1>2 DEF Forward, TypeOK, LocalsInUse, InUse
  <2>2. buf' \in [Conns -> Seq(Packets)]
    BY <1>2, <2>1, DeliverType DEF Forward
  <2>3. Placed
    BY <1>1, <1>2, <2>1, AnswerType, GotoType, IdleType DEF Forward, Placed
  <2> QED BY <1>2, <2>2, <2>3 DEF Forward, Placed, TypeOK, LocalsInUse, worker, registry, history
<1>3. CASE Respond(c)
  <2>1. loc[c].reply \in Packets
    BY <1>3 DEF Respond, TypeOK, LocalsInUse, InUse
  <2>2. buf' \in [Conns -> Seq(Packets)]
    BY <1>3, <2>1, DeliverType DEF Respond
  <2>3. Placed
    BY <1>1, <1>3, GotoType, IdleType DEF Respond, Placed
  <2> QED BY <1>3, <2>2, <2>3 DEF Respond, Placed, TypeOK, LocalsInUse, worker, registry, history
<1> QED BY <1>2, <1>3

LEMMA BeginDisconnectTypes ==
  ASSUME Typed, NEW c \in Conns, BeginDisconnect(c)
  PROVE  Typed'
<1> USE NoneAssumption, AcceptorAssumption DEF Typed
<1>1. ASSUME NEW r \in Roles, LookupPartner(c, r)
      PROVE  Placed /\ torn' \in BOOLEAN /\ wrk' \in {c, None}
  <2> PICK h \in HashAnswers(c, r) : \E p \in PeerAnswers(c, Other(r), h) :
        /\ torn' = (torn \/ (r = "display" /\ c \in clients["control"])
                         \/ h # hashOf[r][c] \/ p # Peer(Other(r), h))
        /\ \/ h = None /\ wrk' = None /\ Goto(c, "aborted", Idle)
           \/ /\ h # None /\ wrk' = c
              /\ Goto(c, IF p = None THEN "unlist" ELSE "notify",
                      [Idle EXCEPT !.role = r, !.hash = h, !.peer = p,
                                   !.msg = IF p = None THEN None
                                           ELSE Packet(UnregisterRequest(Other(r)), c, h)])
    BY <1>1 DEF LookupPartner, Abort
  <2>1. h \in Hashes \cup {None}
    BY AnswersTyped
  <2>2. torn' \in BOOLEAN
    BY DEF TypeOK
  <2>3. CASE h = None /\ wrk' = None /\ Goto(c, "aborted", Idle)
    <3>1. "aborted" \in Points /\ InUse("aborted", Idle)
      BY DEF Points, Ended, InUse
    <3> QED BY <2>2, <2>3, <3>1, GotoType, IdleType DEF Placed
  <2>4. CASE h # None /\ wrk' = c
    <3> DEFINE m == Packet(UnregisterRequest(Other(r)), c, h)
               l(p) == [Idle EXCEPT !.role = r, !.hash = h, !.peer = p,
                                    !.msg = IF p = None THEN None ELSE m]
               point(p) == IF p = None THEN "unlist" ELSE "notify"
    <3>1. PICK p \in PeerAnswers(c, Other(r), h) : Goto(c, point(p), l(p))
      BY <2>4
    <3>2. h \in Hashes /\ p \in Refs /\ m \in Packets
      BY <2>1, <2>4, AnswersTyped, OtherRole, PacketType, TypesOfPackets DEF Payloads
    <3>3. l(p) \in Locals
      BY <3>2, IdleType DEF Locals, Idle
    <3>4. InUse(point(p), l(p)) /\ point(p) \in Points
      BY <3>2 DEF InUse, Idle, Refs, Points
    <3> HIDE DEF l, point
    <3> QED BY <2>2, <2>4, <3>1, <3>3, <3>4, GotoType DEF Placed
  <2> QED BY <2>3, <2>4
<1>2. ASSUME torn' = (torn \/ \E r \in Roles : c \in clients[r]), Goto(c, "done", Idle),
             UNCHANGED wrk
      PROVE  Placed /\ torn' \in BOOLEAN /\ wrk' = wrk
  <2>1. "done" \in Points /\ InUse("done", Idle)
    BY DEF Points, Ended, InUse
  <2> QED BY <1>2, <2>1, GotoType, IdleType DEF Placed, TypeOK
<1>3. Placed /\ torn' \in BOOLEAN /\ wrk' \in {c, None, wrk}
  BY <1>1, <1>2 DEF BeginDisconnect, Roles
<1>4. /\ wrk = None /\ listed' = listed \ {c}
      /\ UNCHANGED <<link, sent, ctx, acceptor, registry, buf, claims, stale>>
  BY DEF BeginDisconnect, WorkerFree
<1> QED BY <1>3, <1>4 DEF Placed, TypeOK, LocalsInUse, registry, Refs

LEMMA DisconnectTypes ==
  ASSUME Typed, NEW c \in Conns, Notify(c) \/ Unlist(c) \/ Unpair(c)
  PROVE  Typed'
<1> USE NoneAssumption, AcceptorAssumption DEF Typed
<1>1. {"unlist", "unpair", "aborted", "done"} \subseteq Points
      /\ InUse("aborted", Idle) /\ InUse("done", Idle)
  BY DEF Points, Ended, InUse
<1>2. loc[c] \in Locals /\ loc[c].role \in Roles /\ loc[c].hash \in Hashes
  BY DEF TypeOK, LocalsInUse, InUse, Locals, Notify, Unlist, Abort, Unpair
<1>3. CASE Notify(c)
  <2>1. loc[c].peer \in Conns /\ loc[c].msg \in Packets
    BY <1>3 DEF Notify, LocalsInUse, InUse
  <2>2. buf' \in [Conns -> Seq(Packets)]
    BY <1>3, <2>1, DeliverType DEF Notify
  <2>3. [loc[c] EXCEPT !.peer = None, !.msg = None] \in Locals
    BY <1>2 DEF Locals, Refs
  <2>4. InUse("unlist", [loc[c] EXCEPT !.peer = None, !.msg = None])
    BY <1>2 DEF InUse, Locals
  <2>5. Placed /\ wrk' \in {wrk, None}
    BY <1>1, <1>3, <2>3, <2>4, GotoType, IdleType DEF Notify, Abort, Placed
  <2> QED BY <1>3, <2>2, <2>5 DEF Notify, Abort, Placed, TypeOK, LocalsInUse, registry, history, Refs
<1>4. CASE Unlist(c)
  <2>1. pair[loc[c].hash] \in [Roles -> Refs]
    BY <1>2 DEF TypeOK
  <2>2. [loc[c] EXCEPT !.snap = pair[loc[c].hash]] \in Locals
    BY <1>2, <2>1 DEF Locals
  <2>3. InUse("unpair", [loc[c] EXCEPT !.snap = pair[loc[c].hash]])
    BY <1>2 DEF InUse, Locals
  <2>4. Placed /\ wrk' \in {wrk, None}
    BY <1>1, <1>4, <2>2, <2>3, GotoType, IdleType DEF Unlist, Abort, Placed
  <2>5. clients' \in [Roles -> SUBSET Conns]
    BY <1>2, <1>4 DEF Unlist, Abort, RemoveClient, MayRace, TypeOK
  <2>6. torn' \in BOOLEAN
    BY <1>4 DEF Unlist, Abort, TypeOK
  <2> QED BY <1>4, <2>4, <2>5, <2>6 DEF Unlist, Abort, ForgetHash, Placed, TypeOK, LocalsInUse, Refs
<1>5. CASE Unpair(c)
  <2>1. [loc[c].snap EXCEPT ![loc[c].role] = None] \in [Roles -> Refs]
    BY <1>2 DEF Locals, Refs
  <2>2. pair' \in [Hashes -> [Roles -> Refs]] /\ stale' \in SUBSET Hashes
    <3>1. CASE UNCHANGED <<pair, stale>>
      BY <3>1 DEF TypeOK
    <3>2. CASE pair' = [pair EXCEPT ![loc[c].hash] = WithoutSide(loc[c].snap, loc[c].role)]
               /\ stale' \subseteq stale \cup {loc[c].hash}
      BY <1>2, <2>1, <3>2 DEF TypeOK, WithoutSide
    <3> QED BY <1>5, <3>1, <3>2 DEF Unpair
  <2>3. torn' \in BOOLEAN
    BY <1>5 DEF Unpair, TypeOK
  <2>4. Placed
    BY <1>1, <1>5, GotoType, IdleType DEF Unpair, Placed
  <2> QED BY <1>5, <2>2, <2>3, <2>4 DEF Unpair, Placed, TypeOK, LocalsInUse, Refs
<1> QED BY <1>3, <1>4, <1>5

LEMMA TypedInit == Init => Typed
<1> SUFFICES ASSUME Init PROVE Typed
  OBVIOUS
<1>1. <<>> \in Seq(Packets) /\ "absent" \in Points /\ InUse("absent", Idle)
  BY DEF Points, InUse
<1>2. LocalsInUse
  BY <1>1, AcceptorAssumption DEF Init, LocalsInUse
<1>3. sent \in [Conns -> 0..MaxRequests] /\ buf \in [Conns -> Seq(Packets)]
  BY <1>1, RequestsAssumption DEF Init
<1>4. TypeOK
  BY <1>1, <1>3, IdleType DEF Init, TypeOK, Refs
<1> QED BY <1>2, <1>4 DEF Typed

LEMMA TypedStep == Typed /\ [Next]_vars => Typed'
<1> SUFFICES ASSUME Typed, [Next]_vars PROVE Typed'
  OBVIOUS
<1>1. CASE UNCHANGED vars
  BY <1>1 DEF vars, worker, registry, history, Typed, TypeOK, LocalsInUse
<1>2. CASE StartThread \/ ListConnection
  BY <1>2, AcceptTypes
<1>3. ASSUME NEW c \in Conns,
             \/ Accept(c) \/ Client(c) \/ Collect(c) \/ Input(c)
             \/ EndOfStream(c) \/ Handle(c) \/ Disconnect(c)
      PROVE  Typed'
  <2>1. CASE Accept(c) \/ Client(c) \/ Collect(c) \/ Input(c) \/ EndOfStream(c)
    BY <2>1, AcceptTypes, ClientTypes, InputTypes
  <2>2. CASE RegisterDisplayClient(c)
    BY <2>2, RegisterTypes, AnswersTyped DEF RegisterDisplayClient, Roles, Typed
  <2>3. CASE RegisterControlClient(c)
    <3>1. loc[c].hash \in Hashes
      BY <2>3 DEF RegisterControlClient, Typed, LocalsInUse, InUse
    <3> QED BY <2>3, <3>1, RegisterTypes, AnswersTyped DEF RegisterControlClient, Roles, Typed
  <2>4. CASE Store(c) \/ Tell(c) \/ (\E r \in Roles : Unregister(c, r)) \/ Payload(c)
    BY <2>4, StoreTypes, TellTypes, UnregisterTypes, PayloadTypes
  <2>5. CASE Forward(c) \/ Respond(c)
    BY <2>5, WriteTypes
  <2>6. CASE Disconnect(c)
    BY <2>6, BeginDisconnectTypes, DisconnectTypes DEF Disconnect
  <2> QED BY <1>3, <2>1, <2>2, <2>3, <2>4, <2>5, <2>6 DEF Handle
<1> QED BY <1>1, <1>2, <1>3 DEF Next

\* In every reachable state the variables have their types and every thread the
\* locals its control point uses: no null peer, packet or hash is dereferenced
\* past the checks of handleClientRequest and handleClientDisconnection.
THEOREM TypeCorrect == Spec => []Typed
BY TypedInit, TypedStep, PTL DEF Spec

-----------------------------------------------------------------------------
(* The sides of a pair.                                                     *)

\* Only the thread of c has moved.
OnlyMoves(c) == \A d \in Conns \ {c} : pc'[d] = pc[d] /\ loc'[d] = loc[d]

LEMMA Moves ==
  ASSUME TypeOK, NEW c \in Conns
  PROVE  /\ \A p, l : Goto(c, p, l) => OnlyMoves(c) /\ pc'[c] = p /\ loc'[c] = l
         /\ \A l : Answer(c, l) => OnlyMoves(c) /\ pc'[c] \in {"read", "respond"}
         /\ \A l : Relay(c, l) => OnlyMoves(c) /\ pc'[c] \in {"read", "respond", "forward"}
<1>1. \A p, l : Goto(c, p, l) => OnlyMoves(c) /\ pc'[c] = p /\ loc'[c] = l
  BY DEF Goto, OnlyMoves, TypeOK
<1>2. \A l : Answer(c, l) => OnlyMoves(c) /\ pc'[c] \in {"read", "respond"}
  BY <1>1 DEF Answer
<1>3. \A l : Relay(c, l) => OnlyMoves(c) /\ pc'[c] \in {"read", "respond", "forward"}
  BY <1>1, <1>2 DEF Relay
<1> QED BY <1>1, <1>2, <1>3

\* The points of a thread that holds a monitor.
Guarded == {"store", "notify", "unlist", "unpair"}

\* Steps that touch neither the monitors nor the pairs leave the invariant alone.
LEMMA CalmStep ==
  ASSUME TypeOK, NEW c \in Conns,
         \/ Accept(c) \/ Client(c) \/ Collect(c) \/ Input(c) \/ EndOfStream(c) \/ Tell(c)
         \/ (\E r \in Roles : Unregister(c, r)) \/ Payload(c) \/ Forward(c) \/ Respond(c)
  PROVE  /\ UNCHANGED <<pair, ctx, wrk>>
         /\ \/ UNCHANGED <<pc, loc>>
            \/ OnlyMoves(c) /\ pc'[c] \notin Guarded
<1>1. CASE Accept(c) \/ Client(c) \/ Collect(c)
  BY <1>1 DEF Accept, Client, Connect, Leave, Drain, Collect, worker, registry
<1>2. CASE Input(c) \/ EndOfStream(c)
  <2>1. UNCHANGED <<pair, ctx, wrk>>
    BY <1>2 DEF Input, Receive, ReceiveResponse, ReceiveMalformed, ReceiveOversize, Take,
                EndOfStream, worker, registry
  <2>2. (\E p \in Requests \cup {"dead", "closing"} : \E l : Goto(c, p, l)) \/ UNCHANGED <<pc, loc>>
    BY <1>2 DEF Input, Receive, ReceiveResponse, ReceiveMalformed, ReceiveOversize,
                EndOfStream, Requests
  <2> QED BY <2>1, <2>2, Moves DEF Guarded, Requests
<1>3. CASE Tell(c)
  <2>1. UNCHANGED <<pair, ctx, wrk>> /\ \E l : Relay(c, l)
    BY <1>3 DEF Tell, worker, registry
  <2> QED BY <2>1, Moves DEF Guarded
<1>4. CASE \E r \in Roles : Unregister(c, r)
  <2>1. UNCHANGED <<pair, ctx, wrk>> /\ \E l : Relay(c, l) \/ Goto(c, "dead", l)
    BY <1>4 DEF Unregister, worker, registry
  <2> QED BY <2>1, Moves DEF Guarded
<1>5. CASE Payload(c)
  <2>1. UNCHANGED <<pair, ctx, wrk>> /\ \E l : Relay(c, l) \/ Goto(c, "read", l)
    BY <1>5 DEF Payload, RelayPayload, worker, registry
  <2> QED BY <2>1, Moves DEF Guarded
<1>6. CASE Forward(c) \/ Respond(c)
  <2>1. /\ UNCHANGED <<pair, ctx, wrk>>
        /\ \E l : Answer(c, l) \/ Goto(c, "read", l) \/ Goto(c, "closing", l)
    BY <1>6 DEF Forward, Respond, worker, registry
  <2> QED BY <2>1, Moves DEF Guarded
<1> QED BY <1>1, <1>2, <1>3, <1>4, <1>5, <1>6

\* A side that is taken keeps its client or is emptied.
SlotsKept == \A h \in Hashes, r \in Roles : pair[h][r] # None => pair'[h][r] \in {pair[h][r], None}

LEMMA CalmKeeps ==
  ASSUME SlotInv, NEW c \in Conns, UNCHANGED <<pair, ctx, wrk>>,
         UNCHANGED <<pc, loc>> \/ (OnlyMoves(c) /\ pc'[c] \notin Guarded)
  PROVE  MonitorsHeld' /\ SnapshotsUsable' /\ SlotsKept
<1>1. \A d \in Conns : pc'[d] \in Guarded => pc'[d] = pc[d] /\ loc'[d] = loc[d]
  BY DEF OnlyMoves
<1> QED BY <1>1 DEF SlotInv, Typed, MonitorsHeld, SnapshotsUsable, SlotsKept, Guarded

\* The accept loop takes and leaves the worker's monitor.
LEMMA AcceptKeeps ==
  ASSUME SlotInv, StartThread \/ ListConnection
  PROVE  MonitorsHeld' /\ SnapshotsUsable' /\ SlotsKept
<1> USE NoneAssumption, AcceptorAssumption DEF SlotInv, Typed
<1>1. CASE StartThread
  <2>1. acceptor \in Conns
    BY <1>1 DEF StartThread, TypeOK, Refs
  <2>2. /\ OnlyMoves(acceptor) /\ pc'[acceptor] = "read"
        /\ UNCHANGED <<pair, ctx>> /\ wrk = None
    BY <1>1, <2>1, Moves DEF StartThread, registry, WorkerFree
  <2>3. \A d \in Conns : pc'[d] \in Guarded => pc'[d] = "store" /\ pc[d] = "store" /\ loc'[d] = loc[d]
    BY <2>2 DEF OnlyMoves, MonitorsHeld, Guarded
  <2> QED BY <2>2, <2>3 DEF MonitorsHeld, SnapshotsUsable, SlotsKept, Guarded
<1>2. CASE ListConnection
  BY <1>2 DEF ListConnection, MonitorsHeld, SnapshotsUsable, SlotsKept, registry
<1> QED BY <1>1, <1>2

\* A registration enters the monitor with the pair as it is.
LEMMA RegisterKeeps ==
  ASSUME SlotInv, NEW c \in Conns, NEW r \in Roles, NEW h \in Hashes, NEW seen \in BOOLEAN,
         pc[c] \in {"regDisplay", "regControl"}, Register(c, r, h, seen)
  PROVE  MonitorsHeld' /\ SnapshotsUsable' /\ SlotsKept
<1> USE NoneAssumption DEF SlotInv, Typed
<1>1. UNCHANGED <<pair, wrk>> /\ ctx = None
  BY DEF Register, registry, worker, ContextFree
<1>2. CASE UNCHANGED ctx /\ OnlyMoves(c) /\ pc'[c] \notin Guarded
  BY <1>1, <1>2, CalmKeeps
<1>3. CASE /\ pair[h][r] = None /\ ctx' = c
           /\ Goto(c, "store", [Idle EXCEPT !.role = r, !.hash = h, !.snap = pair[h]])
  <2>1. /\ OnlyMoves(c) /\ pc'[c] = "store"
        /\ loc'[c].role = r /\ loc'[c].hash = h /\ loc'[c].snap = pair[h]
    <3>1. loc'[c] = [Idle EXCEPT !.role = r, !.hash = h, !.snap = pair[h]]
      BY <1>3, Moves
    <3> QED BY <1>3, <3>1, Moves DEF Idle
  <2>2. \A d \in Conns \ {c} : pc[d] # "store"
    BY <1>1 DEF MonitorsHeld
  <2>3. MonitorsHeld'
    BY <1>1, <1>3, <2>1, <2>2 DEF MonitorsHeld, OnlyMoves
  <2>4. SnapshotsUsable'
    BY <1>1, <1>3, <2>1, <2>2 DEF SnapshotsUsable, OnlyMoves
  <2> QED BY <1>1, <2>3, <2>4 DEF SlotsKept
<1>4. (UNCHANGED ctx /\ OnlyMoves(c) /\ pc'[c] \notin Guarded) \/
      (/\ pair[h][r] = None /\ ctx' = c
       /\ Goto(c, "store", [Idle EXCEPT !.role = r, !.hash = h, !.snap = pair[h]]))
  BY Moves DEF Register, Guarded, SideFree
<1> QED BY <1>2, <1>3, <1>4

\* A registration puts its pair back: the other side has not changed hands.
LEMMA StoreKeeps ==
  ASSUME SlotInv, NEW c \in Conns, Store(c)
  PROVE  MonitorsHeld' /\ SnapshotsUsable' /\ SlotsKept
<1> USE NoneAssumption DEF SlotInv, Typed
<1> DEFINE r == loc[c].role
           h == loc[c].hash
           snap == loc[c].snap
<1>1. /\ r \in Roles /\ Other(r) \in Roles /\ Other(r) # r /\ h \in Hashes
      /\ snap \in [Roles -> Refs] /\ pair[h] \in [Roles -> Refs]
      /\ \A q \in Roles : q = r \/ q = Other(r)
  BY OtherRole DEF Store, TypeOK, LocalsInUse, InUse, Locals, Roles
<1>2. /\ pc[c] = "store" /\ ctx = c
      /\ pair[h][r] = None
      /\ pair[h][Other(r)] # None => snap[Other(r)] = pair[h][Other(r)]
  BY DEF Store, MonitorsHeld, SnapshotsUsable
<1>3. /\ ctx' = None /\ UNCHANGED wrk
      /\ pair' = [pair EXCEPT ![h] = [snap EXCEPT ![r] = c]]
      /\ OnlyMoves(c) /\ pc'[c] \in {"respond", "tell"}
  BY Moves DEF Store, worker
<1>4. /\ pair'[h][r] = c /\ pair'[h][Other(r)] = snap[Other(r)]
      /\ \A g \in Hashes \ {h} : pair'[g] = pair[g]
  BY <1>1, <1>3 DEF TypeOK
<1>5. \A d \in Conns \ {c} : pc[d] # "store" /\ pc'[d] = pc[d] /\ loc'[d] = loc[d]
  BY <1>2, <1>3 DEF MonitorsHeld, OnlyMoves
<1>6. MonitorsHeld'
  BY <1>3, <1>5 DEF MonitorsHeld
<1>7. SnapshotsUsable'
  <2> SUFFICES ASSUME NEW d \in Conns \ {c}, pc[d] = "unpair",
                      loc[d].snap[Other(loc[d].role)] # None
               PROVE  loc[d].snap[Other(loc[d].role)] = pair'[loc[d].hash][Other(loc[d].role)]
    BY <1>3, <1>5 DEF SnapshotsUsable
  <2>1. /\ loc[d].snap[Other(loc[d].role)] = pair[loc[d].hash][Other(loc[d].role)]
        /\ loc[d].hash \in Hashes /\ loc[d].role \in Roles
    BY DEF SnapshotsUsable, TypeOK, LocalsInUse, InUse, Locals
  <2>2. CASE loc[d].hash # h
    BY <1>4, <2>1, <2>2
  <2>3. CASE loc[d].hash = h
    <3>1. Other(loc[d].role) = Other(r)
      BY <1>1, <1>2, <2>1, <2>3, OtherRole
    <3> QED BY <1>2, <1>4, <2>1, <2>3, <3>1
  <2> QED BY <2>2, <2>3
<1>8. SlotsKept
  BY <1>1, <1>2, <1>4 DEF SlotsKept
<1> QED BY <1>6, <1>7, <1>8

\* A disconnection enters and holds the worker's monitor.
LEMMA DisconnectKeeps ==
  ASSUME SlotInv, NEW c \in Conns, BeginDisconnect(c) \/ Notify(c) \/ Unlist(c)
  PROVE  MonitorsHeld' /\ SnapshotsUsable' /\ SlotsKept
<1> USE NoneAssumption DEF SlotInv, Typed
<1>1. /\ UNCHANGED <<pair, ctx>>
      /\ OnlyMoves(c)
      /\ pc[c] \in {"closing", "notify", "unlist"} /\ pc'[c] # "store"
      /\ wrk = None \/ wrk = c
      /\ wrk' = c \/ pc'[c] \notin Guarded
  <2>1. CASE BeginDisconnect(c)
    <3>1. UNCHANGED <<pair, ctx>> /\ wrk = None /\ pc[c] = "closing"
      BY <2>1 DEF BeginDisconnect, registry, WorkerFree
    <3>2. \/ \E l : wrk' = c /\ Goto(c, "unlist", l)
          \/ \E l : wrk' = c /\ Goto(c, "notify", l)
          \/ \E p \in {"aborted", "done"} : \E l : Goto(c, p, l)
      BY <2>1 DEF BeginDisconnect, LookupPartner, Abort
    <3> QED BY <3>1, <3>2, Moves DEF Guarded
  <2>2. CASE Notify(c) \/ Unlist(c)
    <3>1. UNCHANGED <<pair, ctx>> /\ pc[c] \in {"notify", "unlist"} /\ wrk = c
      BY <2>2 DEF Notify, Unlist, Abort, registry, MonitorsHeld
    <3>2. \/ \E p \in {"unlist", "unpair"} : \E l : UNCHANGED wrk /\ Goto(c, p, l)
          \/ \E l : Goto(c, "aborted", l)
      BY <2>2 DEF Notify, Unlist, Abort
    <3> QED BY <3>1, <3>2, Moves DEF Guarded
  <2> QED BY <2>1, <2>2
<1>2. \A d \in Conns \ {c} : pc'[d] = pc[d] /\ loc'[d] = loc[d]
                             /\ pc[d] \notin {"notify", "unlist", "unpair"}
  BY <1>1 DEF MonitorsHeld, OnlyMoves
<1>3. MonitorsHeld'
  BY <1>1, <1>2 DEF MonitorsHeld, Guarded
<1>4. ASSUME pc'[c] = "unpair"
      PROVE  loc'[c].snap = pair[loc'[c].hash]
  <2>1. Unlist(c)
    <3>1. CASE BeginDisconnect(c)
      <4>1. \E p \in {"unlist", "notify", "aborted", "done"} : \E l : Goto(c, p, l)
        BY <3>1 DEF BeginDisconnect, LookupPartner, Abort
      <4> QED BY <1>4, <4>1, Moves
    <3>2. CASE Notify(c)
      <4>1. \E p \in {"unlist", "aborted"} : \E l : Goto(c, p, l)
        BY <3>2 DEF Notify, Abort
      <4> QED BY <1>4, <4>1, Moves
    <3> QED BY <3>1, <3>2
  <2>2. Goto(c, "unpair", [loc[c] EXCEPT !.snap = pair[loc[c].hash]])
    BY <1>4, <2>1, Moves DEF Unlist, Abort
  <2>3. loc'[c] = [loc[c] EXCEPT !.snap = pair[loc[c].hash]]
    BY <2>2, Moves
  <2> QED BY <2>3 DEF TypeOK, Locals
<1>5. SnapshotsUsable'
  BY <1>1, <1>2, <1>4 DEF SnapshotsUsable
<1> QED BY <1>1, <1>3, <1>5 DEF SlotsKept

\* A disconnection puts its pair back: what it holds of the other side is what is
\* there, or nothing.
LEMMA UnpairKeeps ==
  ASSUME SlotInv, NEW c \in Conns, Unpair(c)
  PROVE  MonitorsHeld' /\ SnapshotsUsable' /\ SlotsKept
<1> USE NoneAssumption DEF SlotInv, Typed
<1> DEFINE r == loc[c].role
           h == loc[c].hash
           snap == loc[c].snap
<1>1. /\ r \in Roles /\ Other(r) \in Roles /\ Other(r) # r /\ h \in Hashes
      /\ snap \in [Roles -> Refs] /\ pair[h] \in [Roles -> Refs]
      /\ \A q \in Roles : q = r \/ q = Other(r)
  BY OtherRole DEF Unpair, TypeOK, LocalsInUse, InUse, Locals, Roles
<1>2. /\ pc[c] = "unpair" /\ wrk = c
      /\ snap[Other(r)] # None => snap[Other(r)] = pair[h][Other(r)]
  BY DEF Unpair, MonitorsHeld, SnapshotsUsable
<1>3. UNCHANGED ctx /\ OnlyMoves(c) /\ pc'[c] = "done"
  BY Moves DEF Unpair
<1>4. \A d \in Conns \ {c} : /\ pc'[d] = pc[d] /\ loc'[d] = loc[d]
                             /\ pc[d] \notin {"notify", "unlist", "unpair"}
  BY <1>2, <1>3 DEF MonitorsHeld, OnlyMoves
<1>5. MonitorsHeld'
  BY <1>3, <1>4 DEF MonitorsHeld
<1>6. CASE UNCHANGED pair
  BY <1>3, <1>4, <1>5, <1>6 DEF SnapshotsUsable, SlotsKept
<1>7. CASE pair' = [pair EXCEPT ![h] = [snap EXCEPT ![r] = None]]
  <2>1. /\ pair'[h][r] = None /\ pair'[h][Other(r)] = snap[Other(r)]
        /\ \A g \in Hashes \ {h} : pair'[g] = pair[g]
    BY <1>1, <1>7 DEF TypeOK
  <2>2. \A g \in Hashes, q \in Roles : pair'[g][q] # None => pair'[g][q] = pair[g][q]
    BY <1>1, <1>2, <2>1
  <2>3. SnapshotsUsable'
    <3> SUFFICES ASSUME NEW d \in Conns \ {c}, pc[d] = "store"
                 PROVE  /\ pair'[loc[d].hash][loc[d].role] = None
                        /\ pair'[loc[d].hash][Other(loc[d].role)] # None =>
                             loc[d].snap[Other(loc[d].role)] = pair'[loc[d].hash][Other(loc[d].role)]
      BY <1>3, <1>4 DEF SnapshotsUsable
    <3>1. loc[d].hash \in Hashes /\ loc[d].role \in Roles /\ Other(loc[d].role) \in Roles
      BY OtherRole DEF TypeOK, LocalsInUse, InUse, Locals
    <3> QED BY <2>2, <3>1 DEF SnapshotsUsable
  <2> QED BY <1>5, <2>2, <2>3 DEF SlotsKept
<1> QED BY <1>6, <1>7 DEF Unpair, WithoutSide

LEMMA SlotInvInit == Init => SlotInv
<1>1. Init => MonitorsHeld /\ SnapshotsUsable
  BY DEF Init, MonitorsHeld, SnapshotsUsable
<1> QED BY <1>1, TypedInit DEF SlotInv, Typed

LEMMA SlotInvStep == SlotInv /\ [Next]_vars => SlotInv' /\ (SlotsKept \/ UNCHANGED vars)
<1> SUFFICES ASSUME SlotInv, [Next]_vars
             PROVE  Typed' /\ MonitorsHeld' /\ SnapshotsUsable' /\ (SlotsKept \/ UNCHANGED vars)
  BY DEF SlotInv, Typed
<1>1. Typed'
  BY TypedStep DEF SlotInv, Typed
<1>2. CASE UNCHANGED vars
  BY <1>1, <1>2 DEF vars, worker, registry, SlotInv, MonitorsHeld, SnapshotsUsable
<1>3. CASE StartThread \/ ListConnection
  BY <1>1, <1>3, AcceptKeeps
<1>4. ASSUME NEW c \in Conns,
             \/ Accept(c) \/ Client(c) \/ Collect(c) \/ Input(c)
             \/ EndOfStream(c) \/ Handle(c) \/ Disconnect(c)
      PROVE  MonitorsHeld' /\ SnapshotsUsable' /\ SlotsKept
  <2>1. CASE \/ Accept(c) \/ Client(c) \/ Collect(c) \/ Input(c) \/ EndOfStream(c) \/ Tell(c)
             \/ (\E r \in Roles : Unregister(c, r)) \/ Payload(c) \/ Forward(c) \/ Respond(c)
    BY <2>1, CalmStep, CalmKeeps DEF SlotInv, Typed
  <2>2. CASE RegisterDisplayClient(c)
    BY <2>2, RegisterKeeps, AnswersTyped DEF RegisterDisplayClient, Roles, SlotInv, Typed
  <2>3. CASE RegisterControlClient(c)
    <3>1. loc[c].hash \in Hashes
      BY <2>3 DEF RegisterControlClient, SlotInv, Typed, LocalsInUse, InUse
    <3> QED BY <2>3, <3>1, RegisterKeeps, AnswersTyped DEF RegisterControlClient, Roles, SlotInv, Typed
  <2>4. CASE Store(c)
    BY <2>4, StoreKeeps
  <2>5. CASE BeginDisconnect(c) \/ Notify(c) \/ Unlist(c)
    BY <2>5, DisconnectKeeps
  <2>6. CASE Unpair(c)
    BY <2>6, UnpairKeeps
  <2> QED BY <1>4, <2>1, <2>2, <2>3, <2>4, <2>5, <2>6 DEF Handle, Disconnect
<1> QED BY <1>1, <1>2, <1>3, <1>4 DEF Next

\* Whatever the interleaving of registrations and disconnections, which run under
\* two different monitors, no client is ever displaced from its side of a pair.
THEOREM SlotsNotStolen == Spec => SlotNeverStolen
<1>1. SlotsKept \/ UNCHANGED vars => [\A h \in Hashes, r \in Roles :
        pair[h][r] # None => pair'[h][r] \in {pair[h][r], None}]_vars
  BY DEF SlotsKept
<1>2. SlotInv /\ [Next]_vars => [\A h \in Hashes, r \in Roles :
        pair[h][r] # None => pair'[h][r] \in {pair[h][r], None}]_vars
  BY <1>1, SlotInvStep
<1>3. Spec => []SlotInv
  BY SlotInvInit, SlotInvStep, PTL DEF Spec
<1> QED BY <1>2, <1>3, PTL DEF Spec, SlotNeverStolen

-----------------------------------------------------------------------------
(* Listing: clientServed and clientDisconnected find their connection in the *)
(* worker's list.                                                         *)

\* The points of a thread whose connection has not been listed or is no longer.
Unlisted == {"absent", "notify", "unlist", "unpair", "done", "aborted"}

\* A thread that runs is listed, or is about to be by the accept loop, which keeps
\* the worker's monitor until then; a connection still to be started has no thread.
ThreadsListed ==
  /\ \A c \in Conns : pc[c] \notin Unlisted => c \in listed \/ (acceptor = c /\ wrk = Acceptor)
  /\ \A c \in Conns : acceptor = c /\ wrk # Acceptor => pc[c] = "absent"

ListingInv == SlotInv /\ ThreadsListed

\* What the callbacks' steps do not do: leave "closing" without being listed.
LeavesListed == \A c \in Conns : pc[c] = "closing" /\ pc'[c] # "closing" => c \in listed

LEMMA ListingInvInit == Init => ListingInv
<1>1. Init => ThreadsListed
  BY NoneAssumption DEF Init, ThreadsListed, Unlisted
<1> QED BY <1>1, SlotInvInit DEF ListingInv

\* The clients and the collector touch neither threads nor the list.
LEMMA ClientListing ==
  ASSUME ListingInv, NEW c \in Conns, Client(c) \/ Collect(c)
  PROVE  ThreadsListed' /\ LeavesListed
<1>1. UNCHANGED <<pc, wrk, acceptor, listed>>
  BY DEF Client, Connect, Leave, Drain, Collect, worker
<1> QED BY <1>1 DEF ListingInv, ThreadsListed, LeavesListed

\* The accept loop starts a thread and lists it in one hold of the monitor.
LEMMA AcceptListing ==
  ASSUME ListingInv, (\E c \in Conns : Accept(c)) \/ StartThread \/ ListConnection
  PROVE  ThreadsListed' /\ LeavesListed
<1> USE NoneAssumption, AcceptorAssumption DEF ListingInv, ThreadsListed
<1>1. CASE \E c \in Conns : Accept(c)
  BY <1>1 DEF Accept, LeavesListed
<1>2. CASE StartThread
  <2>1. acceptor \in Conns /\ TypeOK
    BY <1>2 DEF StartThread, SlotInv, Typed, TypeOK, Refs
  <2>2. /\ OnlyMoves(acceptor) /\ pc'[acceptor] = "read" /\ pc[acceptor] = "absent"
        /\ wrk = None /\ wrk' = Acceptor /\ UNCHANGED <<acceptor, listed>>
    BY <1>2, <2>1, Moves DEF StartThread, WorkerFree, Refs
  <2>3. \A d \in Conns \ {acceptor} : pc'[d] = pc[d]
    BY <2>2 DEF OnlyMoves
  <2> QED BY <2>1, <2>2, <2>3 DEF LeavesListed, Unlisted
<1>3. CASE ListConnection
  BY <1>3 DEF ListConnection, LeavesListed
<1> QED BY <1>1, <1>2, <1>3

\* Reading and handling a request: one running thread moves, not to disconnect.
LEMMA ServingMoves ==
  ASSUME TypeOK, NEW c \in Conns, Input(c) \/ EndOfStream(c) \/ Handle(c)
  PROVE  /\ UNCHANGED <<wrk, acceptor, listed>> /\ OnlyMoves(c)
         /\ pc[c] \notin Unlisted \cup {"closing", "dead"}
<1>1. CASE Input(c) \/ EndOfStream(c)
  <2>1. UNCHANGED <<wrk, acceptor, listed>> /\ pc[c] = "read"
    BY <1>1 DEF Input, Receive, ReceiveResponse, ReceiveMalformed, ReceiveOversize, Take,
                Reading, EndOfStream, worker
  <2>2. (\E p, l : Goto(c, p, l)) \/ UNCHANGED <<pc, loc>>
    BY <1>1 DEF Input, Receive, ReceiveResponse, ReceiveMalformed, ReceiveOversize, EndOfStream
  <2>3. OnlyMoves(c)
    BY <2>2, Moves DEF OnlyMoves
  <2> QED BY <2>1, <2>3 DEF Unlisted
<1>2. CASE RegisterDisplayClient(c) \/ RegisterControlClient(c)
  <2>1. UNCHANGED <<wrk, acceptor, listed>> /\ pc[c] \in {"regDisplay", "regControl"}
    BY <1>2 DEF RegisterDisplayClient, RegisterControlClient, Register, worker
  <2>2. \E l : Answer(c, l) \/ \E p : Goto(c, p, l)
    BY <1>2 DEF RegisterDisplayClient, RegisterControlClient, Register
  <2> QED BY <2>1, <2>2, Moves DEF Unlisted
<1>3. CASE Store(c) \/ Tell(c)
  <2>1. UNCHANGED <<wrk, acceptor, listed>> /\ pc[c] \in {"store", "tell"}
    BY <1>3 DEF Store, Tell, worker
  <2>2. \E l : Relay(c, l) \/ \E p : Goto(c, p, l)
    BY <1>3 DEF Store, Tell
  <2> QED BY <2>1, <2>2, Moves DEF Unlisted
<1>4. CASE (\E r \in Roles : Unregister(c, r)) \/ Payload(c)
  <2>1. /\ UNCHANGED <<wrk, acceptor, listed>>
        /\ pc[c] \in {"unregDisplay", "unregControl", "payload"}
    BY <1>4 DEF Unregister, Payload, worker
  <2>2. \E l : Relay(c, l) \/ \E p : Goto(c, p, l)
    BY <1>4 DEF Unregister, Payload, RelayPayload
  <2> QED BY <2>1, <2>2, Moves DEF Unlisted
<1>5. CASE Forward(c) \/ Respond(c)
  <2>1. UNCHANGED <<wrk, acceptor, listed>> /\ pc[c] \in {"forward", "respond"}
    BY <1>5 DEF Forward, Respond, worker
  <2>2. \E l : Answer(c, l) \/ \E p : Goto(c, p, l)
    BY <1>5 DEF Forward, Respond
  <2> QED BY <2>1, <2>2, Moves DEF Unlisted
<1> QED BY <1>1, <1>2, <1>3, <1>4, <1>5 DEF Handle

LEMMA ServingListing ==
  ASSUME ListingInv, NEW c \in Conns, Input(c) \/ EndOfStream(c) \/ Handle(c)
  PROVE  ThreadsListed' /\ LeavesListed
<1>1. /\ UNCHANGED <<wrk, acceptor, listed>> /\ OnlyMoves(c)
      /\ pc[c] \notin Unlisted \cup {"closing"}
  BY ServingMoves DEF ListingInv, SlotInv, Typed
<1>2. \A d \in Conns \ {c} : pc'[d] = pc[d]
  BY <1>1 DEF OnlyMoves
<1> QED BY <1>1, <1>2 DEF ListingInv, ThreadsListed, LeavesListed, Unlisted

\* A disconnection begins when nobody has the monitor, so when every running thread
\* is listed, and keeps the accept loop out until it ends.
LEMMA DisconnectListing ==
  ASSUME ListingInv, NEW c \in Conns, Disconnect(c)
  PROVE  ThreadsListed' /\ LeavesListed
<1> USE NoneAssumption, AcceptorAssumption DEF ListingInv, SlotInv, Typed
<1>1. /\ UNCHANGED acceptor /\ OnlyMoves(c)
      /\ pc'[c] \in Unlisted /\ wrk' \in {None, c} /\ wrk # Acceptor
      /\ pc[c] \in {"closing", "notify", "unlist", "unpair"}
      /\ listed' = listed \ {c} \/ (listed' = listed /\ pc[c] # "closing")
  <2>1. CASE BeginDisconnect(c)
    <3>1. /\ UNCHANGED acceptor /\ wrk = None /\ pc[c] = "closing" /\ listed' = listed \ {c}
          /\ wrk' \in {None, c}
      BY <2>1 DEF BeginDisconnect, LookupPartner, Abort, WorkerFree
    <3>2. \E p \in {"unlist", "notify", "aborted", "done"} : \E l : Goto(c, p, l)
      BY <2>1 DEF BeginDisconnect, LookupPartner, Abort
    <3> QED BY <3>1, <3>2, Moves DEF Unlisted
  <2>2. CASE Notify(c) \/ Unlist(c) \/ Unpair(c)
    <3>1. /\ UNCHANGED <<acceptor, listed>> /\ wrk = c /\ wrk' \in {None, c}
          /\ pc[c] \in {"notify", "unlist", "unpair"}
      BY <2>2 DEF Notify, Unlist, Unpair, Abort, MonitorsHeld
    <3>2. \E p \in {"unlist", "unpair", "aborted", "done"} : \E l : Goto(c, p, l)
      BY <2>2 DEF Notify, Unlist, Unpair, Abort
    <3> QED BY <3>1, <3>2, Moves DEF Unlisted
  <2> QED BY <2>1, <2>2 DEF Disconnect
<1>2. \A d \in Conns \ {c} : pc'[d] = pc[d]
  BY <1>1 DEF OnlyMoves
<1>3. \A d \in Conns : pc[d] \notin Unlisted => d \in listed
  BY <1>1 DEF ThreadsListed
<1>4. acceptor # c
  BY <1>1 DEF ThreadsListed
<1> QED BY <1>1, <1>2, <1>3, <1>4 DEF ThreadsListed, LeavesListed, Unlisted

LEMMA ListingInvStep ==
  ListingInv /\ [Next]_vars => ListingInv' /\ (LeavesListed \/ UNCHANGED vars)
<1> SUFFICES ASSUME ListingInv, [Next]_vars
             PROVE  ThreadsListed' /\ (LeavesListed \/ UNCHANGED vars)
  BY SlotInvStep DEF ListingInv
<1>1. CASE UNCHANGED vars
  BY <1>1 DEF vars, worker, ListingInv, ThreadsListed
<1>2. CASE (\E c \in Conns : Accept(c)) \/ StartThread \/ ListConnection
  BY <1>2, AcceptListing
<1>3. ASSUME NEW c \in Conns,
             \/ Client(c) \/ Collect(c) \/ Input(c) \/ EndOfStream(c) \/ Handle(c) \/ Disconnect(c)
      PROVE  ThreadsListed' /\ LeavesListed
  BY <1>3, ClientListing, ServingListing, DisconnectListing
<1> QED BY <1>1, <1>2, <1>3 DEF Next

\* A callback never misses its connection in _operationalServerClientConnections:
\* the thread may fail before the accept loop has listed it, but cannot get the
\* monitor the callback needs.
THEOREM CallbacksFindListed == Spec => ServedIsListed
<1>1. ListingInv /\ [Next]_vars =>
        [\A c \in Conns : pc[c] = "closing" /\ pc'[c] # "closing" => c \in listed]_vars
  BY ListingInvStep DEF LeavesListed
<1>2. Spec => []ListingInv
  BY ListingInvInit, ListingInvStep, PTL DEF Spec
<1> QED BY <1>1, <1>2, PTL DEF Spec, ServedIsListed

-----------------------------------------------------------------------------
(* Packets are relayed between partners only: the proof of Isolation from     *)
(* LookupsBacked.                                                             *)

IsolationInv == Typed /\ LookupsBacked /\ Isolation

LEMMA PartnersSymmetric ==
  ASSUME NEW S, NEW c, NEW d, Partners(S, c, d)
  PROVE  Partners(S, d, c)
BY OtherRole DEF Partners

LEMMA PartnersGrow ==
  ASSUME NEW S, NEW T, S \subseteq T, NEW c, NEW d, Partners(S, c, d)
  PROVE  Partners(T, c, d)
BY DEF Partners

LEMMA BackedGrows ==
  ASSUME NEW S, NEW T, S \subseteq T, NEW c, NEW p, NEW l, Backed(S, c, p, l)
  PROVE  Backed(T, c, p, l)
BY PartnersGrow DEF Backed

\* Points of a thread that hold nothing looked up.
LEMMA NothingHeld ==
  ASSUME NEW S, NEW c,
         NEW p \in {"absent", "read", "closing"} \cup Requests \cup Ended, NEW l
  PROVE  Backed(S, c, p, l)
BY DEF Backed, Requests, Ended

\* What the lookups return is backed.
LEMMA LookupBacked ==
  ASSUME Typed, LookupsBacked, NEW c \in Conns, NEW r \in Roles
  PROVE  /\ \A h \in HashAnswers(c, r) : h = None \/ <<c, r, h>> \in claims
         /\ \A h \in Hashes \cup {None} : \A p \in PeerAnswers(c, Other(r), h) :
              p = None \/ <<p, Other(r), h>> \in claims
<1>1. \A h \in HashAnswers(c, r) : h = None \/ <<c, r, h>> \in claims
  BY DEF HashAnswers, LookupsBacked
<1>2. ASSUME NEW h \in Hashes \cup {None}, NEW p \in PeerAnswers(c, Other(r), h), p # None
      PROVE  <<p, Other(r), h>> \in claims
  <2>1. PICK q \in PairAnswers(c, h) : p = q[Other(r)]
    BY <1>2 DEF PeerAnswers
  <2>2. q = pair[h] /\ h \in Hashes
    BY <1>2, <2>1, OtherRole DEF PairAnswers, NoPair, PeerAnswers
  <2> QED BY <1>2, <2>1, <2>2, OtherRole DEF LookupsBacked
<1> QED BY <1>1, <1>2

\* A thread that moves to a backed point keeps all threads backed.
LEMMA GotoBacked ==
  ASSUME Typed, LookupsBacked, NEW c \in Conns, NEW p, NEW l, Goto(c, p, l),
         claims \subseteq claims', Backed(claims', c, p, l)
  PROVE  \A d \in Conns : Backed(claims', d, pc'[d], loc'[d])
<1> SUFFICES ASSUME NEW d \in Conns PROVE Backed(claims', d, pc'[d], loc'[d])
  OBVIOUS
<1>1. CASE d = c
  <2>1. pc'[c] = p /\ loc'[c] = l
    BY Moves DEF Typed
  <2> QED BY <1>1, <2>1
<1>2. CASE d # c
  <2>1. pc'[d] = pc[d] /\ loc'[d] = loc[d]
    BY <1>2, Moves DEF Typed, OnlyMoves
  <2>2. Backed(claims, d, pc[d], loc[d])
    BY DEF LookupsBacked
  <2> QED BY <2>1, <2>2, BackedGrows
<1> QED BY <1>1, <1>2

LEMMA AnswerBacked ==
  ASSUME Typed, LookupsBacked, NEW c \in Conns, NEW l, Answer(c, l), UNCHANGED claims,
         l.reply = None \/ l.reply.from = c
  PROVE  \A d \in Conns : Backed(claims', d, pc'[d], loc'[d])
<1>1. CASE l.reply = None
  <2>1. Backed(claims', c, "read", Idle)
    BY NothingHeld
  <2> QED BY <1>1, <2>1, GotoBacked DEF Answer
<1>2. CASE l.reply # None
  <2>1. Backed(claims', c, "respond", l)
    BY <1>2 DEF Backed
  <2> QED BY <1>2, <2>1, GotoBacked DEF Answer
<1> QED BY <1>1, <1>2

LEMMA RelayBacked ==
  ASSUME Typed, LookupsBacked, NEW c \in Conns, NEW l, Relay(c, l), UNCHANGED claims,
         l.reply = None \/ l.reply.from = c, l.msg.from = c,
         l.peer = None \/ Partners(claims, c, l.peer)
  PROVE  \A d \in Conns : Backed(claims', d, pc'[d], loc'[d])
<1>1. CASE l.peer = None
  BY <1>1, AnswerBacked DEF Relay
<1>2. CASE l.peer # None
  <2>1. Backed(claims', c, "forward", l)
    BY <1>2 DEF Backed
  <2> QED BY <1>2, <2>1, GotoBacked DEF Relay
<1> QED BY <1>1, <1>2

\* A write to oneself or to a partner keeps every socket's content in its pair.
LEMMA WriteIsolated ==
  ASSUME Typed, Isolation, UNCHANGED claims, NEW p \in Conns, NEW m \in Packets,
         m.from = p \/ Partners(claims, p, m.from), Deliver(p, m) \/ Gone(p)
  PROVE  Isolation'
<1>1. CASE Gone(p)
  BY <1>1 DEF Gone, Isolation
<1>2. CASE Deliver(p, m)
  <2> SUFFICES ASSUME NEW c \in Conns, NEW i \in 1..Len(buf'[c])
               PROVE  buf'[c][i].from = c \/ Partners(claims, c, buf'[c][i].from)
    BY DEF Isolation
  <2>1. buf \in [Conns -> Seq(Packets)] /\ buf' = [buf EXCEPT ![p] = Append(@, m)]
    BY <1>2 DEF Typed, TypeOK, Deliver
  <2>2. CASE c # p
    BY <2>1, <2>2 DEF Isolation
  <2>3. CASE c = p
    <3>1. buf'[p] = Append(buf[p], m) /\ buf[p] \in Seq(Packets)
      BY <2>1
    <3>2. CASE i = Len(buf[p]) + 1
      BY <2>3, <3>1, <3>2
    <3>3. CASE i \in 1..Len(buf[p])
      BY <2>3, <3>1, <3>3 DEF Isolation
    <3> QED BY <2>3, <3>1, <3>2, <3>3
  <2> QED BY <2>2, <2>3
<1> QED BY <1>1, <1>2

\* The client's own move, the accept loop and the reading of a request look nothing
\* up and write nothing.
LEMMA QuietBacked ==
  ASSUME IsolationInv, NEW c \in Conns,
         Accept(c) \/ Client(c) \/ Collect(c) \/ Input(c) \/ EndOfStream(c)
  PROVE  LookupsBacked' /\ Isolation'
<1> USE DEF IsolationInv
<1>1. UNCHANGED <<pair, hashOf, claims>>
  BY DEF Accept, Client, Connect, Leave, Drain, Collect, Input, Receive, ReceiveResponse,
         ReceiveMalformed, ReceiveOversize, Take, EndOfStream, registry, history
<1>2. LookupsBacked'
  <2>1. \/ UNCHANGED <<pc, loc>>
        \/ \E p \in Requests \cup {"dead", "closing"} : \E l : Goto(c, p, l)
    BY DEF Accept, Client, Connect, Leave, Drain, Collect, Input, Receive, ReceiveResponse,
           ReceiveMalformed, ReceiveOversize, EndOfStream, Requests
  <2>2. CASE UNCHANGED <<pc, loc>>
    BY <1>1, <2>2 DEF LookupsBacked
  <2>3. CASE \E p \in Requests \cup {"dead", "closing"} : \E l : Goto(c, p, l)
    <3>1. \A d \in Conns : Backed(claims', d, pc'[d], loc'[d])
      BY <1>1, <2>3, NothingHeld, GotoBacked DEF Ended
    <3> QED BY <1>1, <3>1 DEF LookupsBacked
  <2> QED BY <2>1, <2>2, <2>3
<1>3. Isolation'
  <2>1. buf' = buf \/ (\E d \in Conns : buf' = [buf EXCEPT ![d] = <<>>]) \/ Drain(c)
    BY DEF Accept, Client, Connect, Leave, Collect, Input, Receive, ReceiveResponse,
           ReceiveMalformed, ReceiveOversize, Take, EndOfStream
  <2>2. CASE buf' = buf
    BY <1>1, <2>2 DEF Isolation
  <2>3. CASE \E d \in Conns : buf' = [buf EXCEPT ![d] = <<>>]
    BY <1>1, <2>3 DEF Isolation, Typed, TypeOK
  <2>4. CASE Drain(c)
    <3>1. /\ buf' = [buf EXCEPT ![c] = Tail(@)] /\ buf[c] \in Seq(Packets) /\ buf[c] # <<>>
          /\ buf \in [Conns -> Seq(Packets)]
      BY <2>4 DEF Drain, Typed, TypeOK
    <3>2. \A i \in 1..Len(buf'[c]) : i + 1 \in 1..Len(buf[c]) /\ buf'[c][i] = buf[c][i + 1]
      BY <3>1
    <3>3. \A d \in Conns \ {c} : buf'[d] = buf[d]
      BY <3>1
    <3> QED BY <1>1, <3>2, <3>3 DEF Isolation
  <2> QED BY <2>1, <2>2, <2>3, <2>4
<1> QED BY <1>2, <1>3

LEMMA StartBacked ==
  ASSUME IsolationInv, StartThread \/ ListConnection
  PROVE  LookupsBacked' /\ Isolation'
<1> USE NoneAssumption DEF IsolationInv
<1>1. UNCHANGED <<pair, hashOf, claims, buf>>
  BY DEF StartThread, ListConnection, registry, history
<1>2. CASE StartThread
  <2>1. acceptor \in Conns
    BY <1>2 DEF StartThread, Typed, TypeOK, Refs
  <2>2. \A d \in Conns : Backed(claims', d, pc'[d], loc'[d])
    BY <1>1, <1>2, <2>1, NothingHeld, GotoBacked DEF StartThread
  <2> QED BY <1>1, <2>2 DEF LookupsBacked, Isolation
<1>3. CASE ListConnection
  BY <1>1, <1>3 DEF ListConnection, LookupsBacked, Isolation
<1> QED BY <1>2, <1>3

LEMMA RegisterBacked ==
  ASSUME IsolationInv, NEW c \in Conns, NEW r \in Roles, NEW h \in Hashes, NEW seen \in BOOLEAN,
         Register(c, r, h, seen)
  PROVE  LookupsBacked' /\ Isolation'
<1> USE DEF IsolationInv
<1>1. UNCHANGED <<pair, hashOf, claims, buf>>
  BY DEF Register, registry
<1>2. CASE Goto(c, "store", [Idle EXCEPT !.role = r, !.hash = h, !.snap = pair[h]])
  <2> DEFINE l == [Idle EXCEPT !.role = r, !.hash = h, !.snap = pair[h]]
  <2>1. l.snap = pair[h] /\ l.hash = h
    BY DEF Idle
  <2>2. Backed(claims', c, "store", l)
    BY <1>1, <2>1 DEF Backed, LookupsBacked
  <2>3. \A d \in Conns : Backed(claims', d, pc'[d], loc'[d])
    BY <1>1, <1>2, <2>2, GotoBacked
  <2> QED BY <1>1, <2>3 DEF LookupsBacked, Isolation
<1>3. ASSUME NEW why, Answer(c, [Idle EXCEPT !.reply = Packet(RegisterResponse(r), c, why)])
      PROVE  LookupsBacked' /\ Isolation'
  <2>1. [Idle EXCEPT !.reply = Packet(RegisterResponse(r), c, why)].reply.from = c
    BY DEF Idle, Packet
  <2>2. \A d \in Conns : Backed(claims', d, pc'[d], loc'[d])
    BY <1>1, <1>3, <2>1, AnswerBacked
  <2> QED BY <1>1, <2>2 DEF LookupsBacked, Isolation
<1> QED BY <1>2, <1>3 DEF Register

LEMMA StoreBacked ==
  ASSUME IsolationInv, NEW c \in Conns, Store(c)
  PROVE  LookupsBacked' /\ Isolation'
<1> USE DEF IsolationInv
<1> DEFINE r == loc[c].role
           h == loc[c].hash
           snap == loc[c].snap
           reply == Packet(RegisterResponse(r), c, h)
           l == [Idle EXCEPT !.role = r, !.hash = h, !.msg = reply, !.reply = reply]
<1>1. r \in Roles /\ h \in Hashes /\ snap \in [Roles -> Refs] /\ pc[c] = "store"
  BY DEF Store, Typed, TypeOK, LocalsInUse, InUse, Locals
<1>2. /\ claims' = claims \cup {<<c, r, h>>} /\ UNCHANGED buf
      /\ pair' = [pair EXCEPT ![h] = [snap EXCEPT ![r] = c]]
      /\ hashOf' = [hashOf EXCEPT ![r][c] = h]
  BY DEF Store
<1>3. \A q \in Roles : snap[q] = None \/ <<snap[q], q, h>> \in claims
  BY <1>1 DEF LookupsBacked, Backed
<1>4. \A g \in Hashes, q \in Roles : pair'[g][q] # None => <<pair'[g][q], q, g>> \in claims'
  <2>1. \A q \in Roles : pair'[h][q] = (IF q = r THEN c ELSE snap[q])
    BY <1>1, <1>2 DEF Typed, TypeOK
  <2>2. \A g \in Hashes \ {h} : pair'[g] = pair[g]
    BY <1>1, <1>2 DEF Typed, TypeOK
  <2> QED BY <1>1, <1>2, <1>3, <2>1, <2>2 DEF LookupsBacked
<1>5. \A q \in Roles, d \in Conns : hashOf'[q][d] # None => <<d, q, hashOf'[q][d]>> \in claims'
  <2>1. \A q \in Roles, d \in Conns :
          hashOf'[q][d] = (IF q = r /\ d = c THEN h ELSE hashOf[q][d])
    BY <1>1, <1>2 DEF Typed, TypeOK
  <2> QED BY <1>2, <2>1 DEF LookupsBacked
<1>6. l.reply.from = c /\ l.msg.from = c /\ l.hash = h /\ l.role = r
  BY DEF Idle, Packet
<1>7. \A d \in Conns : Backed(claims', d, pc'[d], loc'[d])
  <2>1. CASE r = "display"
    <3>1. Backed(claims', c, "respond", l)
      BY <1>6 DEF Backed
    <3> QED BY <1>2, <2>1, <3>1, GotoBacked DEF Store
  <2>2. CASE r = "control"
    <3>1. Backed(claims', c, "tell", l)
      BY <1>2, <1>6, <2>2 DEF Backed
    <3> QED BY <1>2, <2>2, <3>1, GotoBacked DEF Store
  <2> QED BY <1>1, <2>1, <2>2 DEF Roles
<1>8. Isolation'
  BY <1>2, PartnersGrow DEF Isolation
<1> QED BY <1>4, <1>5, <1>7, <1>8 DEF LookupsBacked

\* Announcing, answering an unregistration and relaying a payload write to a peer
\* looked up from the thread's own registration.
LEMMA TellBacked ==
  ASSUME IsolationInv, NEW c \in Conns, Tell(c)
  PROVE  LookupsBacked' /\ Isolation'
<1> USE DEF IsolationInv
<1>1. UNCHANGED <<pair, hashOf, claims, buf>>
  BY DEF Tell, registry
<1>2. /\ loc[c] \in Locals /\ loc[c].hash \in Hashes /\ loc[c].role = "control"
      /\ <<c, "control", loc[c].hash>> \in claims
      /\ loc[c].msg.from = c /\ (loc[c].reply = None \/ loc[c].reply.from = c)
  BY DEF Tell, Typed, TypeOK, LocalsInUse, InUse, LookupsBacked, Backed
<1>3. PICK p \in PeerAnswers(c, "display", loc[c].hash) : Relay(c, [loc[c] EXCEPT !.peer = p])
  BY DEF Tell
<1>4. p = None \/ Partners(claims, c, p)
  <2>1. "control" \in Roles /\ Other("control") = "display"
    BY DEF Roles, Other
  <2>2. p = None \/ <<p, "display", loc[c].hash>> \in claims
    BY <1>2, <1>3, <2>1, LookupBacked
  <2> QED BY <1>2, <2>1, <2>2 DEF Partners
<1>5. \A d \in Conns : Backed(claims', d, pc'[d], loc'[d])
  <2> DEFINE l == [loc[c] EXCEPT !.peer = p]
  <2>1. l.peer = p /\ l.msg = loc[c].msg /\ l.reply = loc[c].reply
    BY <1>2 DEF Locals
  <2> QED BY <1>1, <1>2, <1>3, <1>4, <2>1, RelayBacked
<1> QED BY <1>1, <1>5 DEF LookupsBacked, Isolation

LEMMA UnregisterBacked ==
  ASSUME IsolationInv, NEW c \in Conns, NEW r \in Roles, Unregister(c, r)
  PROVE  LookupsBacked' /\ Isolation'
<1> USE DEF IsolationInv
<1>1. UNCHANGED <<pair, hashOf, claims, buf>>
  BY DEF Unregister, registry
<1>2. PICK h \in HashAnswers(c, r) : \E p \in PeerAnswers(c, Other(r), h) :
        \/ h = None /\ Goto(c, "dead", Idle)
        \/ /\ h # None
           /\ LET m == Packet(UnregisterResponse(r), c, h)
              IN Relay(c, [Idle EXCEPT !.peer = p, !.msg = m, !.reply = m])
  BY DEF Unregister
<1>3. CASE Goto(c, "dead", Idle)
  <2>1. \A d \in Conns : Backed(claims', d, pc'[d], loc'[d])
    BY <1>1, <1>3, NothingHeld, GotoBacked DEF Ended
  <2> QED BY <1>1, <2>1 DEF LookupsBacked, Isolation
<1>4. CASE ~Goto(c, "dead", Idle)
  <2> DEFINE m == Packet(UnregisterResponse(r), c, h)
  <2>1. PICK p \in PeerAnswers(c, Other(r), h) :
          h # None /\ Relay(c, [Idle EXCEPT !.peer = p, !.msg = m, !.reply = m])
    BY <1>2, <1>4
  <2>2. h \in Hashes /\ <<c, r, h>> \in claims /\ (p = None \/ <<p, Other(r), h>> \in claims)
    BY <2>1, AnswersTyped, LookupBacked DEF Typed
  <2>3. p = None \/ Partners(claims, c, p)
    BY <2>2 DEF Partners
  <2> DEFINE l == [Idle EXCEPT !.peer = p, !.msg = m, !.reply = m]
  <2>4. l.peer = p /\ l.msg.from = c /\ l.reply.from = c
    BY DEF Idle, Packet
  <2>5. \A d \in Conns : Backed(claims', d, pc'[d], loc'[d])
    BY <1>1, <2>1, <2>3, <2>4, RelayBacked
  <2> QED BY <1>1, <2>5 DEF LookupsBacked, Isolation
<1> QED BY <1>3, <1>4

LEMMA PayloadBacked ==
  ASSUME IsolationInv, NEW c \in Conns, Payload(c)
  PROVE  LookupsBacked' /\ Isolation'
<1> USE DEF IsolationInv
<1>1. UNCHANGED <<pair, hashOf, claims, buf>>
  BY DEF Payload, registry
<1>2. CASE Goto(c, "read", Idle)
  <2>1. \A d \in Conns : Backed(claims', d, pc'[d], loc'[d])
    BY <1>1, <1>2, NothingHeld, GotoBacked
  <2> QED BY <1>1, <2>1 DEF LookupsBacked, Isolation
<1>3. ASSUME NEW r \in Roles, RelayPayload(c, r)
      PROVE  LookupsBacked' /\ Isolation'
  <2> PICK h \in HashAnswers(c, r) : \E p \in PeerAnswers(c, Other(r), h) :
        Relay(c, [Idle EXCEPT !.peer = p, !.msg = Packet("PayloadRequest", c, "DATA")])
    BY <1>3 DEF RelayPayload
  <2> PICK p \in PeerAnswers(c, Other(r), h) :
        Relay(c, [Idle EXCEPT !.peer = p, !.msg = Packet("PayloadRequest", c, "DATA")])
    OBVIOUS
  <2>1. h \in Hashes \cup {None}
    BY AnswersTyped DEF Typed
  <2>2. p = None \/ (h # None /\ <<p, Other(r), h>> \in claims)
    BY <2>1, LookupBacked DEF PeerAnswers
  <2>3. p = None \/ Partners(claims, c, p)
    BY <2>1, <2>2, LookupBacked DEF Partners
  <2> DEFINE l == [Idle EXCEPT !.peer = p, !.msg = Packet("PayloadRequest", c, "DATA")]
  <2>4. l.peer = p /\ l.msg.from = c /\ l.reply = None
    BY DEF Idle, Packet
  <2>5. \A d \in Conns : Backed(claims', d, pc'[d], loc'[d])
    BY <1>1, <2>3, <2>4, RelayBacked
  <2> QED BY <1>1, <2>5 DEF LookupsBacked, Isolation
<1> QED BY <1>2, <1>3 DEF Payload, Roles

\* The writes themselves.
LEMMA ForwardBacked ==
  ASSUME IsolationInv, NEW c \in Conns, Forward(c)
  PROVE  LookupsBacked' /\ Isolation'
<1> USE DEF IsolationInv
<1> DEFINE peer == loc[c].peer
           msg  == loc[c].msg
<1>1. UNCHANGED <<pair, hashOf, claims>> /\ pc[c] = "forward"
  BY DEF Forward, registry, history
<1>2. /\ peer \in Conns /\ msg \in Packets /\ msg.from = c /\ Partners(claims, c, peer)
      /\ loc[c].reply = None \/ loc[c].reply.from = c
  BY <1>1 DEF Typed, LocalsInUse, InUse, LookupsBacked, Backed
<1>3. Deliver(peer, msg) \/ Gone(peer)
  BY DEF Forward
<1>4. Isolation'
  BY <1>1, <1>2, <1>3, WriteIsolated, PartnersSymmetric
<1>5. Answer(c, loc[c]) \/ Goto(c, "closing", Idle)
  BY DEF Forward
<1>6. \A d \in Conns : Backed(claims', d, pc'[d], loc'[d])
  BY <1>1, <1>2, <1>5, AnswerBacked, GotoBacked, NothingHeld
<1> QED BY <1>1, <1>4, <1>6 DEF LookupsBacked

LEMMA RespondBacked ==
  ASSUME IsolationInv, NEW c \in Conns, Respond(c)
  PROVE  LookupsBacked' /\ Isolation'
<1> USE DEF IsolationInv
<1>1. UNCHANGED <<pair, hashOf, claims>> /\ pc[c] = "respond"
  BY DEF Respond, registry, history
<1>2. loc[c].reply \in Packets /\ loc[c].reply.from = c
  BY <1>1 DEF Typed, LocalsInUse, InUse, LookupsBacked, Backed
<1>3. Isolation'
  <2>1. CASE Gone(c)
    BY <1>1, <2>1 DEF Gone, Isolation
  <2>2. CASE Deliver(c, loc[c].reply)
    BY <1>1, <1>2, <2>2, WriteIsolated
  <2> QED BY <2>1, <2>2 DEF Respond
<1>4. Goto(c, "read", Idle) \/ Goto(c, "closing", Idle)
  BY DEF Respond
<1>5. \A d \in Conns : Backed(claims', d, pc'[d], loc'[d])
  BY <1>1, <1>4, GotoBacked, NothingHeld
<1> QED BY <1>1, <1>3, <1>5 DEF LookupsBacked

\* A disconnection: the partner it notifies and the pair it puts back.
LEMMA BeginDisconnectBacked ==
  ASSUME IsolationInv, NEW c \in Conns, BeginDisconnect(c)
  PROVE  LookupsBacked' /\ Isolation'
<1> USE DEF IsolationInv
<1>1. UNCHANGED <<pair, hashOf, claims, buf>>
  BY DEF BeginDisconnect, registry
<1>2. \A d \in Conns : Backed(claims', d, pc'[d], loc'[d])
  <2>1. CASE Goto(c, "done", Idle) \/ Goto(c, "aborted", Idle)
    BY <1>1, <2>1, NothingHeld, GotoBacked DEF Ended
  <2>2. ASSUME NEW r \in Roles, LookupPartner(c, r), ~Goto(c, "aborted", Idle)
        PROVE  \A d \in Conns : Backed(claims', d, pc'[d], loc'[d])
    <3> DEFINE m(h) == Packet(UnregisterRequest(Other(r)), c, h)
               l(h, p) == [Idle EXCEPT !.role = r, !.hash = h, !.peer = p,
                                       !.msg = IF p = None THEN None ELSE m(h)]
    <3> PICK h \in HashAnswers(c, r) : \E p \in PeerAnswers(c, Other(r), h) :
          h # None /\ Goto(c, IF p = None THEN "unlist" ELSE "notify", l(h, p))
      BY <2>2 DEF LookupPartner, Abort
    <3> PICK p \in PeerAnswers(c, Other(r), h) :
          h # None /\ Goto(c, IF p = None THEN "unlist" ELSE "notify", l(h, p))
      OBVIOUS
    <3>1. h \in Hashes /\ <<c, r, h>> \in claims /\ (p = None \/ <<p, Other(r), h>> \in claims)
      BY AnswersTyped, LookupBacked DEF Typed
    <3>2. /\ l(h, p).role = r /\ l(h, p).hash = h /\ l(h, p).peer = p
          /\ p # None => l(h, p).msg.from = c
      BY DEF Idle, Packet
    <3>3. CASE p = None
      <4>1. Backed(claims', c, "unlist", l(h, p))
        BY <1>1, <3>1, <3>2 DEF Backed
      <4> QED BY <1>1, <3>3, <4>1, GotoBacked
    <3>4. CASE p # None
      <4>1. Partners(claims, c, p)
        BY <3>1, <3>4 DEF Partners
      <4>2. Backed(claims', c, "notify", l(h, p))
        BY <1>1, <3>1, <3>2, <3>4, <4>1 DEF Backed
      <4> QED BY <1>1, <3>4, <4>2, GotoBacked
    <3> QED BY <3>3, <3>4
  <2> QED BY <2>1, <2>2 DEF BeginDisconnect, Roles
<1> QED BY <1>1, <1>2 DEF LookupsBacked, Isolation

LEMMA NotifyBacked ==
  ASSUME IsolationInv, NEW c \in Conns, Notify(c)
  PROVE  LookupsBacked' /\ Isolation'
<1> USE DEF IsolationInv
<1> DEFINE peer == loc[c].peer
           msg  == loc[c].msg
<1>1. UNCHANGED <<pair, hashOf, claims>> /\ pc[c] = "notify" /\ loc[c] \in Locals
  BY DEF Notify, Abort, registry, history, Typed, TypeOK
<1>2. /\ peer \in Conns /\ msg \in Packets /\ msg.from = c /\ Partners(claims, c, peer)
      /\ <<c, loc[c].role, loc[c].hash>> \in claims
  BY <1>1 DEF Typed, LocalsInUse, InUse, LookupsBacked, Backed
<1>3. Deliver(peer, msg) \/ Gone(peer)
  BY DEF Notify, Abort
<1>4. Isolation'
  BY <1>1, <1>2, <1>3, WriteIsolated, PartnersSymmetric
<1> DEFINE l == [loc[c] EXCEPT !.peer = None, !.msg = None]
<1>5. l.role = loc[c].role /\ l.hash = loc[c].hash
  BY <1>1 DEF Locals
<1>6. Backed(claims', c, "unlist", l) /\ Backed(claims', c, "aborted", Idle)
  BY <1>1, <1>2, <1>5 DEF Backed
<1>7. Goto(c, "unlist", l) \/ Goto(c, "aborted", Idle)
  BY DEF Notify, Abort
<1>8. \A d \in Conns : Backed(claims', d, pc'[d], loc'[d])
  BY <1>1, <1>6, <1>7, GotoBacked
<1> QED BY <1>1, <1>4, <1>8 DEF LookupsBacked

LEMMA UnlistBacked ==
  ASSUME IsolationInv, NEW c \in Conns, Unlist(c)
  PROVE  LookupsBacked' /\ Isolation'
<1> USE DEF IsolationInv
<1>1. /\ UNCHANGED <<pair, hashOf, claims, buf>> /\ pc[c] = "unlist"
      /\ loc[c] \in Locals /\ loc[c].hash \in Hashes
      /\ <<c, loc[c].role, loc[c].hash>> \in claims
  BY DEF Unlist, Abort, ForgetHash, Typed, TypeOK, LocalsInUse, InUse, LookupsBacked, Backed
<1> DEFINE l == [loc[c] EXCEPT !.snap = pair[loc[c].hash]]
<1>2. l.role = loc[c].role /\ l.hash = loc[c].hash /\ l.snap = pair[loc[c].hash]
  BY <1>1 DEF Locals
<1>3. Backed(claims', c, "unpair", l) /\ Backed(claims', c, "aborted", Idle)
  BY <1>1, <1>2 DEF Backed, LookupsBacked
<1>4. Goto(c, "unpair", l) \/ Goto(c, "aborted", Idle)
  BY DEF Unlist, Abort
<1>5. \A d \in Conns : Backed(claims', d, pc'[d], loc'[d])
  BY <1>1, <1>3, <1>4, GotoBacked
<1> QED BY <1>1, <1>5 DEF LookupsBacked, Isolation

LEMMA UnpairBacked ==
  ASSUME IsolationInv, NEW c \in Conns, Unpair(c)
  PROVE  LookupsBacked' /\ Isolation'
<1> USE DEF IsolationInv
<1> DEFINE r == loc[c].role
           h == loc[c].hash
           snap == loc[c].snap
<1>1. /\ UNCHANGED <<hashOf, claims, buf>> /\ pc[c] = "unpair" /\ Goto(c, "done", Idle)
      /\ r \in Roles /\ h \in Hashes /\ snap \in [Roles -> Refs]
  BY DEF Unpair, Typed, TypeOK, LocalsInUse, InUse, Locals
<1>2. \A q \in Roles : snap[q] = None \/ <<snap[q], q, h>> \in claims
  BY <1>1 DEF LookupsBacked, Backed
<1>3. \A g \in Hashes, q \in Roles : pair'[g][q] # None => <<pair'[g][q], q, g>> \in claims
  <2>1. CASE UNCHANGED pair
    BY <2>1 DEF LookupsBacked
  <2>2. CASE pair' = [pair EXCEPT ![h] = [snap EXCEPT ![r] = None]]
    <3>1. \A q \in Roles : pair'[h][q] = (IF q = r THEN None ELSE snap[q])
      BY <1>1, <2>2 DEF Typed, TypeOK
    <3>2. \A g \in Hashes \ {h} : pair'[g] = pair[g]
      BY <1>1, <2>2 DEF Typed, TypeOK
    <3> QED BY <1>2, <3>1, <3>2 DEF LookupsBacked
  <2> QED BY <2>1, <2>2 DEF Unpair, WithoutSide
<1>4. \A d \in Conns : Backed(claims', d, pc'[d], loc'[d])
  BY <1>1, NothingHeld, GotoBacked DEF Ended
<1> QED BY <1>1, <1>3, <1>4 DEF LookupsBacked, Isolation

LEMMA IsolationInit == Init => IsolationInv
<1> SUFFICES ASSUME Init PROVE LookupsBacked /\ Isolation
  BY TypedInit DEF IsolationInv
<1>1. \A c \in Conns : Backed(claims, c, pc[c], loc[c])
  BY NothingHeld DEF Init
<1> QED BY <1>1 DEF Init, LookupsBacked, Isolation, NoPair

LEMMA IsolationStep == IsolationInv /\ [Next]_vars => IsolationInv'
<1> SUFFICES ASSUME IsolationInv, [Next]_vars PROVE LookupsBacked' /\ Isolation'
  BY TypedStep DEF IsolationInv
<1>1. CASE UNCHANGED vars
  BY <1>1 DEF vars, registry, history, IsolationInv, LookupsBacked, Isolation
<1>2. CASE StartThread \/ ListConnection
  BY <1>2, StartBacked
<1>3. ASSUME NEW c \in Conns,
             \/ Accept(c) \/ Client(c) \/ Collect(c) \/ Input(c)
             \/ EndOfStream(c) \/ Handle(c) \/ Disconnect(c)
      PROVE  LookupsBacked' /\ Isolation'
  <2>1. CASE Accept(c) \/ Client(c) \/ Collect(c) \/ Input(c) \/ EndOfStream(c)
    BY <2>1, QuietBacked
  <2>2. CASE RegisterDisplayClient(c)
    BY <2>2, RegisterBacked, AnswersTyped DEF RegisterDisplayClient, Roles, IsolationInv, Typed
  <2>3. CASE RegisterControlClient(c)
    <3>1. loc[c].hash \in Hashes
      BY <2>3 DEF RegisterControlClient, IsolationInv, Typed, LocalsInUse, InUse
    <3> QED BY <2>3, <3>1, RegisterBacked, AnswersTyped
        DEF RegisterControlClient, Roles, IsolationInv, Typed
  <2>4. CASE Store(c) \/ Tell(c) \/ (\E r \in Roles : Unregister(c, r)) \/ Payload(c)
    BY <2>4, StoreBacked, TellBacked, UnregisterBacked, PayloadBacked
  <2>5. CASE Forward(c) \/ Respond(c)
    BY <2>5, ForwardBacked, RespondBacked
  <2>6. CASE Disconnect(c)
    BY <2>6, BeginDisconnectBacked, NotifyBacked, UnlistBacked, UnpairBacked DEF Disconnect
  <2> QED BY <1>3, <2>1, <2>2, <2>3, <2>4, <2>5, <2>6 DEF Handle
<1> QED BY <1>1, <1>2, <1>3 DEF Next

\* However registrations, disconnections and lookups interleave, a packet reaches a
\* socket only from its own thread or from the thread of a partner.
THEOREM RelayIsolated == Spec => []Isolation
<1>1. Spec => []IsolationInv
  BY IsolationInit, IsolationStep, PTL DEF Spec
<1>2. IsolationInv => Isolation
  BY DEF IsolationInv
<1> QED BY <1>1, <1>2, PTL

-----------------------------------------------------------------------------
(* The client lists and the pairs agree, and a handled disconnection forgets   *)
(* the client, as far as no racing collection has misbehaved (torn) and no     *)
(* out-of-date pair was written back over the hash (stale).                    *)

\* A listed client has registered.
Claimed == \A r \in Roles : \A c \in clients[r] : \E h \in Hashes : <<c, r, h>> \in claims

\* A listed client holds its side of its pair.
ClientsHold ==
  \A r \in Roles : \A c \in clients[r] :
    hashOf[r][c] \in stale \/ (hashOf[r][c] # None /\ pair[hashOf[r][c]][r] = c)

\* A side is held by a client that is listed for it, or about to empty this very side.
SidesHeld ==
  \A h \in Hashes, r \in Roles : pair[h][r] # None =>
    \/ h \in stale
    \/ pair[h][r] \in clients[r] /\ hashOf[r][pair[h][r]] = h
    \/ pc[pair[h][r]] = "unpair" /\ loc[pair[h][r]].hash = h /\ loc[pair[h][r]].role = r

BothRoles(c) ==
  \E h, g \in Hashes : <<c, "display", h>> \in claims /\ <<c, "control", g>> \in claims

\* What a thread knows of its own client: a registration stores one that is not listed, a
\* disconnection removes one that is, works on its hash and finds its side still held.
KnowsItself(c) ==
  LET r == loc[c].role
      h == loc[c].hash
  IN
  /\ pc[c] = "store" => c \notin clients[r]
  /\ pc[c] \in {"notify", "unlist"} => c \in clients[r] /\ h = hashOf[r][c]
  /\ pc[c] = "unpair" => /\ c \notin clients[r]
                         /\ h \in stale \/ pair[h][r] = c
                         /\ \E g \in Hashes : <<c, r, g>> \in claims
  /\ pc[c] = "done" => \A q \in Roles : c \in clients[q] => BothRoles(c)

Agreement == Claimed /\ (~torn => ClientsHold /\ SidesHeld /\ \A c \in Conns : KnowsItself(c))

RegistrationInv == SlotInv /\ Agreement

LEMMA AgreementInit == Init => Agreement
BY DEF Init, Agreement, Claimed, ClientsHold, SidesHeld, KnowsItself, NoPair

\* A step of one thread that leaves the registry alone.
LEMMA ThreadStep ==
  ASSUME TypeOK, Agreement, NEW c \in Conns, UNCHANGED <<clients, hashOf, pair, claims, stale>>,
         torn => torn', OnlyMoves(c), pc[c] # "unpair", ~torn' => KnowsItself(c)'
  PROVE  Agreement'
<1>1. Claimed'
  BY DEF Agreement, Claimed
<1>2. CASE torn'
  BY <1>1, <1>2 DEF Agreement
<1>3. CASE ~torn'
  <2>1. ClientsHold /\ SidesHeld /\ \A d \in Conns : KnowsItself(d)
    BY <1>3 DEF Agreement
  <2>2. ClientsHold'
    BY <2>1 DEF ClientsHold
  <2>3. \A d \in Conns : pc[d] = "unpair" => pc'[d] = pc[d] /\ loc'[d] = loc[d]
    BY DEF OnlyMoves
  <2>4. SidesHeld'
    <3>1. \A h \in Hashes, r \in Roles : pair[h][r] # None => pair[h][r] \in Conns
      BY DEF TypeOK, Refs
    <3> QED BY <2>1, <2>3, <3>1 DEF SidesHeld
  <2>5. \A d \in Conns : KnowsItself(d)'
    <3> SUFFICES ASSUME NEW d \in Conns \ {c} PROVE KnowsItself(d)'
      BY <1>3
    <3>1. pc'[d] = pc[d] /\ loc'[d] = loc[d] /\ KnowsItself(d)
      BY <2>1 DEF OnlyMoves
    <3> QED BY <3>1 DEF KnowsItself, BothRoles
  <2> QED BY <1>1, <2>2, <2>4, <2>5 DEF Agreement
<1> QED BY <1>2, <1>3

-----------------------------------------------------------------------------
(* The steps that leave the registry alone.                                 *)

\* Clients, input and lookups: nothing of the registry changes, and the thread that moves
\* neither was nor gets where KnowsItself says anything.
LEMMA CalmRegistry ==
  ASSUME TypeOK, NEW c \in Conns,
         \/ Accept(c) \/ Client(c) \/ Collect(c) \/ Input(c) \/ EndOfStream(c) \/ Tell(c)
         \/ (\E r \in Roles : Unregister(c, r)) \/ Payload(c) \/ Forward(c) \/ Respond(c)
  PROVE  /\ UNCHANGED <<clients, hashOf, pair, claims, stale>> /\ (torn => torn')
         /\ \/ UNCHANGED <<pc, loc>>
            \/ OnlyMoves(c) /\ pc[c] # "unpair" /\ pc'[c] \notin Guarded \cup {"done"}
<1>1. CASE Accept(c) \/ Client(c) \/ Collect(c)
  BY <1>1 DEF Accept, Client, Connect, Leave, Drain, Collect, registry, history
<1>2. CASE Input(c) \/ EndOfStream(c)
  <2>1. UNCHANGED <<clients, hashOf, pair, claims, stale, torn>> /\ pc[c] = "read"
    BY <1>2 DEF Input, Receive, ReceiveResponse, ReceiveMalformed, ReceiveOversize, Take,
                Reading, EndOfStream, registry, history
  <2>2. (\E p \in Requests \cup {"dead", "closing"} : \E l : Goto(c, p, l)) \/ UNCHANGED <<pc, loc>>
    BY <1>2 DEF Input, Receive, ReceiveResponse, ReceiveMalformed, ReceiveOversize,
                EndOfStream, Requests
  <2> QED BY <2>1, <2>2, Moves DEF Guarded, Requests
<1>3. CASE Tell(c)
  <2>1. /\ UNCHANGED <<clients, hashOf, pair, claims, stale>> /\ (torn => torn')
        /\ pc[c] = "tell" /\ \E l : Relay(c, l)
    BY <1>3 DEF Tell, registry
  <2> QED BY <2>1, Moves DEF Guarded
<1>4. CASE \E r \in Roles : Unregister(c, r)
  <2>1. /\ UNCHANGED <<clients, hashOf, pair, claims, stale>> /\ (torn => torn')
        /\ pc[c] # "unpair"
    BY <1>4 DEF Unregister, registry
  <2>2. \E l : Relay(c, l) \/ Goto(c, "dead", l)
    BY <1>4 DEF Unregister
  <2> QED BY <2>1, <2>2, Moves DEF Guarded
<1>5. CASE Payload(c)
  <2>1. /\ UNCHANGED <<clients, hashOf, pair, claims, stale>> /\ (torn => torn')
        /\ pc[c] = "payload"
    BY <1>5 DEF Payload, RelayPayload, registry
  <2>2. \E l : Relay(c, l) \/ Goto(c, "read", l)
    BY <1>5 DEF Payload, RelayPayload
  <2> QED BY <2>1, <2>2, Moves DEF Guarded
<1>6. CASE Forward(c) \/ Respond(c)
  <2>1. /\ UNCHANGED <<clients, hashOf, pair, claims, stale, torn>>
        /\ pc[c] \in {"forward", "respond"}
    BY <1>6 DEF Forward, Respond, registry, history
  <2>2. \E l : Answer(c, l) \/ Goto(c, "read", l) \/ Goto(c, "closing", l)
    BY <1>6 DEF Forward, Respond
  <2> QED BY <2>1, <2>2, Moves DEF Guarded
<1> QED BY <1>1, <1>2, <1>3, <1>4, <1>5, <1>6

\* Steps of the accept loop and the clients.
LEMMA StillAgreement ==
  ASSUME Agreement, UNCHANGED <<clients, hashOf, pair, claims, stale, pc, loc>>, torn => torn'
  PROVE  Agreement'
<1>1. Claimed => Claimed'
  BY DEF Claimed
<1>2. (ClientsHold => ClientsHold') /\ (SidesHeld => SidesHeld')
  BY DEF ClientsHold, SidesHeld
<1>3. \A c \in Conns : KnowsItself(c) => KnowsItself(c)'
  BY DEF KnowsItself, BothRoles
<1> QED BY <1>1, <1>2, <1>3 DEF Agreement

LEMMA CalmAgreement ==
  ASSUME RegistrationInv, NEW c \in Conns,
         \/ Accept(c) \/ Client(c) \/ Collect(c) \/ Input(c) \/ EndOfStream(c) \/ Tell(c)
         \/ (\E r \in Roles : Unregister(c, r)) \/ Payload(c) \/ Forward(c) \/ Respond(c)
  PROVE  Agreement'
<1>1. TypeOK /\ Agreement
  BY DEF RegistrationInv, SlotInv, Typed
<1>2. /\ UNCHANGED <<clients, hashOf, pair, claims, stale>> /\ (torn => torn')
      /\ \/ UNCHANGED <<pc, loc>>
         \/ OnlyMoves(c) /\ pc[c] # "unpair" /\ pc'[c] \notin Guarded \cup {"done"}
  BY <1>1, CalmRegistry
<1>3. CASE UNCHANGED <<pc, loc>>
  BY <1>1, <1>2, <1>3, StillAgreement
<1>4. CASE OnlyMoves(c) /\ pc[c] # "unpair" /\ pc'[c] \notin Guarded \cup {"done"}
  <2>1. KnowsItself(c)'
    BY <1>4 DEF KnowsItself, Guarded
  <2> QED BY <1>1, <1>2, <1>4, <2>1, ThreadStep
<1> QED BY <1>2, <1>3, <1>4

LEMMA AcceptAgreement ==
  ASSUME RegistrationInv, StartThread \/ ListConnection
  PROVE  Agreement'
<1> USE NoneAssumption DEF RegistrationInv, SlotInv, Typed
<1>1. UNCHANGED <<clients, hashOf, pair, claims, stale, torn>>
  BY DEF StartThread, ListConnection, registry, history
<1>2. CASE ListConnection
  BY <1>1, <1>2, StillAgreement DEF ListConnection
<1>3. CASE StartThread
  <2>1. PICK c \in Conns : c = acceptor
    BY <1>3 DEF StartThread, TypeOK, Refs
  <2>2. OnlyMoves(c) /\ pc'[c] = "read" /\ WorkerFree
    BY <1>3, <2>1, Moves DEF StartThread
  <2>3. pc[c] # "unpair"
    BY <2>2 DEF WorkerFree, MonitorsHeld
  <2>4. KnowsItself(c)'
    BY <2>2 DEF KnowsItself
  <2> QED BY <1>1, <2>2, <2>3, <2>4, ThreadStep
<1> QED BY <1>2, <1>3

-----------------------------------------------------------------------------
(* Registrations.                                                           *)

\* A client is stored only if it was not listed.
LEMMA RegisterAgreement ==
  ASSUME RegistrationInv, NEW c \in Conns, NEW r \in Roles, NEW h \in Hashes, NEW seen \in BOOLEAN,
         pc[c] \in {"regDisplay", "regControl"}, Register(c, r, h, seen)
  PROVE  Agreement'
<1> USE DEF RegistrationInv, SlotInv, Typed
<1>1. /\ UNCHANGED <<clients, hashOf, pair, claims, stale>>
      /\ torn' = (torn \/ seen # (c \in clients[r]))
  BY DEF Register, registry
<1>2. CASE ~seen /\ Goto(c, "store", [Idle EXCEPT !.role = r, !.hash = h, !.snap = pair[h]])
  <2>1. loc'[c] = [Idle EXCEPT !.role = r, !.hash = h, !.snap = pair[h]]
    BY <1>2, Moves
  <2>2. OnlyMoves(c) /\ pc'[c] = "store" /\ loc'[c].role = r
    BY <1>2, <2>1, Moves DEF Idle
  <2>3. ~torn' => KnowsItself(c)'
    BY <1>1, <1>2, <2>2 DEF KnowsItself
  <2> QED BY <1>1, <2>2, <2>3, ThreadStep
<1>3. CASE \E l : Answer(c, l)
  <2>1. OnlyMoves(c) /\ pc'[c] \in {"read", "respond"}
    BY <1>3, Moves
  <2>2. KnowsItself(c)'
    BY <2>1 DEF KnowsItself
  <2> QED BY <1>1, <2>1, <2>2, ThreadStep
<1> QED BY <1>2, <1>3 DEF Register

\* The pair put back: this side was empty and is the client's now; the other side is as it
\* was, or the hash is stale.
LEMMA StoreAgreement ==
  ASSUME RegistrationInv, NEW c \in Conns, Store(c)
  PROVE  Agreement'
<1> USE NoneAssumption DEF RegistrationInv, SlotInv, Typed
<1> DEFINE r == loc[c].role
           h == loc[c].hash
<1>1. /\ r \in Roles /\ Other(r) \in Roles /\ Other(r) # r /\ h \in Hashes
      /\ \A q \in Roles : q = r \/ q = Other(r)
      /\ loc[c].snap \in [Roles -> Refs] /\ pair[h] \in [Roles -> Refs]
  BY OtherRole DEF Store, TypeOK, LocalsInUse, InUse, Locals, Roles
<1>2. pc[c] = "store" /\ pair[h][r] = None
  BY DEF Store, SnapshotsUsable
<1>3. /\ pair'[h][r] = c /\ pair'[h][Other(r)] = loc[c].snap[Other(r)]
      /\ \A g \in Hashes \ {h} : pair'[g] = pair[g]
  BY <1>1 DEF Store, TypeOK
<1>4. /\ stale \subseteq stale'
      /\ pair[h][Other(r)] # loc[c].snap[Other(r)] => h \in stale'
      /\ claims' = claims \cup {<<c, r, h>>}
  BY DEF Store
<1>5. /\ hashOf'[r][c] = h
      /\ \A q \in Roles, d \in Conns : q # r \/ d # c => hashOf'[q][d] = hashOf[q][d]
  BY <1>1 DEF Store, TypeOK
<1>6. /\ torn => torn'
      /\ \A q \in Roles : clients'[q] \subseteq clients[q] \cup {d \in {c} : q = r}
      /\ ~torn' => c \in clients'[r] /\ \A q \in Roles : clients[q] \subseteq clients'[q]
  <2>1. PICK lost \in BOOLEAN : /\ torn' = (torn \/ lost)
                               /\ clients' = IF lost THEN clients ELSE [clients EXCEPT ![r] = @ \cup {c}]
    BY DEF Store, MayRace
  <2>2. CASE lost
    BY <2>1, <2>2
  <2>3. CASE ~lost
    BY <1>1, <2>1, <2>3 DEF TypeOK
  <2> QED BY <2>2, <2>3
<1>7. OnlyMoves(c) /\ pc'[c] \in {"respond", "tell"}
  BY Moves DEF Store
<1>8. Claimed'
  BY <1>1, <1>4, <1>6 DEF Agreement, Claimed
<1>9. ASSUME ~torn' PROVE ClientsHold' /\ SidesHeld' /\ \A d \in Conns : KnowsItself(d)'
  <2>1. ClientsHold /\ SidesHeld /\ \A d \in Conns : KnowsItself(d)
    BY <1>6, <1>9 DEF Agreement
  <2>2. c \notin clients[r]
    BY <1>2, <2>1 DEF KnowsItself
  <2>3. ClientsHold'
    <3> SUFFICES ASSUME NEW q \in Roles, NEW d \in clients'[q], hashOf'[q][d] \notin stale'
                 PROVE  hashOf'[q][d] # None /\ pair'[hashOf'[q][d]][q] = d
      BY DEF ClientsHold
    <3>1. CASE q = r /\ d = c
      BY <1>1, <1>3, <1>5, <3>1
    <3>2. CASE q # r \/ d # c
      <4>1. d \in clients[q] /\ d \in Conns /\ hashOf'[q][d] = hashOf[q][d]
        BY <1>5, <1>6, <3>2 DEF TypeOK
      <4>2. /\ hashOf[q][d] \in Hashes /\ pair[hashOf[q][d]][q] = d
        BY <1>4, <2>1, <4>1 DEF ClientsHold, TypeOK
      <4>3. CASE hashOf[q][d] # h
        BY <1>3, <4>1, <4>2, <4>3
      <4>4. CASE hashOf[q][d] = h
        BY <1>1, <1>2, <1>3, <1>4, <4>1, <4>2, <4>4
      <4> QED BY <4>3, <4>4
    <3> QED BY <3>1, <3>2
  <2>4. SidesHeld'
    <3> SUFFICES ASSUME NEW g \in Hashes, NEW q \in Roles, pair'[g][q] # None, g \notin stale'
                 PROVE  \/ pair'[g][q] \in clients'[q] /\ hashOf'[q][pair'[g][q]] = g
                        \/ /\ pc'[pair'[g][q]] = "unpair" /\ loc'[pair'[g][q]].hash = g
                           /\ loc'[pair'[g][q]].role = q
      BY DEF SidesHeld
    <3>1. CASE g = h /\ q = r
      BY <1>3, <1>5, <1>6, <1>9, <3>1
    <3>2. CASE g # h \/ q # r
      <4>1. pair'[g][q] = pair[g][q]
        BY <1>1, <1>3, <1>4, <3>2
      <4>2. PICK x \in Conns : x = pair[g][q]
        BY <4>1 DEF TypeOK, Refs
      <4>3. \/ x \in clients[q] /\ hashOf[q][x] = g
            \/ pc[x] = "unpair" /\ loc[x].hash = g /\ loc[x].role = q
        BY <1>4, <2>1, <4>1, <4>2 DEF SidesHeld
      <4>4. CASE x \in clients[q] /\ hashOf[q][x] = g
        <5>1. q # r \/ x # c
          BY <2>2, <4>4
        <5> QED BY <1>5, <1>6, <1>9, <4>1, <4>2, <4>4, <5>1
      <4>5. CASE pc[x] = "unpair" /\ loc[x].hash = g /\ loc[x].role = q
        <5>1. pc'[x] = pc[x] /\ loc'[x] = loc[x]
          BY <1>2, <1>7, <4>5 DEF OnlyMoves
        <5> QED BY <4>1, <4>2, <4>5, <5>1
      <4> QED BY <4>3, <4>4, <4>5
    <3> QED BY <3>1, <3>2
  <2>5. ASSUME NEW d \in Conns PROVE KnowsItself(d)'
    <3>1. CASE d = c
      BY <1>7, <3>1 DEF KnowsItself
    <3>2. CASE d # c
      <4>1. pc'[d] = pc[d] /\ loc'[d] = loc[d] /\ KnowsItself(d)
        BY <1>7, <2>1, <3>2 DEF OnlyMoves
      <4>2. loc[d].role \in Roles
        BY DEF TypeOK, Locals
      <4>3. /\ \A q \in Roles : d \in clients'[q] <=> d \in clients[q]
            /\ \A q \in Roles : hashOf'[q][d] = hashOf[q][d]
        BY <1>5, <1>6, <1>9, <3>2
      <4>4. pc[d] = "unpair" => loc[d].hash \in stale' \/ pair'[loc[d].hash][loc[d].role] = d
        <5> SUFFICES ASSUME pc[d] = "unpair", loc[d].hash \notin stale'
                     PROVE  pair'[loc[d].hash][loc[d].role] = d
          OBVIOUS
        <5>1. loc[d].hash \in Hashes /\ pair[loc[d].hash][loc[d].role] = d
          BY <1>4, <4>1 DEF KnowsItself, LocalsInUse, InUse
        <5>2. loc[d].hash # h \/ loc[d].role # r
          BY <1>2, <5>1
        <5> QED BY <1>1, <1>3, <1>4, <4>2, <5>1, <5>2
      <4>5. BothRoles(d) => BothRoles(d)'
        BY <1>4 DEF BothRoles
      <4> QED BY <1>4, <4>1, <4>2, <4>3, <4>4, <4>5 DEF KnowsItself
    <3> QED BY <3>1, <3>2
  <2> QED BY <2>3, <2>4, <2>5
<1> QED BY <1>8, <1>9 DEF Agreement

-----------------------------------------------------------------------------
(* Disconnections.                                                          *)

\* A disconnection begins for a role the client is listed in, with its hash, or ends at
\* once for one that is listed in neither.
LEMMA BeginAgreement ==
  ASSUME RegistrationInv, NEW c \in Conns, BeginDisconnect(c)
  PROVE  Agreement'
<1> USE NoneAssumption DEF RegistrationInv, SlotInv, Typed
<1>1. /\ UNCHANGED <<clients, hashOf, pair, claims, stale>> /\ pc[c] = "closing"
      /\ torn => torn'
  BY DEF BeginDisconnect, LookupPartner, registry
<1>2. ASSUME NEW r \in Roles, c \in clients[r], LookupPartner(c, r)
      PROVE  OnlyMoves(c) /\ (~torn' => KnowsItself(c)')
  <2>1. PICK h \in HashAnswers(c, r) : \E p \in PeerAnswers(c, Other(r), h) :
          /\ ~torn' => h = hashOf[r][c]
          /\ \/ Abort(c)
             \/ Goto(c, IF p = None THEN "unlist" ELSE "notify",
                     [Idle EXCEPT !.role = r, !.hash = h, !.peer = p,
                                  !.msg = IF p = None THEN None
                                          ELSE Packet(UnregisterRequest(Other(r)), c, h)])
    BY <1>2 DEF LookupPartner
  <2>2. CASE Abort(c)
    <3>1. OnlyMoves(c) /\ pc'[c] = "aborted"
      BY <2>2, Moves DEF Abort
    <3> QED BY <3>1 DEF KnowsItself
  <2>3. CASE ~Abort(c)
    <3>1. PICK p : Goto(c, IF p = None THEN "unlist" ELSE "notify",
                        [Idle EXCEPT !.role = r, !.hash = h, !.peer = p,
                                     !.msg = IF p = None THEN None
                                             ELSE Packet(UnregisterRequest(Other(r)), c, h)])
      BY <2>1, <2>3
    <3>2. /\ OnlyMoves(c) /\ pc'[c] \in {"unlist", "notify"}
          /\ loc'[c] = [Idle EXCEPT !.role = r, !.hash = h, !.peer = p,
                                    !.msg = IF p = None THEN None
                                            ELSE Packet(UnregisterRequest(Other(r)), c, h)]
      BY <3>1, Moves
    <3>3. loc'[c].role = r /\ loc'[c].hash = h
      BY <3>2 DEF Idle
    <3>4. ASSUME ~torn' PROVE KnowsItself(c)'
      <4>1. h = hashOf[r][c]
        BY <2>1, <3>4
      <4>2. c \in clients'[r] /\ h = hashOf'[r][c]
        BY <1>1, <1>2, <4>1
      <4> QED BY <3>2, <3>3, <4>2 DEF KnowsItself
    <3> QED BY <3>2, <3>4
  <2> QED BY <2>2, <2>3
<1>3. CASE \E r \in Roles : c \in clients[r] /\ LookupPartner(c, r)
  BY <1>1, <1>2, <1>3, ThreadStep
<1>4. CASE /\ torn' = (torn \/ \E r \in Roles : c \in clients[r])
           /\ Goto(c, "done", Idle)
  <2>1. OnlyMoves(c) /\ pc'[c] = "done"
    BY <1>4, Moves
  <2>2. ~torn' => KnowsItself(c)'
    BY <1>1, <1>4, <2>1 DEF KnowsItself
  <2> QED BY <1>1, <2>1, <2>2, ThreadStep
<1> QED BY <1>3, <1>4 DEF BeginDisconnect, ContainsAnswers, Roles

LEMMA NotifyAgreement ==
  ASSUME RegistrationInv, NEW c \in Conns, Notify(c)
  PROVE  Agreement'
<1> USE DEF RegistrationInv, SlotInv, Typed
<1>1. UNCHANGED <<clients, hashOf, pair, claims, stale, torn>> /\ pc[c] = "notify"
  BY DEF Notify, registry, history
<1>2. CASE Abort(c)
  <2>1. OnlyMoves(c) /\ pc'[c] = "aborted"
    BY <1>2, Moves DEF Abort
  <2>2. KnowsItself(c)'
    BY <2>1 DEF KnowsItself
  <2> QED BY <1>1, <2>1, <2>2, ThreadStep
<1>3. CASE Goto(c, "unlist", [loc[c] EXCEPT !.peer = None, !.msg = None])
  <2>1. OnlyMoves(c) /\ pc'[c] = "unlist" /\ loc'[c] = [loc[c] EXCEPT !.peer = None, !.msg = None]
    BY <1>3, Moves
  <2>2. loc'[c].role = loc[c].role /\ loc'[c].hash = loc[c].hash
    BY <2>1 DEF TypeOK, Locals
  <2>3. ~torn => KnowsItself(c)
    BY DEF Agreement
  <2>4. ~torn' => KnowsItself(c)'
    BY <1>1, <2>1, <2>2, <2>3 DEF KnowsItself
  <2> QED BY <1>1, <2>1, <2>4, ThreadStep
<1> QED BY <1>2, <1>3 DEF Notify

\* The client leaves the list of its role; its side of the pair is about to be emptied.
LEMMA UnlistAgreement ==
  ASSUME RegistrationInv, NEW c \in Conns, Unlist(c)
  PROVE  Agreement'
<1> USE NoneAssumption DEF RegistrationInv, SlotInv, Typed
<1> DEFINE r == loc[c].role
           h == loc[c].hash
<1>1. /\ r \in Roles /\ h \in Hashes /\ pc[c] = "unlist"
      /\ UNCHANGED <<hashOf, pair, claims, stale>>
  BY DEF Unlist, ForgetHash, TypeOK, LocalsInUse, InUse, Locals
<1>2. \E lost \in BOOLEAN, missed \in BOOLEAN :
        /\ torn' = (torn \/ lost \/ missed)
        /\ clients' = IF lost THEN clients ELSE [clients EXCEPT ![r] = @ \ {c}]
        /\ missed \/ Goto(c, "unpair", [loc[c] EXCEPT !.snap = pair[h]])
  BY DEF Unlist, MayRace, RemoveClient
<1>3. torn => torn'
  BY <1>2
<1>4. \A q \in Roles : clients'[q] \subseteq clients[q]
  BY <1>1, <1>2 DEF TypeOK
<1>5. Claimed'
  BY <1>1, <1>4 DEF Agreement, Claimed
<1>6. ASSUME ~torn' PROVE ClientsHold' /\ SidesHeld' /\ \A d \in Conns : KnowsItself(d)'
  <2>1. ClientsHold /\ SidesHeld /\ \A d \in Conns : KnowsItself(d)
    BY <1>3, <1>6 DEF Agreement
  <2>2. /\ clients' = [clients EXCEPT ![r] = @ \ {c}]
        /\ Goto(c, "unpair", [loc[c] EXCEPT !.snap = pair[h]])
    BY <1>2, <1>6
  <2>3. /\ OnlyMoves(c) /\ pc'[c] = "unpair"
        /\ loc'[c] = [loc[c] EXCEPT !.snap = pair[h]]
    BY <2>2, Moves
  <2>4. loc'[c].role = r /\ loc'[c].hash = h
    BY <2>3 DEF TypeOK, Locals
  <2>5. /\ c \notin clients'[r] /\ c \in clients[r] /\ h = hashOf[r][c]
        /\ \A q \in Roles, d \in Conns : q # r \/ d # c => (d \in clients'[q] <=> d \in clients[q])
    BY <1>1, <2>1, <2>2 DEF KnowsItself, TypeOK
  <2>6. ClientsHold'
    BY <1>1, <1>4, <2>1 DEF ClientsHold
  <2>7. SidesHeld'
    <3> SUFFICES ASSUME NEW g \in Hashes, NEW q \in Roles, pair[g][q] # None, g \notin stale
                 PROVE  \/ pair[g][q] \in clients'[q] /\ hashOf[q][pair[g][q]] = g
                        \/ /\ pc'[pair[g][q]] = "unpair" /\ loc'[pair[g][q]].hash = g
                           /\ loc'[pair[g][q]].role = q
      BY <1>1 DEF SidesHeld
    <3>1. PICK x \in Conns : x = pair[g][q]
      BY DEF TypeOK, Refs
    <3>2. CASE x \in clients[q] /\ hashOf[q][x] = g
      <4>1. CASE q = r /\ x = c
        BY <2>3, <2>4, <2>5, <3>1, <3>2, <4>1
      <4>2. CASE q # r \/ x # c
        BY <2>5, <3>1, <3>2, <4>2
      <4> QED BY <4>1, <4>2
    <3>3. CASE pc[x] = "unpair" /\ loc[x].hash = g /\ loc[x].role = q
      <4>1. pc'[x] = pc[x] /\ loc'[x] = loc[x]
        BY <1>1, <2>3, <3>3 DEF OnlyMoves
      <4> QED BY <3>1, <3>3, <4>1
    <3> QED BY <2>1, <3>1, <3>2, <3>3 DEF SidesHeld
  <2>8. KnowsItself(c)'
    <3>1. h \in stale \/ pair[h][r] = c
      BY <1>1, <2>1, <2>5 DEF ClientsHold
    <3>2. \E g \in Hashes : <<c, r, g>> \in claims
      BY <1>1, <2>5 DEF Agreement, Claimed
    <3> QED BY <1>1, <2>3, <2>4, <2>5, <3>1, <3>2 DEF KnowsItself
  <2>9. ASSUME NEW d \in Conns \ {c} PROVE KnowsItself(d)'
    <3>1. pc'[d] = pc[d] /\ loc'[d] = loc[d] /\ KnowsItself(d) /\ loc[d].role \in Roles
      BY <2>1, <2>3 DEF OnlyMoves, TypeOK, Locals
    <3>2. \A q \in Roles : d \in clients'[q] <=> d \in clients[q]
      BY <2>5
    <3> QED BY <1>1, <3>1, <3>2 DEF KnowsItself, BothRoles
  <2> QED BY <2>6, <2>7, <2>8, <2>9
<1> QED BY <1>5, <1>6 DEF Agreement

\* The pair put back: this side, which was still the client's, is empty now; the other side
\* is as it was, or the hash is stale.
LEMMA UnpairAgreement ==
  ASSUME RegistrationInv, NEW c \in Conns, Unpair(c)
  PROVE  Agreement'
<1> USE NoneAssumption DEF RegistrationInv, SlotInv, Typed
<1> DEFINE r == loc[c].role
           h == loc[c].hash
<1>1. /\ r \in Roles /\ Other(r) \in Roles /\ Other(r) # r /\ h \in Hashes
      /\ \A q \in Roles : q = r \/ q = Other(r)
      /\ loc[c].snap \in [Roles -> Refs] /\ pair[h] \in [Roles -> Refs]
  BY OtherRole DEF Unpair, TypeOK, LocalsInUse, InUse, Locals, Roles
<1>2. pc[c] = "unpair" /\ UNCHANGED <<clients, hashOf, claims>>
  BY DEF Unpair
<1>3. OnlyMoves(c) /\ pc'[c] = "done"
  BY Moves DEF Unpair
<1>4. /\ torn => torn'
      /\ \/ torn'
         \/ /\ pair' = [pair EXCEPT ![h] = [loc[c].snap EXCEPT ![r] = None]]
            /\ stale' = stale \cup {x \in {h} : pair[h][Other(r)] # loc[c].snap[Other(r)]}
  BY DEF Unpair, WithoutSide, MayRace
<1>5. Claimed'
  BY <1>2 DEF Agreement, Claimed
<1>6. ASSUME ~torn' PROVE ClientsHold' /\ SidesHeld' /\ \A d \in Conns : KnowsItself(d)'
  <2>1. ClientsHold /\ SidesHeld /\ \A d \in Conns : KnowsItself(d)
    BY <1>4, <1>6 DEF Agreement
  <2>2. /\ c \notin clients[r]
        /\ h \in stale \/ pair[h][r] = c
        /\ \E g \in Hashes : <<c, r, g>> \in claims
    BY <1>2, <2>1 DEF KnowsItself
  <2>3. /\ pair'[h][r] = None /\ pair'[h][Other(r)] = loc[c].snap[Other(r)]
        /\ \A g \in Hashes \ {h} : pair'[g] = pair[g]
    BY <1>1, <1>4, <1>6 DEF TypeOK
  <2>4. /\ stale \subseteq stale'
        /\ h \notin stale' => pair'[h][Other(r)] = pair[h][Other(r)]
    BY <1>4, <1>6, <2>3
  <2>5. ClientsHold'
    <3> SUFFICES ASSUME NEW q \in Roles, NEW d \in clients[q], hashOf[q][d] \notin stale'
                 PROVE  hashOf[q][d] # None /\ pair'[hashOf[q][d]][q] = d
      BY <1>2 DEF ClientsHold
    <3>1. hashOf[q][d] \in Hashes /\ pair[hashOf[q][d]][q] = d /\ d \in Conns
      BY <2>1, <2>4 DEF ClientsHold, TypeOK
    <3>2. CASE hashOf[q][d] # h
      BY <2>3, <3>1, <3>2
    <3>3. CASE hashOf[q][d] = h
      <4>1. q # r
        BY <2>2, <2>4, <3>1, <3>3
      <4> QED BY <1>1, <2>4, <3>1, <3>3, <4>1
    <3> QED BY <3>1, <3>2, <3>3
  <2>6. SidesHeld'
    <3> SUFFICES ASSUME NEW g \in Hashes, NEW q \in Roles, pair'[g][q] # None, g \notin stale'
                 PROVE  \/ pair'[g][q] \in clients[q] /\ hashOf[q][pair'[g][q]] = g
                        \/ /\ pc'[pair'[g][q]] = "unpair" /\ loc'[pair'[g][q]].hash = g
                           /\ loc'[pair'[g][q]].role = q
      BY <1>2 DEF SidesHeld
    <3>1. pair'[g][q] = pair[g][q] /\ (g # h \/ q # r)
      BY <1>1, <2>3, <2>4
    <3>2. PICK x \in Conns : x = pair[g][q]
      BY <3>1 DEF TypeOK, Refs
    <3>3. CASE x \in clients[q] /\ hashOf[q][x] = g
      BY <3>1, <3>2, <3>3
    <3>4. CASE pc[x] = "unpair" /\ loc[x].hash = g /\ loc[x].role = q
      <4>1. pc'[x] = pc[x] /\ loc'[x] = loc[x]
        BY <1>3, <3>1, <3>4 DEF OnlyMoves
      <4> QED BY <3>1, <3>2, <3>4, <4>1
    <3> QED BY <2>1, <2>4, <3>1, <3>2, <3>3, <3>4 DEF SidesHeld
  <2>7. KnowsItself(c)'
    <3> SUFFICES ASSUME NEW q \in Roles, c \in clients[q] PROVE BothRoles(c)
      BY <1>2, <1>3 DEF KnowsItself, BothRoles
    <3>1. (\E g \in Hashes : <<c, r, g>> \in claims) /\ (\E g \in Hashes : <<c, q, g>> \in claims)
      BY <2>2 DEF Agreement, Claimed
    <3> QED BY <1>1, <2>2, <3>1 DEF BothRoles, Roles
  <2>8. ASSUME NEW d \in Conns \ {c} PROVE KnowsItself(d)'
    <3>1. pc'[d] = pc[d] /\ loc'[d] = loc[d] /\ KnowsItself(d)
      BY <1>3, <2>1 DEF OnlyMoves
    <3>2. pc[d] # "unpair"
      BY <1>2 DEF MonitorsHeld
    <3> QED BY <1>2, <3>1, <3>2 DEF KnowsItself, BothRoles
  <2> QED BY <2>5, <2>6, <2>7, <2>8
<1> QED BY <1>5, <1>6 DEF Agreement

-----------------------------------------------------------------------------
LEMMA RegistrationInvStep == RegistrationInv /\ [Next]_vars => RegistrationInv'
<1> SUFFICES ASSUME RegistrationInv, [Next]_vars PROVE Agreement'
  BY SlotInvStep DEF RegistrationInv
<1>1. CASE UNCHANGED vars
  BY <1>1, StillAgreement DEF RegistrationInv, vars, registry, history
<1>2. CASE StartThread \/ ListConnection
  BY <1>2, AcceptAgreement
<1>3. ASSUME NEW c \in Conns,
             \/ Accept(c) \/ Client(c) \/ Collect(c) \/ Input(c)
             \/ EndOfStream(c) \/ Handle(c) \/ Disconnect(c)
      PROVE  Agreement'
  <2>1. CASE \/ Accept(c) \/ Client(c) \/ Collect(c) \/ Input(c) \/ EndOfStream(c) \/ Tell(c)
             \/ (\E r \in Roles : Unregister(c, r)) \/ Payload(c) \/ Forward(c) \/ Respond(c)
    BY <2>1, CalmAgreement
  <2>2. CASE RegisterDisplayClient(c)
    BY <2>2, RegisterAgreement, AnswersTyped
       DEF RegisterDisplayClient, Roles, RegistrationInv, SlotInv, Typed
  <2>3. CASE RegisterControlClient(c)
    <3>1. loc[c].hash \in Hashes
      BY <2>3 DEF RegisterControlClient, RegistrationInv, SlotInv, Typed, LocalsInUse, InUse
    <3> QED BY <2>3, <3>1, RegisterAgreement, AnswersTyped
            DEF RegisterControlClient, Roles, RegistrationInv, SlotInv, Typed
  <2>4. CASE Store(c)
    BY <2>4, StoreAgreement
  <2>5. CASE Disconnect(c)
    BY <2>5, BeginAgreement, NotifyAgreement, UnlistAgreement, UnpairAgreement DEF Disconnect
  <2> QED BY <1>3, <2>1, <2>2, <2>3, <2>4, <2>5 DEF Handle
<1> QED BY <1>1, <1>2, <1>3 DEF Next

LEMMA RegistrationInvariant == Spec => []RegistrationInv
<1>1. Init => RegistrationInv
  BY SlotInvInit, AgreementInit DEF RegistrationInv
<1> QED BY <1>1, RegistrationInvStep, PTL DEF Spec

\* A registered client holds its side of its pair, though the sides are written by threads
\* under two monitors, unless an out-of-date pair was written back over its hash.
THEOREM ClientsKeepSides == Spec => []RegistrationKept
<1>1. RegistrationInv => RegistrationKept
  BY DEF RegistrationInv, Agreement, ClientsHold, RegistrationKept
<1> QED BY <1>1, RegistrationInvariant, PTL

\* A side of a pair is held by a client that is listed, or about to be emptied by the
\* disconnection of its client: with the same exception nobody is left in a pair.
THEOREM SidesAccounted == Spec => []SlotAccounted
<1>1. RegistrationInv => SlotAccounted
  BY DEF RegistrationInv, Agreement, SidesHeld, SlotAccounted
<1> QED BY <1>1, RegistrationInvariant, PTL

\* A client whose disconnection was handled to its end is in no client list, unless it had
\* registered in both roles.
THEOREM HandledForgotten == Spec => []HandledIsForgotten
<1>1. RegistrationInv => HandledIsForgotten
  BY DEF RegistrationInv, Agreement, KnowsItself, BothRoles, HandledIsForgotten
<1> QED BY <1>1, RegistrationInvariant, PTL
-----------------------------------------------------------------------------
(* The server implements the pairing service.                                *)

\* A client that has registered holds its side until its disconnection is handled to the
\* end, whatever the collections answer, as long as no out-of-date pair was written back.
SidesLast ==
  \A c \in Conns, r \in Roles, h \in Hashes :
    <<c, r, h>> \in claims => h \in stale \/ pair[h][r] = c \/ pc[c] = "done"

ServiceInv == ListingInv /\ IsolationInv /\ SidesLast

\* One thread moves, and does not come back to serve its client.
Proceeds(c) == OnlyMoves(c) /\ (pc[c] \in Leaving => pc'[c] \in Leaving)

\* The steps that change neither pairs nor registrations.
LEMMA ServingProceeds ==
  ASSUME TypeOK, NEW c \in Conns, Input(c) \/ EndOfStream(c) \/ Handle(c)
  PROVE  Proceeds(c) /\ pc[c] \notin Leaving
BY ServingMoves DEF Proceeds, Leaving, Unlisted, Ended

LEMMA DisconnectProceeds ==
  ASSUME TypeOK, NEW c \in Conns, Disconnect(c)
  PROVE  Proceeds(c) /\ pc[c] \in Leaving /\ pc'[c] \in Leaving /\ pc[c] # "done"
<1>1. pc[c] \in {"closing", "notify", "unlist", "unpair"}
  BY DEF Disconnect, BeginDisconnect, Notify, Unlist, Unpair
<1>2. \E p \in Leaving : \E l : Goto(c, p, l)
  BY DEF Disconnect, BeginDisconnect, LookupPartner, Notify, Unlist, Unpair, Abort, Leaving, Ended
<1> QED BY <1>1, <1>2, Moves DEF Proceeds, Leaving

LEMMA QuietRegistry ==
  ASSUME NEW c \in Conns,
         \/ Accept(c) \/ Client(c) \/ Collect(c) \/ Input(c) \/ EndOfStream(c)
         \/ RegisterDisplayClient(c) \/ RegisterControlClient(c) \/ Tell(c)
         \/ (\E r \in Roles : Unregister(c, r)) \/ Payload(c) \/ Forward(c) \/ Respond(c)
         \/ BeginDisconnect(c) \/ Notify(c) \/ Unlist(c)
  PROVE  UNCHANGED <<pair, claims, stale>>
<1>1. CASE Accept(c) \/ Client(c) \/ Collect(c) \/ Input(c) \/ EndOfStream(c)
  BY <1>1 DEF Accept, Client, Connect, Leave, Drain, Collect, Input, Receive, ReceiveResponse,
              ReceiveMalformed, ReceiveOversize, Take, EndOfStream, registry, history
<1>2. CASE RegisterDisplayClient(c) \/ RegisterControlClient(c)
  BY <1>2 DEF RegisterDisplayClient, RegisterControlClient, Register, registry
<1>3. CASE Tell(c) \/ (\E r \in Roles : Unregister(c, r)) \/ Payload(c)
  BY <1>3 DEF Tell, Unregister, Payload, registry
<1>4. CASE Forward(c) \/ Respond(c)
  BY <1>4 DEF Forward, Respond, registry, history
<1>5. CASE BeginDisconnect(c) \/ Notify(c) \/ Unlist(c)
  BY <1>5 DEF BeginDisconnect, Notify, Unlist, registry, history
<1> QED BY <1>1, <1>2, <1>3, <1>4, <1>5

LEMMA QuietSides ==
  ASSUME SidesLast, UNCHANGED <<pair, claims, stale>>,
         \A d \in Conns : pc[d] = "done" => pc'[d] = "done"
  PROVE  SidesLast'
BY DEF SidesLast

\* What a registration puts back: its own side, and the other as it was looked up.
LEMMA StorePoints ==
  ASSUME SlotInv, NEW c \in Conns, Store(c)
  PROVE  LET r == loc[c].role  h == loc[c].hash  o == Other(loc[c].role)
             other == loc[c].snap[o]
         IN /\ r \in Roles /\ o \in Roles /\ o # r /\ h \in Hashes /\ other \in Refs
            /\ \A q \in Roles : q = r \/ q = o
            /\ pair[h][r] = None /\ pair'[h][r] = c /\ pair'[h][o] = other
            /\ \A g \in Hashes \ {h} : pair'[g] = pair[g]
            /\ pair[h][o] # None => other = pair[h][o]
            /\ claims' = claims \cup {<<c, r, h>>}
            /\ stale' = stale \cup {x \in {h} : pair[h][o] # other}
            /\ OnlyMoves(c) /\ pc[c] = "store" /\ pc'[c] \in {"respond", "tell"}
<1> USE DEF SlotInv, Typed
<1> DEFINE r == loc[c].role
           h == loc[c].hash
           o == Other(loc[c].role)
           snap == loc[c].snap
<1>1. /\ r \in Roles /\ o \in Roles /\ o # r /\ h \in Hashes
      /\ snap \in [Roles -> Refs] /\ \A q \in Roles : q = r \/ q = o
  BY OtherRole DEF Store, TypeOK, LocalsInUse, InUse, Locals, Roles
<1>2. /\ pc[c] = "store" /\ pair[h][r] = None
      /\ pair[h][o] # None => snap[o] = pair[h][o]
  BY DEF Store, SnapshotsUsable
<1>3. /\ pair' = [pair EXCEPT ![h] = [snap EXCEPT ![r] = c]]
      /\ claims' = claims \cup {<<c, r, h>>}
      /\ stale' = stale \cup {x \in {h} : pair[h][o] # snap[o]}
      /\ OnlyMoves(c) /\ pc'[c] \in {"respond", "tell"}
  BY Moves DEF Store
<1>4. /\ pair'[h][r] = c /\ pair'[h][o] = snap[o]
      /\ \A g \in Hashes \ {h} : pair'[g] = pair[g]
  BY <1>1, <1>3 DEF TypeOK
<1> QED BY <1>1, <1>2, <1>3, <1>4

\* What a disconnection puts back: nobody on its own side, and the other as looked up.
LEMMA UnpairPoints ==
  ASSUME SlotInv, NEW c \in Conns, Unpair(c)
  PROVE  LET r == loc[c].role  h == loc[c].hash  o == Other(loc[c].role)
             other == loc[c].snap[o]
         IN /\ r \in Roles /\ o \in Roles /\ o # r /\ h \in Hashes /\ other \in Refs
            /\ \A q \in Roles : q = r \/ q = o
            /\ \/ UNCHANGED <<pair, stale>>
               \/ /\ pair'[h][r] = None /\ pair'[h][o] = other
                  /\ \A g \in Hashes \ {h} : pair'[g] = pair[g]
                  /\ stale' = stale \cup {x \in {h} : pair[h][o] # other}
            /\ other # None => other = pair[h][o]
            /\ UNCHANGED <<claims, buf>> /\ pair' \in [Hashes -> [Roles -> Refs]]
            /\ OnlyMoves(c) /\ pc[c] = "unpair" /\ pc'[c] = "done"
<1> USE DEF SlotInv, Typed
<1> DEFINE r == loc[c].role
           h == loc[c].hash
           o == Other(loc[c].role)
           snap == loc[c].snap
<1>1. /\ r \in Roles /\ o \in Roles /\ o # r /\ h \in Hashes
      /\ snap \in [Roles -> Refs] /\ \A q \in Roles : q = r \/ q = o
  BY OtherRole DEF Unpair, TypeOK, LocalsInUse, InUse, Locals, Roles
<1>2. /\ pc[c] = "unpair"
      /\ snap[o] # None => snap[o] = pair[h][o]
  BY DEF Unpair, SnapshotsUsable
<1>3. OnlyMoves(c) /\ pc'[c] = "done" /\ UNCHANGED <<claims, buf>>
  BY Moves DEF Unpair
<1>4. \/ UNCHANGED <<pair, stale>>
      \/ /\ pair' = [pair EXCEPT ![h] = [snap EXCEPT ![r] = None]]
         /\ stale' = stale \cup {x \in {h} : pair[h][o] # snap[o]}
  BY DEF Unpair, WithoutSide
<1>5. pair' \in [Hashes -> [Roles -> Refs]]
  BY TypedStep DEF Next, Disconnect, TypeOK
<1>6. ASSUME pair' = [pair EXCEPT ![h] = [snap EXCEPT ![r] = None]]
      PROVE  /\ pair'[h][r] = None /\ pair'[h][o] = snap[o]
             /\ \A g \in Hashes \ {h} : pair'[g] = pair[g]
  BY <1>1, <1>6 DEF TypeOK
<1> QED BY <1>1, <1>2, <1>3, <1>4, <1>5, <1>6

LEMMA StoreSides ==
  ASSUME ServiceInv, NEW c \in Conns, Store(c)
  PROVE  SidesLast'
<1> DEFINE r == loc[c].role
           h == loc[c].hash
<1>1. /\ r \in Roles /\ Other(r) \in Roles /\ h \in Hashes
      /\ \A q \in Roles : q = r \/ q = Other(r)
      /\ pair[h][r] = None /\ pair'[h][r] = c
      /\ \A g \in Hashes \ {h} : pair'[g] = pair[g]
      /\ claims' = claims \cup {<<c, r, h>>}
      /\ stale \subseteq stale' /\ (pair'[h][Other(r)] = pair[h][Other(r)] \/ h \in stale')
      /\ OnlyMoves(c) /\ pc[c] = "store"
  BY StorePoints DEF ServiceInv, ListingInv
<1> SUFFICES ASSUME NEW d \in Conns, NEW q \in Roles, NEW g \in Hashes, <<d, q, g>> \in claims'
             PROVE  g \in stale' \/ pair'[g][q] = d \/ pc'[d] = "done"
  BY DEF SidesLast
<1>2. CASE <<d, q, g>> = <<c, r, h>>
  BY <1>1, <1>2
<1>3. CASE <<d, q, g>> \in claims
  <2>1. g \in stale \/ pair[g][q] = d \/ pc[d] = "done"
    BY <1>3 DEF ServiceInv, SidesLast
  <2>2. pc[d] = "done" => pc'[d] = "done"
    BY <1>1 DEF OnlyMoves
  <2>3. pair[g][q] = d => g # h \/ q = Other(r)
    BY <1>1, NoneAssumption
  <2> QED BY <1>1, <2>1, <2>2, <2>3
<1> QED BY <1>1, <1>2, <1>3

LEMMA UnpairSides ==
  ASSUME ServiceInv, NEW c \in Conns, Unpair(c)
  PROVE  SidesLast'
<1> DEFINE r == loc[c].role
           h == loc[c].hash
<1>1. /\ r \in Roles /\ h \in Hashes
      /\ \A q \in Roles : q = r \/ q = Other(r)
      /\ claims' = claims /\ stale \subseteq stale'
      /\ UNCHANGED pair \/
         (/\ \A g \in Hashes \ {h} : pair'[g] = pair[g]
          /\ pair'[h][Other(r)] = pair[h][Other(r)] \/ h \in stale')
      /\ OnlyMoves(c) /\ pc[c] = "unpair" /\ pc'[c] = "done"
  BY UnpairPoints DEF ServiceInv, ListingInv
<1>2. h \in stale \/ pair[h][r] = c
  BY <1>1 DEF ServiceInv, SidesLast, IsolationInv, LookupsBacked, Backed
<1> SUFFICES ASSUME NEW d \in Conns, NEW q \in Roles, NEW g \in Hashes, <<d, q, g>> \in claims
             PROVE  g \in stale' \/ pair'[g][q] = d \/ pc'[d] = "done"
  BY <1>1 DEF SidesLast
<1>3. g \in stale \/ pair[g][q] = d \/ pc[d] = "done"
  BY DEF ServiceInv, SidesLast
<1>4. pc[d] = "done" => pc'[d] = "done"
  BY <1>1 DEF OnlyMoves
<1>5. CASE g = h /\ q = r /\ pair[g][q] = d
  BY <1>1, <1>2, <1>5
<1>6. CASE ~(g = h /\ q = r)
  BY <1>1, <1>3, <1>4, <1>6
<1> QED BY <1>1, <1>3, <1>4, <1>5, <1>6

LEMMA SidesStep == ServiceInv /\ [Next]_vars => SidesLast'
<1> SUFFICES ASSUME ServiceInv, [Next]_vars PROVE SidesLast'
  OBVIOUS
<1> USE DEF ServiceInv, ListingInv, SlotInv, Typed
<1>1. CASE UNCHANGED vars
  BY <1>1 DEF vars, registry, history, SidesLast
<1>2. CASE StartThread \/ ListConnection
  <2>1. UNCHANGED <<pair, claims, stale>>
    BY <1>2 DEF StartThread, ListConnection, registry, history
  <2>2. UNCHANGED pc \/ (acceptor \in Conns /\ pc[acceptor] = "absent" /\ OnlyMoves(acceptor))
    BY <1>2, Moves, NoneAssumption, AcceptorAssumption
    DEF StartThread, ListConnection, WorkerFree, ThreadsListed, TypeOK, Refs
  <2>3. \A d \in Conns : pc[d] = "done" => pc'[d] = "done"
    BY <2>2 DEF OnlyMoves
  <2> QED BY <2>1, <2>3, QuietSides
<1>3. ASSUME NEW c \in Conns, Accept(c) \/ Client(c) \/ Collect(c) PROVE SidesLast'
  <2>1. UNCHANGED pc
    BY <1>3 DEF Accept, Client, Connect, Leave, Drain, Collect
  <2> QED BY <1>3, <2>1, QuietRegistry, QuietSides
<1>4. ASSUME NEW c \in Conns, Input(c) \/ EndOfStream(c) \/ Handle(c) \/ Disconnect(c)
      PROVE  SidesLast'
  <2>1. \A d \in Conns : pc[d] = "done" => pc'[d] = "done"
    <3>1. OnlyMoves(c) /\ pc[c] # "done"
      BY <1>4, ServingProceeds, DisconnectProceeds DEF Proceeds, Leaving, Ended
    <3> QED BY <3>1 DEF OnlyMoves
  <2>2. CASE Store(c) \/ Unpair(c)
    BY <2>2, StoreSides, UnpairSides
  <2>3. CASE ~Store(c) /\ ~Unpair(c)
    <3>1. UNCHANGED <<pair, claims, stale>>
      BY <1>4, <2>3, QuietRegistry DEF Handle, Disconnect
    <3> QED BY <2>1, <3>1, QuietSides
  <2> QED BY <2>2, <2>3
<1> QED BY <1>1, <1>2, <1>3, <1>4 DEF Next

LEMMA ServiceInvariant == Spec => []ServiceInv
<1>1. Init => SidesLast
  BY DEF Init, SidesLast
<1>2. Init => ServiceInv
  BY <1>1, ListingInvInit, IsolationInit DEF ServiceInv
<1>3. ServiceInv /\ [Next]_vars => ServiceInv'
  BY SidesStep, ListingInvStep, IsolationStep DEF ServiceInv
<1> QED BY <1>2, <1>3, PTL DEF Spec

-----------------------------------------------------------------------------
(* The refinement, step by step.                                            *)

LEMMA ServiceNames ==
  /\ Service!Roles = Roles /\ \A r : Service!Other(r) = Other(r)
  /\ \A c, d : Service!Partners(c, d) <=> Partners(claims, c, d)
BY DEF Service!Roles, Roles, Service!Other, Other, Service!Partners, Partners

\* A thread that only moves ends its client's service, or nothing is seen of it.
LEMMA MoveMaps ==
  ASSUME NEW c \in Conns, Proceeds(c), UNCHANGED <<pair, claims, stale, buf>>
  PROVE  Service!End(c) \/ UNCHANGED Service!vars
<1>1. \A d \in Conns \ {c} : pc'[d] = pc[d]
  BY DEF Proceeds, OnlyMoves
<1>2. CASE pc[c] \notin Leaving /\ pc'[c] \in Leaving
  BY <1>1, <1>2 DEF Service!End
<1>3. CASE pc[c] \in Leaving <=> pc'[c] \in Leaving
  <2>1. {d \in Conns : pc'[d] \in Leaving} = {d \in Conns : pc[d] \in Leaving}
    BY <1>1, <1>3
  <2> QED BY <2>1 DEF Service!vars
<1> QED BY <1>2, <1>3 DEF Proceeds

\* The clients and the collector.
LEMMA ClientMaps ==
  ASSUME TypeOK, NEW c \in Conns, Client(c) \/ Collect(c)
  PROVE  Service!Read(c) \/ Service!Drop(c) \/ UNCHANGED Service!vars
<1>1. UNCHANGED <<pair, claims, stale, pc>>
  BY DEF Client, Connect, Leave, Drain, Collect, registry, history
<1>2. \/ buf[c] # <<>> /\ buf' = [buf EXCEPT ![c] = Tail(@)]
      \/ buf' = [buf EXCEPT ![c] = <<>>]
      \/ UNCHANGED buf
  BY DEF Client, Connect, Leave, Drain, Collect
<1>3. CASE buf[c] # <<>> /\ buf' = [buf EXCEPT ![c] = Tail(@)]
  BY <1>1, <1>3 DEF Service!Read
<1>4. CASE buf' = [buf EXCEPT ![c] = <<>>]
  BY <1>1, <1>4 DEF Service!Drop
<1>5. CASE UNCHANGED buf
  BY <1>1, <1>5 DEF Service!vars
<1> QED BY <1>2, <1>3, <1>4, <1>5

\* Writing to a socket delivers a packet to a partner or answers its sender.
LEMMA WriteMaps ==
  ASSUME ServiceInv, NEW c \in Conns, Forward(c) \/ Respond(c) \/ Notify(c)
  PROVE  \/ Service!End(c) \/ UNCHANGED Service!vars
         \/ \E d \in Conns, p \in Packets : Service!Deliver(c, d, p)
<1> USE DEF ServiceInv, ListingInv, SlotInv, Typed
<1>1. UNCHANGED <<pair, claims, stale>> /\ Proceeds(c)
  BY QuietRegistry, ServingProceeds, DisconnectProceeds DEF Handle, Disconnect
<1>2. CASE UNCHANGED buf
  BY <1>1, <1>2, MoveMaps
<1>3. CASE ~UNCHANGED buf
  <2>1. PICK d \in Conns, p \in Packets :
             /\ Deliver(d, p) /\ p.from = c /\ (c = d \/ Partners(claims, c, d))
    <3>1. CASE Forward(c)
      <4>1. /\ loc[c].peer \in Conns /\ loc[c].msg \in Packets /\ loc[c].msg.from = c
            /\ Partners(claims, c, loc[c].peer)
        BY <3>1 DEF Forward, LocalsInUse, InUse, IsolationInv, LookupsBacked, Backed
      <4> QED BY <1>3, <3>1, <4>1 DEF Forward, Gone
    <3>2. CASE Respond(c)
      <4>1. loc[c].reply \in Packets /\ loc[c].reply.from = c
        BY <3>2 DEF Respond, LocalsInUse, InUse, IsolationInv, LookupsBacked, Backed
      <4> QED BY <1>3, <3>2, <4>1 DEF Respond, Gone
    <3>3. CASE Notify(c)
      <4>1. /\ loc[c].peer \in Conns /\ loc[c].msg \in Packets /\ loc[c].msg.from = c
            /\ Partners(claims, c, loc[c].peer)
        BY <3>3 DEF Notify, LocalsInUse, InUse, IsolationInv, LookupsBacked, Backed
      <4> QED BY <1>3, <3>3, <4>1 DEF Notify, Gone
    <3> QED BY <3>1, <3>2, <3>3
  <2>2. pc[c] \in Leaving <=> pc'[c] \in Leaving
    <3>1. CASE Forward(c) \/ Respond(c)
      <4>1. \E l : Answer(c, l) \/ Goto(c, "read", l)
        BY <1>3, <3>1 DEF Forward, Respond, Gone
      <4>2. pc'[c] \notin Leaving
        BY <4>1, Moves DEF Leaving, Ended
      <4> QED BY <3>1, <4>2, ServingProceeds DEF Handle
    <3>2. CASE Notify(c)
      BY <3>2, DisconnectProceeds DEF Disconnect
    <3> QED BY <3>1, <3>2
  <2>3. {e \in Conns : pc'[e] \in Leaving} = {e \in Conns : pc[e] \in Leaving}
    BY <1>1, <2>2 DEF Proceeds, OnlyMoves
  <2>4. buf' = [buf EXCEPT ![d] = Append(@, p)]
    BY <2>1 DEF Deliver
  <2>5. Service!Deliver(c, d, p)
    BY <1>1, <2>1, <2>3, <2>4, ServiceNames DEF Service!Deliver
  <2> QED BY <2>5
<1> QED BY <1>2, <1>3

\* A pair with two sides put back is the pair that was there but for what changed.
LEMMA SidesPutBack ==
  ASSUME pair \in [Hashes -> [Roles -> Refs]], pair' \in [Hashes -> [Roles -> Refs]],
         NEW h \in Hashes, NEW r \in Roles, NEW o \in Roles, r # o, \A q \in Roles : q = r \/ q = o,
         \A g \in Hashes \ {h} : pair'[g] = pair[g]
  PROVE  /\ pair'[h][o] = pair[h][o] => pair' = [pair EXCEPT ![h][r] = pair'[h][r]]
         /\ pair' = [pair EXCEPT ![h][r] = pair'[h][r], ![h][o] = pair'[h][o]]
<1>1. ASSUME NEW f \in [Hashes -> [Roles -> Refs]],
             \A g \in Hashes \ {h} : f[g] = pair'[g], f[h][r] = pair'[h][r], f[h][o] = pair'[h][o]
      PROVE  f = pair'
  <2>1. f[h] = pair'[h]
    BY <1>1
  <2> QED BY <1>1, <2>1
<1>2. ASSUME pair'[h][o] = pair[h][o] PROVE pair' = [pair EXCEPT ![h][r] = pair'[h][r]]
  <2> DEFINE f == [pair EXCEPT ![h][r] = pair'[h][r]]
  <2>1. /\ f \in [Hashes -> [Roles -> Refs]] /\ \A g \in Hashes \ {h} : f[g] = pair[g]
        /\ f[h][r] = pair'[h][r] /\ f[h][o] = pair[h][o]
    OBVIOUS
  <2> HIDE DEF f
  <2>2. f = pair'
    BY <1>1, <1>2, <2>1
  <2> QED BY <2>2 DEF f
<1>3. pair' = [pair EXCEPT ![h][r] = pair'[h][r], ![h][o] = pair'[h][o]]
  <2> DEFINE f == [pair EXCEPT ![h][r] = pair'[h][r], ![h][o] = pair'[h][o]]
  <2>1. /\ f \in [Hashes -> [Roles -> Refs]] /\ \A g \in Hashes \ {h} : f[g] = pair[g]
        /\ f[h][r] = pair'[h][r] /\ f[h][o] = pair'[h][o]
    OBVIOUS
  <2> HIDE DEF f
  <2>2. f = pair'
    BY <1>1, <2>1
  <2> QED BY <2>2 DEF f
<1> QED BY <1>2, <1>3

\* A registration takes a free side, and may bring back whoever left the other meanwhile.
LEMMA StoreMaps ==
  ASSUME ServiceInv, NEW c \in Conns, Store(c)
  PROVE  \E r \in Roles, h \in Hashes : Service!Register(c, r, h) \/ Service!RegisterOver(c, r, h)
<1> USE NoneAssumption DEF ServiceInv, ListingInv, SlotInv, Typed
<1> DEFINE r == loc[c].role
           h == loc[c].hash
           o == Other(loc[c].role)
           d == loc[c].snap[o]
<1>1. /\ r \in Roles /\ o \in Roles /\ o # r /\ h \in Hashes /\ d \in Refs
      /\ \A q \in Roles : q = r \/ q = o
      /\ pair[h][r] = None /\ pair'[h][r] = c /\ pair'[h][o] = d
      /\ \A g \in Hashes \ {h} : pair'[g] = pair[g]
      /\ pair[h][o] # None => d = pair[h][o]
      /\ claims' = claims \cup {<<c, r, h>>}
      /\ stale' = stale \cup {x \in {h} : pair[h][o] # d}
      /\ OnlyMoves(c) /\ pc[c] = "store" /\ pc'[c] \in {"respond", "tell"}
  BY StorePoints
<1>2. /\ pair'[h][o] = pair[h][o] => pair' = [pair EXCEPT ![h][r] = c]
      /\ pair' = [pair EXCEPT ![h][r] = c, ![h][o] = d]
  <2>1. pair \in [Hashes -> [Roles -> Refs]] /\ pair' \in [Hashes -> [Roles -> Refs]]
    BY TypedStep DEF Next, Handle, TypeOK
  <2> HIDE DEF r, h, o, d
  <2>2. /\ pair'[h][o] = pair[h][o] => pair' = [pair EXCEPT ![h][r] = pair'[h][r]]
        /\ pair' = [pair EXCEPT ![h][r] = pair'[h][r], ![h][o] = pair'[h][o]]
    BY <1>1, <2>1, SidesPutBack
  <2> QED BY <1>1, <2>2
<1>3. /\ c \notin {e \in Conns : pc[e] \in Leaving} /\ UNCHANGED buf
      /\ {e \in Conns : pc'[e] \in Leaving} = {e \in Conns : pc[e] \in Leaving}
  BY <1>1 DEF OnlyMoves, Leaving, Ended, Store
<1>4. d = None \/ <<d, o, h>> \in claims
  BY <1>1 DEF IsolationInv, LookupsBacked, Backed
<1> HIDE DEF r, h, o, d
<1>5. CASE d = pair[h][o]
  <2>1. stale' = stale
    BY <1>1, <1>5
  <2>2. Service!Register(c, r, h)
    BY <1>1, <1>2, <1>3, <1>5, <2>1 DEF Service!Register
  <2> QED BY <1>1, <2>2
<1>6. CASE d # pair[h][o]
  <2>1. /\ stale' = stale \cup {h} /\ pair[h][o] = None /\ d \in Conns /\ <<d, o, h>> \in claims
    BY <1>1, <1>4, <1>6 DEF Refs
  <2>2. d \in {e \in Conns : pc[e] \in Leaving} \/ h \in stale
    BY <1>1, <2>1 DEF SidesLast, Leaving, Ended
  <2>3. Service!Other(r) = o
    BY ServiceNames DEF r, o
  <2>4. Service!RegisterOver(c, r, h)
    BY <1>1, <1>2, <1>3, <2>1, <2>2, <2>3 DEF Service!RegisterOver
  <2> QED BY <1>1, <2>4
<1> QED BY <1>5, <1>6

\* A disconnection empties its client's side, and may drop whoever took the other meanwhile.
LEMMA UnpairMaps ==
  ASSUME ServiceInv, NEW c \in Conns, Unpair(c)
  PROVE  \/ Service!End(c) \/ UNCHANGED Service!vars
         \/ \E r \in Roles, h \in Hashes : Service!Release(c, r, h) \/ Service!ReleaseOver(c, r, h)
<1> USE DEF ServiceInv, ListingInv, SlotInv, Typed
<1> DEFINE r == loc[c].role
           h == loc[c].hash
           o == Other(loc[c].role)
           d == loc[c].snap[o]
<1>1. /\ r \in Roles /\ o \in Roles /\ o # r /\ h \in Hashes /\ d \in Refs
      /\ \A q \in Roles : q = r \/ q = o
      /\ \/ UNCHANGED <<pair, stale>>
         \/ /\ pair'[h][r] = None /\ pair'[h][o] = d
            /\ \A g \in Hashes \ {h} : pair'[g] = pair[g]
            /\ stale' = stale \cup {x \in {h} : pair[h][o] # d}
      /\ d # None => d = pair[h][o]
      /\ UNCHANGED <<claims, buf>> /\ pair' \in [Hashes -> [Roles -> Refs]]
      /\ OnlyMoves(c) /\ pc[c] = "unpair" /\ pc'[c] = "done"
  BY UnpairPoints
<1>2. <<c, r, h>> \in claims
  BY <1>1 DEF IsolationInv, LookupsBacked, Backed
<1>3. Service!Leaves(c, r, h)
  <2>1. pair[h][r] = c \/ h \in stale
    BY <1>1, <1>2 DEF SidesLast
  <2>2. c \in {e \in Conns : pc[e] \in Leaving}
    BY <1>1 DEF Leaving
  <2> QED BY <1>2, <2>1, <2>2 DEF Service!Leaves
<1>4. {e \in Conns : pc'[e] \in Leaving} = {e \in Conns : pc[e] \in Leaving}
  BY <1>1 DEF OnlyMoves, Leaving, Ended
<1>5. Service!Other(r) = o
  BY ServiceNames
<1>6. CASE UNCHANGED <<pair, stale>>
  BY <1>1, <1>4, <1>6 DEF Service!vars
<1>7. CASE ~UNCHANGED <<pair, stale>>
  <2>1. /\ pair'[h][o] = pair[h][o] => pair' = [pair EXCEPT ![h][r] = None]
        /\ pair' = [pair EXCEPT ![h][r] = None, ![h][o] = d]
    <3>1. pair \in [Hashes -> [Roles -> Refs]]
      BY DEF TypeOK
    <3> HIDE DEF r, h, o, d
    <3>2. /\ pair'[h][o] = pair[h][o] => pair' = [pair EXCEPT ![h][r] = pair'[h][r]]
          /\ pair' = [pair EXCEPT ![h][r] = pair'[h][r], ![h][o] = pair'[h][o]]
      BY <1>1, <1>7, <3>1, SidesPutBack
    <3> QED BY <1>1, <1>7, <3>2
  <2> HIDE DEF r, h, o, d
  <2>2. CASE d = pair[h][o]
    <3>1. stale' = stale
      BY <1>1, <1>7, <2>2
    <3>2. Service!Release(c, r, h)
      BY <1>1, <1>3, <1>4, <1>7, <2>1, <2>2, <3>1 DEF Service!Release
    <3> QED BY <1>1, <3>2
  <2>3. CASE d # pair[h][o]
    <3>1. stale' = stale \cup {h} /\ pair[h][o] # None /\ d = None
      BY <1>1, <1>7, <2>3
    <3>2. Service!ReleaseOver(c, r, h)
      BY <1>1, <1>3, <1>4, <1>5, <2>1, <3>1 DEF Service!ReleaseOver
    <3> QED BY <1>1, <3>2
  <2> QED BY <2>2, <2>3
<1> QED BY <1>6, <1>7

\* The accept loop and everything else a thread does is seen by no other client.
LEMMA AcceptMaps ==
  ASSUME ServiceInv, StartThread \/ ListConnection \/ \E c \in Conns : Accept(c)
  PROVE  UNCHANGED Service!vars
<1> USE DEF ServiceInv, ListingInv, SlotInv, Typed
<1>1. UNCHANGED <<pair, claims, stale, buf>>
  BY DEF StartThread, ListConnection, Accept, registry, history
<1>2. UNCHANGED pc \/ (/\ acceptor \in Conns /\ OnlyMoves(acceptor)
                       /\ pc[acceptor] = "absent" /\ pc'[acceptor] = "read")
  BY Moves, NoneAssumption, AcceptorAssumption
  DEF StartThread, ListConnection, Accept, WorkerFree, ThreadsListed, TypeOK, Refs
<1>3. {d \in Conns : pc'[d] \in Leaving} = {d \in Conns : pc[d] \in Leaving}
  BY <1>2 DEF OnlyMoves, Leaving, Ended
<1> QED BY <1>1, <1>3 DEF Service!vars

LEMMA LookupMaps ==
  ASSUME ServiceInv, NEW c \in Conns,
         \/ Input(c) \/ EndOfStream(c) \/ BeginDisconnect(c) \/ Unlist(c)
         \/ RegisterDisplayClient(c) \/ RegisterControlClient(c) \/ Tell(c)
         \/ (\E r \in Roles : Unregister(c, r)) \/ Payload(c)
  PROVE  Service!End(c) \/ UNCHANGED Service!vars
<1> USE DEF ServiceInv, ListingInv, SlotInv, Typed
<1>1. Proceeds(c) /\ UNCHANGED <<pair, claims, stale>>
  BY ServingProceeds, DisconnectProceeds, QuietRegistry DEF Handle, Disconnect
<1>2. UNCHANGED buf
  <2>1. CASE Input(c) \/ EndOfStream(c) \/ BeginDisconnect(c) \/ Unlist(c)
    BY <2>1 DEF Input, Receive, ReceiveResponse, ReceiveMalformed, ReceiveOversize, Take,
                EndOfStream, BeginDisconnect, Unlist
  <2>2. CASE \/ RegisterDisplayClient(c) \/ RegisterControlClient(c) \/ Tell(c)
             \/ (\E r \in Roles : Unregister(c, r)) \/ Payload(c)
    BY <2>2 DEF RegisterDisplayClient, RegisterControlClient, Register, Tell, Unregister, Payload
  <2> QED BY <2>1, <2>2
<1> QED BY <1>1, <1>2, MoveMaps

LEMMA ServiceInit == Init => Service!Init
<1> SUFFICES ASSUME Init PROVE Service!Init
  OBVIOUS
<1>1. {c \in Conns : pc[c] \in Leaving} = {}
  BY DEF Init, Leaving, Ended
<1> QED BY <1>1, ServiceNames DEF Init, Service!Init, NoPair

LEMMA ServiceStep == ServiceInv /\ [Next]_vars => [Service!Next]_Service!vars
<1> SUFFICES ASSUME ServiceInv, [Next]_vars PROVE Service!Next \/ UNCHANGED Service!vars
  OBVIOUS
<1>1. CASE UNCHANGED vars
  BY <1>1 DEF vars, registry, history, Service!vars
<1>2. CASE StartThread \/ ListConnection \/ \E c \in Conns : Accept(c)
  BY <1>2, AcceptMaps
<1>3. ASSUME NEW c \in Conns, Client(c) \/ Collect(c)
      PROVE  Service!Next \/ UNCHANGED Service!vars
  BY <1>3, ClientMaps DEF Service!Next, ServiceInv, ListingInv, SlotInv, Typed
<1>4. ASSUME NEW c \in Conns, Input(c) \/ EndOfStream(c) \/ Handle(c) \/ Disconnect(c)
      PROVE  Service!Next \/ UNCHANGED Service!vars
  <2>1. CASE Forward(c) \/ Respond(c) \/ Notify(c)
    BY <2>1, WriteMaps DEF Service!Next
  <2>2. CASE Store(c)
    BY <2>2, StoreMaps, ServiceNames DEF Service!Next
  <2>3. CASE Unpair(c)
    BY <2>3, UnpairMaps, ServiceNames DEF Service!Next
  <2>4. CASE \/ Input(c) \/ EndOfStream(c) \/ BeginDisconnect(c) \/ Unlist(c)
             \/ RegisterDisplayClient(c) \/ RegisterControlClient(c) \/ Tell(c)
             \/ (\E r \in Roles : Unregister(c, r)) \/ Payload(c)
    BY <2>4, LookupMaps DEF Service!Next
  <2> QED BY <1>4, <2>1, <2>2, <2>3, <2>4 DEF Handle, Disconnect
<1> QED BY <1>1, <1>2, <1>3, <1>4 DEF Next

\* For any number of clients and hashes, the accept loop, the client threads and the registry
\* with all their races are a pairing service: free sides are taken, left sides emptied, and
\* packets go to partners.
THEOREM ImplementsService == Spec => ServiceSpec
<1>1. Spec => Service!Init /\ [][Service!Next]_Service!vars
  BY ServiceInit, ServiceStep, ServiceInvariant, PTL DEF Spec
<1> QED BY <1>1 DEF ServiceSpec, Service!Spec

=============================================================================
