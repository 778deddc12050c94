-------------------------- MODULE OperationalServer --------------------------
(***************************************************************************)
(* The operational server: the accept loop (OperationalServerSocketWorker), *)
(* one thread per client (OperationalServerClientConnection) and the        *)
(* registry they share (OperationalServerContext), which pairs a display    *)
(* client with a control client under a hash and relays packets between     *)
(* them.                                                                    *)
(*                                                                          *)
(* Registration runs under the monitor of the context (ctx); the            *)
(* disconnection callbacks and the accept loop run under the monitor of the *)
(* worker (wrk).  The two monitors do not exclude each other and lookups    *)
(* take neither, so both sides of a pair are read and written back          *)
(* concurrently, and the unsynchronised collections may answer wrongly      *)
(* while another thread changes them.                                       *)
(***************************************************************************)
EXTENDS Naturals, Sequences

CONSTANTS
  Conns,       \* connections: one socket and one thread each, never reused
  Hashes,      \* what OperationalServerHash.newHash may return
  None,        \* Java's null
  Acceptor,    \* the thread of the accept loop
  SendBuf,     \* packets a client's socket takes before a write blocks
  MaxRequests  \* bound: packets a client sends on one connection

ASSUME NoneAssumption     == None \notin Conns \cup Hashes
ASSUME AcceptorAssumption == Acceptor \notin Conns \cup {None}
ASSUME SendBufAssumption  == SendBuf \in Nat \ {0}
ASSUME RequestsAssumption == MaxRequests \in Nat

VARIABLES
  link,      \* the client's end of a connection
  sent,      \* packets read from a connection so far
  pc, loc,   \* control point and local variables of each connection's thread
  ctx,       \* holder of the OperationalServerContext monitor
  wrk,       \* holder of the OperationalServerSocketWorker monitor
  acceptor,  \* the connection the accept loop is handing to its thread
  listed,    \* _operationalServerClientConnections
  clients,   \* _displayClients and _controlClients, by role
  hashOf,    \* _displayClientHashes and _controlClientHashes, by role
  known,     \* keys of _hashToPairMap
  pair,      \* values of _hashToPairMap: the client of each role
  buf,       \* packets written to a client's socket and not yet read
  claims,    \* history: successful registrations <<client, role, hash>>
  stale,     \* history: hashes where an out-of-date pair was written back
  torn       \* history: a racing call on a collection answered wrongly

registry == <<clients, hashOf, known, pair>>
worker   == <<wrk, acceptor, listed>>
history  == <<claims, stale, torn>>
vars == <<link, sent, pc, loc, ctx, worker, registry, buf, history>>

Roles == {"display", "control"}
Other(r) == IF r = "display" THEN "control" ELSE "display"
Refs  == Conns \cup {None}

\* Packets, by what the relay distinguishes; the relayed bytes are "DATA".
RegisterResponse(r) ==
  IF r = "display" THEN "RegisterDisplayClientResponse" ELSE "RegisterControlClientResponse"
UnregisterRequest(r) ==
  IF r = "display" THEN "UnregisterDisplayClientRequest" ELSE "UnregisterControlClientRequest"
UnregisterResponse(r) ==
  IF r = "display" THEN "UnregisterDisplayClientResponse" ELSE "UnregisterControlClientResponse"

PacketTypes == {RegisterResponse(r) : r \in Roles} \cup {UnregisterRequest(r) : r \in Roles}
                 \cup {UnregisterResponse(r) : r \in Roles} \cup {"PayloadRequest"}
Payloads == Hashes \cup {"ALREADY_REGISTERED", "UNKNOWN_HASH", "DATA"}
Packets  == [type : PacketTypes, from : Conns, payload : Payloads]
Packet(t, c, p) == [type |-> t, from |-> c, payload |-> p]

NoPair == [r \in Roles |-> None]

\* Local variables of a thread: the role and hash of the operation under way, the
\* pair looked up, the peer to write to, the packet for it and the own answer.
Locals == [role : Roles, hash : Hashes \cup {None}, snap : [Roles -> Refs],
           peer : Refs, msg : Packets \cup {None}, reply : Packets \cup {None}]

\* Their values between two requests.
Idle == [role |-> "display", hash |-> None, snap |-> NoPair,
         peer |-> None, msg |-> None, reply |-> None]

Requests == {"regDisplay", "regControl", "unregDisplay", "unregControl", "payload"}
Ended    == {"done", "aborted", "dead"}
Points   == Requests \cup Ended
              \cup {"absent", "read", "store", "tell", "forward", "respond",
                    "closing", "notify", "unlist", "unpair"}

Init ==
  /\ link = [c \in Conns |-> "none"]
  /\ sent = [c \in Conns |-> 0]
  /\ pc   = [c \in Conns |-> "absent"]
  /\ loc  = [c \in Conns |-> Idle]
  /\ ctx = None /\ wrk = None /\ acceptor = None
  /\ listed  = {}
  /\ clients = [r \in Roles |-> {}]
  /\ hashOf  = [r \in Roles |-> [c \in Conns |-> None]]
  /\ known   = {}
  /\ pair    = [h \in Hashes |-> NoPair]
  /\ buf     = [c \in Conns |-> <<>>]
  /\ claims = {} /\ stale = {} /\ torn = FALSE

-----------------------------------------------------------------------------
(***************************************************************************)
(* Definitions named X_Y are X with a fault Y in it; no run uses them but to  *)
(* show that a property of a run fails without the code X stands for.        *)
(***************************************************************************)

(***************************************************************************)
(* What an unsynchronised collection may answer.  A HashMap that another    *)
(* thread is growing may miss a key and lose a put; an ArrayList another    *)
(* thread is removing from may miss an element; an add and a remove that    *)
(* overlap may undo each other.                                             *)
(***************************************************************************)
Storing(c, r)  == \E d \in Conns \ {c} : pc[d] = "store" /\ loc[d].role = r
Growing(c)     == \E d \in Conns \ {c} : pc[d] = "store" /\ loc[d].hash \notin known
Removing(c, r) == \E d \in Conns \ {c} : pc[d] = "unlist" /\ loc[d].role = r

\* _rClients.contains(c), _rClientHashes.get(c), _hashToPairMap.get(h)
ContainsAnswers(c, r) == {c \in clients[r]} \cup {b \in {FALSE} : Removing(c, r)}
HashAnswers(c, r)     == {hashOf[r][c]} \cup {n \in {None} : Storing(c, r)}
PairAnswers(c, h)     == {pair[h]} \cup {p \in {NoPair} : Growing(c)}

\* Whether a call that races with another thread's is lost.
MayRace(racing) == {FALSE} \cup {b \in {TRUE} : racing}

\* getDisplayClient and getControlClient: null for a null or unknown hash.
PeerAnswers_AnyPair(c, r, h) == IF h = None THEN {None} ELSE {None} \cup clients[r]
PeerAnswers(c, r, h) == IF h = None THEN {None} ELSE {p[r] : p \in PairAnswers(c, h)}
Peer(r, h)           == IF h = None THEN None ELSE pair[h][r]

\* synchronized(this) in the context and in the worker.
ContextFree_Unlocked == TRUE
ContextFree == ctx = None
WorkerFree_Unlocked == TRUE
WorkerFree  == wrk = None

\* pair.fst == null, pair.snd == null
SideFree(h, r) == pair[h][r] = None
\* Pair.of(null, pair.snd), Pair.of(pair.fst, null)
WithoutSide_Both(p, r) == NoPair
WithoutSide_Neither(p, r) == p
WithoutSide(p, r) == [p EXCEPT ![r] = None]
\* _displayClients.remove(client), _controlClients.remove(client)
RemoveClient_Kept(s, c) == s
RemoveClient(s, c) == s \ {c}

Goto(c, point, locals) ==
  /\ pc'  = [pc EXCEPT ![c] = point]
  /\ loc' = [loc EXCEPT ![c] = locals]

\* The end of handleClientRequest: answer the client if there is an answer.
Answer(c, l) == IF l.reply = None THEN Goto(c, "read", Idle) ELSE Goto(c, "respond", l)
\* Relay l.msg to l.peer first, if there is one.
Relay_Unchecked(c, l) == Goto(c, "forward", l)
Relay(c, l)  == IF l.peer = None THEN Answer(c, l) ELSE Goto(c, "forward", l)

\* writeData on the socket of p: blocks while a connected client's buffer is full.
Deliver(p, m) ==
  /\ link[p] = "up" /\ Len(buf[p]) < SendBuf
  /\ buf' = [buf EXCEPT ![p] = Append(@, m)]
\* Once p has gone a write is either lost or throws a SocketException.
Gone(p) == link[p] \in {"gone", "closed"} /\ UNCHANGED buf

-----------------------------------------------------------------------------
(* The clients and the network (outside the server).                        *)

Connect(c) ==
  /\ link[c] = "none"
  /\ link' = [link EXCEPT ![c] = "up"]
  /\ UNCHANGED <<sent, pc, loc, ctx, worker, registry, buf, history>>

Leave(c) ==
  /\ link[c] = "up"
  /\ link' = [link EXCEPT ![c] = "gone"]
  /\ buf'  = [buf EXCEPT ![c] = <<>>]
  /\ UNCHANGED <<sent, pc, loc, ctx, worker, registry, history>>

Drain(c) ==
  /\ link[c] = "up" /\ buf[c] # <<>>
  /\ buf' = [buf EXCEPT ![c] = Tail(@)]
  /\ UNCHANGED <<link, sent, pc, loc, ctx, worker, registry, history>>

\* The garbage collector closes the socket of a connection nothing refers to.
Reachable(c) ==
  \/ pc[c] \notin Ended \/ c \in listed
  \/ \E r \in Roles : c \in clients[r] \/ hashOf[r][c] # None \/ \E h \in Hashes : pair[h][r] = c
  \/ \E d \in Conns : loc[d].peer = c \/ \E r \in Roles : loc[d].snap[r] = c

Collect(c) ==
  /\ link[c] \in {"up", "gone"} /\ ~Reachable(c)
  /\ link' = [link EXCEPT ![c] = "closed"]
  /\ buf'  = [buf EXCEPT ![c] = <<>>]
  /\ UNCHANGED <<sent, pc, loc, ctx, worker, registry, history>>

-----------------------------------------------------------------------------
(* The accept loop.                                                         *)

\* accept() returns; the connection is not yet listed, its thread not started.
Accept(c) ==
  /\ acceptor = None /\ pc[c] = "absent" /\ link[c] # "none"
  /\ acceptor' = c
  /\ UNCHANGED <<link, sent, pc, loc, ctx, wrk, listed, registry, buf, history>>

StartThread ==
  /\ acceptor # None /\ WorkerFree
  /\ wrk' = Acceptor
  /\ Goto(acceptor, "read", Idle)
  /\ UNCHANGED <<link, sent, ctx, acceptor, listed, registry, buf, history>>

ListConnection ==
  /\ wrk = Acceptor
  /\ listed' = listed \cup {acceptor}
  /\ wrk' = None /\ acceptor' = None
  /\ UNCHANGED <<link, sent, pc, loc, ctx, registry, buf, history>>

-----------------------------------------------------------------------------
(* serveClient: one packet is read, handled and answered at a time.         *)

Reading(c) == pc[c] = "read" /\ link[c] \in {"up", "gone"}

Take(c) ==
  /\ Reading(c) /\ sent[c] < MaxRequests
  /\ sent' = [sent EXCEPT ![c] = @ + 1]
  /\ UNCHANGED <<link, ctx, worker, registry, buf, history>>

\* A control client registers with a hash of its choice.
Receive(c) ==
  /\ Take(c)
  /\ \/ \E k \in Requests \ {"regControl"} : Goto(c, k, Idle)
     \/ \E h \in Hashes : Goto(c, "regControl", [Idle EXCEPT !.hash = h])

\* A response type: no case of the switch does anything.
ReceiveResponse(c) == Take(c) /\ UNCHANGED <<pc, loc>>

\* decode or fromByteArray throws: the thread ends without telling the worker.
ReceiveMalformed(c) == Take(c) /\ Goto(c, "dead", Idle)

\* PACKET_MAX_SIZE bytes without a magic field read as an empty request.
ReceiveOversize(c) == Take(c) /\ Goto(c, "closing", Idle)

\* End of stream (an empty request: clientServed) or a reset while reading
\* (a SocketException: clientDisconnected); both callbacks do the same.
EndOfStream(c) ==
  /\ Reading(c) /\ link[c] = "gone"
  /\ Goto(c, "closing", Idle)
  /\ UNCHANGED <<link, sent, ctx, worker, registry, buf, history>>

-----------------------------------------------------------------------------
(* handleClientRequest.                                                     *)

\* registerDisplayClient and registerControlClient up to the lookup of the pair,
\* in the context's monitor, which is kept only if the client will be stored.
Register(c, r, h, seen) ==
  LET unknown == r = "control" /\ h \notin known
      refuse(why) == /\ Answer(c, [Idle EXCEPT !.reply = Packet(RegisterResponse(r), c, why)])
                     /\ UNCHANGED ctx
  IN
  /\ ContextFree
  /\ torn' = (torn \/ seen # (c \in clients[r]))
  /\ \/ seen /\ refuse("ALREADY_REGISTERED")
     \/ ~seen /\ unknown /\ refuse("UNKNOWN_HASH")
     \/ ~seen /\ ~unknown /\ ~SideFree(h, r) /\ refuse("ALREADY_REGISTERED")
     \/ /\ ~seen /\ ~unknown /\ SideFree(h, r)
        /\ ctx' = c
        /\ Goto(c, "store", [Idle EXCEPT !.role = r, !.hash = h, !.snap = pair[h]])
  /\ UNCHANGED <<link, sent, worker, registry, buf, claims, stale>>

RegisterDisplayClient(c) ==
  /\ pc[c] = "regDisplay"
  /\ \E h \in Hashes, seen \in ContainsAnswers(c, "display") : Register(c, "display", h, seen)

RegisterControlClient(c) ==
  /\ pc[c] = "regControl"
  /\ \E seen \in ContainsAnswers(c, "control") : Register(c, "control", loc[c].hash, seen)

\* The two puts and the add, and the end of the monitor.  The pair put back is
\* the one looked up, with this side filled in.
Store(c) ==
  LET r == loc[c].role
      h == loc[c].hash
      reply == Packet(RegisterResponse(r), c, h)
  IN
  /\ pc[c] = "store"
  /\ pair'   = [pair EXCEPT ![h] = [loc[c].snap EXCEPT ![r] = c]]
  /\ known'  = known \cup {h}
  /\ hashOf' = [hashOf EXCEPT ![r][c] = h]
  /\ \E lost \in MayRace(Removing(c, r)) :
       /\ torn' = (torn \/ lost)
       /\ clients' = IF lost THEN clients ELSE [clients EXCEPT ![r] = @ \cup {c}]
  /\ claims' = claims \cup {<<c, r, h>>}
  /\ stale'  = stale \cup {x \in {h} : pair[h][Other(r)] # loc[c].snap[Other(r)]}
  /\ ctx' = None
  /\ Goto(c, IF r = "display" THEN "respond" ELSE "tell",
          [Idle EXCEPT !.role = r, !.hash = h, !.msg = reply, !.reply = reply])
  /\ UNCHANGED <<link, sent, worker, buf>>

\* A registered control client is announced to the display client, if any.
Tell(c) ==
  /\ pc[c] = "tell"
  /\ \E p \in PeerAnswers(c, "display", loc[c].hash) :
       /\ torn' = (torn \/ p # Peer("display", loc[c].hash))
       /\ Relay(c, [loc[c] EXCEPT !.peer = p])
  /\ UNCHANGED <<link, sent, ctx, worker, registry, buf, claims, stale>>

\* An unregistration is answered and passed on, and unregisters nothing.  The
\* response to a client without a hash cannot be built: the thread ends.
Unregister(c, r) ==
  /\ pc[c] = (IF r = "display" THEN "unregDisplay" ELSE "unregControl")
  /\ \E h \in HashAnswers(c, r) : \E p \in PeerAnswers(c, Other(r), h) :
       /\ torn' = (torn \/ h # hashOf[r][c] \/ p # Peer(Other(r), h))
       /\ \/ h = None /\ Goto(c, "dead", Idle)
          \/ /\ h # None
             /\ LET m == Packet(UnregisterResponse(r), c, h)
                IN Relay(c, [Idle EXCEPT !.peer = p, !.msg = m, !.reply = m])
  /\ UNCHANGED <<link, sent, ctx, worker, registry, buf, claims, stale>>

\* A payload goes to the other side of the sender's pair: its display pair if it
\* is a display client, else its control pair, else nowhere; there is no answer.
RelayPayload(c, r) ==
  \E h \in HashAnswers(c, r) : \E p \in PeerAnswers(c, Other(r), h) :
    /\ torn' = (torn \/ (r = "control" /\ c \in clients["display"])
                     \/ h # hashOf[r][c] \/ p # Peer(Other(r), h))
    /\ Relay(c, [Idle EXCEPT !.peer = p, !.msg = Packet("PayloadRequest", c, "DATA")])

Payload(c) ==
  /\ pc[c] = "payload"
  /\ \/ TRUE \in ContainsAnswers(c, "display") /\ RelayPayload(c, "display")
     \/ /\ FALSE \in ContainsAnswers(c, "display")
        /\ \/ TRUE \in ContainsAnswers(c, "control") /\ RelayPayload(c, "control")
           \/ /\ FALSE \in ContainsAnswers(c, "control")
              /\ torn' = (torn \/ \E r \in Roles : c \in clients[r])
              /\ Goto(c, "read", Idle)
  /\ UNCHANGED <<link, sent, ctx, worker, registry, buf, claims, stale>>

\* writeData to the peer found earlier, whatever has become of it.  An exception
\* ends the sender: its own thread takes it for a disconnection of its client.
Forward(c) ==
  /\ pc[c] = "forward"
  /\ \/ Deliver(loc[c].peer, loc[c].msg) /\ Answer(c, loc[c])
     \/ Gone(loc[c].peer) /\ Answer(c, loc[c])
     \/ Gone(loc[c].peer) /\ Goto(c, "closing", Idle)
  /\ UNCHANGED <<link, sent, ctx, worker, registry, history>>

Respond(c) ==
  /\ pc[c] = "respond"
  /\ \/ Deliver(c, loc[c].reply) /\ Goto(c, "read", Idle)
     \/ Gone(c) /\ Goto(c, "read", Idle)
     \/ Gone(c) /\ Goto(c, "closing", Idle)
  /\ UNCHANGED <<link, sent, ctx, worker, registry, history>>

-----------------------------------------------------------------------------
(* clientServed and clientDisconnected: the worker's list and then           *)
(* handleClientDisconnection, all in the worker's monitor.                    *)

\* An exception in handleClientDisconnection: it is logged and the monitor is left.
Abort_KeepsMonitor(c) == Goto(c, "aborted", Idle) /\ wrk' = c
Abort(c) == Goto(c, "aborted", Idle) /\ wrk' = None

\* handleClientDisconnection of a client of role r, up to the partner's lookup.
LookupPartner(c, r) ==
  \E h \in HashAnswers(c, r) : \E p \in PeerAnswers(c, Other(r), h) :
    /\ torn' = (torn \/ (r = "display" /\ c \in clients["control"])
                     \/ h # hashOf[r][c] \/ p # Peer(Other(r), h))
    /\ \/ h = None /\ Abort(c)
       \/ /\ h # None /\ wrk' = c
          /\ Goto(c, IF p = None THEN "unlist" ELSE "notify",
                  [Idle EXCEPT !.role = r, !.hash = h, !.peer = p,
                               !.msg = IF p = None THEN None
                                       ELSE Packet(UnregisterRequest(Other(r)), c, h)])

BeginDisconnect(c) ==
  /\ pc[c] = "closing" /\ WorkerFree
  /\ listed' = listed \ {c}
  /\ \/ TRUE \in ContainsAnswers(c, "control") /\ LookupPartner(c, "control")
     \/ /\ FALSE \in ContainsAnswers(c, "control")
        /\ \/ TRUE \in ContainsAnswers(c, "display") /\ LookupPartner(c, "display")
           \/ /\ FALSE \in ContainsAnswers(c, "display")
              /\ torn' = (torn \/ \E r \in Roles : c \in clients[r])
              /\ Goto(c, "done", Idle)
              /\ UNCHANGED wrk
  /\ UNCHANGED <<link, sent, ctx, acceptor, registry, buf, claims, stale>>

\* A write to the partner that throws abandons the rest of the handler: the
\* worker only logs the exception.
Notify(c) ==
  /\ pc[c] = "notify"
  /\ \/ /\ Deliver(loc[c].peer, loc[c].msg) \/ Gone(loc[c].peer)
        /\ Goto(c, "unlist", [loc[c] EXCEPT !.peer = None, !.msg = None])
        /\ UNCHANGED wrk
     \/ Gone(loc[c].peer) /\ Abort(c)
  /\ UNCHANGED <<link, sent, ctx, acceptor, listed, registry, history>>

\* _rClientHashes.remove is given the hash, not the client that is its key: it
\* removes nothing.
ForgetHash(c) == hashOf

\* The removal from the client list, and the pair as it is found then; a pair
\* not found is a NullPointerException.
Unlist(c) ==
  LET r == loc[c].role
      h == loc[c].hash
  IN
  /\ pc[c] = "unlist"
  /\ hashOf' = ForgetHash(c)
  /\ \E lost \in MayRace(Storing(c, r)), missed \in MayRace(Growing(c)) :
       /\ torn' = (torn \/ lost \/ missed)
       /\ clients' = IF lost THEN clients ELSE [clients EXCEPT ![r] = RemoveClient(@, c)]
       /\ \/ missed /\ Abort(c)
          \/ ~missed /\ Goto(c, "unpair", [loc[c] EXCEPT !.snap = pair[h]]) /\ UNCHANGED wrk
  /\ UNCHANGED <<link, sent, ctx, acceptor, listed, known, pair, buf, claims, stale>>

\* The pair found above is put back without this side.
Unpair(c) ==
  LET r == loc[c].role
      h == loc[c].hash
  IN
  /\ pc[c] = "unpair"
  /\ \E lost \in MayRace(Growing(c)) :
       /\ torn' = (torn \/ lost)
       /\ \/ lost /\ UNCHANGED <<pair, stale>>
          \/ /\ ~lost
             /\ pair' = [pair EXCEPT ![h] = WithoutSide(loc[c].snap, r)]
             /\ stale' = stale \cup {x \in {h} : pair[h][Other(r)] # loc[c].snap[Other(r)]}
  /\ wrk' = None
  /\ Goto(c, "done", Idle)
  /\ UNCHANGED <<link, sent, ctx, acceptor, listed, clients, hashOf, known, buf, claims>>

-----------------------------------------------------------------------------
Handle(c) ==
  \/ RegisterDisplayClient(c) \/ RegisterControlClient(c) \/ Store(c) \/ Tell(c)
  \/ (\E r \in Roles : Unregister(c, r)) \/ Payload(c) \/ Forward(c) \/ Respond(c)

Disconnect(c) == BeginDisconnect(c) \/ Notify(c) \/ Unlist(c) \/ Unpair(c)

Input(c) == Receive(c) \/ ReceiveResponse(c) \/ ReceiveMalformed(c) \/ ReceiveOversize(c)

Client(c) == Connect(c) \/ Leave(c) \/ Drain(c)

Next ==
  \/ StartThread \/ ListConnection
  \/ \E c \in Conns : Accept(c) \/ Client(c) \/ Collect(c) \/ Input(c)
                        \/ EndOfStream(c) \/ Handle(c) \/ Disconnect(c)

Spec == Init /\ [][Next]_vars

\* Threads are scheduled, a free monitor is granted, a connected client reads
\* what it was sent.  No client is obliged to send, to connect or to leave.  Under the
\* bound on requests every behaviour ends, so it is enough that none of these stops while
\* any of them can go on.
AcceptLoop == StartThread \/ ListConnection \/ \E c \in Conns : Accept(c)
Thread(c)  == EndOfStream(c) \/ Handle(c) \/ Disconnect(c)
Progress   == AcceptLoop \/ \E c \in Conns : Thread(c) \/ Drain(c)

Fairness == WF_vars(Progress)

-----------------------------------------------------------------------------
(* Properties.                                                              *)

\* The domains of the variables.
TypeOK ==
  /\ link \in [Conns -> {"none", "up", "gone", "closed"}]
  /\ sent \in [Conns -> 0..MaxRequests]
  /\ pc   \in [Conns -> Points]
  /\ loc  \in [Conns -> Locals]
  /\ ctx \in Refs /\ wrk \in Refs \cup {Acceptor} /\ acceptor \in Refs
  /\ listed  \in SUBSET Conns
  /\ clients \in [Roles -> SUBSET Conns]
  /\ hashOf  \in [Roles -> [Conns -> Hashes \cup {None}]]
  /\ known   \in SUBSET Hashes
  /\ pair    \in [Hashes -> [Roles -> Refs]]
  /\ buf     \in [Conns -> Seq(Packets)]
  /\ claims  \in SUBSET (Conns \X Roles \X Hashes)
  /\ stale   \in SUBSET Hashes
  /\ torn    \in BOOLEAN

\* A thread never gets past the null checks without what it uses next: the hash of
\* a registration or a disconnection, the peer and packet of a write, the answer.
InUse(p, l) ==
  /\ p \in {"regControl", "store", "tell", "notify", "unlist", "unpair"} => l.hash \in Hashes
  /\ p \in {"tell", "forward", "notify"} => l.msg \in Packets
  /\ p \in {"forward", "notify"} => l.peer \in Conns
  /\ p \in {"tell", "respond"} => l.reply \in Packets

LocalsInUse ==
  /\ \A c \in Conns : InUse(pc[c], loc[c])
  /\ wrk = Acceptor => acceptor # None

Typed == TypeOK /\ LocalsInUse

\* The monitors exclude: one thread at most is storing a registration, one at
\* most is handling a disconnection.
MonitorsHeld ==
  \A c \in Conns : /\ pc[c] = "store" => ctx = c
                   /\ pc[c] \in {"notify", "unlist", "unpair"} => wrk = c

\* What makes the two unrelated monitors enough for SlotNeverStolen: the pair a
\* registration holds is out of date only in what the other side has lost, and
\* the pair a disconnection holds only in what the other side has gained.
SnapshotsUsable ==
  \A c \in Conns :
    LET r == loc[c].role  h == loc[c].hash  snap == loc[c].snap
    IN /\ pc[c] = "store" =>
            /\ pair[h][r] = None
            /\ pair[h][Other(r)] # None => snap[Other(r)] = pair[h][Other(r)]
       /\ pc[c] = "unpair" /\ snap[Other(r)] # None =>
            snap[Other(r)] = pair[h][Other(r)]

SlotInv == Typed /\ MonitorsHeld /\ SnapshotsUsable

\* Two clients are partners by the registrations in S if they have registered the
\* two sides of one hash.
Partners(S, c, d) ==
  \E h \in Hashes, r \in Roles : <<c, r, h>> \in S /\ <<d, Other(r), h>> \in S

\* What a thread at point p with locals l has looked up is backed by the
\* registrations in S, and what it is about to write is its own.
Backed(S, c, p, l) ==
  /\ p \in {"store", "unpair"} => \A r \in Roles : l.snap[r] = None \/ <<l.snap[r], r, l.hash>> \in S
  /\ p \in {"tell", "notify", "unlist", "unpair"} => <<c, l.role, l.hash>> \in S
  /\ p = "tell" => l.role = "control"
  /\ p \in {"forward", "notify"} => Partners(S, c, l.peer)
  /\ p \in {"tell", "forward", "notify"} => l.msg.from = c
  /\ p \in {"tell", "respond"} \/ (p = "forward" /\ l.reply # None) => l.reply.from = c

\* What makes the relay safe without a lock: whatever is found in the pairs, in
\* the hash maps, or was found some steps ago is backed by a registration, and
\* registrations only accumulate.
LookupsBacked ==
  /\ \A h \in Hashes, r \in Roles : pair[h][r] # None => <<pair[h][r], r, h>> \in claims
  /\ \A r \in Roles, c \in Conns : hashOf[r][c] # None => <<c, r, hashOf[r][c]>> \in claims
  /\ \A c \in Conns : Backed(claims, c, pc[c], loc[c])

\* The relay never crosses pairs: whatever a client finds on its socket was
\* written by its own thread or by that of a partner, however registrations,
\* disconnections, stale lookups and racing collections interleave
\* (handleClientRequest and handleClientDisconnection write to a peer looked up
\* some steps earlier, without a lock).
Isolation ==
  \A c \in Conns : \A i \in 1..Len(buf[c]) :
    buf[c][i].from = c \/ Partners(claims, c, buf[c][i].from)

\* No registration ever displaces a client from its side of a pair: a side that
\* is taken keeps its client until it is emptied (the tests of pair.fst and
\* pair.snd under the context's monitor against puts from the callbacks, which
\* run under another monitor).
SlotNeverStolen ==
  [][\A h \in Hashes, r \in Roles :
       pair[h][r] # None => pair'[h][r] \in {pair[h][r], None}]_vars

\* A registered client holds its side of its pair, unless an out-of-date pair
\* was written back over that hash or a racing collection misbehaved.
RegistrationKept ==
  \A r \in Roles : \A c \in clients[r] :
    torn \/ hashOf[r][c] \in stale \/ (hashOf[r][c] # None /\ pair[hashOf[r][c]][r] = c)

\* A side of a pair is held by a listed client, or by one whose disconnection is
\* about to empty it, with the same two exceptions: nothing else leaves a client
\* that is gone in a pair.
SlotAccounted ==
  \A h \in Hashes, r \in Roles : pair[h][r] # None =>
    \/ torn \/ h \in stale
    \/ pair[h][r] \in clients[r] /\ hashOf[r][pair[h][r]] = h
    \/ pc[pair[h][r]] = "unpair" /\ loc[pair[h][r]].hash = h

\* A client whose disconnection was handled to its end is listed in neither role,
\* unless it had registered in both (handleClientDisconnection handles one role)
\* or a racing collection misbehaved.
HandledIsForgotten ==
  \A c \in Conns, r \in Roles : pc[c] = "done" /\ c \in clients[r] =>
    torn \/ \E h, g \in Hashes : <<c, "display", h>> \in claims /\ <<c, "control", g>> \in claims

\* The callbacks always find their client in the worker's list, even when the
\* client leaves before the accept loop has listed it: "Client not found on
\* operational server internal state!" is never logged.
ServedIsListed ==
  [][\A c \in Conns : pc[c] = "closing" /\ pc'[c] # "closing" => c \in listed]_vars

\* "Remove client from internal data": past the removals of
\* handleClientDisconnection the hash map of its role no longer knows the client.
DataRemoved ==
  \A c \in Conns : pc[c] = "unpair" => hashOf[loc[c].role][c] = None

\* Once a client has left, its thread ends, whatever it was doing: waiting for a
\* monitor, blocked on a partner's full socket, or idle.
DepartureEnds == \A c \in Conns : link[c] = "gone" /\ pc[c] # "absent" ~> pc[c] \in Ended

\* Every connection is accepted and listed in the end, though disconnections
\* write to sockets while they hold the monitor the accept loop needs.
ConnectionServed == \A c \in Conns : link[c] = "up" ~> pc[c] # "absent"

\* A request that was read is dealt with.
RequestHandled == \A c \in Conns : pc[c] \in Requests ~> pc[c] \in {"read"} \cup Ended

\* What all this is for: the server implements the pairing service, where a client is
\* served until its thread leaves the loop of serveClient.
Leaving == Ended \cup {"closing", "notify", "unlist", "unpair"}

Service == INSTANCE PairingService
             WITH Clients <- Conns, side <- pair, ended <- {c \in Conns : pc[c] \in Leaving},
                  blurred <- stale, inbox <- buf
ServiceSpec == Service!Spec

=============================================================================
