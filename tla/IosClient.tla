------------------------------ MODULE IosClient ------------------------------
(***************************************************************************)
(* RGIRemoteGameInterface, the iOS library, on its GCDAsyncSocket.  The      *)
(* library and the application run on the main queue; each socket works on a *)
(* queue of its own and posts its delegate calls to the main queue, which    *)
(* runs them in the order posted.  The application may call the library      *)
(* between two delegate calls and from inside one.                           *)
(*                                                                           *)
(* Sockets are numbered in the order they are made; a nil socket is 0.  A    *)
(* socket that the library releases while it is connecting or connected      *)
(* lives on: the blocks of its queue retain it.                              *)
(*                                                                           *)
(* Definitions named X_Y are X with a fault Y, to show that a property needs *)
(* X.                                                                        *)
(***************************************************************************)
EXTENDS Naturals, Sequences

CONSTANTS
  MaxSockets,  \* bound: sockets that are made
  MaxPackets,  \* bound: packets the server sends in all
  Packets      \* the packets it sends, of those in StatusOf

ASSUME BoundsAssumption == MaxSockets \in Nat \ {0} /\ MaxPackets \in Nat

\* What a packet tells the application of its connection beside being shown to it; what
\* decode refuses is not shown.
StatusOf ==
  [unregister |-> "disconnected", registered |-> "none", refused |-> "none",
   payload |-> "none", malformed |-> "none"]

ASSUME PacketsAssumption == Packets \subseteq DOMAIN StatusOf

Sockets == 1..MaxSockets

VARIABLES
  clientSocket,     \* _clientSocket
  socketConnected,  \* _socketConnected
  main,             \* what is left to do of the delegate call that is running
  mainQueue,        \* the delegate calls that were posted
  flags,            \* each socket: none, started, connected, closed
  reads,            \* reads queued on it
  inbox,            \* packets that have come in on it
  gone,             \* sockets whose server end has been closed
  registered,       \* sockets on which the application has registered
  \* history, never tested by an action
  sent,             \* packets the server has sent
  heard,            \* packets shown to the application
  told,             \* what the application was told of each connection
  quit,             \* sockets that disconnectFromServer has closed
  hasty             \* some connection was begun while an older socket had calls to make

library == <<clientSocket, socketConnected, main>>
socket  == <<flags, reads, inbox>>
server  == <<gone, registered, sent>>
vars    == <<library, mainQueue, socket, server, heard, told, quit, hasty>>

Init ==
  /\ clientSocket = 0 /\ socketConnected = FALSE /\ main = "idle" /\ mainQueue = <<>>
  /\ flags = [s \in Sockets |-> "none"]
  /\ reads = [s \in Sockets |-> 0]
  /\ inbox = [s \in Sockets |-> <<>>]
  /\ told  = [s \in Sockets |-> {}]
  /\ gone = {} /\ registered = {} /\ sent = <<>> /\ heard = <<>> /\ quit = {} /\ hasty = FALSE

FlagsOf(s) == IF s = 0 THEN "none" ELSE flags[s]
Started(s) == FlagsOf(s) \in {"started", "connected"}
Made       == {s \in Sockets : flags[s] # "none"}

Post_First(call) == mainQueue' = <<call>> \o mainQueue
Post(call) == mainQueue' = Append(mainQueue, call)
Tell(s, status) == told' = [told EXCEPT ![s] = @ \cup {status}]

-----------------------------------------------------------------------------
(* A socket.                                                                *)

\* closeWithError, of a socket that was started.
Close(s, error) ==
  /\ flags' = [flags EXCEPT ![s] = "closed"]
  /\ reads' = [reads EXCEPT ![s] = 0]
  /\ inbox' = [inbox EXCEPT ![s] = <<>>]
  /\ Post([call |-> "disconnected", socket |-> s, error |-> error])

DidConnect(s) ==
  /\ flags[s] = "started"
  /\ flags' = [flags EXCEPT ![s] = "connected"]
  /\ Post([call |-> "connected", socket |-> s])
  /\ UNCHANGED <<library, reads, inbox, server, heard, told, quit, hasty>>

\* No address, no answer, or none in time.
DidNotConnect(s) ==
  /\ flags[s] = "started"
  /\ Close(s, TRUE)
  /\ UNCHANGED <<library, server, heard, told, quit, hasty>>

\* A read that is queued takes a packet.
CompleteRead(s) ==
  /\ flags[s] = "connected" /\ reads[s] > 0 /\ inbox[s] # <<>>
  /\ reads' = [reads EXCEPT ![s] = @ - 1]
  /\ inbox' = [inbox EXCEPT ![s] = Tail(@)]
  /\ Post([call |-> "read", socket |-> s, packet |-> Head(inbox[s])])
  /\ UNCHANGED <<library, flags, server, heard, told, quit, hasty>>

\* The end of the stream is seen behind what came before it.
ReadEOF(s) ==
  /\ flags[s] = "connected" /\ s \in gone /\ inbox[s] = <<>>
  /\ Close(s, TRUE)
  /\ UNCHANGED <<library, server, heard, told, quit, hasty>>

\* A reset connection, or a write that is not done in time.
Fail(s) ==
  /\ flags[s] = "connected"
  /\ Close(s, TRUE)
  /\ UNCHANGED <<library, server, heard, told, quit, hasty>>

-----------------------------------------------------------------------------
(* The application's calls.                                                 *)

StillConnected_Never == FALSE
StillConnected == FlagsOf(clientSocket) = "connected"

\* Nothing happens to the connection there is: its connecting is told once more.
ConnectAgain ==
  /\ StillConnected
  /\ Tell(clientSocket, "connected")
  /\ UNCHANGED <<library, mainQueue, socket, server, heard, quit, hasty>>

\* An older socket has calls to make, or the call of its closing is being made.
Hurried ==
  \/ main = "drop" \/ mainQueue # <<>>
  \/ \E s \in Made : flags[s] = "started"

\* The read that is queued at once waits for the connection.
ConnectToServer ==
  /\ ~StillConnected
  /\ \E new \in Sockets \ Made :
       /\ \A s \in Sockets \ Made : new <= s
       /\ clientSocket' = new
       /\ flags' = [flags EXCEPT ![new] = "started"]
       /\ reads' = [reads EXCEPT ![new] = 1]
       /\ hasty' = (hasty \/ Hurried)
  /\ UNCHANGED <<socketConnected, main, mainQueue, inbox, server, heard, told, quit>>

DisconnectFromServer ==
  /\ Started(clientSocket)
  /\ Close(clientSocket, FALSE)
  /\ quit' = quit \cup {clientSocket}
  /\ UNCHANGED <<library, server, heard, told, hasty>>

\* A write on a socket that is connecting waits until it is connected.
Register ==
  /\ Started(clientSocket)
  /\ registered' = registered \cup {clientSocket}
  /\ UNCHANGED <<library, mainQueue, socket, gone, sent, heard, told, quit, hasty>>

-----------------------------------------------------------------------------
(* The delegate calls, made on the main queue.                              *)

Call == Head(mainQueue)

Begin(call) ==
  /\ main = "idle" /\ mainQueue # <<>> /\ Call.call = call
  /\ mainQueue' = Tail(mainQueue)

SocketDidConnect ==
  /\ Begin("connected")
  /\ socketConnected' = TRUE
  /\ Tell(Call.socket, "connected")
  /\ UNCHANGED <<clientSocket, main, socket, server, heard, quit, hasty>>

\* The packet is shown, and what it says of the registration told, before the next
\* read is queued.
SocketDidReadData ==
  LET p == Call.packet IN
  /\ Begin("read")
  /\ IF p.kind = "malformed"
     THEN UNCHANGED <<heard, told>>
     ELSE /\ heard' = Append(heard, p)
          /\ IF StatusOf[p.kind] = "none" THEN UNCHANGED told ELSE Tell(Call.socket, StatusOf[p.kind])
  /\ main' = "again"
  /\ UNCHANGED <<clientSocket, socketConnected, socket, server, quit, hasty>>

\* Reads queued on a socket that was not started are dropped.
Queued(s) == IF Started(s) THEN [reads EXCEPT ![s] = @ + 1] ELSE reads

\* On the socket the library has now, whichever the data came from.
ReadAgain_Never == main = "again" /\ main' = "idle" /\ UNCHANGED reads
ReadAgain ==
  /\ main = "again"
  /\ main' = "idle"
  /\ reads' = Queued(clientSocket)

ReadNext ==
  /\ ReadAgain
  /\ UNCHANGED <<clientSocket, socketConnected, mainQueue, flags, inbox, server, heard, told, quit, hasty>>

\* The application is told of an error before the library forgets its socket.
SocketDidDisconnect ==
  /\ Begin("disconnected")
  /\ IF Call.error
     THEN Tell(Call.socket, IF socketConnected THEN "disconnected" ELSE "notConnected")
     ELSE UNCHANGED told
  /\ main' = "drop"
  /\ UNCHANGED <<clientSocket, socketConnected, socket, server, heard, quit, hasty>>

Forget_KeepsFlag == clientSocket' = 0 /\ UNCHANGED socketConnected
Forget == socketConnected' = FALSE /\ clientSocket' = 0

DropSocket ==
  /\ main = "drop"
  /\ main' = "idle"
  /\ Forget
  /\ UNCHANGED <<mainQueue, socket, server, heard, told, quit, hasty>>

-----------------------------------------------------------------------------
(* The server, which sends on a connection once a client has registered.    *)

ServerSends ==
  \E s \in registered \ gone, kind \in Packets :
    LET p == [socket |-> s, nr |-> Len(sent) + 1, kind |-> kind] IN
    /\ flags[s] = "connected" /\ Len(sent) < MaxPackets
    /\ sent'  = Append(sent, p)
    /\ inbox' = [inbox EXCEPT ![s] = Append(@, p)]
    /\ UNCHANGED <<library, mainQueue, flags, reads, gone, registered, heard, told, quit, hasty>>

ServerCloses ==
  \E s \in Sockets \ gone :
    /\ flags[s] = "connected"
    /\ gone' = gone \cup {s}
    /\ UNCHANGED <<library, mainQueue, socket, registered, sent, heard, told, quit, hasty>>

-----------------------------------------------------------------------------
Application == ConnectAgain \/ ConnectToServer \/ DisconnectFromServer \/ Register
MainQueue   == SocketDidConnect \/ SocketDidReadData \/ ReadNext \/ SocketDidDisconnect \/ DropSocket
Socket(s)   == DidConnect(s) \/ DidNotConnect(s) \/ CompleteRead(s) \/ ReadEOF(s)

Next ==
  \/ Application \/ MainQueue \/ ServerSends \/ ServerCloses
  \/ \E s \in Sockets : Socket(s) \/ Fail(s)

Spec == Init /\ [][Next]_vars

\* The queues run what is posted to them, and a connection attempt ends in time.  The
\* application need not call anything, nor the server send or close.
FairSpec == Spec /\ WF_vars(MainQueue) /\ \A s \in Sockets : WF_vars(Socket(s))
-----------------------------------------------------------------------------
(* Properties.                                                              *)

\* The application is shown what the server sent on a connection, in order, once and
\* without a gap but for what cannot be decoded, whatever becomes of the sockets before
\* and after it.
HeardInOrder ==
  /\ \A i \in DOMAIN heard : heard[i].nr \in DOMAIN sent /\ heard[i] = sent[heard[i].nr]
  /\ \A i, j \in DOMAIN heard :
       i < j /\ heard[i].socket = heard[j].socket => heard[i].nr < heard[j].nr
  /\ \A j \in DOMAIN heard, n \in DOMAIN sent :
       n < heard[j].nr /\ sent[n].socket = heard[j].socket /\ sent[n].kind # "malformed" =>
         \E i \in DOMAIN heard : heard[i] = sent[n]

\* The connection the library holds is always read from: a read is queued on it, or the
\* data of one is about to be handled and will queue the next.
NeverDeaf ==
  StillConnected =>
    \/ reads[clientSocket] > 0 \/ main = "again"
    \/ \E i \in DOMAIN mainQueue : mainQueue[i].call = "read"

\* If no connection was begun in haste, what the library thinks of its connection when
\* it has handled every call is true.
ViewAgrees ==
  ~hasty /\ main = "idle" /\ mainQueue = <<>> => socketConnected = StillConnected

\* If no connection was begun in haste, every connection there is is the library's.
NothingAbandoned == ~hasty => \A s \in Sockets : Started(s) => s = clientSocket

\* If no connection was begun in haste, a failure to connect is told only of a
\* connection that was never told, and a loss only of one that was.
ToldRight ==
  ~hasty => \A s \in Sockets :
    /\ "notConnected" \in told[s] => "connected" \notin told[s]
    /\ "disconnected" \in told[s] => "connected" \in told[s]

\* If no connection is begun in haste, the application is told that its connection was
\* closed by the server, unless it closes it itself.
LossTold ==
  \A s \in Sockets :
    s \in gone /\ flags[s] = "connected"
      ~> "disconnected" \in told[s] \/ s \in quit \/ hasty
=============================================================================
