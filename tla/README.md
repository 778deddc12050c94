# A verification project for remote-game-interface

remote-game-interface lets a phone (the *control client*) drive a Flash game (the *display
client*) through a Java server. The server pairs one display client with one control client
under a seven-digit hash and relays payload packets between them. This directory holds TLA+
models of that system, the TLC configurations that check them and the TLAPS proofs.

Contents: 1 the system, 2 the models, 3 the runs, 4 the proofs, 5 what the checks found,
6 abstractions and limits, 7 the plan.

## 1. The system

Paths are relative to the repository; `S` is
`servers/java/src/com/blissapplications/java/remotegameinterface`.

| Component | State | Operations | Hard part | Correct means |
|---|---|---|---|---|
| Operational server (`S/socketworkers/OperationalServerSocketWorker.java`, `S/clientconnections/OperationalServerClientConnection.java`) | list of connections, one thread per connection, the worker's monitor | accept; read a packet, handle it, write the answer; `clientServed`, `clientDisconnected` | callbacks block on a partner's socket while they hold the monitor accepting needs; a thread starts before its connection is listed | every connection is served, every departure is handled, the list holds the connections being served |
| Pairing registry (`S/context/OperationalServerContext.java`, `OperationalServerHash.java`) | client lists, hash of each client, pair of each hash | register display/control, unregister, relay a payload, handle a disconnection | two monitors that do not exclude each other, lookups without any, plain HashMap and ArrayList | packets stay within a pair; a side taken is not taken over; registered clients hold their side and nobody else does |
| Packet codec (`S/packets/*`) | none | frame, encode, decode | a magic field as terminator, a 200-byte limit, masks in `fromInt` | decoding undoes encoding; a packet is found where it ends |
| Policy server (`S/*/PolicyServer*.java`) | list of connections, one thread each | accept; compare the request with a file, answer, close | 5 s read timeout; exceptions skip the callback | every client is answered and forgotten |
| Life cycle (`S/RemoteGameInterfaceServer.java`, `S/Server.java`) | two server sockets, two accept threads, exit flags | start, stop | partial failure of start; stop racing accept | stop ends both loops |
| Android engine (`clients/android/.../engine/RemoteGameInterfaceEngine.java`) | socket and streams, reader thread, three flags, a location manager | connect, disconnect, register, send, the availability check; one reader thread per connection | plain fields shared by the user-interface thread and the readers; `connect()` clears the flags an older reader has not seen yet | at most the engine's reader is alive; a loss is told, once; packets are told in order; no connection is left open or unread |
| iOS library (`clients/objc/RGIApp/RemoteGameInterface`) | socket, `_socketConnected` | connect, disconnect, register, send; the delegate calls of GCDAsyncSocket | a delegate call may be late and is handled on whichever socket is current; the application may call back from inside one | what the application is told is true of its connection; a connection is read and never forgotten while open |
| iOS test application (`clients/objc/RGIApp/RGIApp`) | the view controller's status | one button, delegate calls, accelerometer | statuses nothing leaves; a `switch` case that falls through | the user can always go on |
| Flash display client (`clients/flash/DisplayClient/src`) | policy loader, socket, incoming bytes, score timers | load policy, connect, register, receive, play | packets split over or joined in socket events; timers nothing stops | every packet is handed over once; one game at a time |
| Utilities, third-party libraries, `specs/Datagrams.rtf` | - | - | - | not modelled (formatting, vendored code, an early document) |

How they interact: clients open a TCP connection to the operational server (the Flash player
first asks the policy server for permission) and exchange packets
`[id, 3 bytes][payload][!PUMP!]`. A display client registers and is given a hash, its user
types the hash into the phone, the control client registers with it, and from then on every
`PayloadRequest` of either is written to the other's socket by the *sender's* thread. When a
client leaves, its thread calls `clientServed` (end of stream) or `clientDisconnected`
(SocketException), and the handler writes an unregister request to the partner, again from
that thread. So sockets, lists, maps and two monitors are shared by all client threads and
the accept loop.

PROJECT.json lists, under `hazards`, every place where this is hard to test, with the
properties that watch it, or why none does.

## 2. The models

### OperationalServer

The accept loop, the client threads and the registry they share.

| Model | Code |
|---|---|
| `Connect`, `Leave`, `Drain` | a client opens its socket, goes away, reads |
| `Collect` | the collector closes the socket of a connection nothing refers to (the server never closes one itself) |
| `Accept`, `StartThread`, `ListConnection` | `OperationalServerSocketWorker.run` 37-60: accept; start the thread; add to the list, both in the worker's monitor (`wrk`) |
| `Receive`, `ReceiveResponse`, `ReceiveMalformed`, `ReceiveOversize`, `EndOfStream` | the outcomes of `readRequest` and `decode`: a request, a packet the switch ignores, an exception (the thread ends, nobody is told), the empty packet of 200 bytes without a magic field, end of stream or reset |
| `RegisterDisplayClient`, `RegisterControlClient` | the tests and the lookup of the pair, in the context's monitor (`ctx`) |
| `Store` | the puts and the add, and the end of the monitor |
| `Tell` | the display client is looked up to be told about its new control client |
| `Unregister`, `Payload` | lookups without a monitor; `Unregister` changes nothing in the registry, as in the code |
| `Forward`, `Respond` | `writeData` to the peer found earlier, then to the client itself |
| `BeginDisconnect`, `Notify`, `Unlist`, `Unpair` | `clientServed`/`clientDisconnected`: unlist and look the partner up; write to it; remove from the lists and read the pair; put the pair back; all in the worker's monitor |

`clients`, `hashOf` and `pair` are functions of the role: `_displayClients` is
`clients["display"]`, `pair.fst` is `pair[h]["display"]`. `loc` holds each thread's local
variables, so a step uses what the thread *looked up*, not what is there now. Steps are cut
where another thread can come in between: at monitor boundaries, at reads and writes of
state that others change, and at socket writes, which block while a connected client's
buffer is full. Reads of what only the own thread writes (own membership in a list, own
hash) are merged with the next shared access.

The unsynchronised collections are undefined behaviour when they race. `ContainsAnswers`,
`HashAnswers` and `PairAnswers` are what a lookup may answer, `MayRace` says when an update
may get lost: only while another thread is at the step that grows the map or changes the
list. Three history variables state properties and never guard an action: `claims`
(registrations that succeeded), `stale` (hashes where an out-of-date pair was written back)
and `torn` (a racing call answered wrongly).

Definitions named `X_Y` are faulty variants of `X`, used only to show that the properties
notice the fault `Y`.

### PairingService

What the operational server promises its clients, without threads, monitors and collections. Its
state is the two sides of each hash, the registrations made so far, the clients whose service has
ended, and what each client has yet to read. A client `Register`s on a free side, its service
`End`s, its side is `Release`d then, and packets are `Deliver`ed to their sender's partners or
to the sender. `RegisterOver` and `ReleaseOver` are what an overlap of the two can do: a partner
that had left is put back, one that had just come is dropped, and the hash is `blurred` from then
on. `OperationalServer` implements it (`ServiceSpec`): the sides are `pair`, what is yet to be
read is `buf`, the blurred hashes are `stale`, and a client's service has ended when its thread
has left the loop of `serveClient`.

### MCOperationalServer

Constants, symmetry sets, and `ProgressSpec`: the same next-state relation and fairness from
either of two states the server can come to. `OneIsOver`: one of three connections has come and
gone and the two others are still to come. `OneIsLate`: all but one have been accepted, the late one
sending nothing.

### PacketCodec and PacketChannel

`PacketCodec` is one direction of a connection, byte by byte.

| Model | Code |
|---|---|
| `Ids`, `TypeBytes`, `FromInt` | `OperationalProtocolPacketType`: the identifiers, `getTypeBytes`, the if-chain of `fromInt` in its order |
| `Encode`, `Decode` | `OperationalProtocolPacket.encode`, `decode`: three bytes, the payload, the magic field |
| `ReadByte`, `ReadEnd` | one turn of the loop of `readFromInputStream` (96-126) and what `serveClient` makes of the result: a packet, an exception for an unknown type, an empty packet at the limit, the end of the stream (read as byte 255) |
| `Send`, `Cut` | the client writes a packet; it goes away and its bytes arrive up to some point |

`PacketChannel` is what a connection promises: packets come out as they went in, in order,
at most once, until it is over. `PacketCodec` implements it (`ChannelSpec`) with `over` for
"the reader has stopped" and the packets up to the first that cannot be framed (`PlainSent`).
OperationalServer relies on that: its `Receive` takes whole packets.

### PolicyServer

| Model | Code |
|---|---|
| `Accept`, `StartThread`, `ListConnection` | `PolicyServerSocketWorker.run` 34-60, with the worker's monitor `wrk` |
| `OpenFiles`, `Read`, `ReadEnd`, `Timeout`, `Respond` | `serveClient` 54-71 and `run` 40-52: both files are read, then characters one at a time to a zero, the end or the length of the request; the read timeout; the answer, the closing and their exceptions |
| `ClientServed` | `clientServed` 62-74 |
| `Connect`, `Type`, `Leave` | the client |

A character is what the comparison with the request tells apart: the right one at its place,
another one, the zero.

### ServerLifecycle

| Model | Code |
|---|---|
| `Start` (`Open`, `Launch`) | `RemoteGameInterfaceServer.start` 47-60, either socket failing to open |
| `Stop` (`AskToExit`, `Close`, `Join`) | `stop` 62-72, in its order |
| `ExitTest`, `Accept`, `HandOver`, `AcceptThrows` | the accept loop of each worker, with the test of `_exit` at its head and in its catch |
| `CallStop` | a program that embeds the server may stop it; `Server.main` never does |

### ContextCreation

`Call`, `Create`, `Return` are the three steps of `getOperationalServerContextInstance`
(304-309): test, construct and assign, read again.

### AndroidEngine

The user-interface thread, which is the only caller of the engine and receives the location
updates, and the reader threads. A connection and the thread made with it share a number.

| Model | Code |
|---|---|
| `Connect`, `OnLocationChanged` (`BeginConnect`), `StopOld`, `ResetFlags`, `Dial`, `StartReader`, `Throw` | `connect()` 397-676, cut where a reader can come in between: close the old socket and ask the old thread to exit, yield and `Thread.stop` (which throws on Android, and with it `connect()`), clear the flags, open the socket, start the thread or, in an availability check, leave it |
| `Disconnect`, `Forget` | `disconnect()` 678-705: the unregister request, whose failure jumps over the closing; then the fields |
| `Register` | `register()`: the code is kept, also when writing fails |
| `CheckState`, `OnLocationChanged`, `FlagOff`, `StopLocating` | the availability check |
| `TestExit`, `FetchReader`, `ReadPacket`, `ReadEnd`, `Handle`, `Catch` | the reader's loop; `readRequest` takes the stream from the engine's field at each packet, so a reader may read a newer connection |
| `DidDisconnectLogic`, `PostLoss`, `ReportLoss` | `didDisconnectLogic` 590-602: the flag is tested and the report posted on the reader's thread, and made on the user-interface thread when that comes to it; `disconnect()` may fall between any two |
| `ServerSends`, `ServerCloses` | the server |

`haunted` marks connections with an older reader alive when `connect()` cleared the flags or
opened the socket: then there really are two readers, or the order to exit is taken back.
`lost`, `dropped`, `unwritten`, `sent` and `heard` are history too; `posted` holds the reports of a
loss that wait on the handler. The engine is
configured with a radius to check. Left out, because no step tests them: `status` and `state`,
the getters, configuring, and the sending of payloads. `isConnected()` is always true once
the constructor has returned, so the branches on it (648, 671) are not there.

### IosClient

The library on its GCDAsyncSocket. A socket posts its delegate calls to the main queue, in
order; the application may call the library between two calls and inside one.

| Model | Code |
|---|---|
| `ConnectToServer`, `ConnectAgain`, `DisconnectFromServer`, `Register` | the application's calls; a connected library only repeats `didConnect` |
| `SocketDidConnect`, `SocketDidReadData` then `ReadNext`, `SocketDidDisconnect` then `DropSocket` | the delegate calls, cut where the application is called: what follows is done on `_clientSocket` as it is *then* (`ReadAgain` 228, `Forget` 333-336) |
| `DidConnect`, `DidNotConnect`, `CompleteRead`, `ReadEOF`, `Fail`, `Close`, `Post` | GCDAsyncSocket, from how the library uses it: `disconnect` posts its delegate call rather than making it; a socket that is released while it works lives on |
| `ServerSends`, `ServerCloses` | the server |

`hasty` is history: a connection was begun while an older socket was still connecting, had
calls waiting, or was being dropped.

### Game

One display client (Flash), control clients (the iOS application) one after the other, and the
service between them with a thread for each client, composed to play the game.

| Model | Code |
|---|---|
| `PressConnect` ... `PressReplay` | the button, by status; the case for Connected falls through (`RGITestViewController.m:116`), so `PressRegister` sends a registration and a handshake |
| `DidConnect`, `DidNotConnect`, `DidReceivePacket` (`Answer`), `Accelerometer` | the delegate calls and the accelerometer |
| `Leave`, `Lose`, `StartAgain` (`Depart`, `FreshApp`) | the application ends, or its connection is lost and it goes on with a dead one, the view controller doing nothing about it (37), until it is started again; either way the next connection is the next `phone` |
| `ServeControl`, `RespondControl`, `ServeDisplay`, `Register`, `Relay`, `Disconnection`, `TakenFor` | `handleClientRequest` and `serveClient`: the display client is told of a registration before the control client has its response; `fromInt` |
| `Break` | the thread of a control client whose connection has ended fails before it has handled what was sent |
| `RelayFails`, `EndDisplay` | a relay to a control client whose connection has ended throws (`serveClient` 54-77), the display client's thread ends and takes it out of its pair, unless telling the partner throws as well; such a write may also succeed and be lost (`ToPhone`) |
| `PolicyLoaded`, `SocketConnected`, `SocketError` | the policy loader and the socket's connecting |
| `SocketData` (`Overlaid`, `MagicEnd`, `Kept`, `Handle`) | `socketDataHandler`: one event reads any number of cells to the start of the buffer, looks for one packet, keeps the wrong end of the rest, and the packet itself when there is no rest (`writeBytes` takes the length 0 for all) |
| `SendScore` | a timer of `sendScore` |

The stream to the display client is made of cells (identifier, payload, two halves of the
magic field), cut anywhere between cells. `skipped` (an event brought more than one packet)
and `inherited` (a control client was paired in the middle of another's game) are history;
`served` is where the service is with the display client (new, served, failed, then removed from
its pair or orphaned in it);
`splits` counts the events that ended inside a packet and is bounded, to none after a change
of control clients. The Flash sources end their lines in CR only, so every one is a single
line and PROJECT.json names the function instead.

## 3. The runs

| Run | Instance | Checks |
|---|---|---|
| `pairing_two` | 2 connections, 2 hashes, 3 requests each | `Typed`, `HandledIsForgotten`, `ServedIsListed` |
| `pairing_three` | 3 connections, 2 hashes, 1 request each | `Isolation`, `RegistrationKept`, `SlotAccounted`, `ServiceSpec` |
| `progress` | 3 connections, 1 hash: 2 requests each of two once the third is over, or 1 each before a third that sends none comes; fair | `DepartureEnds`, `RequestHandled`, `ConnectionServed` |
| `framing` | limit 19 bytes, 3 of 5 packets (one fills the limit, one is past it, one has no type, one holds a magic field), fair | `NothingPastOversize`, `ChannelSpec`, `Delivery` |
| `policy` | 2 connections, a request of 1 character, 2 sent, fair | `ListAccounted`, `ThreadEnds` |
| `lifecycle` | 2 clients of each socket, fair | `ConnectionsAccounted`, `StopLogsNoError`, `StoppedIsQuiet`, `StopReturns` |
| `context_race` | 3 threads, 2 calls each | `SettlesForGood` |
| `android` | 2 connections, 2 good packets on each | `OneReader`, `HeardInOrder`, `NothingLeftOpen`, `CheckIsOver` |
| `android_live` | 2 connections, 1 malformed packet on each, fair | `NeverDeaf`, `ToldOnce`, `LossNoticed` |
| `ios` | 2 sockets, 3 packets, good or malformed, fair | `HeardInOrder`, `NeverDeaf`, `ViewAgrees`, `NothingAbandoned`, `ToldRight`, `LossTold` |
| `game` | 2 connections of control clients, 1 score, 1 replay, 1 reading of the accelerometer, 2 split events, fair | `OneGame`, `ScoresHeard`, `NotSetBack`, `WholeIsHanded`, `ButtonWorks`, `GamePlayed`, `GameEnds` |
| `data_removed` | the smallest instance that has the case | violated: section 5 |

What they show:

- *A side is never stolen* (`SlotNeverStolen`, which is part of `ServiceSpec` and has no run of
  its own). The registry tests `pair.snd == null` under one monitor and empties sides under
  another, with a read-modify-write of the whole pair on both sides. The reason it works is `SnapshotsUsable`: the pair a registration holds is out
  of date only in what the other side has lost, the pair a disconnection holds only in what
  it has gained.
- *The relay stays within pairs* (`Isolation`): whatever is on a client's socket was written
  by its own thread or by a client that registered the other side of one of its hashes, even
  when the peer was looked up long before the write.
- *Registered clients and sides agree* (`RegistrationKept`, `SlotAccounted`), except where
  an out-of-date pair was written back (`stale`) or a collection misbehaved (`torn`). The
  exceptions are needed: TLC violates both properties without either. A lost update really
  leaves a registered client outside its pair or a departed one in it for ever.
- *The server is a pairing service* (`ServiceSpec`). This joins what the properties above say
  one by one and adds when: a side is taken only by a client that is being served, and emptied
  only when the service of the client that holds it has ended, but for blurred hashes. A racing
  collection is no excuse here, only an overlap is.
- *A handled disconnection forgets the client* (`HandledIsForgotten`), unless the connection
  had registered in both roles.
- *The callbacks find their connection listed* (`ServedIsListed`), although the thread runs
  before the connection is added.
- *Departures end, requests are handled, connections are served* if connected clients read.
- *Framing* (`ChannelSpec`, `Delivery`, `NothingPastOversize`): a payload that begins
  or ends like the magic field, fills the packet to the last byte or looks like an
  identifier is found where it ends; what a client sent before a packet that cannot be
  framed still arrives, wherever the bytes stop.
- *The policy server* (`ListAccounted`, `ThreadEnds`): a connection that was served has left
  the list and never comes back; nobody holds a thread. Connections that end by a timeout or an exception stay in the list.
- *Stopping* (`StoppedIsQuiet`, `StopLogsNoError`, `StopReturns`): both loops end wherever
  `close` finds them, in `accept`, before it or with a connection in their hands, and the
  exception this raises is never taken for an error, because `_exit` is set before `close`.
  Until then no connection is lost or given two threads (`ConnectionsAccounted`).
- *The context settles* (`SettlesForGood`): the race for the first one may make several, but
  once a call has returned after the race, every later call returns the same one.
- *The Android engine*: `connect()` by itself never leaves two readers (`OneReader`), whatever
  availability checks come between (`CheckIsOver`), and leaves nothing open
  (`NothingLeftOpen`) but for the connection whose unregister request `disconnect()` could not
  write. A reader that stops listening to an open connection has posted a report (`NeverDeaf`), and
  posts one only (`ToldOnce`), though it passes `didDisconnectLogic` each time round the loop; every
  lost connection is noticed (`LossNoticed`); what the server sends is told in order and without a
  gap (`HeardInOrder`). The exceptions are real: after `disconnect()` a new `connect()` can clear `exitThread` before the
  old reader has seen it, and two threads then read one stream.
- *The iOS library*: packets are shown in order without a gap and the library never stops
  reading its connection (`HeardInOrder`, `NeverDeaf`), even where a late delegate call meets a
  newer socket. That the library's view is true (`ViewAgrees`), that no open connection is
  forgotten (`NothingAbandoned`) and that losses and failures are told as such (`ToldRight`,
  `LossTold`) needs a connection never to be begun in haste; else `socketDidDisconnect` of the
  old socket drops the new one.
- *The game*: with the network cutting the stream anywhere, an event that begins with a whole
  packet hands it over whatever the buffer held (`WholeIsHanded`). Uncut, there is one game at a
  time and both clients agree on it (`OneGame`, `ScoresHeard`), and the response to a
  registration does not overtake what follows it (`NotSetBack`). With one packet per event the
  button leads through a whole game (`ButtonWorks`, `GamePlayed`), and a game that was begun
  ends (`GameEnds`). The premises are needed: joined events lose packets and leave the
  application in Handshaking, where its button does nothing; and since nothing stops the score
  timers when a control client leaves, the next one may get scores and FINISH of a game it
  never began, even before the response to its registration. A departure has a second consequence:
  the relay of such a score to the control client that left may throw, and then it is the display
  client that is taken out of its pair. The next control client can still register and gets no
  answer to its handshake; `ButtonWorks` and `GamePlayed` are about a display client that is
  served.

Bounds. Two connections are the least that can pair and three the least with an outsider,
two displays under one hash, or a side that changes hands; two hashes are the least with two
pairs. One request each suffices for every pairing and for a payload after a registration
only with two; three let one connection take both roles and then use them. A socket buffer
of one packet (`SendBuf`) makes every second write block. The runs stop when all requests
are used, hence CHECK_DEADLOCK FALSE: clients may simply send nothing more.

For the codec the magic field and identifiers are the real ones; the limit is 200 in the
code, and only the distance between a packet's length and the limit decides anything, so a
limit with room for eight bytes of payload has every case. Three packets are one before and
one after the odd one. Two policy connections are enough because threads share only the list
and the monitor; the second character is one more than the request. Two
connections per socket let one be accepted while stop runs and one be refused.

Two Android connections are an old and a new one, two iOS sockets likewise, and a reader or
queue of a third meets nothing a second does not. On Android two packets on a
connection are the least that can be swapped or leave a gap, and more than two readers need to
take each other's; a malformed one is what makes a reader give up a connection that is open. On
iOS three let one be queued, one
be posted and one be handled. In the game one score is the least with a score and a finish, one
replay the least with a second game, two connections the least with a successor, whether of another user or of the same one who lost the first. Two split
events let a packet be spoiled and the next one too. The runs stop where the bounds do, hence
CHECK_DEADLOCK FALSE again.

Fairness. In `OperationalServer` it is that of the JVM scheduler for the accept loop and the client
threads, and of clients that read: a client that is still connected reads its socket, as all
four shipped clients do continuously. Under the bound on requests every behaviour is finite, so
fairness of the disjunction (`Progress`) says the same as fairness of each. Without the reading
the liveness properties are false: the worker's monitor is held during a write to the partner.
Nothing is assumed about what clients send or whether they leave. In the smaller modules fairness is again each thread of the program (reader,
policy threads with the timer of a read, start, stop, accept loops), never a client. In
`AndroidEngine` it is the user-interface thread inside the engine (`new Socket` returns or
throws) and each reader; in `IosClient` the main queue and each socket's queue, a connection
attempt ending in time; the application and the server owe nothing. In `Game` the user presses
the button when it does something, and queues, threads and timers run; every behaviour is
finite under the bounds, so fairness of their disjunction says the same as fairness of each.

## 4. The proofs

Every safety invariant and every action property that a passing run checks is a theorem; so is
the refinement of `PairingService` and of `PacketChannel`. The invariants were model-checked before they were
proved.

`OperationalServer_proofs` proves, for any sets of connections and hashes, any buffer size and any
number of requests (assumptions: `None` and `Acceptor` are no connections or hashes, `SendBuf` is
a positive natural, `MaxRequests` a natural):

- `TypeCorrect`: `Spec => []Typed`. `TypeOK` alone is not inductive, since the hash a thread
  stores or the packet it writes must not be null: `LocalsInUse` says which local variables
  are set at which point.
- `SlotsNotStolen`: `Spec => SlotNeverStolen`. The inductive invariant is `SlotInv`: `Typed`,
  `MonitorsHeld` (who is inside which monitor) and `SnapshotsUsable`. Only `Store` and
  `Unpair` write pairs: `MonitorsHeld` rules out two of the same kind at once, and
  `SnapshotsUsable` says that one of each kind can do no worse than lose a client.
- `RelayIsolated`: `Spec => []Isolation`. The invariant is `IsolationInv`: `Typed`,
  `LookupsBacked` (whatever is in the pairs, in the hash maps or in a thread's locals is
  backed by a registration in `claims`) and `Isolation`. No lock is involved: the argument
  is that `claims` only grows, so what was looked up once stays justified. It holds with all
  the lost and missed answers of the racing collections.
- `CallbacksFindListed`: `Spec => ServedIsListed`. The invariant is `ListingInv`: `SlotInv`
  and `ThreadsListed` (a running thread is listed, or its accept loop still holds the
  worker's monitor). A callback needs that monitor, so it comes after the listing.
- `ClientsKeepSides`, `SidesAccounted`, `HandledForgotten`: `[]RegistrationKept`,
  `[]SlotAccounted`, `[]HandledIsForgotten`. The three say what holds of pairs, lists and
  hashes when nobody is at work on them; the invariant `RegistrationInv` adds to `SlotInv`
  what holds while somebody is (`Agreement`): whoever is listed has registered (`Claimed`),
  holds its side (`ClientsHold`), and a side is held by a listed client or by one whose
  disconnection is about to empty this very side (`SidesHeld`); a thread that is storing a
  registration is not listed yet, and one in its disconnection handler is listed, with its
  hash, until it is (`KnowsItself`). The two monitors do not exclude each other, so the last
  two are kept only outside hashes with a `stale` pair and before a collection is `torn`.

- `ImplementsService`: `Spec => ServiceSpec`. The invariant `ServiceInv` joins `ListingInv` and
  `IsolationInv` and adds `SidesLast`: a client that has registered holds its side until its
  disconnection has been handled to the end, but for blurred hashes. It holds with all
  misbehaving collections, for none of their wrong answers gets into a pair. There is a lemma
  for each kind of step: `StoreMaps` and `UnpairMaps` for the two that write pairs, `WriteMaps`
  for writes to sockets, `ClientMaps`, `AcceptMaps` and `LookupMaps` for what ends a service or
  changes nothing a client can see.

`PolicyServer_proofs` (any connections, any request length, anything a client sends) proves
`ServedForgotten` (`[]ListAccounted`), `OnlyAskersAnswered` (`[]AnsweredAsked`) and
`CallbackFindsListed` (`ServedIsListed`) from one invariant, `PolicyInv`: besides the
properties it says that the accept loop starts only threads that have none (`HandsOver`) and
what a thread may assume where it is (`ThreadsEnd`: it reads on only below the request's
length, it calls back only after it has closed).

`ServerLifecycle_proofs` (any number of connections) proves `AllAccounted`
(`[](TypeOK /\ ConnectionsAccounted)`), `NoErrorLogged` (`[]StopLogsNoError`) and
`QuietOnceStopped` (`StoppedIsQuiet`). The properties say nothing about how far `start` and
`stop` have come, so the invariant adds it: `Starting` and `Stopping`.

`IosClient_proofs` (any number of sockets and packets) proves `AlwaysRead` (`[]NeverDeaf`),
`NoneAbandoned` (`[]NothingAbandoned`), `ViewRight` (`[]ViewAgrees`) and `ToldOfRight`
(`[]ToldRight`) from `IosInv`. `NeverDeaf` needs only that a used socket has a read queued, a
read posted or the handling of one begun (`ReadFrom`). The others rest on the queue of delegate
calls: as long as nothing was begun in haste (`Calm`), there are no calls before the socket is
connected (`Before`), no closing while it is (`During`), the closing is the last call and the
socket is dropped before another is made (`After`), and a read comes after its connection was
told (`ToldInOrder`). `ShownInOrder` (`[]HeardInOrder`) has an invariant of its own beside it,
`OrderInv`. A packet that is to be shown is at one of three places: shown, in a delegate call
that was posted, or on the wire. Each place holds the packets of a connection by increasing
number (`Sorted`) and as they were sent (`Genuine`), one place is before the next (`Staged`),
and of two packets the earlier is at some place if the later one is (`Gapless`). Stated so, with
numbers in place of filtered sequences, the property needs no induction over their length, and
it holds also where `hasty` excuses the others.

`AndroidEngine_proofs` (any number of connections and packets) proves `NeverTwoReaders`
(`[]OneReader`), `ChecksEnd` (`[]CheckIsOver`), `LeavesNoneOpen` (`[]NothingLeftOpen`),
`DeafnessIsTold` (`[]NeverDeaf`) and `TellsOnce` (`[]ToldOnce`) from `EngineInv`, which
says what `connect()` and `disconnect()` have done to the old connection and thread where they
are (`OldIsClosed`), when the flag of a check is up (`CheckGoesOn`), that a reader which has
reported a loss ends or finds `exitThread` set, unless it was given up (`Ending`), and that the
reader of a connection made while no older reader was alive stays alone, and is asked to exit by
nobody but itself (`Undisturbed`, and `Quiet` for the connection about to be made). `ReportedInOrder`
(`[]HeardInOrder`) rests on an `OrderInv` like that of the iOS library, where the middle place is
the packet a reader has in its hands (`Own`: no other reader has one of the same connection, as
long as the connection is not haunted).

`Game_proofs` (any number of control clients, scores, replays and split events) proves
`OneGameAtATime` (`[]OneGame`), `ScoresAlwaysHeard` (`[]ScoresHeard`), `NeverSetBack`
(`[]NotSetBack`), `ButtonAlwaysWorks` (`[]ButtonWorks`) and `WholeAlwaysHanded`
(`WholeIsHanded`) from one invariant, `Inv`. The properties are about the two clients, but a game
is also on its way through two connections and a timer, so the invariant is about the queues:

- `Succession` and `Outside`: connections of control clients come one after the other; one that
  has been replaced has packets on the way only while it is in the pair, and one that is in no
  pair, or whose connection was lost, is told and says nothing that concerns a game.
- A game is being asked for, brought along the stream, ticking, or has ended with its FINISH on
  its way to the server or to the control client; each of these places holds at most one
  (`Single`), and no two hold one at a time (`Apart`). While one does, the control client in the
  pair is playing (`OneOpen`). This gives `OneGame` and `ScoresHeard`.
- `Hushed` and `Calm`: until the server has answered a registration, the display client has
  nothing to send to its sender. So the response comes before anything else (`Answered`, hence
  `NotSetBack`), unless the game was inherited.
- `Followed` and `Awaited`: what a status of the control client waits for is on its way, on some
  queue. When all queues are empty, no status that waits is left, which is `ButtonWorks`. The
  premise that the service serves the display client is needed: a relay that throws takes a packet
  off its queue and puts nothing on another.
- `Framed`: as long as no event was split, the stream is made of whole packets. `Overlaid` and
  `MagicEnd` then hand over what the event began with; that the buffer is searched for its *first*
  magic field is where the proof needs `WFMin` of the library's WellFoundedInduction.

`PacketCodec_proofs` (any magic field whose bytes are below 255, any limit above the shortest
packet, any packets of the types in the code) proves `ImplementsChannel`
(`Spec => ChannelSpec`) and `NothingPast` (`[]NothingPastOversize`). The invariant says that up to
the first packet that is not plain, what was received is what was sent (`Agree`), and that the
buffer and the wire together are the bytes of the rest (`Aligned`): the offsets at which packets
end are a function that is asserted to exist (`LaidOut`) rather than computed by recursion, and
the buffer begins at the end of the last packet received. As long as the packet being read is
plain, a magic field can be completed only where it ends (`Short`), and there decoding gives back
what was encoded, which is proved from the identifiers. `NonePast` is the property. The refinement has a lemma for each step: `Send`
extends the channel's history and the plain packets by at most one (`SendMaps`), the byte
that completes a packet receives it and any other stutters or ends the channel (`ReadByteMaps`),
the end of the stream ends it (`OtherMaps`).

`ContextCreation_proofs` (any threads, any number of calls) proves `OneContextForGood`
(`SettlesForGood`): once there is an instance and nobody is creating one, nobody begins to, and
a call can only return that one.

Assumptions, beside those named: the bounds are naturals, those that must be positive are, the
packets are of the kinds the code knows, and `None` is no context.

Model-checked only: the liveness properties (`DepartureEnds`, `RequestHandled`,
`ConnectionServed`, `Delivery`, `ThreadEnds`, `StopReturns`, `LossNoticed`, `LossTold`,
`GamePlayed`, `GameEnds`), which rest on fairness and ENABLED and are out of the prover's reach;
and the property of the run that expects a violation.

## 5. What the checks found

- `data_removed`: `_controlClientHashes.remove(hash)` removes by the wrong key; the comment
  above it says the client is removed from the internal data. Every client that ever
  registered, and its socket, stays reachable.

Others are plain from the text, or were met while modelling, and have no run:

- A control client is registered under any hash that was ever handed out, although the log
  message says one with no display client gets an error
  (`OperationalServerContext.registerControlClient`).
- A relay to a control client that has gone may throw, and `serveClient` then disconnects the
  sender (`OperationalServerClientConnection.java:72`). So the display client, which is still
  there and in the middle of a game whose timers nothing stops, leaves its pair because its
  partner did; it is told nothing. The next user's registration succeeds, for the hash is known,
  and the handshake is answered by nobody (`ButtonWorks` and `GamePlayed` fail without
  `served = "served"`).
- `didDisconnect` may come after `disconnect()` has returned, or after the next `connect()`: the
  flag is tested on the reader's thread before the report is posted
  (`RemoteGameInterfaceEngine.java:591`).
- The view controller does nothing when its connection is lost (`RGITestViewController.m:37`); its
  button goes on as if it were there.
- The Flash socket keeps the packet it has handed over when nothing is behind it, since
  `writeBytes` takes a length of 0 for all there is. An event that is the beginning of a packet is
  laid over it and may be handed over with the old end, before the rest has arrived.
- `fromInt` compares the masked identifier with PayloadRequest's before it looks at the
  responses: a PayloadResponse is taken for a PayloadRequest and its branch (69) is dead. The
  game depends on it: the Flash client answers the handshake in a PayloadResponse, which would
  not be relayed otherwise (`GamePlayed` fails without it).
- Two first requests at once can leave clients in different contexts.
- The handler of the policy server's read timeout logs "Closing connection." and closes nothing
  (`S/clientconnections/PolicyServerClientConnection.java:46`).
- The program prints "'q' - > Quit" but the code that reads the keyboard is commented out
  (`S/Server.java:50`).
- `RGIRemoteGameInterface.m:305` says that the delegate is called before `disconnect` returns;
  GCDAsyncSocket posts the call (2611), as its header says at 335.
- The first OLEH usually finds the iOS application in Registered, since the response to the
  registration comes after the handshake was sent, and is only shown; the user presses again.
- The Flash client sends FINISH, which Android does not know, and FINAL with an address, where
  Android parses a number: the reader ends and reports a disconnection.

`specs/Datagrams.rtf` gives the identifier two bytes and the magic field ten; the code has
three and eight. Its datagrams are others too, so it is only mentioned here.

## 6. Abstractions and limits

- Packets are records of a type, a sender and an abstract payload; one write is one step.
  Two threads that write to one socket could interleave bytes only if `write` split a
  packet of at most 200 bytes, which `SocketOutputStream` does not promise against.
- A request that is being read when its client leaves may still be handled; requests the
  client sent before leaving may be lost or read.
- A removal and an add that overlap in an ArrayList may also leave a duplicate of another
  element. A duplicate matters only after its client's thread has ended, when nobody asks for
  it any more, so it is left out.
- Accesses are sequentially consistent apart from the races above: a lookup may be stale by
  any number of steps because of the delay to the write, but not older than the request.
- `newHash` may return any hash, also one in use.
- In `OperationalServer` the context exists from the start; its creation is `ContextCreation`.
- `_exit` is a plain field: `stop` sets it before it closes the socket, and a loop tests it
  after `accept` has thrown because of that closing, which orders the two. A loop that tests
  it earlier may see the old value; it then calls `accept` and the same holds.
- An IOException from closing a server socket, which would make `stop` leave the loops
  unjoined, and an `accept` that fails for lack of resources are not modelled.
- `stop` leaves client threads running, so `OperationalServer` has no stop.
- `AndroidEngine` has one caller, the user-interface thread. It registers only on a connection
  it has, and does not start a second availability check while it waits for a location.
  `BlissLocationManager` is not in the repository and is modelled from its use. Plain fields are
  read and written in program order.
- `IosClient` queues a read with the call that asks for it, and leaves out connection attempts
  that fail at once, which the fixed parameters rule out.
- `Game` plays the game the test application plays. The painting game, whose packets no client
  here sends, the display client's leaving and its unregistering, which nothing calls, a second
  display client, and the values of scores are left out. The policy loader goes on at its
  connection and does not wait for the policy, so its data handler is left out too. Packets are
  cut at cells, not bytes: laying one packet over another is exact where fields line up and
  stands for some other spoiled packet elsewhere.
- In `Game` the connection of a control client ends only while it is in the pair and no packet was
  split, and each request is served in one step: what can come between its parts is
  `OperationalServer`'s, which has the same failing relay (`Forward`). The display client's own
  connection does not fail, and the server does not close its socket when its thread has ended:
  what it sends after that is read by nobody.
- Several properties except the states in which the code does go wrong (`stale`, `torn`, `haunted`,
  `unwritten`, `hasty`, `inherited`, `served # "served"`). Those states are in the models and are
  reached; the hazards that lead to them are listed without a property and say so.
- The policy socket is closed with the rest of the request unread, on which TCP may reset
  the connection before the client has read the answer; the model ends at the closing.
- The read timeout may fire whenever there is nothing to read; time itself is not modelled.
- Memory exhaustion, and the process being killed, are not modelled: nothing is persisted.

## 7. The plan

Done: the modules of section 2 and the proofs of section 4. Left: the display client's own leaving and the painting game
in `Game`, and an Android client in the place of the iOS one.

Not modelled, and meant to stay so: reading properties and formatting bytes
(`PropertiesUtils`, `ByteArrayUtils`: no state), the vendored GCDAsyncSocket, Lumberjack and
flash-console (`IosClient` has what the library relies on), labels and other display, and
`specs/Datagrams.rtf`, which describes another protocol. Most C headers of the repository
belong to those vendored libraries; the code modelled here is in `.java`, `.m` and `.as` files.
