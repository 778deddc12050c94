-------------------------------- MODULE Game --------------------------------
(***************************************************************************)
(* A game between the two clients of the repository, through the service:    *)
(* the iOS test application (RGITestViewController), whose user presses one   *)
(* button, and the Flash display client (RemoteGameInterfaceTest on            *)
(* RemoteGameInterface and RemoteGameInterfaceSocket).                         *)
(*                                                                           *)
(* The service answers each client from a thread of its own, in order.  What  *)
(* the control client and the service receive is framed by them and is a      *)
(* queue of packets here.  What the display client receives is cut by the     *)
(* network and put together by socketDataHandler, so it is a stream of cells: *)
(* the identifier, the payload in one or two cells, the magic field.  A cut    *)
(* falls between two cells, and laying one packet over another is exact where *)
(* their fields line up; elsewhere it stands for some other spoiled packet.    *)
(*                                                                           *)
(* Definitions named X_Y are X with a fault Y, to show that a property needs  *)
(* X.                                                                         *)
(***************************************************************************)
EXTENDS Integers, Sequences, SequencesExt

CONSTANTS
  Scores,       \* scores a game sends before it finishes (5 in the code)
  MaxReplays,   \* bound: replays a control client asks for
  MaxControls,  \* bound: readings of the accelerometer it sends
  MaxPhones,    \* bound: connections of control clients, one after the other
  MaxSplits     \* bound: events that end inside a packet, none when control clients change

ASSUME BoundsAssumption ==
  /\ Scores \in Nat /\ MaxReplays \in Nat /\ MaxControls \in Nat /\ MaxSplits \in Nat
  /\ MaxPhones \in Nat \ {0}

Phones == 1..MaxPhones

VARIABLES
  phone,      \* the control client in use, or to be: one for each connection
  status,     \* _clientStatus of the view controller
  socket,     \* its connection: none, dialling, up, failed, lost
  controls, replays,   \* how many it has sent
  display,    \* the display client: loading (the policy), connecting, registering, ready, failed
  incoming,   \* _incomingPacket
  timers,     \* how many sendScore timers are set, by the scores still to send
  upward,     \* packets from each control client to the service, "left" at the end
  toServer,   \* packets from the display client to the service
  toControl,  \* packets from the service to the control client in use
  stream,     \* cells from the service to the display client
  served,     \* the display client at the service: new, then served by its thread; failed, when a
              \* relay threw; then removed from its pair, or orphaned in it
  paired,     \* the control client in its pair, or 0
  telling,    \* the one whose registration the display client was told of, before it was; or 0
  splits,     \* events that ended inside a packet
  \* history, never tested by an action
  skipped,    \* some event brought more than one packet
  inherited   \* some control client was paired in the middle of another's game

app     == <<phone, status, socket, controls, replays>>
screen  == <<display, incoming, timers, splits, skipped>>
network == <<upward, toServer, toControl, stream>>
service == <<served, paired, telling, inherited>>
vars    == <<app, screen, network, service>>

\* The packets the display client is sent, in cells; the magic field is two.
Magic == <<"[!PU", "MP!]">>
WireOf ==
  [displayRegistered   |-> <<"displayRegistered", "code", "[!PU", "MP!]">>,
   controlRegistered   |-> <<"controlRegistered", "code", "[!PU", "MP!]">>,
   controlUnregistered |-> <<"controlUnregistered", "code", "[!PU", "MP!]">>,
   HELO    |-> <<"payload", "HELO", "[!PU", "MP!]">>,
   START   |-> <<"payload", "START", "[!PU", "MP!]">>,
   CONTROL |-> <<"payload", "<CONTROL>", "axes", "[!PU", "MP!]">>,
   REPLAY  |-> <<"payload", "REPLAY:1", "name", "[!PU", "MP!]">>]
Identifiers == {WireOf[packet][1] : packet \in DOMAIN WireOf}

Init ==
  /\ phone = 1 /\ status = "Disconnected" /\ socket = "none" /\ controls = 0 /\ replays = 0
  /\ display = "loading" /\ incoming = <<>> /\ timers = [r \in 0..Scores |-> 0]
  /\ splits = 0 /\ skipped = FALSE
  /\ upward = [p \in Phones |-> <<>>] /\ toServer = <<>> /\ toControl = <<>> /\ stream = <<>>
  /\ served = "new" /\ paired = 0 /\ telling = 0 /\ inherited = FALSE

-----------------------------------------------------------------------------
(* The view controller.                                                      *)

\* A connection that was lost takes nothing.
Request(packets) ==
  /\ upward' = IF socket = "lost" THEN upward ELSE [upward EXCEPT ![phone] = @ \o packets]
  /\ UNCHANGED <<toServer, toControl, stream>>

\* Pressing the button while disconnected, and how that connection turns out: when it fails
\* the status stays Connecting.
PressConnect ==
  /\ status = "Disconnected"
  /\ status' = "Connecting" /\ socket' = "dialling"
  /\ UNCHANGED <<phone, controls, replays, screen, network, service>>

DidConnect ==
  /\ socket = "dialling"
  /\ socket' = "up" /\ status' = "Connected"
  /\ UNCHANGED <<phone, controls, replays, screen, network, service>>

DidNotConnect ==
  /\ socket = "dialling"
  /\ socket' = "failed"
  /\ UNCHANGED <<phone, status, controls, replays, screen, network, service>>

\* The case for Connected has no break: the registration is followed by the handshake.
\* The user can read the right code off the display client once that has it.
PressRegister ==
  /\ status = "Connected"
  /\ status' = "Handshaking"
  /\ \E code \in {"wrongCode"} \cup (IF display = "ready" THEN {"rightCode"} ELSE {}) :
       Request(<<code, "HELO">>)
  /\ UNCHANGED <<phone, socket, controls, replays, screen, service>>

PressHandshake ==
  /\ status = "Registered"
  /\ status' = "Handshaking"
  /\ Request(<<"HELO">>)
  /\ UNCHANGED <<phone, socket, controls, replays, screen, service>>

Begun_Unmarked == status
Begun == "Activating"

PressActivate ==
  /\ status = "Handshaked"
  /\ Request(<<"START">>)
  /\ status' = Begun
  /\ UNCHANGED <<phone, socket, controls, replays, screen, service>>

PressReplay ==
  /\ status = "Deactivated" /\ replays < MaxReplays
  /\ Request(<<"REPLAY">>)
  /\ status' = Begun /\ replays' = replays + 1
  /\ UNCHANGED <<phone, socket, controls, screen, service>>

Press == PressConnect \/ PressRegister \/ PressHandshake \/ PressActivate \/ PressReplay

\* What the response to the registration, or a payload, makes of the status it finds; any
\* other packet is only shown.
Answer_Late(found, packet) ==
  CASE packet = "registered" -> "Registered"
    [] found = "Registered"  /\ packet = "OLEH"    -> "Handshaked"
    [] found = "Activating"  /\ packet = "SCORE:0" -> "Activated"
    [] found = "Activated"   /\ packet = "FINISH"  -> "Deactivated"
    [] OTHER -> found
Answer_AnyScore(found, packet) ==
  CASE packet = "registered" -> "Registered"
    [] found = "Handshaking" /\ packet = "OLEH"    -> "Handshaked"
    [] found = "Activating"  /\ packet = "SCORE:0" -> "Activated"
    [] found = "Activated"   /\ packet = "SCORE"   -> "Deactivated"
    [] OTHER -> found
Answer(found, packet) ==
  CASE packet = "registered" -> "Registered"
    [] found = "Handshaking" /\ packet = "OLEH"    -> "Handshaked"
    [] found = "Activating"  /\ packet = "SCORE:0" -> "Activated"
    [] found = "Activated"   /\ packet = "FINISH"  -> "Deactivated"
    [] OTHER -> found

\* A delegate call.  A registration that was refused changes nothing.
DidReceivePacket ==
  /\ toControl # <<>>
  /\ status' = Answer(status, Head(toControl))
  /\ toControl' = Tail(toControl)
  /\ UNCHANGED <<phone, socket, controls, replays, screen, upward, toServer, stream, service>>

Accelerometer ==
  /\ status = "Activated" /\ controls < MaxControls
  /\ controls' = controls + 1
  /\ Request(<<"CONTROL">>)
  /\ UNCHANGED <<phone, status, socket, replays, screen, service>>

\* The connection of a control client in a pair ends, with what was on its way to it.
Depart ==
  /\ phone < MaxPhones /\ paired = phone /\ splits = 0
  /\ phone' = phone + 1
  /\ upward' = [upward EXCEPT ![phone] = Append(@, "left")]
  /\ toControl' = <<>>
  /\ UNCHANGED <<screen, toServer, stream, service>>

FreshApp == status' = "Disconnected" /\ socket' = "none" /\ controls' = 0 /\ replays' = 0

\* The application ends, and the next user starts it.
Leave == Depart /\ FreshApp

\* Or only its connection does: the view controller is told, and does nothing about it.
Lose == Depart /\ socket' = "lost" /\ UNCHANGED <<status, controls, replays>>

\* There is no way to connect again but to start the application again.
StartAgain == socket = "lost" /\ FreshApp /\ UNCHANGED <<phone, screen, network, service>>

-----------------------------------------------------------------------------
(* The service: a thread for each client.                                    *)

InPair == served \notin {"new", "removed"}
ToDisplay(packet) == stream' = stream \o WireOf[packet]
ToPartner(packet) == IF InPair THEN ToDisplay(packet) ELSE UNCHANGED stream

\* Writing to a connection that has ended may succeed, or fail: see Break and RelayFails.
ToPhone(p, packet) == toControl' = IF p = phone THEN Append(toControl, packet) ELSE toControl

\* handleClientRequest tells the display client before serveClient writes the response; the
\* thread takes its next request after that.
ThreadFree_Always(p) == p \in Phones
ThreadFree(p) == telling # p

\* The display client is in a game, or about to be, or has something to say.
Busy == \/ \E r \in DOMAIN timers : timers[r] > 0
        \/ toServer # <<>> \/ "payload" \in ToSet(stream)

Register(p, code) ==
  IF code = "rightCode" /\ served # "new" /\ paired = 0
  THEN /\ paired' = p /\ telling' = p /\ inherited' = (inherited \/ Busy)
       /\ ToPartner("controlRegistered")
       /\ UNCHANGED <<toControl, served>>
  ELSE /\ ToPhone(p, "refused")
       /\ UNCHANGED <<stream, service>>

Relay(p, packet) ==
  /\ IF paired = p THEN ToPartner(packet) ELSE UNCHANGED stream
  /\ UNCHANGED <<toControl, service>>

\* handleClientDisconnection.
Disconnection(p) ==
  /\ IF paired = p THEN ToPartner("controlUnregistered") /\ paired' = 0
     ELSE UNCHANGED <<stream, paired>>
  /\ UNCHANGED <<toControl, served, telling, inherited>>

ServeControl(p) ==
  /\ upward[p] # <<>> /\ ThreadFree(p)
  /\ upward' = [upward EXCEPT ![p] = Tail(@)]
  /\ LET packet == Head(upward[p]) IN
       CASE packet \in {"rightCode", "wrongCode"} -> Register(p, packet)
         [] packet = "left" -> Disconnection(p)
         [] OTHER -> Relay(p, packet)
  /\ UNCHANGED <<app, screen, toServer>>

RespondControl(p) ==
  /\ telling = p
  /\ telling' = 0 /\ ToPhone(p, "registered")
  /\ UNCHANGED <<app, screen, upward, toServer, stream, served, paired, inherited>>

\* The thread of a control client whose connection has ended reads it to the end, or fails
\* before that, reading or writing a response: either way the control client is disconnected.
Break(p) ==
  /\ p # phone /\ Len(upward[p]) > 1
  /\ upward' = [upward EXCEPT ![p] = <<"left">>]
  /\ telling' = IF telling = p THEN 0 ELSE telling
  /\ UNCHANGED <<app, screen, toServer, toControl, stream, served, paired, inherited>>

\* The handshake is answered in a PayloadResponse, the rest is sent in PayloadRequests.
\* fromInt takes one for the other, or the answer would not be relayed.
TypeOf(packet) == IF packet = "OLEH" THEN "PayloadResponse" ELSE "PayloadRequest"
TakenFor_Itself(type) == type
TakenFor(type) == IF type = "PayloadResponse" THEN "PayloadRequest" ELSE type

IsRelayed(packet) == packet # "register" /\ TakenFor(TypeOf(packet)) = "PayloadRequest"

ServeDisplay ==
  /\ toServer # <<>> /\ served \in {"new", "served"}
  /\ toServer' = Tail(toServer)
  /\ LET packet == Head(toServer) IN
       CASE packet = "register" ->
              served' = "served" /\ ToDisplay("displayRegistered") /\ UNCHANGED toControl
         [] IsRelayed(packet) ->
              ToPhone(paired, packet) /\ UNCHANGED <<served, stream>>
         [] OTHER -> UNCHANGED <<served, stream, toControl>>
  /\ UNCHANGED <<app, screen, upward, paired, telling, inherited>>

\* Relaying to a control client whose connection has ended throws: the display client's
\* thread takes no other request.
RelayFails ==
  /\ served = "served" /\ toServer # <<>> /\ IsRelayed(Head(toServer))
  /\ paired \notin {0, phone}
  /\ served' = "failed" /\ toServer' = Tail(toServer)
  /\ UNCHANGED <<app, screen, upward, toControl, stream, paired, telling, inherited>>

\* It disconnects the display client, which is told nothing: that leaves its pair, unless
\* telling the control client throws as well.
EndDisplay ==
  /\ served = "failed"
  /\ \/ /\ served' = "removed"
        /\ IF paired = 0 THEN UNCHANGED toControl ELSE ToPhone(paired, "displayUnregistered")
     \/ /\ paired \notin {0, phone}
        /\ served' = "orphaned" /\ UNCHANGED toControl
  /\ UNCHANGED <<app, screen, upward, toServer, stream, paired, telling, inherited>>

-----------------------------------------------------------------------------
(* The display client.                                                       *)

\* socketConnectHandler of the policy loader, which does not wait for the policy.
PolicyLoaded ==
  /\ display = "loading"
  /\ display' = "connecting"
  /\ UNCHANGED <<app, incoming, timers, splits, skipped, network, service>>

Send(packet) == toServer' = Append(toServer, packet)

SocketConnected ==
  /\ display = "connecting"
  /\ display' = "registering"
  /\ Send("register")
  /\ UNCHANGED <<app, incoming, timers, splits, skipped, upward, toControl, stream, service>>

\* policyError and socketError only report it.
SocketError ==
  /\ display \in {"loading", "connecting"}
  /\ display' = "failed"
  /\ UNCHANGED <<app, incoming, timers, splits, skipped, network, service>>

\* readBytes puts the bytes of an event at offset 0; a longer old content keeps its end.
Overlaid_Behind(old, cells) == old \o cells
Overlaid(old, cells) == cells \o SubSeq(old, Len(cells) + 1, Len(old))

\* tryToDecodePacket: where the first magic field ends, 0 when there is none.  Without an
\* identifier and a payload before it readFromByteArray throws: no packet.
MagicEnd(cells) ==
  LET ends == {i \in 2..Len(cells) : <<cells[i - 1], cells[i]>> = Magic}
  IN  IF ends = {} \/ Min(ends) < 4 THEN 0 ELSE Min(ends)

\* What is kept behind a packet.  The code copies from offset 0: the length is that of the
\* unread end, the content that of the beginning.  writeBytes takes the length 0 for all
\* there is, so nothing unread keeps the packet itself.
Kept(cells, end) == IF end = Len(cells) THEN cells ELSE SubSeq(cells, 1, Len(cells) - end)

Activate_NoTimer == Send("SCORE:0") /\ UNCHANGED <<timers, display>>
Activate ==
  /\ Send("SCORE:0")
  /\ timers' = [timers EXCEPT ![Scores] = @ + 1]
  /\ UNCHANGED display

Activates(packet) == packet[1] = "payload" /\ packet[2] \in {"START", "REPLAY:1"}

\* socketDidReceivePacket and the listeners of the test; other packets are only logged, the
\* control client's leaving among them.
Handle(packet) ==
  CASE packet[1] = "displayRegistered" -> display' = "ready" /\ UNCHANGED <<timers, toServer>>
    [] packet = WireOf.HELO -> Send("OLEH") /\ UNCHANGED <<display, timers>>
    [] Activates(packet)    -> Activate
    [] OTHER                -> UNCHANGED <<display, timers, toServer>>

\* The packet an event hands over, <<>> for none.
Handed(old, cells) == LET all == Overlaid(old, cells) IN SubSeq(all, 1, MagicEnd(all))

\* The first cell of a packet is its identifier.
Inside(rest)   == rest # <<>> /\ Head(rest) \notin Identifiers
Several(cells) == \E i, j \in DOMAIN cells : i < j /\ {cells[i], cells[j]} \subseteq Identifiers

SocketData ==
  /\ display \in {"registering", "ready"}
  /\ \E n \in 1..Len(stream) :
       LET cells  == SubSeq(stream, 1, n)
           rest   == SubSeq(stream, n + 1, Len(stream))
           packet == Handed(incoming, cells)
       IN  /\ stream' = rest
           /\ splits' = splits + (IF Inside(rest) THEN 1 ELSE 0)
           /\ splits' <= (IF phone = 1 THEN MaxSplits ELSE 0)
           /\ skipped' = (skipped \/ Several(cells))
           /\ IF packet = <<>>
              THEN /\ incoming' = Overlaid(incoming, cells)
                   /\ UNCHANGED <<display, timers, toServer>>
              ELSE /\ incoming' = Kept(Overlaid(incoming, cells), Len(packet))
                   /\ Handle(packet)
  /\ UNCHANGED <<app, upward, toControl, service>>

SendScore ==
  /\ \E r \in 0..Scores :
       /\ timers[r] > 0
       /\ Send(IF r > 0 THEN "SCORE" ELSE "FINISH")
       /\ timers' = [s \in 0..Scores |-> timers[s] + (IF s = r - 1 THEN 1 ELSE 0)
                                                   - (IF s = r THEN 1 ELSE 0)]
  /\ UNCHANGED <<app, display, incoming, splits, skipped, upward, toControl, stream, service>>

Phone   == \/ Press \/ DidConnect \/ DidNotConnect \/ DidReceivePacket \/ Accelerometer
           \/ Leave \/ Lose \/ StartAgain
Service == \/ ServeDisplay \/ RelayFails \/ EndDisplay
           \/ \E p \in Phones : ServeControl(p) \/ RespondControl(p) \/ Break(p)
Screen  == PolicyLoaded \/ SocketConnected \/ SocketError \/ SocketData \/ SendScore
Next    == Phone \/ Service \/ Screen

Spec == Init /\ [][Next]_vars

\* The user presses the button when it does something; delegate calls, threads, events and
\* timers come to run.  Under the bounds every behaviour ends, so it is enough that none of
\* them stops while any of these can go on.
Progress == Press \/ DidReceivePacket \/ Service \/ SocketData \/ SendScore
FairSpec == Spec /\ WF_vars(Progress)

-----------------------------------------------------------------------------
(* Properties.                                                               *)

\* The Flash socket finds its way back: whatever older events left in its buffer, an event
\* that begins with a whole packet hands over that packet.
WholeIsHanded ==
  [][\A p \in DOMAIN WireOf :
       LET read == SubSeq(stream, 1, Len(stream) - Len(stream')) IN
       IsPrefix(WireOf[p], read) => Handed(incoming, read) = WireOf[p]]_stream

\* Games whose end the control client has not heard of: their timers, and the FINISH packets
\* on the way.
Games == {<<"timer", r>> : r \in {r \in 0..Scores : timers[r] > 0}}
         \cup {<<"toServer", i>> : i \in {i \in DOMAIN toServer : toServer[i] = "FINISH"}}
         \cup {<<"toControl", i>> : i \in {i \in DOMAIN toControl : toControl[i] = "FINISH"}}

\* The display client plays one game at a time and the control client that began it plays
\* along, from the first score to the last, as long as the network cuts no packet in two and
\* no control client takes over in the middle of a game.
Undisturbed == splits = 0 /\ ~inherited
OneGame     == Undisturbed => /\ \A g, h \in Games : g = h
                              /\ \A r \in 0..Scores : timers[r] <= 1
ScoresHeard ==
  Undisturbed /\ paired = phone /\ Games # {} => status \in {"Activating", "Activated"}

\* A control client that has shaken hands is not set back by the response to its
\* registration, though the display client is told of the registration first and may speak.
NotSetBack ==
  ~inherited /\ status \in {"Handshaked", "Activating", "Activated", "Deactivated"} =>
    telling # phone /\ "registered" \notin ToSet(toControl)

\* While every event is one packet and the service serves the display client, a control
\* client that has been registered waits only for what is on its way: when all is quiet its
\* button does something.
Quiet == /\ upward[phone] = <<>> /\ toServer = <<>> /\ toControl = <<>> /\ stream = <<>>
         /\ telling = 0 /\ Games = {}
ButtonWorks ==
  splits = 0 /\ ~skipped /\ served = "served" /\ Quiet /\ paired = phone =>
    status \in {"Registered", "Handshaked", "Deactivated"}

\* Pressing the button leads a control client through a whole game once it is paired, while
\* every event is one packet, unless its connection ends or a relay to an earlier control
\* client has failed.
GamePlayed ==
  paired = phone ~> \/ status \in {"Deactivated", "Disconnected"} \/ socket = "lost"
                    \/ splits > 0 \/ skipped \/ served # "served"

\* A game that the control client takes up ends for it while its connection lasts, however
\* the network cuts packets, unless it came into another's.
GameEnds ==
  status = "Activated" ~> status \in {"Deactivated", "Disconnected"} \/ socket = "lost" \/ inherited
=============================================================================
