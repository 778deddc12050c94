---------------------------- MODULE AndroidEngine ----------------------------
(***************************************************************************)
(* RemoteGameInterfaceEngine, the control client of the Android library: the *)
(* user-interface thread, which calls the engine and receives the location   *)
(* updates, and the reader threads, one created by every connect().  They    *)
(* share plain fields and no lock.                                           *)
(*                                                                           *)
(* Connection n and the reader thread created with it have the same number;  *)
(* a field that is null is 0.  The streams of the socket are set and cleared *)
(* with it, so the field socket stands for socket, reader and writer.        *)
(*                                                                           *)
(* The engine has been configured with a radius to check.  Its fields state  *)
(* and status, which it shows the application, are left out: no step below   *)
(* depends on them.                                                          *)
(*                                                                           *)
(* Definitions named X_Y are X with a fault Y, to show that a property needs *)
(* X.                                                                        *)
(***************************************************************************)
EXTENDS Naturals, Sequences

CONSTANTS
  MaxConnects,  \* bound: connections that are opened
  MaxPackets,   \* bound: packets the server sends on a connection
  Packets       \* the packets it sends: one of each outcome in CallbackOf is enough

ASSUME BoundsAssumption ==
  /\ MaxConnects \in Nat \ {0} /\ MaxPackets \in Nat

Readers == 1..MaxConnects

VARIABLES
  \* the fields of the engine
  socket, thread, exitThread, wasAskedToDisconnect, checkingState,
  locating,   \* lm, the location manager of an availability check, has been started
  ui,         \* where the user-interface thread is inside connect() or disconnect()
  pc,         \* where each reader thread is
  on,         \* the connection whose stream it has in its hands, else 0
  got,        \* the packet it has read
  mixed,      \* connections whose stream two threads have read at once
  link,       \* each connection: none, up, gone (the server closed it), closed (by us)
  inbox,      \* packets of each connection that were not read yet
  registered, \* connections on which the application has called register
  posted,     \* readers with a report of a loss waiting on mHandler; two of one are not told apart
  \* history, never tested by an action
  sent,       \* packets the server has sent on each connection
  heard,      \* those that were posted to the application
  lost,       \* readers whose report of a loss the application has been given
  haunted,    \* connections with an older reader thread alive when connect() cleared
              \* the flags or opened the socket
  dropped,    \* reader threads given up by disconnect() that have not ended
  unwritten   \* connections left open by disconnect(), its request having failed

fields  == <<socket, thread, exitThread, wasAskedToDisconnect>>
check   == <<checkingState, locating>>
reading == <<pc, on, got, mixed, posted>>
wire    == <<link, inbox, registered>>
history == <<sent, heard, lost, dropped, haunted, unwritten>>
vars    == <<fields, check, ui, reading, wire, history>>

\* What the reader makes of a packet: the callback it posts, none for a payload it
\* does not know, "throws" for a packet that decode or the parsing of a number
\* refuses.
CallbackOf ==
  [registered |-> "didRegister", refused |-> "didNotRegister",
   unregister |-> "didDisconnect", OLEH |-> "didReceiveHandshakeResponse",
   SCORE |-> "didReceiveScore", FINAL |-> "didReceiveFinish",
   unknown |-> "none", malformed |-> "throws"]

ASSUME PacketsAssumption == Packets \subseteq DOMAIN CallbackOf

Alive(n)   == pc[n] \notin {"none", "new", "done"}
Sharers(k) == {n \in Readers : pc[n] = "read" /\ on[n] = k}
Opened     == {n \in Readers : link[n] # "none"}
Newest     == CHOOSE n \in Readers \ Opened : \A m \in Readers \ Opened : n <= m
OldReader  == \E n \in Readers : Alive(n)
StopLocating == locating' = FALSE

Init ==
  /\ socket = 0 /\ thread = 0 /\ exitThread = FALSE /\ wasAskedToDisconnect = FALSE
  /\ checkingState = FALSE /\ locating = FALSE
  /\ ui = "idle"
  /\ pc  = [n \in Readers |-> "none"]
  /\ on  = [n \in Readers |-> 0]
  /\ got = [n \in Readers |-> <<>>]
  /\ link  = [n \in Readers |-> "none"]
  /\ inbox = [n \in Readers |-> <<>>]
  /\ sent  = [n \in Readers |-> <<>>]
  /\ heard = [n \in Readers |-> <<>>]
  /\ mixed = {} /\ registered = {} /\ lost = {} /\ dropped = {} /\ haunted = {}
  /\ unwritten = {} /\ posted = {}

-----------------------------------------------------------------------------
(* connect(), by the application or by an availability check.               *)

CloseOld_OnlyUp ==
  /\ link'  = [k \in Readers |-> IF k = socket /\ link[k] = "up" THEN "closed" ELSE link[k]]
  /\ inbox' = [k \in Readers |-> IF k = socket THEN <<>> ELSE inbox[k]]
\* Closing a socket discards what came in on it.
CloseOld ==
  /\ link'  = [k \in Readers |-> IF k = socket THEN "closed" ELSE link[k]]
  /\ inbox' = [k \in Readers |-> IF k = socket THEN <<>> ELSE inbox[k]]

FlagOff_Forgotten == UNCHANGED checkingState
FlagOff == checkingState' = FALSE

\* connect() throws: an availability check takes that for its answer.
Throw ==
  /\ ui' = "idle"
  /\ FlagOff
  /\ IF checkingState THEN StopLocating ELSE UNCHANGED locating

\* The old socket is closed and the old thread asked to exit.
BeginConnect ==
  /\ CloseOld
  /\ exitThread' = (exitThread \/ thread # 0)
  /\ ui' = IF thread # 0 THEN "yield" ELSE "reset"
  /\ UNCHANGED <<socket, thread, wasAskedToDisconnect, reading, registered, history>>

Connect ==
  /\ ui = "idle" /\ Opened # Readers
  /\ BeginConnect
  /\ UNCHANGED check

StopOld_Ignored ==
  /\ ui = "yield"
  /\ ui' = "reset" /\ thread' = 0
  /\ UNCHANGED <<checkingState, locating>>
  /\ UNCHANGED <<socket, exitThread, wasAskedToDisconnect,
                 reading, wire, history>>

\* Thread.stop, which a thread that is still alive is subjected to, throws.
StopOld ==
  /\ ui = "yield"
  /\ IF Alive(thread)
     THEN Throw /\ UNCHANGED thread
     ELSE ui' = "reset" /\ thread' = 0 /\ UNCHANGED <<checkingState, locating>>
  /\ UNCHANGED <<socket, exitThread, wasAskedToDisconnect,
                 reading, wire, history>>

NotAsked_Forgotten == UNCHANGED wasAskedToDisconnect
NotAsked == wasAskedToDisconnect' = FALSE

ResetFlags ==
  /\ ui = "reset"
  /\ exitThread' = FALSE /\ NotAsked
  /\ haunted' = IF OldReader THEN haunted \cup {Newest} ELSE haunted \ {Newest}
  /\ ui' = "dial"
  /\ UNCHANGED <<socket, thread, check, reading, wire,
                 sent, heard, lost, dropped, unwritten>>

\* new Socket(host, port): the fields are set, or it throws.
Dial ==
  /\ ui = "dial"
  /\ \/ /\ socket' = Newest /\ thread' = Newest
        /\ link' = [link EXCEPT ![Newest] = "up"]
        /\ pc'   = [pc EXCEPT ![Newest] = "new"]
        /\ haunted' = IF OldReader THEN haunted \cup {Newest} ELSE haunted
        /\ ui' = "start"
        /\ UNCHANGED check
     \/ /\ Throw
        /\ UNCHANGED <<socket, thread, link, pc, haunted>>
  /\ UNCHANGED <<exitThread, wasAskedToDisconnect, on, got, mixed, posted, inbox, registered,
                 sent, heard, lost, dropped, unwritten>>

\* A check leaves the thread unstarted and the connection open.
StartReader ==
  /\ ui = "start"
  /\ ui' = "idle"
  /\ IF checkingState
     THEN /\ FlagOff /\ StopLocating
          /\ UNCHANGED pc
     ELSE /\ pc' = [pc EXCEPT ![thread] = "test"]
          /\ UNCHANGED <<checkingState, locating>>
  /\ UNCHANGED <<fields, on, got, mixed, posted, wire, history>>

-----------------------------------------------------------------------------
(* disconnect(), register(), and the availability check.                    *)

\* The state of the connection in the field; a write to a server that has gone may
\* or may not fail.
SocketLink == IF socket = 0 THEN "none" ELSE link[socket]

\* With a code kept there is an unregister request to make and write first.  That throws
\* if the streams are null or closed, and may throw whatever the streams are: the
\* server may have gone, the code may be shorter than a hash.
Code       == registered # {}
MayFail    == Code
MaySucceed == ~Code \/ SocketLink \in {"up", "gone"}

Disconnect ==
  /\ ui = "idle"
  /\ ui' = "drop"
  /\ \/ /\ MaySucceed
        /\ wasAskedToDisconnect' = TRUE
        /\ CloseOld
        /\ UNCHANGED unwritten
     \/ /\ MayFail
        /\ unwritten' = IF socket = 0 THEN unwritten ELSE unwritten \cup {socket}
        /\ UNCHANGED <<wasAskedToDisconnect, link, inbox>>
  /\ UNCHANGED <<socket, thread, exitThread, check, reading, registered,
                 sent, heard, lost, dropped, haunted>>

Forget ==
  /\ ui = "drop"
  /\ exitThread' = TRUE
  /\ socket' = 0 /\ thread' = 0
  /\ dropped' = IF thread = 0 THEN dropped ELSE dropped \cup {thread}
  /\ ui' = "idle"
  /\ UNCHANGED <<wasAskedToDisconnect, check, reading, wire,
                 sent, heard, lost, haunted, unwritten>>

Registrable == socket # 0

\* The code is kept, also when writing the request throws.  The application registers
\* on a connection that it has.
Register ==
  /\ ui = "idle" /\ Registrable
  /\ registered' = registered \cup {socket}
  /\ UNCHANGED <<fields, check, ui, reading, link, inbox, history>>

\* Without a location provider nothing is started.  The application does not ask again
\* while it waits for a location.
CheckState ==
  /\ ui = "idle" /\ ~locating
  /\ locating' \in BOOLEAN
  /\ UNCHANGED <<fields, checkingState, ui, reading, wire, history>>

\* A location arrives: too far, the wrong access point, or the server is tried.
OnLocationChanged ==
  /\ ui = "idle" /\ locating
  /\ \/ /\ StopLocating
        /\ UNCHANGED <<fields, checkingState, ui, reading, wire, history>>
     \/ /\ Opened # Readers
        /\ checkingState' = TRUE
        /\ BeginConnect
        /\ UNCHANGED locating

-----------------------------------------------------------------------------
(* A reader thread.                                                         *)

At(n, from, to) == pc[n] = from /\ pc' = [pc EXCEPT ![n] = to]

TestExit(n) ==
  /\ pc[n] = "test"
  /\ pc' = [pc EXCEPT ![n] = IF exitThread THEN "done" ELSE "fetch"]
  /\ on' = [on EXCEPT ![n] = 0]
  /\ dropped' = IF exitThread THEN dropped \ {n} ELSE dropped
  /\ UNCHANGED <<fields, check, ui, got, mixed, posted, wire, sent, heard, lost, haunted, unwritten>>

\* readRequest takes the stream from the field of the engine, whichever that is.
FetchReader(n) ==
  /\ pc[n] = "fetch"
  /\ pc' = [pc EXCEPT ![n] = IF socket = 0 THEN "catch" ELSE "read"]
  /\ on' = [on EXCEPT ![n] = socket]
  /\ mixed' = IF Sharers(socket) = {} THEN mixed ELSE mixed \cup {socket}
  /\ UNCHANGED <<fields, check, ui, got, posted, wire, history>>

Taken_Kept(k) == inbox
Taken(k) == [inbox EXCEPT ![k] = Tail(@)]

\* A packet.  Two threads on one stream may have got parts of a packet each, which
\* decode refuses.
ReadPacket(n) ==
  LET k == on[n] IN
  /\ pc[n] = "read" /\ link[k] \in {"up", "gone"} /\ inbox[k] # <<>>
  /\ inbox' = Taken(k)
  /\ LET p == Head(inbox[k]) IN
     \/ /\ CallbackOf[p.kind] # "throws"
        /\ got' = [got EXCEPT ![n] = <<p>>]
        /\ pc'  = [pc EXCEPT ![n] = "handle"]
     \/ /\ CallbackOf[p.kind] = "throws" \/ k \in mixed
        /\ pc'  = [pc EXCEPT ![n] = "catch"]
        /\ UNCHANGED got
  /\ UNCHANGED <<fields, check, ui, on, mixed, posted, link, registered, history>>

\* The end of the stream, or a stream that connect() or disconnect() has closed.
ReadEnd(n) ==
  /\ pc[n] = "read"
  /\ link[on[n]] = "closed" \/ (link[on[n]] = "gone" /\ inbox[on[n]] = <<>>)
  /\ pc' = [pc EXCEPT ![n] = "catch"]
  /\ UNCHANGED <<fields, check, ui, on, got, mixed, posted, wire, history>>

\* The callback is posted to the user-interface thread, which runs what was posted in order.
Handle(n) ==
  LET p == got[n][1] IN
  /\ pc[n] = "handle"
  /\ pc' = [pc EXCEPT ![n] = "test"]
  /\ got' = [got EXCEPT ![n] = <<>>]
  /\ heard' = IF CallbackOf[p.kind] = "none" THEN heard ELSE [heard EXCEPT ![p.conn] = Append(@, p)]
  /\ UNCHANGED <<fields, check, ui, on, mixed, posted, wire, sent, lost, dropped, haunted, unwritten>>

AskToExit_Not == UNCHANGED exitThread
AskToExit == exitThread' = TRUE

Catch(n) ==
  /\ At(n, "catch", "tell")
  /\ AskToExit
  /\ UNCHANGED <<socket, thread, wasAskedToDisconnect, check, ui, on, got, mixed, posted, wire, history>>

\* didDisconnectLogic: the test of the flag, and the posting.
DidDisconnectLogic(n) ==
  /\ At(n, "tell", IF wasAskedToDisconnect THEN "test" ELSE "post")
  /\ UNCHANGED <<fields, check, ui, on, got, mixed, posted, wire, history>>

PostLoss(n) ==
  /\ At(n, "post", "test")
  /\ posted' = posted \cup {n}
  /\ UNCHANGED <<fields, check, ui, on, got, mixed, wire, history>>

\* The user-interface thread runs what was posted: didDisconnect.  disconnect() may have
\* returned meanwhile, or a connect().
ReportLoss ==
  /\ ui = "idle"
  /\ \E n \in posted : posted' = posted \ {n} /\ lost' = lost \cup {n}
  /\ UNCHANGED <<fields, check, ui, pc, on, got, mixed, wire,
                 sent, heard, dropped, haunted, unwritten>>

-----------------------------------------------------------------------------
(* The server, which answers registrations and relays what comes after one. *)

ServerSends ==
  \E k \in registered, kind \in Packets :
    LET p == [conn |-> k, nr |-> Len(sent[k]) + 1, kind |-> kind] IN
    /\ link[k] = "up" /\ Len(sent[k]) < MaxPackets
    /\ sent'  = [sent EXCEPT ![k] = Append(@, p)]
    /\ inbox' = [inbox EXCEPT ![k] = Append(@, p)]
    /\ UNCHANGED <<fields, check, ui, reading, link, registered,
                   heard, lost, dropped, haunted, unwritten>>

ServerCloses ==
  \E k \in Readers :
    /\ link[k] = "up"
    /\ link' = [link EXCEPT ![k] = "gone"]
    /\ UNCHANGED <<fields, check, ui, reading, inbox, registered, history>>

-----------------------------------------------------------------------------
Call   == Connect \/ Disconnect \/ Register \/ CheckState \/ OnLocationChanged
Return == StopOld \/ ResetFlags \/ Dial \/ StartReader \/ Forget

Reader(n) ==
  \/ TestExit(n) \/ FetchReader(n) \/ ReadPacket(n) \/ ReadEnd(n) \/ Handle(n)
  \/ Catch(n) \/ DidDisconnectLogic(n) \/ PostLoss(n)

Next == Call \/ Return \/ ReportLoss \/ (\E n \in Readers : Reader(n)) \/ ServerSends \/ ServerCloses

Spec == Init /\ [][Next]_vars

\* The threads are scheduled; new Socket returns or throws in the end.  Nobody has
\* to call the engine, and the server need not send or close anything.
FairSpec == Spec /\ WF_vars(Return) /\ \A n \in Readers : WF_vars(Reader(n))
-----------------------------------------------------------------------------
(* Properties.                                                              *)

\* connect() alone never leaves two readers alive: a reader other than the current
\* one was given up by disconnect().
OneReader == \A n \in Readers : Alive(n) => n = thread \/ n \in dropped

\* What the application hears from a connection is what the server sent on it, in
\* order and once, and told by the reader of that connection, unless an older reader
\* was still alive when it was opened.
Reported(p) == CallbackOf[p.kind] \notin {"none", "throws"}

HeardInOrder ==
  \A k \in Readers \ haunted :
    /\ \A i \in DOMAIN heard[k] :
         LET p == heard[k][i] IN p.nr \in DOMAIN sent[k] /\ p = sent[k][p.nr] /\ Reported(p)
    /\ \A i, j \in DOMAIN heard[k] : i < j => heard[k][i].nr < heard[k][j].nr
    /\ \A j \in DOMAIN heard[k], n \in DOMAIN sent[k] :
         n < heard[k][j].nr /\ Reported(sent[k][n]) => \E i \in DOMAIN heard[k] : heard[k][i] = sent[k][n]

\* A reader stops listening to a connection that is open only after it has posted a report
\* for the application, unless an older reader was still alive when it was opened.
Told(n) == n \in posted \cup lost

NeverDeaf ==
  \A k \in Readers \ haunted :
    pc[k] = "done" /\ link[k] \in {"up", "gone"} /\ socket = k => Told(k)

\* A connection is open and out of the engine's hands only where disconnect() could
\* not write its request.
NothingLeftOpen ==
  \A k \in Opened : link[k] # "closed" => k = socket \/ k \in unwritten

\* However an availability check ends, it leaves no flag behind that would make the
\* next connect() open a connection and not read it.
CheckIsOver == checkingState => ui # "idle"

\* A reader tells of a loss once: the order to exit that it gives itself before it tells is
\* taken back by a connect() only once it has ended, unless disconnect() had given it up.
ToldOnce == \A n \in Readers : pc[n] = "post" /\ Told(n) => n \in dropped

\* The reader of a connection that was lost or closed ends, so that connect() does not
\* throw for ever, unless disconnect() has given it up and a connect() has taken back
\* the order to exit or given it a newer stream.  NeverDeaf has the loss reported if the
\* connection is still the engine's.
LossNoticed ==
  \A k \in Readers :
    link[k] \in {"gone", "closed"} /\ Alive(k)
      ~> pc[k] = "done" \/ on[k] \notin {0, k} \/ (thread # k /\ ~exitThread)
=============================================================================
