---------------------------- MODULE ServerLifecycle ----------------------------
(***************************************************************************)
(* Starting and stopping: RemoteGameInterfaceServer opens two server sockets *)
(* and runs an accept loop on each (PolicyServerSocketWorker,                *)
(* OperationalServerSocketWorker); stop asks both loops to exit, closes the   *)
(* sockets and joins the loops.  Server.main starts it and then only sleeps   *)
(* (no key is read, so nothing makes it call stop); a program that embeds the *)
(* server may call stop.  What the loops do with a connection is in           *)
(* PolicyServer and OperationalServer.                                        *)
(*                                                                           *)
(* Definitions named X_Y are X with a fault Y, to show that a property needs   *)
(* X.                                                                         *)
(***************************************************************************)
EXTENDS Naturals

CONSTANT
  MaxClients  \* bound: connections made to each server socket

ASSUME ClientsAssumption == MaxClients \in Nat

VARIABLES
  main,     \* control point of start, main and stop
  socket,   \* each server socket: none, bound, closed
  exit,     \* _exit of each worker
  loop,     \* control point of each accept loop
  backlog,  \* connections waiting for accept
  arrived,  \* connections made so far
  served,   \* connections whose thread was started
  errors    \* workers that logged an error of their accept loop

server == <<socket, exit, loop>>
vars   == <<main, server, backlog, arrived, served, errors>>

Workers == {"policy", "operational"}

Init ==
  /\ main = "openPolicy"
  /\ socket  = [w \in Workers |-> "none"]
  /\ exit    = [w \in Workers |-> FALSE]
  /\ loop    = [w \in Workers |-> "off"]
  /\ backlog = [w \in Workers |-> 0]
  /\ arrived = [w \in Workers |-> 0]
  /\ served  = [w \in Workers |-> 0]
  /\ errors  = {}

-----------------------------------------------------------------------------
(* start.                                                                   *)

\* new ServerSocket(port), which throws if the port is taken.
Open(w, point, next) ==
  /\ main = point
  /\ \/ socket' = [socket EXCEPT ![w] = "bound"] /\ main' = next
     \/ UNCHANGED socket /\ main' = "failed"
  /\ UNCHANGED <<exit, loop, backlog, arrived, served, errors>>

\* _wServerSocketThread.start()
Launch(w, point, next) ==
  /\ main = point
  /\ loop' = [loop EXCEPT ![w] = "test"]
  /\ main' = next
  /\ UNCHANGED <<socket, exit, backlog, arrived, served, errors>>

Start ==
  \/ Open("policy", "openPolicy", "openOperational")
  \/ Open("operational", "openOperational", "launchPolicy")
  \/ Launch("policy", "launchPolicy", "launchOperational")
  \/ Launch("operational", "launchOperational", "running")

-----------------------------------------------------------------------------
(* stop.                                                                    *)

\* Nobody has to call stop.
CallStop ==
  /\ main = "running"
  /\ main' = "stop"
  /\ UNCHANGED <<server, backlog, arrived, served, errors>>

\* exit() of both workers.
AskToExit(point, next) ==
  /\ main = point
  /\ exit' = [w \in Workers |-> TRUE]
  /\ main' = next
  /\ UNCHANGED <<socket, loop, backlog, arrived, served, errors>>

\* close() of a server socket: what waits in its backlog is refused.
Close(w, point, next) ==
  /\ main = point
  /\ socket'  = [socket EXCEPT ![w] = "closed"]
  /\ backlog' = [backlog EXCEPT ![w] = 0]
  /\ main' = next
  /\ UNCHANGED <<exit, loop, arrived, served, errors>>

\* _wServerSocketThread.join()
Joinable_Always(w) == TRUE
Joinable(w) == loop[w] = "done"

Join(w, point, next) ==
  /\ main = point /\ Joinable(w)
  /\ main' = next
  /\ UNCHANGED <<server, backlog, arrived, served, errors>>

JoinBoth ==
  \/ Join("policy", "joinPolicy", "joinOperational")
  \/ Join("operational", "joinOperational", "stopped")

Stop_CloseFirst ==
  \/ Close("policy", "stop", "closeOperational")
  \/ Close("operational", "closeOperational", "closePolicy")
  \/ AskToExit("closePolicy", "joinPolicy")
  \/ JoinBoth
Stop_OneSocket ==
  \/ AskToExit("stop", "closePolicy")
  \/ Close("policy", "closePolicy", "joinPolicy")
  \/ JoinBoth
Stop ==
  \/ AskToExit("stop", "closePolicy")
  \/ Close("policy", "closePolicy", "closeOperational")
  \/ Close("operational", "closeOperational", "joinPolicy")
  \/ JoinBoth

-----------------------------------------------------------------------------
(* The accept loops.                                                        *)

\* while (!_exit)
ExitTest(w) ==
  /\ loop[w] = "test"
  /\ loop' = [loop EXCEPT ![w] = IF exit[w] THEN "done" ELSE "accept"]
  /\ UNCHANGED <<main, socket, exit, backlog, arrived, served, errors>>

Accept(w) ==
  /\ loop[w] = "accept" /\ socket[w] = "bound" /\ backlog[w] > 0
  /\ backlog' = [backlog EXCEPT ![w] = @ - 1]
  /\ loop'    = [loop EXCEPT ![w] = "hand"]
  /\ UNCHANGED <<main, socket, exit, arrived, served, errors>>

\* The thread of the connection is started and the connection listed; then the loop
\* goes on.
AfterConnection_Again == "hand"
AfterConnection == "test"

HandOver(w) ==
  /\ loop[w] = "hand"
  /\ served' = [served EXCEPT ![w] = @ + 1]
  /\ loop'   = [loop EXCEPT ![w] = AfterConnection]
  /\ UNCHANGED <<main, socket, exit, backlog, arrived, errors>>

\* accept on a closed socket, or one closed while it waits: a SocketException, which
\* is an error only if the worker was not asked to exit.
AcceptThrows(w) ==
  /\ loop[w] = "accept" /\ socket[w] = "closed"
  /\ errors' = errors \cup {v \in {w} : ~exit[v]}
  /\ loop'   = [loop EXCEPT ![w] = "test"]
  /\ UNCHANGED <<main, socket, exit, backlog, arrived, served>>

Loop(w) == ExitTest(w) \/ Accept(w) \/ HandOver(w) \/ AcceptThrows(w)

-----------------------------------------------------------------------------
(* The clients (outside the program).                                       *)

Connect(w) ==
  /\ socket[w] = "bound" /\ arrived[w] < MaxClients
  /\ arrived' = [arrived EXCEPT ![w] = @ + 1]
  /\ backlog' = [backlog EXCEPT ![w] = @ + 1]
  /\ UNCHANGED <<main, server, served, errors>>

Next ==
  \/ Start \/ CallStop \/ Stop
  \/ \E w \in Workers : Loop(w) \/ Connect(w)

Spec == Init /\ [][Next]_vars

\* Every thread runs; nobody is obliged to connect or to call stop.
FairSpec == Spec /\ WF_vars(Start) /\ WF_vars(Stop) /\ \A w \in Workers : WF_vars(Loop(w))

-----------------------------------------------------------------------------
(* Properties.                                                              *)

StartPoints == {"openPolicy", "openOperational", "launchPolicy", "launchOperational"}
StopPoints  == {"stop", "closePolicy", "closeOperational", "joinPolicy", "joinOperational"}

TypeOK ==
  /\ main \in StartPoints \cup StopPoints \cup {"failed", "running", "stopped"}
  /\ socket  \in [Workers -> {"none", "bound", "closed"}]
  /\ exit    \in [Workers -> BOOLEAN]
  /\ loop    \in [Workers -> {"off", "test", "accept", "hand", "done"}]
  /\ backlog \in [Workers -> 0..MaxClients]
  /\ arrived \in [Workers -> 0..MaxClients]
  /\ served  \in [Workers -> 0..MaxClients]
  /\ errors \subseteq Workers

\* Each connection made is waiting, in the hands of its loop, served or, once the
\* socket is closed, refused: none is served twice, and only stop refuses any.
ConnectionsAccounted ==
  \A w \in Workers :
    LET held == backlog[w] + served[w] + (IF loop[w] = "hand" THEN 1 ELSE 0)
    IN held <= arrived[w] /\ (socket[w] # "closed" => held = arrived[w])

\* Once stop has returned both loops have ended, both sockets are closed and no
\* thread is started for a connection any more, not even for one that accept
\* returned while stop was running.
StoppedIsQuiet ==
  [][main = "stopped" =>
       /\ served' = served
       /\ \A w \in Workers : loop[w] = "done" /\ socket[w] = "closed"]_vars

\* Stopping is not an error: no loop logs the SocketException its socket's closing
\* throws (the test of _exit in its catch), at whatever point close finds it.
StopLogsNoError == errors = {}

\* stop returns, whatever the loops are doing when it is called.
StopReturns == main = "stop" ~> main = "stopped"
=============================================================================
