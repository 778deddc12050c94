------------------------ MODULE ServerLifecycle_proofs ------------------------
(***************************************************************************)
(* Proofs about ServerLifecycle, for any number of connections.              *)
(***************************************************************************)
EXTENDS ServerLifecycle, TLAPS

\* A loop is off until it is launched, and no socket is closed before stop.
Starting ==
  /\ main \in StartPoints \cup {"failed"} => \A w \in Workers : socket[w] # "closed"
  /\ main \in {"openPolicy", "openOperational", "launchPolicy"} => \A w \in Workers : loop[w] = "off"
  /\ main = "launchOperational" => loop["operational"] = "off"

\* stop in its order: asked to exit, closed, joined.
Stopping ==
  /\ \A w \in Workers : socket[w] = "closed" => exit[w]
  /\ main \in {"closePolicy", "closeOperational", "joinPolicy", "joinOperational", "stopped"}
       => \A w \in Workers : exit[w]
  /\ main \in {"closeOperational", "joinPolicy", "joinOperational", "stopped"} => socket["policy"] = "closed"
  /\ main \in {"joinPolicy", "joinOperational", "stopped"} => socket["operational"] = "closed"
  /\ main \in {"joinOperational", "stopped"} => loop["policy"] = "done"
  /\ main = "stopped" => loop["operational"] = "done"

LifecycleInv == TypeOK /\ ConnectionsAccounted /\ Starting /\ Stopping /\ StopLogsNoError

LEMMA InvInit == Init => LifecycleInv
BY ClientsAssumption
DEF Init, LifecycleInv, TypeOK, ConnectionsAccounted, Starting, Stopping, StopLogsNoError,
    StartPoints, Workers

LEMMA StartKeeps == ASSUME LifecycleInv, Start PROVE LifecycleInv'
<1> USE DEF LifecycleInv
<1>1. ASSUME NEW w \in Workers, NEW point \in {"openPolicy", "openOperational"},
             NEW next \in {"openOperational", "launchPolicy"},
             Open(w, point, next), point = "openOperational" => next = "launchPolicy"
      PROVE  LifecycleInv'
  <2>1. TypeOK'
    BY <1>1 DEF Open, TypeOK, StartPoints, StopPoints
  <2>2. ConnectionsAccounted'
    BY <1>1 DEF Open, TypeOK, ConnectionsAccounted, Starting, StartPoints
  <2>3. Starting'
    BY <1>1 DEF Open, TypeOK, Starting, StartPoints
  <2>4. Stopping' /\ StopLogsNoError'
    BY <1>1 DEF Open, TypeOK, Stopping, StopLogsNoError
  <2> QED BY <2>1, <2>2, <2>3, <2>4
<1>2. CASE Launch("policy", "launchPolicy", "launchOperational")
  <2>1. TypeOK'
    BY <1>2 DEF Launch, TypeOK, StartPoints, StopPoints
  <2>2. ConnectionsAccounted'
    BY <1>2 DEF Launch, TypeOK, ConnectionsAccounted, Starting
  <2>3. Starting' /\ Stopping' /\ StopLogsNoError'
    BY <1>2 DEF Launch, TypeOK, Starting, Stopping, StopLogsNoError, StartPoints, Workers
  <2> QED BY <2>1, <2>2, <2>3
<1>3. CASE Launch("operational", "launchOperational", "running")
  <2>1. TypeOK'
    BY <1>3 DEF Launch, TypeOK, StartPoints, StopPoints
  <2>2. ConnectionsAccounted'
    BY <1>3 DEF Launch, TypeOK, ConnectionsAccounted, Starting
  <2>3. Starting' /\ Stopping' /\ StopLogsNoError'
    BY <1>3 DEF Launch, TypeOK, Starting, Stopping, StopLogsNoError, StartPoints, Workers
  <2> QED BY <2>1, <2>2, <2>3
<1> QED BY <1>1, <1>2, <1>3 DEF Start, Workers

LEMMA StopKeeps == ASSUME LifecycleInv, CallStop \/ Stop PROVE LifecycleInv'
<1> USE DEF LifecycleInv
<1>1. CASE CallStop
  BY <1>1 DEF CallStop, server, TypeOK, ConnectionsAccounted, Starting, Stopping,
              StopLogsNoError, StartPoints, StopPoints
<1>2. CASE AskToExit("stop", "closePolicy")
  BY <1>2 DEF AskToExit, TypeOK, ConnectionsAccounted, Starting, Stopping,
              StopLogsNoError, StartPoints, StopPoints
<1>3. ASSUME NEW w \in Workers, NEW point \in {"closePolicy", "closeOperational"},
             NEW next \in {"closeOperational", "joinPolicy"}, Close(w, point, next),
             \/ w = "policy" /\ point = "closePolicy" /\ next = "closeOperational"
             \/ w = "operational" /\ point = "closeOperational" /\ next = "joinPolicy"
      PROVE  LifecycleInv'
  <2>1. TypeOK'
    BY <1>3, ClientsAssumption DEF Close, TypeOK, StartPoints, StopPoints
  <2>2. ConnectionsAccounted'
    BY <1>3 DEF Close, TypeOK, ConnectionsAccounted
  <2>3. Starting' /\ StopLogsNoError'
    BY <1>3 DEF Close, Starting, StopLogsNoError, StartPoints
  <2>4. Stopping'
    BY <1>3 DEF Close, TypeOK, Stopping, Workers
  <2> QED BY <2>1, <2>2, <2>3, <2>4
<1>4. CASE JoinBoth
  BY <1>4 DEF JoinBoth, Join, Joinable, server, TypeOK, ConnectionsAccounted, Starting,
              Stopping, StopLogsNoError, StartPoints, StopPoints
<1> QED BY <1>1, <1>2, <1>3, <1>4 DEF Stop, Workers

LEMMA LoopKeeps == ASSUME LifecycleInv, NEW w \in Workers, Loop(w) \/ Connect(w) PROVE LifecycleInv'
<1> USE ClientsAssumption DEF LifecycleInv
<1>1. /\ UNCHANGED <<main, socket, exit>>
      /\ \A v \in Workers \ {w} : UNCHANGED <<loop[v], backlog[v], arrived[v], served[v]>>
  BY DEF Loop, Connect, ExitTest, Accept, HandOver, AcceptThrows, server, TypeOK
<1>2. TypeOK'
  <2>1. CASE ExitTest(w) \/ AcceptThrows(w)
    BY <2>1 DEF ExitTest, AcceptThrows, TypeOK
  <2>2. CASE Accept(w)
    BY <2>2 DEF Accept, TypeOK
  <2>3. CASE HandOver(w)
    <3>1. served[w] + 1 \in 0..MaxClients
      BY <2>3 DEF HandOver, TypeOK, ConnectionsAccounted
    <3> QED BY <2>3, <3>1 DEF HandOver, AfterConnection, TypeOK
  <2>4. CASE Connect(w)
    <3>1. backlog[w] + 1 \in 0..MaxClients /\ arrived[w] + 1 \in 0..MaxClients
      BY <2>4 DEF Connect, TypeOK, ConnectionsAccounted
    <3> QED BY <2>4, <3>1 DEF Connect, server, TypeOK
  <2> QED BY <2>1, <2>2, <2>3, <2>4 DEF Loop
<1>3. ConnectionsAccounted'
  <2>1. CASE ExitTest(w) \/ AcceptThrows(w)
    BY <2>1 DEF ExitTest, AcceptThrows, TypeOK, ConnectionsAccounted
  <2>2. CASE Accept(w)
    BY <2>2 DEF Accept, TypeOK, ConnectionsAccounted
  <2>3. CASE HandOver(w)
    BY <2>3 DEF HandOver, AfterConnection, TypeOK, ConnectionsAccounted
  <2>4. CASE Connect(w)
    BY <2>4 DEF Connect, server, TypeOK, ConnectionsAccounted
  <2> QED BY <2>1, <2>2, <2>3, <2>4 DEF Loop
<1>4. loop[w] \in {"off", "done"} => loop'[w] = loop[w]
  BY DEF Loop, Connect, ExitTest, Accept, HandOver, AcceptThrows, server
<1>5. Starting' /\ Stopping'
  BY <1>1, <1>4 DEF Starting, Stopping, Workers
<1>6. StopLogsNoError'
  BY DEF Loop, Connect, ExitTest, Accept, HandOver, AcceptThrows, Stopping, StopLogsNoError
<1> QED BY <1>2, <1>3, <1>5, <1>6

LEMMA InvStep == LifecycleInv /\ [Next]_vars => LifecycleInv'
<1> SUFFICES ASSUME LifecycleInv, [Next]_vars PROVE LifecycleInv'
  OBVIOUS
<1>1. CASE UNCHANGED vars
  BY <1>1 DEF vars, server, LifecycleInv, TypeOK, ConnectionsAccounted, Starting, Stopping,
              StopLogsNoError
<1> QED BY <1>1, StartKeeps, StopKeeps, LoopKeeps DEF Next

LEMMA Lifecycle == Spec => []LifecycleInv
BY InvInit, InvStep, PTL DEF Spec

\* The bounds of every variable, and no connection lost or served twice, for any
\* number of connections.
THEOREM AllAccounted == Spec => [](TypeOK /\ ConnectionsAccounted)
BY Lifecycle, PTL DEF LifecycleInv

\* A loop never takes the closing of its socket for an error.
THEOREM NoErrorLogged == Spec => []StopLogsNoError
BY Lifecycle, PTL DEF LifecycleInv

\* Once stop has returned both loops have ended and no thread is started any more.
THEOREM QuietOnceStopped == Spec => StoppedIsQuiet
<1>1. LifecycleInv /\ [Next]_vars =>
        [main = "stopped" =>
           /\ served' = served
           /\ \A w \in Workers : loop[w] = "done" /\ socket[w] = "closed"]_vars
  <2> SUFFICES ASSUME LifecycleInv, Next, main = "stopped"
               PROVE  /\ served' = served
                      /\ \A w \in Workers : loop[w] = "done" /\ socket[w] = "closed"
    OBVIOUS
  <2>1. \A w \in Workers : loop[w] = "done" /\ socket[w] = "closed"
    BY DEF LifecycleInv, Stopping, Workers
  <2>2. served' = served
    BY <2>1 DEF Next, Start, Open, Launch, CallStop, Stop, AskToExit, Close, JoinBoth, Join,
                Loop, ExitTest, Accept, HandOver, AcceptThrows, Connect, server
  <2> QED BY <2>1, <2>2
<1> QED BY <1>1, Lifecycle, PTL DEF Spec, StoppedIsQuiet
=============================================================================
