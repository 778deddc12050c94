------------------------- MODULE MCOperationalServer -------------------------
(* Model-checking parameters for OperationalServer.                          *)
EXTENDS OperationalServer, TLC

CONSTANTS c1, c2, c3, h1, h2

TwoConns   == {c1, c2}
ThreeConns == {c1, c2, c3}
OneHash    == {h1}
TwoHashes  == {h1, h2}

\* Nothing is registered and nobody waits for a monitor.
Quiet ==
  /\ loc  = [c \in Conns |-> Idle]
  /\ ctx = None /\ wrk = None /\ acceptor = None
  /\ clients = [r \in Roles |-> {}]
  /\ hashOf  = [r \in Roles |-> [c \in Conns |-> None]]
  /\ known   = {}
  /\ pair    = [h \in Hashes |-> NoPair]
  /\ buf     = [c \in Conns |-> <<>>]
  /\ claims = {} /\ stale = {} /\ torn = FALSE

\* c3 has come and gone, without a request; the others are still to come.
OneIsOver ==
  /\ Quiet /\ listed = {}
  /\ link = [c \in Conns |-> IF c = c3 THEN "closed" ELSE "none"]
  /\ sent = [c \in Conns |-> 0]
  /\ pc   = [c \in Conns |-> IF c = c3 THEN "done" ELSE "absent"]

\* Clients other than c3 have been accepted, made a request that was refused, and have one
\* left; c3 is still to come, and will send nothing.
OneIsLate ==
  /\ Quiet /\ listed = Conns \ {c3}
  /\ link = [c \in Conns |-> IF c = c3 THEN "none" ELSE "up"]
  /\ sent = [c \in Conns |-> IF c = c3 THEN MaxRequests ELSE MaxRequests - 1]
  /\ pc   = [c \in Conns |-> IF c = c3 THEN "absent" ELSE "read"]

\* The server from either of these states, which it can come to.
ProgressSpec == (OneIsOver \/ OneIsLate) /\ [][Next]_vars /\ Fairness

SymmetryTwo   == Permutations(TwoConns) \cup Permutations(TwoHashes)
SymmetryThree == Permutations(ThreeConns)
=============================================================================
