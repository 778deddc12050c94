----------------------------- MODULE PolicyServer -----------------------------
(***************************************************************************)
(* The policy server: the accept loop (PolicyServerSocketWorker) and one     *)
(* thread per client (PolicyServerClientConnection), which reads a request   *)
(* of known length under a read timeout, answers it if it is the policy       *)
(* request, closes the socket and calls back.                                *)
(*                                                                           *)
(* Definitions named X_Y are X with a fault Y, to show that a property needs   *)
(* X.                                                                         *)
(***************************************************************************)
EXTENDS Naturals, Sequences

CONSTANTS
  Conns,          \* connections: one socket and one thread each, never reused
  None,           \* Java's null
  Acceptor,       \* the thread of the accept loop
  RequestLength,  \* _policyRequestContents.length()
  MaxChars        \* bound: characters a client sends

ASSUME NoneAssumption     == None \notin Conns
ASSUME AcceptorAssumption == Acceptor \notin Conns \cup {None}
ASSUME LengthAssumption   == RequestLength \in Nat \ {0}
ASSUME CharsAssumption    == MaxChars \in Nat

VARIABLES
  link,      \* the socket: none, up, gone (the client left), closed (by the server)
  typed,     \* characters the client has sent
  got,       \* how many of them the thread has read
  pc,        \* control point of each connection's thread
  wrk,       \* holder of the PolicyServerSocketWorker monitor
  acceptor,  \* the connection the accept loop is handing to its thread
  listed,    \* _policyServerClientConnections
  answered   \* connections the policy was written to

worker == <<wrk, acceptor, listed>>
vars   == <<link, typed, got, pc, worker, answered>>

\* A character, by what the comparison tells apart: the one the policy request has
\* at that position, another one, or the terminating zero.
Chars == {"request", "other", "zero"}
Ended == {"done", "failed", "timedOut"}

Init ==
  /\ link  = [c \in Conns |-> "none"]
  /\ typed = [c \in Conns |-> <<>>]
  /\ got   = [c \in Conns |-> 0]
  /\ pc    = [c \in Conns |-> "absent"]
  /\ wrk = None /\ acceptor = None
  /\ listed = {} /\ answered = {}

Goto(c, point) == pc' = [pc EXCEPT ![c] = point]

-----------------------------------------------------------------------------
(* The clients (outside the server).                                        *)

Connect(c) ==
  /\ link[c] = "none"
  /\ link' = [link EXCEPT ![c] = "up"]
  /\ UNCHANGED <<typed, got, pc, worker, answered>>

Type(c) ==
  /\ link[c] = "up" /\ Len(typed[c]) < MaxChars
  /\ \E x \in Chars : typed' = [typed EXCEPT ![c] = Append(@, x)]
  /\ UNCHANGED <<link, got, pc, worker, answered>>

Leave(c) ==
  /\ link[c] = "up"
  /\ link' = [link EXCEPT ![c] = "gone"]
  /\ UNCHANGED <<typed, got, pc, worker, answered>>

-----------------------------------------------------------------------------
(* The accept loop.                                                         *)

WorkerFree_Unlocked == TRUE
WorkerFree == wrk = None

\* accept and setSoTimeout.
Accept(c) ==
  /\ acceptor = None /\ pc[c] = "absent" /\ link[c] # "none"
  /\ acceptor' = c
  /\ UNCHANGED <<link, typed, got, pc, wrk, listed, answered>>

StartThread ==
  /\ acceptor # None /\ WorkerFree
  /\ wrk' = Acceptor
  /\ Goto(acceptor, "open")
  /\ UNCHANGED <<link, typed, got, acceptor, listed, answered>>

ListConnection ==
  /\ wrk = Acceptor
  /\ listed' = listed \cup {acceptor}
  /\ wrk' = None /\ acceptor' = None
  /\ UNCHANGED <<link, typed, got, pc, answered>>

-----------------------------------------------------------------------------
(* serveClient.                                                             *)

\* The two files are read for every client; one that cannot be read ends the thread.
OpenFiles(c) ==
  /\ pc[c] = "open"
  /\ Goto(c, "read") \/ Goto(c, "failed")
  /\ UNCHANGED <<link, typed, got, worker, answered>>

\* Nothing to read: a further read waits, for at most the timeout.
Starved(c) == got[c] = Len(typed[c])
TimesOut_Never(c) == FALSE
TimesOut(c) == Starved(c) /\ link[c] = "up"

\* readFromInputStream: a zero or the length of the request ends the request.
RequestEnds(c, n) == typed[c][n] = "zero" \/ n = RequestLength

Read(c) ==
  /\ pc[c] = "read" /\ ~Starved(c)
  /\ got' = [got EXCEPT ![c] = @ + 1]
  /\ \/ RequestEnds(c, got[c] + 1) /\ Goto(c, "respond")
     \/ ~RequestEnds(c, got[c] + 1) /\ UNCHANGED pc
  /\ UNCHANGED <<link, typed, worker, answered>>

\* The end of the stream counts as a zero; a reset is a SocketException.
ReadEnd(c) ==
  /\ pc[c] = "read" /\ Starved(c) /\ link[c] = "gone"
  /\ Goto(c, "respond") \/ Goto(c, "failed")
  /\ UNCHANGED <<link, typed, got, worker, answered>>

\* A SocketTimeoutException: the thread ends, the socket is left open and the
\* delegate is not told.
Timeout(c) ==
  /\ pc[c] = "read" /\ TimesOut(c)
  /\ Goto(c, "timedOut")
  /\ UNCHANGED <<link, typed, got, worker, answered>>

\* _policyRequestContents.equals(request)
IsRequest(c) == got[c] = RequestLength /\ \A i \in 1..got[c] : typed[c][i] = "request"

\* The policy if it was asked for, a zero, and the end of the connection.  A write to
\* a client that has gone is lost or throws.
Respond(c) ==
  /\ pc[c] = "respond"
  /\ \/ /\ link' = [link EXCEPT ![c] = "closed"]
        /\ answered' = answered \cup {d \in {c} : IsRequest(d)}
        /\ Goto(c, "served")
     \/ /\ link[c] = "gone"
        /\ Goto(c, "failed")
        /\ UNCHANGED <<link, answered>>
  /\ UNCHANGED <<typed, got, worker>>

\* clientServed.
ClientServed(c) ==
  /\ pc[c] = "served" /\ WorkerFree
  /\ listed' = listed \ {c}
  /\ Goto(c, "done")
  /\ UNCHANGED <<link, typed, got, wrk, acceptor, answered>>

-----------------------------------------------------------------------------
Client(c) == Connect(c) \/ Type(c) \/ Leave(c)

Thread(c) ==
  \/ OpenFiles(c) \/ Read(c) \/ ReadEnd(c) \/ Timeout(c)
  \/ Respond(c) \/ ClientServed(c)

Next ==
  \/ StartThread \/ ListConnection
  \/ \E c \in Conns : Client(c) \/ Accept(c) \/ Thread(c)

Spec == Init /\ [][Next]_vars

\* Threads run, a monitor that is free is granted and the timer of a read fires.
FairSpec ==
  /\ Spec
  /\ WF_vars(StartThread) /\ WF_vars(ListConnection)
  /\ \A c \in Conns : WF_vars(Accept(c)) /\ WF_vars(Thread(c))

-----------------------------------------------------------------------------
(* Properties.                                                              *)

TypeOK ==
  /\ link  \in [Conns -> {"none", "up", "gone", "closed"}]
  /\ typed \in [Conns -> Seq(Chars)]
  /\ got   \in [Conns -> Nat]
  /\ pc    \in [Conns -> {"absent", "open", "read", "respond", "served"} \cup Ended]
  /\ wrk \in {None, Acceptor} /\ acceptor \in Conns \cup {None}
  /\ listed \in SUBSET Conns /\ answered \in SUBSET Conns

\* A thread reads only what was sent, and never past the length of the request.
Reads == \A c \in Conns : got[c] <= Len(typed[c]) /\ got[c] <= RequestLength

Typed == TypeOK /\ Reads /\ (wrk = Acceptor => acceptor # None)

\* clientServed always finds its client in the list, though the thread is started
\* before the connection is listed: "not found on policy server internal state!" is
\* never logged.
ServedIsListed ==
  [][\A c \in Conns : pc[c] = "served" /\ pc'[c] # "served" => c \in listed]_vars

\* The list holds exactly the connections that are open or ended by an exception: a
\* connection that was served is closed and never comes back, whichever of its
\* thread and the accept loop is faster.
ListAccounted ==
  \A c \in Conns :
    /\ pc[c] = "done" => c \notin listed /\ link[c] = "closed"
    /\ pc[c] \notin {"absent", "done"} => c \in listed \/ acceptor = c

\* The policy is given only to a client whose first characters are the policy
\* request, whatever it sends afterwards.
AnsweredAsked ==
  \A c \in answered : /\ Len(typed[c]) >= RequestLength
                      /\ \A i \in 1..RequestLength : typed[c][i] = "request"

\* No client can hold its thread: silent, slow or gone, its thread ends.
ThreadEnds == \A c \in Conns : pc[c] = "open" ~> pc[c] \in Ended
=============================================================================
