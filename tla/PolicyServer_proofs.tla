-------------------------- MODULE PolicyServer_proofs --------------------------
(***************************************************************************)
(* Proofs about PolicyServer, for every set of connections, every length of  *)
(* the request and everything a client may send.                             *)
(***************************************************************************)
EXTENDS PolicyServer, TLAPS

\* The accept loop starts a thread only for a connection that has none.
HandsOver == \A c \in Conns : acceptor = c /\ wrk # Acceptor => pc[c] = "absent"

\* A thread goes on reading only below the length of the request, closes before it calls
\* back, and is running once the accept loop has started it.
ThreadsEnd ==
  \A c \in Conns : /\ pc[c] = "served" => link[c] = "closed"
                   /\ pc[c] \in {"absent", "open", "read"} => got[c] < RequestLength
                   /\ wrk = Acceptor /\ acceptor = c => pc[c] \notin {"absent", "done"}

PolicyInv == Typed /\ HandsOver /\ ThreadsEnd /\ ListAccounted /\ AnsweredAsked

LEMMA InvInit == Init => PolicyInv
BY NoneAssumption, AcceptorAssumption, LengthAssumption
DEF Init, PolicyInv, Typed, TypeOK, Reads, HandsOver, ThreadsEnd, ListAccounted, AnsweredAsked, Ended

\* What a client sends is added at the end, so what was read and answered stays.
LEMMA ClientKeeps == ASSUME PolicyInv, NEW c \in Conns, Client(c) PROVE PolicyInv'
<1> USE DEF PolicyInv, Typed, TypeOK
<1>1. CASE Connect(c) \/ Leave(c)
  <2>1. /\ UNCHANGED <<typed, got, pc, wrk, acceptor, listed, answered>>
        /\ link[c] # "closed" /\ \E l \in {"up", "gone"} : link' = [link EXCEPT ![c] = l]
    BY <1>1 DEF Connect, Leave, worker
  <2>2. TypeOK' /\ Reads' /\ AnsweredAsked' /\ HandsOver' /\ (wrk = Acceptor => acceptor # None)'
    BY <2>1 DEF Reads, AnsweredAsked, HandsOver
  <2>3. ThreadsEnd' /\ ListAccounted'
    BY <2>1 DEF ThreadsEnd, ListAccounted
  <2> QED BY <2>2, <2>3
<1>2. CASE Type(c)
  <2>1. PICK x \in Chars : typed' = [typed EXCEPT ![c] = Append(@, x)]
    BY <1>2 DEF Type
  <2>2. /\ Append(typed[c], x) \in Seq(Chars)
        /\ Len(Append(typed[c], x)) = Len(typed[c]) + 1
        /\ \A i \in 1..Len(typed[c]) : Append(typed[c], x)[i] = typed[c][i]
    OBVIOUS
  <2>3. \A d \in Conns : /\ Len(typed'[d]) >= Len(typed[d])
                         /\ \A i \in 1..Len(typed[d]) : typed'[d][i] = typed[d][i]
    BY <2>1, <2>2
  <2>4. TypeOK'
    BY <1>2, <2>1, <2>2 DEF Type, worker
  <2>5. Reads'
    BY <1>2, <2>3, <2>4 DEF Type, Reads
  <2>6. AnsweredAsked'
    <3> SUFFICES ASSUME NEW d \in answered
                 PROVE  /\ Len(typed'[d]) >= RequestLength
                        /\ \A i \in 1..RequestLength : typed'[d][i] = "request"
      BY <1>2 DEF Type, AnsweredAsked
    <3>1. d \in Conns /\ Len(typed[d]) \in Nat /\ Len(typed'[d]) \in Nat /\ RequestLength \in Nat
      BY <2>4, LengthAssumption
    <3>2. Len(typed[d]) >= RequestLength /\ \A i \in 1..RequestLength : typed[d][i] = "request"
      BY DEF AnsweredAsked
    <3>3. \A i \in 1..RequestLength : i \in 1..Len(typed[d])
      BY <3>1, <3>2
    <3>4. Len(typed'[d]) >= Len(typed[d]) /\ \A i \in 1..Len(typed[d]) : typed'[d][i] = typed[d][i]
      BY <2>3, <3>1
    <3> HIDE DEF PolicyInv, Typed, TypeOK
    <3> QED BY <3>1, <3>2, <3>3, <3>4
  <2> QED BY <1>2, <2>4, <2>5, <2>6 DEF Type, worker, HandsOver, ThreadsEnd, ListAccounted
<1> QED BY <1>1, <1>2 DEF Client

LEMMA AcceptKeeps ==
  ASSUME PolicyInv, (\E c \in Conns : Accept(c)) \/ StartThread \/ ListConnection
  PROVE  PolicyInv'
<1> USE NoneAssumption, AcceptorAssumption DEF PolicyInv, Typed, TypeOK
<1>1. CASE \E c \in Conns : Accept(c)
  BY <1>1 DEF Accept, Reads, HandsOver, ThreadsEnd, ListAccounted, AnsweredAsked
<1>2. CASE StartThread
  <2>1. acceptor \in Conns /\ pc[acceptor] = "absent" /\ wrk = None
    BY <1>2 DEF StartThread, HandsOver, WorkerFree
  <2>2. pc' = [pc EXCEPT ![acceptor] = "open"]
    BY <1>2 DEF StartThread, Goto
  <2>3. TypeOK' /\ Reads' /\ (wrk = Acceptor => acceptor # None)'
    BY <1>2, <2>1, <2>2 DEF StartThread, Reads
  <2>4. HandsOver' /\ ThreadsEnd'
    BY <1>2, <2>1, <2>2 DEF StartThread, HandsOver, ThreadsEnd
  <2>5. ListAccounted' /\ AnsweredAsked'
    BY <1>2, <2>1, <2>2 DEF StartThread, ListAccounted, AnsweredAsked
  <2> QED BY <2>3, <2>4, <2>5
<1>3. CASE ListConnection
  <2>1. acceptor \in Conns /\ pc[acceptor] \notin {"absent", "done"}
    BY <1>3 DEF ListConnection, ThreadsEnd
  <2> QED BY <1>3, <2>1 DEF ListConnection, Reads, HandsOver, ThreadsEnd, ListAccounted, AnsweredAsked
<1> QED BY <1>1, <1>2, <1>3

\* The steps of a thread up to its answer or its end by an exception.
LEMMA ReadingKeeps ==
  ASSUME PolicyInv, NEW c \in Conns, OpenFiles(c) \/ Read(c) \/ ReadEnd(c) \/ Timeout(c)
  PROVE  PolicyInv'
<1> USE DEF PolicyInv, Typed, TypeOK
<1>1. /\ UNCHANGED <<link, typed, worker, answered>>
      /\ pc[c] \in {"open", "read"}
      /\ \E p \in {"read", "respond", "failed", "timedOut"} : pc' = [pc EXCEPT ![c] = p]
  BY DEF OpenFiles, Read, ReadEnd, Timeout, Goto
<1>2. \/ UNCHANGED got
      \/ got' = [got EXCEPT ![c] = @ + 1] /\ got[c] + 1 <= Len(typed[c]) /\ got[c] + 1 <= RequestLength
         /\ pc[c] = "read"
  <2>1. CASE Read(c)
    <3>1. got[c] + 1 <= Len(typed[c])
      BY <2>1 DEF Read, Starved, Reads
    <3>2. got[c] + 1 <= RequestLength
      BY <2>1, LengthAssumption DEF Read, ThreadsEnd
    <3> QED BY <2>1, <3>1, <3>2 DEF Read
  <2>2. CASE OpenFiles(c) \/ ReadEnd(c) \/ Timeout(c)
    BY <2>2 DEF OpenFiles, ReadEnd, Timeout
  <2> QED BY <2>1, <2>2
<1>3. pc'[c] = "read" => got'[c] < RequestLength
  <2>1. CASE Read(c)
    <3>1. pc'[c] = "read" => got[c] + 1 # RequestLength
      BY <2>1 DEF Read, RequestEnds, Goto
    <3> QED BY <1>2, <2>1, <3>1, LengthAssumption DEF Read
  <2>2. CASE OpenFiles(c) \/ ReadEnd(c) \/ Timeout(c)
    BY <2>2 DEF OpenFiles, ReadEnd, Timeout, Goto, ThreadsEnd
  <2> QED BY <2>1, <2>2
<1>4. TypeOK' /\ Reads'
  <2>1. pc' \in [Conns -> {"absent", "open", "read", "respond", "served"} \cup Ended]
    BY <1>1 DEF Ended
  <2>2. got' \in [Conns -> Nat] /\ \A d \in Conns : got'[d] <= Len(typed[d]) /\ got'[d] <= RequestLength
    <3>1. CASE UNCHANGED got
      BY <3>1 DEF Reads
    <3>2. CASE got' = [got EXCEPT ![c] = @ + 1]
      BY <1>2, <3>2 DEF Reads
    <3> QED BY <1>2, <3>1, <3>2
  <2> QED BY <1>1, <2>1, <2>2 DEF worker, Reads
<1>5. HandsOver' /\ ThreadsEnd'
  BY <1>1, <1>2, <1>3 DEF worker, HandsOver, ThreadsEnd
<1>6. ListAccounted' /\ AnsweredAsked' /\ (wrk = Acceptor => acceptor # None)'
  BY <1>1 DEF worker, ListAccounted, AnsweredAsked
<1> QED BY <1>4, <1>5, <1>6

LEMMA AnswerKeeps ==
  ASSUME PolicyInv, NEW c \in Conns, Respond(c) \/ ClientServed(c)
  PROVE  PolicyInv'
<1> USE NoneAssumption, AcceptorAssumption DEF PolicyInv, Typed, TypeOK
<1>1. CASE Respond(c)
  <2>1. /\ UNCHANGED <<typed, got, worker>> /\ pc[c] = "respond"
        /\ \/ /\ pc' = [pc EXCEPT ![c] = "served"] /\ link' = [link EXCEPT ![c] = "closed"]
              /\ answered' = answered \cup {d \in {c} : IsRequest(d)}
           \/ pc' = [pc EXCEPT ![c] = "failed"] /\ UNCHANGED <<link, answered>>
    BY <1>1 DEF Respond, Goto
  <2>2. IsRequest(c) => /\ Len(typed[c]) >= RequestLength
                        /\ \A i \in 1..RequestLength : typed[c][i] = "request"
    BY DEF IsRequest, Reads
  <2>3. AnsweredAsked'
    BY <2>1, <2>2 DEF AnsweredAsked
  <2> QED BY <2>1, <2>3 DEF worker, Ended, Reads, HandsOver, ThreadsEnd, ListAccounted
<1>2. CASE ClientServed(c)
  BY <1>2 DEF ClientServed, Goto, WorkerFree, Ended, Reads, HandsOver, ThreadsEnd,
              ListAccounted, AnsweredAsked
<1> QED BY <1>1, <1>2

LEMMA InvStep == PolicyInv /\ [Next]_vars => PolicyInv'
<1> SUFFICES ASSUME PolicyInv, [Next]_vars PROVE PolicyInv'
  OBVIOUS
<1>1. CASE UNCHANGED vars
  BY <1>1 DEF vars, worker, PolicyInv, Typed, TypeOK, Reads, HandsOver, ThreadsEnd,
              ListAccounted, AnsweredAsked
<1> QED BY <1>1, ClientKeeps, AcceptKeeps, ReadingKeeps, AnswerKeeps DEF Next, Thread

LEMMA Policy == Spec => []PolicyInv
BY InvInit, InvStep, PTL DEF Spec

\* A connection that was served is closed, has left the list and never comes back.
THEOREM ServedForgotten == Spec => []ListAccounted
BY Policy, PTL DEF PolicyInv

\* The policy is given only to a client that sent the policy request.
THEOREM OnlyAskersAnswered == Spec => []AnsweredAsked
BY Policy, PTL DEF PolicyInv

\* clientServed finds its connection in the list, though the thread may be done before
\* the accept loop lists it: it has to wait for the loop's monitor.
THEOREM CallbackFindsListed == Spec => ServedIsListed
<1>1. PolicyInv /\ [Next]_vars =>
        [\A c \in Conns : pc[c] = "served" /\ pc'[c] # "served" => c \in listed]_vars
  <2> SUFFICES ASSUME PolicyInv, Next, NEW c \in Conns, pc[c] = "served", pc'[c] # "served"
               PROVE  c \in listed
    OBVIOUS
  <2>1. wrk = None
    <3>1. CASE StartThread
      BY <3>1 DEF StartThread, WorkerFree
    <3>2. CASE ListConnection
      BY <3>2 DEF ListConnection
    <3>3. ASSUME NEW d \in Conns, Client(d) \/ Accept(d) PROVE wrk = None
      BY <3>3 DEF Client, Connect, Type, Leave, Accept
    <3>4. ASSUME NEW d \in Conns, Thread(d) PROVE wrk = None
      <4>1. d = c
        BY <3>4 DEF Thread, OpenFiles, Read, ReadEnd, Timeout, Respond, ClientServed, Goto,
                    PolicyInv, Typed, TypeOK
      <4> QED BY <3>4, <4>1 DEF Thread, OpenFiles, Read, ReadEnd, Timeout, Respond,
                                ClientServed, WorkerFree
    <3> QED BY <3>1, <3>2, <3>3, <3>4 DEF Next
  <2>2. acceptor # c
    BY <2>1, AcceptorAssumption DEF PolicyInv, HandsOver
  <2> QED BY <2>2 DEF PolicyInv, ListAccounted
<1> QED BY <1>1, Policy, PTL DEF Spec, ServedIsListed
=============================================================================
