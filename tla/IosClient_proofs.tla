--------------------------- MODULE IosClient_proofs ---------------------------
(***************************************************************************)
(* Proofs about IosClient, for any number of sockets and packets.            *)
(***************************************************************************)
EXTENDS IosClient, TLAPS

Received == [socket : Sockets, nr : Nat, kind : Packets]
Calls == [call : {"connected"}, socket : Sockets]
           \cup [call : {"read"}, socket : Sockets, packet : Received]
           \cup [call : {"disconnected"}, socket : Sockets, error : BOOLEAN]

TypeOK ==
  /\ clientSocket \in 0..MaxSockets /\ socketConnected \in BOOLEAN /\ hasty \in BOOLEAN
  /\ main \in {"idle", "again", "drop"}
  /\ mainQueue \in Seq(Calls)
  /\ flags \in [Sockets -> {"none", "started", "connected", "closed"}]
  /\ reads \in [Sockets -> Nat]
  /\ inbox \in [Sockets -> Seq(Received)]
  /\ sent \in Seq(Received) /\ registered \subseteq Sockets
  /\ told \in [Sockets -> SUBSET {"connected", "notConnected", "disconnected"}]
  /\ clientSocket # 0 => flags[clientSocket] # "none"

\* The i-th call posted is of a kind; one of the calls posted is.
Is(i, kind)    == mainQueue[i].call = kind
Posted(kind)   == \E i \in DOMAIN mainQueue : Is(i, kind)

\* A socket that is used is read from, or will be when the calls posted are made.
ReadFrom == Started(clientSocket) => reads[clientSocket] > 0 \/ main = "again" \/ Posted("read")

\* The library's socket and the calls that it has posted, if nothing was begun in haste:
\* none before it is connected; the connection is known or a call will tell of it; the
\* closing comes last, and the socket is dropped before another is made.
Before ==
  FlagsOf(clientSocket) \in {"none", "started"} =>
    mainQueue = <<>> /\ ~socketConnected /\ main # "drop"

During ==
  FlagsOf(clientSocket) = "connected" =>
    /\ main # "drop" /\ ~Posted("disconnected")
    /\ socketConnected \/ Posted("connected")

After ==
  FlagsOf(clientSocket) = "closed" =>
    IF main = "drop" THEN mainQueue = <<>>
    ELSE /\ mainQueue # <<>> /\ Is(Len(mainQueue), "disconnected")
         /\ \A i \in DOMAIN mainQueue : Is(i, "disconnected") => i = Len(mainQueue)

\* What the application was told of the library's socket, in the order of the calls.
ToldInOrder ==
  /\ \A i \in DOMAIN mainQueue : mainQueue[i].socket = clientSocket
  /\ \A i \in DOMAIN mainQueue :
       Is(i, "read") => socketConnected \/ \E j \in 1..i - 1 : Is(j, "connected")
  /\ \A s \in Sockets : flags[s] = "none" => told[s] = {}
  /\ clientSocket # 0 =>
       /\ socketConnected => "connected" \in told[clientSocket]
       /\ "connected" \in told[clientSocket] /\ main # "drop" => socketConnected \/ Posted("connected")
       /\ "notConnected" \in told[clientSocket] => main = "drop"
       /\ flags[clientSocket] = "started" => told[clientSocket] = {}

Calm == hasty \/ (Before /\ During /\ After /\ ToldInOrder)

IosInv == TypeOK /\ ReadFrom /\ NothingAbandoned /\ Calm /\ ToldRight

-----------------------------------------------------------------------------
(* The queue of delegate calls.                                             *)

\* Posting a call leaves those before it where they are.
LEMMA QueuePosted ==
  ASSUME TypeOK, NEW call \in Calls, mainQueue' = Append(mainQueue, call)
  PROVE  /\ mainQueue' \in Seq(Calls) /\ Len(mainQueue) \in Nat
         /\ DOMAIN mainQueue = 1..Len(mainQueue) /\ DOMAIN mainQueue' = 1..Len(mainQueue) + 1
         /\ Len(mainQueue') = Len(mainQueue) + 1 /\ mainQueue' # <<>>
         /\ \A i \in DOMAIN mainQueue : mainQueue'[i] = mainQueue[i]
         /\ mainQueue'[Len(mainQueue) + 1] = call
<1>1. Len(mainQueue) \in Nat /\ DOMAIN mainQueue = 1..Len(mainQueue)
  BY DEF TypeOK
<1>2. mainQueue' \in Seq(Calls) /\ Len(mainQueue') = Len(mainQueue) + 1
  BY DEF TypeOK
<1>3. /\ \A i \in 1..Len(mainQueue) : mainQueue'[i] = mainQueue[i]
      /\ mainQueue'[Len(mainQueue) + 1] = call
  BY DEF TypeOK
<1>4. DOMAIN mainQueue' = 1..Len(mainQueue) + 1 /\ mainQueue' # <<>>
  BY <1>1, <1>2
<1> QED BY <1>1, <1>2, <1>3, <1>4

\* Beginning one moves the others up.
LEMMA QueueBegun ==
  ASSUME TypeOK, mainQueue # <<>>, mainQueue' = Tail(mainQueue)
  PROVE  /\ mainQueue' \in Seq(Calls) /\ Call \in Calls /\ Call = mainQueue[1]
         /\ Len(mainQueue) \in Nat \ {0} /\ 1 \in DOMAIN mainQueue
         /\ DOMAIN mainQueue = 1..Len(mainQueue) /\ DOMAIN mainQueue' = 1..Len(mainQueue) - 1
         /\ Len(mainQueue') = Len(mainQueue) - 1
         /\ mainQueue' = <<>> <=> Len(mainQueue) = 1
         /\ \A i \in DOMAIN mainQueue' : mainQueue'[i] = mainQueue[i + 1]
<1>1. Len(mainQueue) \in Nat \ {0} /\ DOMAIN mainQueue = 1..Len(mainQueue)
  BY DEF TypeOK
<1>2. Call \in Calls /\ Call = mainQueue[1]
  BY DEF TypeOK, Call
<1>3. /\ mainQueue' \in Seq(Calls) /\ Len(mainQueue') = Len(mainQueue) - 1
      /\ \A i \in 1..Len(mainQueue) - 1 : mainQueue'[i] = mainQueue[i + 1]
  BY <1>1 DEF TypeOK
<1>4. DOMAIN mainQueue' = 1..Len(mainQueue) - 1 /\ (mainQueue' = <<>> <=> Len(mainQueue) = 1)
  BY <1>1, <1>3
<1> QED BY <1>1, <1>2, <1>3, <1>4

LEMMA SocketNumbers == 0 \notin Sockets /\ Sockets = (0..MaxSockets) \ {0}
BY BoundsAssumption DEF Sockets

-----------------------------------------------------------------------------
(* The sockets' steps.                                                      *)

LEMMA InitHolds == Init => IosInv
<1> SUFFICES ASSUME Init PROVE IosInv
  OBVIOUS
<1>1. TypeOK
  <2>1. <<>> \in Seq(Calls) /\ <<>> \in Seq(Received)
    OBVIOUS
  <2>2. inbox \in [Sockets -> Seq(Received)] /\ reads \in [Sockets -> Nat]
    BY <2>1 DEF Init
  <2>3. 0 \in 0..MaxSockets
    BY BoundsAssumption
  <2>4. /\ flags \in [Sockets -> {"none", "started", "connected", "closed"}]
        /\ told \in [Sockets -> SUBSET {"connected", "notConnected", "disconnected"}]
        /\ \A s \in Sockets : told[s] = {}
    BY DEF Init
  <2> QED BY <2>1, <2>2, <2>3, <2>4 DEF Init, TypeOK
<1>2. ReadFrom /\ NothingAbandoned /\ ToldRight
  BY DEF Init, ReadFrom, Started, FlagsOf, NothingAbandoned, ToldRight, Sockets
<1>3. Calm
  BY SocketNumbers DEF Init, Calm, Before, During, After, ToldInOrder, FlagsOf
<1> QED BY <1>1, <1>2, <1>3 DEF IosInv

LEMMA DidConnectKeeps ==
  ASSUME IosInv, NEW s \in Sockets, DidConnect(s)
  PROVE  IosInv'
<1> USE SocketNumbers DEF IosInv
<1> DEFINE call == [call |-> "connected", socket |-> s]
<1>1. /\ call \in Calls /\ mainQueue' = Append(mainQueue, call)
      /\ UNCHANGED <<clientSocket, socketConnected, main, reads, inbox, sent, registered, told, hasty>>
      /\ flags[s] = "started" /\ flags' = [flags EXCEPT ![s] = "connected"]
  BY DEF DidConnect, Post, Calls, library, server
<1>2. /\ mainQueue' \in Seq(Calls) /\ Len(mainQueue) \in Nat
      /\ DOMAIN mainQueue = 1..Len(mainQueue) /\ DOMAIN mainQueue' = 1..Len(mainQueue) + 1
      /\ Len(mainQueue') = Len(mainQueue) + 1 /\ mainQueue' # <<>>
      /\ \A i \in DOMAIN mainQueue : mainQueue'[i] = mainQueue[i]
      /\ mainQueue'[Len(mainQueue) + 1] = call
  BY <1>1, QueuePosted
<1> HIDE DEF call
<1>3. TypeOK'
  BY <1>1, <1>2 DEF TypeOK
<1>4. \A k : Posted(k) => Posted(k)'
  BY <1>2 DEF Posted, Is
<1>5. \A x \in Sockets : Started(x)' <=> Started(x)
  BY <1>1 DEF Started, FlagsOf, TypeOK
<1>6. NothingAbandoned' /\ ToldRight'
  BY <1>1, <1>5 DEF NothingAbandoned, ToldRight
<1>7. ReadFrom'
  BY <1>1, <1>4, <1>5 DEF ReadFrom, Started, FlagsOf, TypeOK
<1>8. ASSUME ~hasty PROVE Before' /\ During' /\ After' /\ ToldInOrder'
  <2>1. s = clientSocket /\ FlagsOf(s) = "started"
    BY <1>1, <1>8 DEF NothingAbandoned, Started, FlagsOf
  <2>2. mainQueue = <<>> /\ ~socketConnected /\ main # "drop" /\ told[s] = {}
    BY <1>1, <1>8, <2>1 DEF Calm, Before, ToldInOrder
  <2>3. DOMAIN mainQueue' = {1} /\ mainQueue'[1] = call
    BY <1>2, <2>2
  <2>4. FlagsOf(clientSocket)' = "connected"
    BY <1>1, <2>1 DEF FlagsOf, TypeOK
  <2>5. Is(1, "connected")' /\ call.socket = s /\ call.call = "connected"
    BY <2>3 DEF Is, call
  <2>6. Before' /\ During' /\ After'
    BY <1>1, <2>2, <2>3, <2>4, <2>5 DEF Before, During, After, Posted, Is
  <2>7. \A x \in Sockets : flags'[x] = "none" => told'[x] = {}
    BY <1>1, <1>8 DEF Calm, ToldInOrder, TypeOK
  <2>8. ToldInOrder'
    BY <1>1, <2>1, <2>2, <2>3, <2>4, <2>5, <2>7 DEF ToldInOrder, Is, FlagsOf, TypeOK
  <2> QED BY <2>6, <2>8
<1> QED BY <1>1, <1>3, <1>6, <1>7, <1>8 DEF Calm

\* A socket that was used is closed and its closing posted.
LEMMA CloseKeeps ==
  ASSUME IosInv, NEW s \in Sockets, NEW error \in BOOLEAN, flags[s] \in {"started", "connected"},
         Close(s, error), UNCHANGED <<clientSocket, socketConnected, main, sent, registered, told, hasty>>
  PROVE  IosInv'
<1> USE SocketNumbers DEF IosInv
<1> DEFINE call == [call |-> "disconnected", socket |-> s, error |-> error]
<1>1. /\ call \in Calls /\ mainQueue' = Append(mainQueue, call)
      /\ flags' = [flags EXCEPT ![s] = "closed"] /\ reads' = [reads EXCEPT ![s] = 0]
      /\ inbox' = [inbox EXCEPT ![s] = <<>>]
  BY DEF Close, Post, Calls
<1>2. /\ mainQueue' \in Seq(Calls) /\ Len(mainQueue) \in Nat
      /\ DOMAIN mainQueue = 1..Len(mainQueue) /\ DOMAIN mainQueue' = 1..Len(mainQueue) + 1
      /\ Len(mainQueue') = Len(mainQueue) + 1 /\ mainQueue' # <<>>
      /\ \A i \in DOMAIN mainQueue : mainQueue'[i] = mainQueue[i]
      /\ mainQueue'[Len(mainQueue) + 1] = call
  BY <1>1, QueuePosted
<1>a. call.call = "disconnected" /\ call.socket = s
  OBVIOUS
<1> HIDE DEF call
<1>3. TypeOK'
  <2>1. reads' \in [Sockets -> Nat] /\ inbox' \in [Sockets -> Seq(Received)]
    BY <1>1 DEF TypeOK
  <2> QED BY <1>1, <1>2, <2>1 DEF TypeOK
<1>4. \A k : Posted(k) => Posted(k)'
  BY <1>2 DEF Posted, Is
<1>5. /\ ~Started(s)' /\ \A x \in Sockets \ {s} : Started(x)' <=> Started(x)
      /\ Started(s)
  BY <1>1 DEF Started, FlagsOf, TypeOK
<1>6. NothingAbandoned' /\ ToldRight'
  BY <1>1, <1>5 DEF NothingAbandoned, ToldRight
<1>7. ReadFrom'
  BY <1>1, <1>4, <1>5 DEF ReadFrom, Started, FlagsOf, TypeOK
<1>8. ASSUME ~hasty PROVE Before' /\ During' /\ After' /\ ToldInOrder'
  <2>1. s = clientSocket
    BY <1>5, <1>8 DEF NothingAbandoned
  <2>2. FlagsOf(clientSocket)' = "closed" /\ FlagsOf(clientSocket) \in {"started", "connected"}
    BY <1>1, <2>1 DEF FlagsOf, TypeOK
  <2>3. main # "drop" /\ ~Posted("disconnected")
    BY <1>8, <2>2 DEF Calm, Before, During, Posted
  <2>4. Before' /\ During' /\ After'
    BY <1>1, <1>2, <1>a, <2>2, <2>3 DEF Before, During, After, Posted, Is
  <2>5. \A i \in DOMAIN mainQueue' : mainQueue'[i].socket = clientSocket
    BY <1>2, <1>8, <1>a, <2>1 DEF Calm, ToldInOrder
  <2>6. \A i \in DOMAIN mainQueue' :
          Is(i, "read")' => socketConnected \/ \E j \in 1..i - 1 : Is(j, "connected")'
    <3> SUFFICES ASSUME NEW i \in DOMAIN mainQueue', mainQueue'[i].call = "read"
                 PROVE  socketConnected \/ \E j \in 1..i - 1 : mainQueue'[j].call = "connected"
      BY DEF Is
    <3>1. i \in DOMAIN mainQueue /\ mainQueue[i].call = "read"
      BY <1>2, <1>a
    <3>2. socketConnected \/ \E j \in 1..i - 1 : mainQueue[j].call = "connected"
      BY <1>8, <3>1 DEF Calm, ToldInOrder, Is
    <3>3. \A j \in 1..i - 1 : j \in DOMAIN mainQueue
      BY <1>2, <3>1
    <3> QED BY <1>2, <3>2, <3>3
  <2>7. ToldInOrder'
    BY <1>1, <1>4, <1>8, <2>1, <2>2, <2>3, <2>5, <2>6 DEF Calm, ToldInOrder, FlagsOf
  <2> QED BY <2>4, <2>7
<1> QED BY <1>1, <1>3, <1>6, <1>7, <1>8 DEF Calm

LEMMA HeadTail ==
  ASSUME NEW S, NEW q \in Seq(S), q # <<>>
  PROVE  Head(q) \in S /\ Tail(q) \in Seq(S)
OBVIOUS

\* What was read is posted.
LEMMA CompleteReadKeeps ==
  ASSUME IosInv, NEW s \in Sockets, CompleteRead(s)
  PROVE  IosInv'
<1> USE SocketNumbers DEF IosInv
<1> DEFINE call == [call |-> "read", socket |-> s, packet |-> Head(inbox[s])]
<1>1. /\ flags[s] = "connected" /\ inbox[s] # <<>> /\ reads[s] > 0
      /\ UNCHANGED <<clientSocket, socketConnected, main, flags, sent, registered, told, hasty>>
      /\ reads' = [reads EXCEPT ![s] = @ - 1]
      /\ inbox' = [inbox EXCEPT ![s] = Tail(@)]
      /\ mainQueue' = Append(mainQueue, call)
  BY DEF CompleteRead, Post, library, server
<1>b. inbox[s] \in Seq(Received) /\ reads[s] \in Nat
  BY DEF TypeOK
<1>c. Head(inbox[s]) \in Received /\ Tail(inbox[s]) \in Seq(Received) /\ reads[s] - 1 \in Nat
  BY <1>1, <1>b, HeadTail
<1>2. call \in Calls
  BY <1>c DEF Calls
<1>3. /\ mainQueue' \in Seq(Calls) /\ Len(mainQueue) \in Nat
      /\ DOMAIN mainQueue = 1..Len(mainQueue) /\ DOMAIN mainQueue' = 1..Len(mainQueue) + 1
      /\ Len(mainQueue') = Len(mainQueue) + 1 /\ mainQueue' # <<>>
      /\ \A i \in DOMAIN mainQueue : mainQueue'[i] = mainQueue[i]
      /\ mainQueue'[Len(mainQueue) + 1] = call
  BY <1>1, <1>2, QueuePosted
<1>4. call.call = "read" /\ call.socket = s
  OBVIOUS
<1> HIDE DEF call
<1>5. TypeOK'
  <2>1. reads' \in [Sockets -> Nat]
    BY <1>1, <1>c DEF TypeOK
  <2>3. inbox' \in [Sockets -> Seq(Received)]
    BY <1>1, <1>c DEF TypeOK
  <2> QED BY <1>1, <1>3, <2>1, <2>3 DEF TypeOK
<1>6. Posted("read")' /\ \A k : Posted(k) => Posted(k)'
  BY <1>3, <1>4 DEF Posted, Is
<1>7. NothingAbandoned' /\ ToldRight' /\ ReadFrom'
  BY <1>1, <1>6 DEF NothingAbandoned, ToldRight, ReadFrom, Started, FlagsOf
<1>8. ASSUME ~hasty PROVE Before' /\ During' /\ After' /\ ToldInOrder'
  <2>1. s = clientSocket /\ FlagsOf(clientSocket) = "connected" /\ FlagsOf(clientSocket)' = "connected"
    BY <1>1, <1>8 DEF NothingAbandoned, Started, FlagsOf
  <2>2. /\ main # "drop" /\ ~Posted("disconnected")
        /\ socketConnected \/ Posted("connected")
    BY <1>8, <2>1 DEF Calm, During
  <2>3. Before' /\ After'
    BY <2>1 DEF Before, After
  <2>4. During'
    BY <1>1, <1>3, <1>4, <1>6, <2>2 DEF During, Posted, Is
  <2>5. \A i \in DOMAIN mainQueue' : mainQueue'[i].socket = clientSocket
    BY <1>3, <1>4, <1>8, <2>1 DEF Calm, ToldInOrder
  <2>6. \A i \in DOMAIN mainQueue' :
          Is(i, "read")' => socketConnected \/ \E j \in 1..i - 1 : Is(j, "connected")'
    <3> SUFFICES ASSUME NEW i \in DOMAIN mainQueue', mainQueue'[i].call = "read", ~socketConnected
                 PROVE  \E j \in 1..i - 1 : mainQueue'[j].call = "connected"
      BY DEF Is
    <3>1. CASE i = Len(mainQueue) + 1
      <4>1. PICK j \in DOMAIN mainQueue : mainQueue[j].call = "connected"
        BY <2>2 DEF Posted, Is
      <4> QED BY <1>3, <3>1, <4>1
    <3>2. CASE i \in DOMAIN mainQueue
      <4>1. \E j \in 1..i - 1 : mainQueue[j].call = "connected"
        BY <1>3, <1>8, <3>2 DEF Calm, ToldInOrder, Is
      <4>2. \A j \in 1..i - 1 : j \in DOMAIN mainQueue
        BY <1>3, <3>2
      <4> QED BY <1>3, <4>1, <4>2
    <3> QED BY <1>3, <3>1, <3>2
  <2>7. ToldInOrder'
    BY <1>1, <1>6, <1>8, <2>1, <2>2, <2>5, <2>6 DEF Calm, ToldInOrder, FlagsOf
  <2> QED BY <2>3, <2>4, <2>7
<1> QED BY <1>1, <1>5, <1>7, <1>8 DEF Calm

\* Registering and the server's steps.
LEMMA QuietKeeps ==
  ASSUME IosInv,
         UNCHANGED <<clientSocket, socketConnected, main, mainQueue, flags, reads, told, hasty>>,
         registered' \subseteq Sockets, sent' \in Seq(Received), inbox' \in [Sockets -> Seq(Received)]
  PROVE  IosInv'
<1>1. TypeOK'
  BY DEF IosInv, TypeOK
<1>2. ReadFrom' /\ NothingAbandoned' /\ ToldRight'
  BY DEF IosInv, ReadFrom, NothingAbandoned, ToldRight, Started, FlagsOf, Posted, Is
<1>3. Calm'
  BY DEF IosInv, Calm, Before, During, After, ToldInOrder, FlagsOf, Posted, Is
<1> QED BY <1>1, <1>2, <1>3 DEF IosInv

LEMMA ServerSendsTypes ==
  ASSUME TypeOK, ServerSends
  PROVE  sent' \in Seq(Received) /\ inbox' \in [Sockets -> Seq(Received)]
<1>1. \E s \in Sockets, kind \in Packets :
        LET p == [socket |-> s, nr |-> Len(sent) + 1, kind |-> kind] IN
        sent' = Append(sent, p) /\ inbox' = [inbox EXCEPT ![s] = Append(@, p)]
  BY DEF ServerSends, TypeOK
<1>2. PICK s \in Sockets, kind \in Packets :
        /\ sent'  = Append(sent, [socket |-> s, nr |-> Len(sent) + 1, kind |-> kind])
        /\ inbox' = [inbox EXCEPT ![s] = Append(@, [socket |-> s, nr |-> Len(sent) + 1, kind |-> kind])]
  BY <1>1
<1>3. [socket |-> s, nr |-> Len(sent) + 1, kind |-> kind] \in Received
  BY DEF Received, TypeOK
<1>4. sent' \in Seq(Received)
  BY <1>2, <1>3 DEF TypeOK
<1>5. Append(inbox[s], [socket |-> s, nr |-> Len(sent) + 1, kind |-> kind]) \in Seq(Received)
  BY <1>3 DEF TypeOK
<1> QED BY <1>2, <1>4, <1>5 DEF TypeOK

-----------------------------------------------------------------------------
(* The application's calls.                                                 *)

LEMMA ConnectAgainKeeps ==
  ASSUME IosInv, ConnectAgain
  PROVE  IosInv'
<1> USE SocketNumbers DEF IosInv
<1>1. /\ clientSocket \in Sockets /\ flags[clientSocket] = "connected"
      /\ told' = [told EXCEPT ![clientSocket] = @ \cup {"connected"}]
      /\ UNCHANGED <<clientSocket, socketConnected, main, mainQueue, flags, reads, inbox, sent, registered, hasty>>
  BY DEF ConnectAgain, StillConnected, FlagsOf, Tell, TypeOK, library, socket, server
<1>2. /\ told' \in [Sockets -> SUBSET {"connected", "notConnected", "disconnected"}]
      /\ \A s \in Sockets \ {clientSocket} : told'[s] = told[s]
      /\ told'[clientSocket] = told[clientSocket] \cup {"connected"}
  BY <1>1 DEF TypeOK
<1>3. TypeOK'
  BY <1>1, <1>2 DEF TypeOK
<1>4. ReadFrom' /\ NothingAbandoned'
  BY <1>1 DEF ReadFrom, NothingAbandoned, Started, FlagsOf, Posted, Is
<1>5. ASSUME ~hasty
      PROVE  /\ Before' /\ During' /\ After' /\ ToldInOrder'
             /\ "notConnected" \notin told[clientSocket]
  <2>1. Before' /\ During' /\ After'
    BY <1>1, <1>5 DEF Calm, Before, During, After, FlagsOf, Posted, Is
  <2>2. /\ main # "drop" /\ (socketConnected \/ Posted("connected"))
        /\ "notConnected" \notin told[clientSocket]
    BY <1>1, <1>5 DEF Calm, During, ToldInOrder, FlagsOf
  <2>3. ToldInOrder'
    BY <1>1, <1>2, <1>5, <2>2 DEF Calm, ToldInOrder, Posted, Is
  <2> QED BY <2>1, <2>2, <2>3
<1>6. ToldRight'
  BY <1>1, <1>2, <1>5 DEF ToldRight
<1> QED BY <1>1, <1>3, <1>4, <1>5, <1>6 DEF Calm

\* A new socket, when the old one has made its last call, unless it is made in haste.
LEMMA ConnectKeeps ==
  ASSUME IosInv, ConnectToServer
  PROVE  IosInv'
<1> USE SocketNumbers DEF IosInv
<1>1. PICK new \in Sockets : /\ flags[new] = "none" /\ clientSocket' = new
                             /\ flags' = [flags EXCEPT ![new] = "started"]
                             /\ reads' = [reads EXCEPT ![new] = 1]
                             /\ hasty' = (hasty \/ Hurried)
  BY DEF ConnectToServer, Made
<1>2. UNCHANGED <<socketConnected, main, mainQueue, inbox, sent, registered, told>> /\ ~StillConnected
  BY DEF ConnectToServer, server
<1>3. flags'[new] = "started" /\ \A s \in Sockets \ {new} : flags'[s] = flags[s]
  BY <1>1 DEF TypeOK
<1>4. TypeOK'
  <2>1. flags' \in [Sockets -> {"none", "started", "connected", "closed"}] /\ reads' \in [Sockets -> Nat]
    BY <1>1 DEF TypeOK
  <2>2. hasty' \in BOOLEAN
    BY <1>1 DEF TypeOK, Hurried
  <2> QED BY <1>1, <1>2, <1>3, <2>1, <2>2 DEF TypeOK
<1>5. ReadFrom'
  BY <1>1 DEF ReadFrom, TypeOK
<1>6. ToldRight'
  BY <1>1, <1>2 DEF ToldRight
<1>7. ASSUME ~hasty'
      PROVE  NothingAbandoned' /\ Before' /\ During' /\ After' /\ ToldInOrder'
  <2>1. /\ ~hasty /\ main # "drop" /\ mainQueue = <<>>
        /\ \A s \in Sockets : flags[s] # "started"
    BY <1>1, <1>7 DEF Hurried, Made
  <2>3. FlagsOf(clientSocket) = "none" /\ ~socketConnected
    <3>1. FlagsOf(clientSocket) \notin {"closed", "connected", "started"}
      BY <1>2, <2>1 DEF Calm, After, StillConnected, FlagsOf, TypeOK
    <3> QED BY <2>1, <3>1 DEF Calm, Before, FlagsOf, TypeOK
  <2>4. \A s \in Sockets : ~Started(s)
    BY <2>1, <2>3 DEF NothingAbandoned, Started
  <2>5. NothingAbandoned'
    BY <1>1, <1>3, <2>4 DEF NothingAbandoned, Started, FlagsOf
  <2>6. FlagsOf(clientSocket)' = "started"
    BY <1>1, <1>3 DEF FlagsOf
  <2>7. Before' /\ During' /\ After'
    BY <1>2, <2>1, <2>3, <2>6 DEF Before, During, After
  <2>8. told[new] = {} /\ DOMAIN mainQueue = {} /\ ToldInOrder
    BY <1>1, <2>1 DEF Calm, ToldInOrder
  <2>9. ToldInOrder'
    BY <1>1, <1>2, <1>3, <2>3, <2>8 DEF ToldInOrder
  <2> QED BY <2>5, <2>7, <2>9
<1>8. hasty' => NothingAbandoned'
  BY DEF NothingAbandoned
<1> QED BY <1>4, <1>5, <1>6, <1>7, <1>8 DEF Calm

-----------------------------------------------------------------------------
(* The delegate calls.                                                      *)

LEMMA ToldMore ==
  ASSUME TypeOK, NEW s \in Sockets, NEW status \in {"connected", "notConnected", "disconnected"},
         UNCHANGED told \/ told' = [told EXCEPT ![s] = @ \cup {status}]
  PROVE  /\ told' \in [Sockets -> SUBSET {"connected", "notConnected", "disconnected"}]
         /\ \A x \in Sockets : \/ told'[x] = told[x]
                               \/ x = s /\ told'[x] = told[x] \cup {status}
<1>1. CASE UNCHANGED told
  BY <1>1 DEF TypeOK
<1>2. CASE told' = [told EXCEPT ![s] = @ \cup {status}]
  <2>1. /\ told \in [Sockets -> SUBSET {"connected", "notConnected", "disconnected"}]
        /\ told[s] \cup {status} \in SUBSET {"connected", "notConnected", "disconnected"}
    BY DEF TypeOK
  <2>2. told' \in [Sockets -> SUBSET {"connected", "notConnected", "disconnected"}]
    BY <1>2, <2>1
  <2>3. \A x \in Sockets : told'[x] = IF x = s THEN told[s] \cup {status} ELSE told[x]
    BY <1>2, <2>1
  <2> QED BY <2>2, <2>3
<1> QED BY <1>1, <1>2

\* What was posted stays posted, unless it is the call that begins.
LEMMA StaysPosted ==
  ASSUME TypeOK, mainQueue # <<>>, mainQueue' = Tail(mainQueue), NEW kind,
         Posted(kind), Call.call # kind
  PROVE  \E i \in DOMAIN mainQueue' : mainQueue'[i].call = kind
<1>1. PICK i \in DOMAIN mainQueue : mainQueue[i].call = kind
  BY DEF Posted, Is
<1>2. i - 1 \in DOMAIN mainQueue' /\ mainQueue'[i - 1] = mainQueue[i]
  BY <1>1, QueueBegun
<1> QED BY <1>1, <1>2

\* If nothing was begun in haste, the call that begins is of the library's socket, which
\* is connected or closed.
LEMMA CallOfSocket ==
  ASSUME IosInv, ~hasty, mainQueue # <<>>
  PROVE  /\ Before /\ During /\ After /\ ToldInOrder
         /\ Call.socket = clientSocket /\ clientSocket \in Sockets
         /\ flags[clientSocket] \in {"connected", "closed"}
<1>1. Before /\ During /\ After /\ ToldInOrder
  BY DEF IosInv, Calm
<1>2. Call = mainQueue[1] /\ 1 \in DOMAIN mainQueue /\ Call \in Calls
  <2>1. DOMAIN mainQueue = 1..Len(mainQueue) /\ Len(mainQueue) \in Nat \ {0}
    BY DEF IosInv, TypeOK
  <2>2. mainQueue[1] \in Calls /\ Call = mainQueue[1]
    BY DEF IosInv, TypeOK, Call
  <2> QED BY <2>1, <2>2
<1>3. Call.socket = clientSocket
  BY <1>1, <1>2 DEF ToldInOrder
<1>4. clientSocket \in Sockets
  BY <1>2, <1>3 DEF Calls
<1>5. flags[clientSocket] \in {"connected", "closed"}
  BY <1>1, <1>4, SocketNumbers DEF Before, FlagsOf, IosInv, TypeOK
<1> QED BY <1>1, <1>3, <1>4, <1>5

\* A call that begins is one of its kind, of a socket.
LEMMA CallBegun ==
  ASSUME IosInv, NEW kind, Begin(kind)
  PROVE  /\ main = "idle" /\ mainQueue # <<>> /\ mainQueue' = Tail(mainQueue)
         /\ Call \in Calls /\ Call.call = kind /\ Call.socket \in Sockets
<1>1. main = "idle" /\ mainQueue # <<>> /\ mainQueue' = Tail(mainQueue) /\ Call.call = kind
  BY DEF Begin
<1>2. Call \in Calls
  BY <1>1, QueueBegun DEF IosInv
<1>3. Call.socket \in Sockets
  BY <1>2 DEF Calls
<1> QED BY <1>1, <1>2, <1>3

LEMMA SocketDidConnectKeeps ==
  ASSUME IosInv, SocketDidConnect
  PROVE  IosInv'
<1> USE SocketNumbers DEF IosInv
<1>1. /\ main = "idle" /\ mainQueue # <<>> /\ mainQueue' = Tail(mainQueue)
      /\ Call \in Calls /\ Call.call = "connected" /\ Call.socket \in Sockets
  BY CallBegun DEF SocketDidConnect
<1>2. /\ socketConnected' = TRUE /\ told' = [told EXCEPT ![Call.socket] = @ \cup {"connected"}]
      /\ UNCHANGED <<clientSocket, main, flags, reads, inbox, sent, registered, hasty>>
  BY DEF SocketDidConnect, Tell, socket, server
<1>3. /\ mainQueue' \in Seq(Calls) /\ Call = mainQueue[1] /\ Len(mainQueue) \in Nat \ {0}
      /\ DOMAIN mainQueue = 1..Len(mainQueue) /\ DOMAIN mainQueue' = 1..Len(mainQueue) - 1
      /\ Len(mainQueue') = Len(mainQueue) - 1 /\ (mainQueue' = <<>> <=> Len(mainQueue) = 1)
      /\ \A i \in DOMAIN mainQueue' : mainQueue'[i] = mainQueue[i + 1]
  BY <1>1, QueueBegun
<1>4. /\ told' \in [Sockets -> SUBSET {"connected", "notConnected", "disconnected"}]
      /\ \A s \in Sockets : told'[s] = IF s = Call.socket THEN told[s] \cup {"connected"} ELSE told[s]
  BY <1>1, <1>2 DEF TypeOK
<1>5. hasty \/ (clientSocket = Call.socket /\ flags[clientSocket] \in {"connected", "closed"})
  BY <1>1, CallOfSocket
<1>6. TypeOK'
  BY <1>1, <1>2, <1>3, <1>4 DEF TypeOK
<1>7. ReadFrom'
  <2>1. Posted("read") => Posted("read")'
    BY <1>1, StaysPosted DEF Posted, Is
  <2> QED BY <1>2, <2>1 DEF ReadFrom, Started, FlagsOf
<1>8. NothingAbandoned'
  BY <1>2 DEF NothingAbandoned, Started, FlagsOf
<1>9. ASSUME ~hasty
      PROVE  /\ Before' /\ During' /\ After' /\ ToldInOrder'
             /\ "notConnected" \notin told[clientSocket]
  <2>1. /\ Before /\ During /\ After /\ ToldInOrder
        /\ Call.socket = clientSocket /\ clientSocket \in Sockets
        /\ flags[clientSocket] \in {"connected", "closed"}
    BY <1>1, <1>9, CallOfSocket
  <2>2. FlagsOf(clientSocket)' = FlagsOf(clientSocket) /\ FlagsOf(clientSocket) = flags[clientSocket]
    BY <1>2, <2>1 DEF FlagsOf
  <2>3. Before'
    BY <2>1, <2>2 DEF Before
  <2>4. During'
    BY <1>1, <1>2, <1>3, <2>1, <2>2 DEF During, Posted, Is
  <2>5. After'
    BY <1>1, <1>2, <1>3, <2>1, <2>2 DEF After, Is
  <2>6. "notConnected" \notin told[clientSocket]
    BY <1>1, <2>1 DEF ToldInOrder
  <2>7. ToldInOrder'
    BY <1>1, <1>2, <1>3, <1>4, <2>1, <2>6 DEF ToldInOrder
  <2> QED BY <2>3, <2>4, <2>5, <2>6, <2>7
<1>10. ToldRight'
  BY <1>2, <1>4, <1>5, <1>9 DEF ToldRight
<1> QED BY <1>2, <1>6, <1>7, <1>8, <1>9, <1>10 DEF Calm

LEMMA SocketDidReadDataKeeps ==
  ASSUME IosInv, SocketDidReadData
  PROVE  IosInv'
<1> USE SocketNumbers DEF IosInv
<1>1. /\ main = "idle" /\ mainQueue # <<>> /\ mainQueue' = Tail(mainQueue)
      /\ Call \in Calls /\ Call.call = "read" /\ Call.socket \in Sockets
  BY CallBegun DEF SocketDidReadData
<1>2. /\ main' = "again"
      /\ UNCHANGED <<clientSocket, socketConnected, flags, reads, inbox, sent, registered, hasty>>
      /\ UNCHANGED told \/ told' = [told EXCEPT ![Call.socket] = @ \cup {"disconnected"}]
  <2>1. Call.packet.kind # "malformed" /\ StatusOf[Call.packet.kind] # "none"
          => StatusOf[Call.packet.kind] = "disconnected"
    <3>1. Call.packet.kind \in DOMAIN StatusOf
      BY <1>1, PacketsAssumption DEF Calls, Received
    <3> QED BY <3>1 DEF StatusOf
  <2> QED BY <2>1 DEF SocketDidReadData, Tell, socket, server
<1>3. /\ mainQueue' \in Seq(Calls) /\ Call = mainQueue[1] /\ Len(mainQueue) \in Nat \ {0}
      /\ DOMAIN mainQueue = 1..Len(mainQueue) /\ DOMAIN mainQueue' = 1..Len(mainQueue) - 1
      /\ Len(mainQueue') = Len(mainQueue) - 1 /\ (mainQueue' = <<>> <=> Len(mainQueue) = 1)
      /\ \A i \in DOMAIN mainQueue' : mainQueue'[i] = mainQueue[i + 1]
  BY <1>1, QueueBegun
<1>4. /\ told' \in [Sockets -> SUBSET {"connected", "notConnected", "disconnected"}]
      /\ \A s \in Sockets :
           \/ told'[s] = told[s]
           \/ s = Call.socket /\ told'[s] = told[s] \cup {"disconnected"}
  BY <1>1, <1>2, ToldMore
<1>5. TypeOK'
  BY <1>1, <1>2, <1>3, <1>4 DEF TypeOK
<1>6. ReadFrom' /\ NothingAbandoned'
  BY <1>2 DEF ReadFrom, NothingAbandoned, Started, FlagsOf
<1>7. ASSUME ~hasty
      PROVE  /\ Before' /\ During' /\ After' /\ ToldInOrder'
             /\ clientSocket = Call.socket /\ "connected" \in told[clientSocket]
  <2>1. /\ Before /\ During /\ After /\ ToldInOrder
        /\ Call.socket = clientSocket /\ clientSocket \in Sockets
        /\ flags[clientSocket] \in {"connected", "closed"}
    BY <1>1, <1>7, CallOfSocket
  <2>2. FlagsOf(clientSocket)' = FlagsOf(clientSocket) /\ FlagsOf(clientSocket) = flags[clientSocket]
    BY <1>2, <2>1 DEF FlagsOf
  <2>3. socketConnected
    BY <1>1, <1>3, <2>1 DEF ToldInOrder, Is
  <2>4. "connected" \in told[clientSocket] /\ "notConnected" \notin told[clientSocket]
    BY <1>1, <2>1, <2>3 DEF ToldInOrder
  <2>5. Before'
    BY <2>1, <2>2 DEF Before
  <2>6. During'
    BY <1>2, <1>3, <2>1, <2>2, <2>3 DEF During, Posted, Is
  <2>7. After'
    BY <1>1, <1>2, <1>3, <2>1, <2>2 DEF After, Is
  <2>8. \A s \in Sockets : flags'[s] = "none" => told'[s] = {}
    BY <1>2, <1>4, <2>1 DEF ToldInOrder
  <2>9. \A i \in DOMAIN mainQueue' : mainQueue'[i].socket = clientSocket'
    BY <1>2, <1>3, <2>1 DEF ToldInOrder
  <2>10. "connected" \in told'[clientSocket] /\ "notConnected" \notin told'[clientSocket]
    BY <1>4, <2>1, <2>4
  <2>11. ToldInOrder'
    BY <1>2, <2>1, <2>3, <2>8, <2>9, <2>10 DEF ToldInOrder
  <2> QED BY <2>1, <2>4, <2>5, <2>6, <2>7, <2>11
<1>8. ToldRight'
  BY <1>2, <1>4, <1>7 DEF ToldRight
<1> QED BY <1>2, <1>5, <1>6, <1>7, <1>8 DEF Calm

\* The next read is queued on the library's socket.
LEMMA ReadNextKeeps ==
  ASSUME IosInv, ReadNext
  PROVE  IosInv'
<1> USE SocketNumbers DEF IosInv
<1>1. /\ main = "again" /\ main' = "idle" /\ reads' = Queued(clientSocket)
      /\ UNCHANGED <<clientSocket, socketConnected, mainQueue, flags, inbox, sent, registered, told, hasty>>
  BY DEF ReadNext, ReadAgain, server
<1>2. reads' \in [Sockets -> Nat] /\ (Started(clientSocket) => reads'[clientSocket] > 0)
  <2>1. CASE ~Started(clientSocket)
    BY <1>1, <2>1 DEF Queued, TypeOK
  <2>2. CASE Started(clientSocket)
    <3>1. clientSocket \in Sockets /\ reads[clientSocket] \in Nat
      BY <2>2 DEF Started, FlagsOf, TypeOK
    <3>2. reads' = [reads EXCEPT ![clientSocket] = @ + 1]
      BY <1>1, <2>2 DEF Queued
    <3>3. reads' \in [Sockets -> Nat] /\ reads'[clientSocket] = reads[clientSocket] + 1
      BY <3>1, <3>2 DEF TypeOK
    <3> QED BY <3>1, <3>3
  <2> QED BY <2>1, <2>2
<1>3. TypeOK'
  BY <1>1, <1>2 DEF TypeOK
<1>4. ReadFrom' /\ NothingAbandoned' /\ ToldRight'
  BY <1>1, <1>2 DEF ReadFrom, NothingAbandoned, ToldRight, Started, FlagsOf
<1>5. Calm'
  BY <1>1 DEF Calm, Before, During, After, ToldInOrder, FlagsOf, Posted, Is
<1> QED BY <1>3, <1>4, <1>5

\* The closing is the last call of its socket.
LEMMA SocketDidDisconnectKeeps ==
  ASSUME IosInv, SocketDidDisconnect
  PROVE  IosInv'
<1> USE SocketNumbers DEF IosInv
<1> DEFINE status == IF socketConnected THEN "disconnected" ELSE "notConnected"
<1>1. /\ main = "idle" /\ mainQueue # <<>> /\ mainQueue' = Tail(mainQueue)
      /\ Call \in Calls /\ Call.call = "disconnected" /\ Call.socket \in Sockets
  BY CallBegun DEF SocketDidDisconnect
<1>2. /\ main' = "drop"
      /\ UNCHANGED <<clientSocket, socketConnected, flags, reads, inbox, sent, registered, hasty>>
      /\ UNCHANGED told \/ told' = [told EXCEPT ![Call.socket] = @ \cup {status}]
  BY DEF SocketDidDisconnect, Tell, socket, server
<1>3. /\ mainQueue' \in Seq(Calls) /\ Call = mainQueue[1] /\ Len(mainQueue) \in Nat \ {0}
      /\ DOMAIN mainQueue = 1..Len(mainQueue) /\ DOMAIN mainQueue' = 1..Len(mainQueue) - 1
      /\ Len(mainQueue') = Len(mainQueue) - 1 /\ (mainQueue' = <<>> <=> Len(mainQueue) = 1)
  BY <1>1, QueueBegun
<1>4. /\ told' \in [Sockets -> SUBSET {"connected", "notConnected", "disconnected"}]
      /\ \A s \in Sockets :
           \/ told'[s] = told[s]
           \/ s = Call.socket /\ told'[s] = told[s] \cup {status}
  <2>1. status \in {"connected", "notConnected", "disconnected"}
    OBVIOUS
  <2> HIDE DEF status
  <2> QED BY <1>1, <1>2, <2>1, ToldMore
<1>5. TypeOK'
  BY <1>1, <1>2, <1>3, <1>4 DEF TypeOK
<1>6. ReadFrom'
  <2>1. Posted("read") => Posted("read")'
    BY <1>1, StaysPosted DEF Posted, Is
  <2> QED BY <1>1, <1>2, <2>1 DEF ReadFrom, Started, FlagsOf
<1>7. NothingAbandoned'
  BY <1>2 DEF NothingAbandoned, Started, FlagsOf
<1>8. ASSUME ~hasty
      PROVE  /\ Before' /\ During' /\ After' /\ ToldInOrder'
             /\ clientSocket = Call.socket
             /\ socketConnected <=> "connected" \in told[clientSocket]
             /\ "notConnected" \notin told[clientSocket]
  <2>1. /\ Before /\ During /\ After /\ ToldInOrder
        /\ Call.socket = clientSocket /\ clientSocket \in Sockets
        /\ flags[clientSocket] \in {"connected", "closed"}
    BY <1>1, <1>8, CallOfSocket
  <2>2. FlagsOf(clientSocket)' = FlagsOf(clientSocket) /\ FlagsOf(clientSocket) = flags[clientSocket]
    BY <1>2, <2>1 DEF FlagsOf
  <2>3. flags[clientSocket] = "closed"
    BY <1>1, <1>3, <2>1, <2>2 DEF During, Posted, Is
  <2>4. Len(mainQueue) = 1 /\ mainQueue' = <<>> /\ DOMAIN mainQueue' = {}
    BY <1>1, <1>3, <2>1, <2>2, <2>3 DEF After, Is
  <2>5. Before' /\ During' /\ After'
    BY <1>2, <2>2, <2>3, <2>4 DEF Before, During, After
  <2>6. ~Posted("connected")
    BY <1>1, <1>3, <2>4 DEF Posted, Is
  <2>7. /\ socketConnected <=> "connected" \in told[clientSocket]
        /\ "notConnected" \notin told[clientSocket]
    BY <1>1, <2>1, <2>6 DEF ToldInOrder
  <2>8. ToldInOrder'
    BY <1>2, <1>4, <2>1, <2>3, <2>4, <2>7 DEF ToldInOrder
  <2> QED BY <2>1, <2>5, <2>7, <2>8
<1>9. ToldRight'
  BY <1>2, <1>4, <1>8 DEF ToldRight
<1> QED BY <1>2, <1>5, <1>6, <1>7, <1>8, <1>9 DEF Calm

\* The library has no socket then.
LEMMA DropSocketKeeps ==
  ASSUME IosInv, DropSocket
  PROVE  IosInv'
<1> USE SocketNumbers DEF IosInv
<1>1. /\ main = "drop" /\ main' = "idle" /\ socketConnected' = FALSE /\ clientSocket' = 0
      /\ UNCHANGED <<mainQueue, flags, reads, inbox, sent, registered, told, hasty>>
  BY DEF DropSocket, Forget, socket, server
<1>2. TypeOK'
  <2>1. 0 \in 0..MaxSockets
    BY BoundsAssumption
  <2> QED BY <1>1, <2>1 DEF TypeOK
<1>3. ReadFrom' /\ ToldRight'
  BY <1>1 DEF ReadFrom, ToldRight, Started, FlagsOf
<1>4. ASSUME ~hasty PROVE NothingAbandoned' /\ Before' /\ During' /\ After' /\ ToldInOrder'
  <2>1. FlagsOf(clientSocket) = "closed"
    BY <1>1, <1>4 DEF Calm, Before, During, FlagsOf, TypeOK
  <2>2. mainQueue = <<>>
    BY <1>1, <1>4, <2>1 DEF Calm, After
  <2>3. NothingAbandoned'
    BY <1>1, <1>4, <2>1 DEF NothingAbandoned, Started, FlagsOf
  <2>4. Before' /\ During' /\ After'
    BY <1>1, <2>2 DEF Before, During, After, FlagsOf
  <2>5. ToldInOrder'
    BY <1>1, <1>4, <2>2 DEF Calm, ToldInOrder
  <2> QED BY <2>3, <2>4, <2>5
<1>5. hasty => NothingAbandoned'
  BY <1>1 DEF NothingAbandoned
<1> QED BY <1>1, <1>2, <1>3, <1>4, <1>5 DEF Calm

-----------------------------------------------------------------------------
(* Every step.                                                              *)

LEMMA Step == ASSUME IosInv, [Next]_vars PROVE IosInv'
<1>1. CASE Application
  <2>1. CASE DisconnectFromServer
    <3>1. clientSocket \in Sockets /\ flags[clientSocket] \in {"started", "connected"}
      BY <2>1 DEF DisconnectFromServer, Started, FlagsOf, IosInv, TypeOK, Sockets
    <3> QED BY <2>1, <3>1, CloseKeeps DEF DisconnectFromServer, library, server
  <2>2. CASE Register
    <3>1. registered' \subseteq Sockets
      BY <2>2, SocketNumbers DEF Register, Started, FlagsOf, IosInv, TypeOK
    <3> QED BY <2>2, <3>1, QuietKeeps DEF Register, library, socket, IosInv, TypeOK
  <2> QED BY <1>1, <2>1, <2>2, ConnectAgainKeeps, ConnectKeeps DEF Application
<1>2. CASE MainQueue
  BY <1>2, SocketDidConnectKeeps, SocketDidReadDataKeeps, ReadNextKeeps, SocketDidDisconnectKeeps,
     DropSocketKeeps DEF MainQueue
<1>3. CASE ServerSends
  <2>1. UNCHANGED <<clientSocket, socketConnected, main, mainQueue, flags, reads, registered, told, hasty>>
    BY <1>3 DEF ServerSends, library
  <2> QED BY <1>3, <2>1, ServerSendsTypes, QuietKeeps DEF IosInv, TypeOK
<1>4. CASE ServerCloses
  BY <1>4, QuietKeeps DEF ServerCloses, library, socket, IosInv, TypeOK
<1>5. ASSUME NEW s \in Sockets, Socket(s) \/ Fail(s) PROVE IosInv'
  <2>1. CASE DidNotConnect(s)
    BY <2>1, CloseKeeps DEF DidNotConnect, library, server
  <2>2. CASE ReadEOF(s)
    BY <2>2, CloseKeeps DEF ReadEOF, library, server
  <2>3. CASE Fail(s)
    BY <2>3, CloseKeeps DEF Fail, library, server
  <2> QED BY <1>5, <2>1, <2>2, <2>3, DidConnectKeeps, CompleteReadKeeps DEF Socket
<1>6. CASE UNCHANGED vars
  BY <1>6, QuietKeeps DEF vars, library, socket, server, IosInv, TypeOK
<1> QED BY <1>1, <1>2, <1>3, <1>4, <1>5, <1>6 DEF Next

\* Whatever the application, the sockets and the server do, the invariant holds.
LEMMA Invariant == Spec => []IosInv
<1> QED BY InitHolds, Step, PTL DEF Spec

\* The library's connection is always read from: didReadData queues the next read on the
\* socket the library has at that time, which need not be the one the data came from.
THEOREM AlwaysRead == Spec => []NeverDeaf
<1>1. IosInv => NeverDeaf
  BY DEF IosInv, ReadFrom, NeverDeaf, StillConnected, Started, Posted, Is
<1> QED BY <1>1, Invariant, PTL

\* connectToServer leaves no connection behind that is not the library's, unless it was
\* called before the old socket had made its last call.
THEOREM NoneAbandoned == Spec => []NothingAbandoned
<1>1. IosInv => NothingAbandoned
  BY DEF IosInv
<1> QED BY <1>1, Invariant, PTL

\* _socketConnected is true when every call has been handled, unless a connection was
\* begun in haste.
THEOREM ViewRight == Spec => []ViewAgrees
<1>1. IosInv => ViewAgrees
  <2> SUFFICES ASSUME IosInv, ~hasty, main = "idle", mainQueue = <<>>
               PROVE  socketConnected = StillConnected
    BY DEF ViewAgrees
  <2>1. FlagsOf(clientSocket) \in {"none", "started", "connected", "closed"}
    BY DEF FlagsOf, IosInv, TypeOK, Sockets
  <2>2. FlagsOf(clientSocket) # "closed"
    BY DEF IosInv, Calm, After
  <2>3. FlagsOf(clientSocket) = "connected" => socketConnected
    BY DEF IosInv, Calm, During, Posted
  <2>4. FlagsOf(clientSocket) # "connected" => ~socketConnected
    BY <2>1, <2>2 DEF IosInv, Calm, Before
  <2>5. socketConnected \in BOOLEAN
    BY DEF IosInv, TypeOK
  <2> QED BY <2>3, <2>4, <2>5 DEF StillConnected
<1> QED BY <1>1, Invariant, PTL

\* socketDidDisconnect tells of a failure to connect or of a loss by what the library
\* knows of the connection, which is then what the application was told of it.
THEOREM ToldOfRight == Spec => []ToldRight
<1>1. IosInv => ToldRight
  BY DEF IosInv
<1> QED BY <1>1, Invariant, PTL

-----------------------------------------------------------------------------
(* The way of a packet: it comes in on its socket, is posted with the read it *)
(* completes and shown when that call is made.  Packets are known by their    *)
(* number in sent.                                                            *)

Shown(n)  == \E i \in DOMAIN heard : heard[i].nr = n
Queuing(n) == \E i \in DOMAIN mainQueue : Is(i, "read") /\ mainQueue[i].packet.nr = n
Waiting(n) == \E s \in Sockets : \E i \in DOMAIN inbox[s] : inbox[s][i].nr = n
Present(n) == Shown(n) \/ Queuing(n) \/ Waiting(n)

Readable(n)   == sent[n].kind # "malformed"
Together(n, m) == sent[n].socket = sent[m].socket

\* Nothing is sent on a socket that has not been connected.
Numbered ==
  /\ heard \in Seq(Received)
  /\ \A n \in DOMAIN sent : sent[n].nr = n /\ flags[sent[n].socket] \in {"connected", "closed"}

IsSent(p) == p.nr \in DOMAIN sent /\ p = sent[p.nr]
Genuine ==
  /\ \A i \in DOMAIN heard : IsSent(heard[i])
  /\ \A i \in DOMAIN mainQueue :
       Is(i, "read") => IsSent(mainQueue[i].packet) /\ mainQueue[i].packet.socket = mainQueue[i].socket
  /\ \A s \in Sockets : \A i \in DOMAIN inbox[s] : IsSent(inbox[s][i]) /\ inbox[s][i].socket = s

\* Each place holds the packets of a connection in order.
ShownSorted ==
  \A i, j \in DOMAIN heard :
    i < j /\ heard[i].socket = heard[j].socket => heard[i].nr < heard[j].nr
QueueSorted ==
  \A i, j \in DOMAIN mainQueue :
    i < j /\ Is(i, "read") /\ Is(j, "read") /\ mainQueue[i].socket = mainQueue[j].socket =>
      mainQueue[i].packet.nr < mainQueue[j].packet.nr
InboxSorted ==
  \A s \in Sockets : \A i, j \in DOMAIN inbox[s] : i < j => inbox[s][i].nr < inbox[s][j].nr
Sorted == ShownSorted /\ QueueSorted /\ InboxSorted

\* One place is before the next, nothing in between is missing, and of a connection that
\* is up nothing is missing at all.
Staged ==
  \A n, m \in DOMAIN sent : Together(n, m) =>
    /\ Shown(n) /\ (Queuing(m) \/ Waiting(m)) => n < m
    /\ Queuing(n) /\ Waiting(m) => n < m
Gapless ==
  /\ \A n, m \in DOMAIN sent :
       n < m /\ Together(n, m) /\ Readable(n) /\ Present(m) => Present(n)
  /\ \A n \in DOMAIN sent : flags[sent[n].socket] = "connected" /\ Readable(n) => Present(n)

OrderInv == Numbered /\ Genuine /\ Sorted /\ Staged /\ Gapless

-----------------------------------------------------------------------------
LEMMA SentTypes ==
  ASSUME TypeOK
  PROVE  \A n \in DOMAIN sent : n \in Nat /\ sent[n] \in Received /\ sent[n].socket \in Sockets
<1>1. \A n \in DOMAIN sent : n \in Nat /\ sent[n] \in Received
  BY DEF TypeOK
<1> QED BY <1>1 DEF Received

LEMMA OrderAtInit == Init => OrderInv
<1> SUFFICES ASSUME Init PROVE OrderInv
  OBVIOUS
<1>1. heard \in Seq(Received) /\ DOMAIN heard = {} /\ DOMAIN sent = {} /\ DOMAIN mainQueue = {}
      /\ \A s \in Sockets : DOMAIN inbox[s] = {}
  BY DEF Init
<1> QED BY <1>1 DEF OrderInv, Numbered, Genuine, Sorted, ShownSorted, QueueSorted, InboxSorted, Staged, Gapless

\* Steps that move no packet.
LEMMA OrderKept ==
  ASSUME TypeOK, OrderInv, UNCHANGED <<mainQueue, inbox, sent, heard>>,
         \A s \in Sockets : flags[s] \in {"connected", "closed"} <=> flags'[s] \in {"connected", "closed"},
         \A s \in Sockets : flags'[s] = "connected" => flags[s] = "connected"
  PROVE  OrderInv'
<1>1. \A n : Present(n)' <=> Present(n)
  BY DEF Present, Shown, Queuing, Waiting, Is
<1>2. \A n \in DOMAIN sent : sent[n].socket \in Sockets
  BY SentTypes
<1>3. Numbered'
  BY <1>2 DEF OrderInv, Numbered
<1>4. Genuine' /\ Sorted' /\ Staged'
  BY DEF OrderInv, Genuine, IsSent, Sorted, ShownSorted, QueueSorted, InboxSorted, Staged, Together,
     Shown, Queuing, Waiting, Is
<1>5. Gapless'
  BY <1>1, <1>2 DEF OrderInv, Gapless, Together, Readable
<1> QED BY <1>3, <1>4, <1>5 DEF OrderInv

\* Calls other than those of a read may be posted and begun; the other places are left.
LEMMA QueueOfReads ==
  ASSUME OrderInv, UNCHANGED <<sent, heard, inbox, flags>>,
         \A i \in DOMAIN mainQueue' : mainQueue'[i].call = "read" =>
           \E j \in DOMAIN mainQueue : mainQueue[j] = mainQueue'[i],
         \A j \in DOMAIN mainQueue : mainQueue[j].call = "read" =>
           \E i \in DOMAIN mainQueue' : mainQueue[j] = mainQueue'[i],
         QueueSorted'
  PROVE  OrderInv'
<1>1. \A n : Queuing(n)' <=> Queuing(n)
  BY DEF Queuing, Is
<1>2. \A n : (Shown(n)' <=> Shown(n)) /\ (Waiting(n)' <=> Waiting(n))
  BY DEF Shown, Waiting
<1>3. Numbered' /\ ShownSorted' /\ InboxSorted'
  BY DEF OrderInv, Numbered, Sorted, ShownSorted, InboxSorted
<1>4. Genuine'
  <2>1. \A i \in DOMAIN mainQueue' : mainQueue'[i].call = "read" =>
          IsSent(mainQueue'[i].packet) /\ mainQueue'[i].packet.socket = mainQueue'[i].socket
    BY DEF OrderInv, Genuine, Is
  <2> QED BY <2>1 DEF OrderInv, Genuine, Is, IsSent
<1>5. Staged' /\ Gapless'
  BY <1>1, <1>2 DEF OrderInv, Staged, Gapless, Present, Together, Readable
<1> QED BY <1>3, <1>4, <1>5 DEF OrderInv, Sorted

\* The connection is told; nothing was sent on it yet.
LEMMA DidConnectOrders ==
  ASSUME TypeOK, OrderInv, NEW s \in Sockets, DidConnect(s)
  PROVE  OrderInv'
<1> DEFINE call == [call |-> "connected", socket |-> s]
<1>1. /\ call \in Calls /\ mainQueue' = Append(mainQueue, call)
      /\ flags[s] = "started" /\ flags' = [flags EXCEPT ![s] = "connected"]
      /\ UNCHANGED <<inbox, sent, heard>>
  BY DEF DidConnect, Post, Calls, server
<1>2. /\ DOMAIN mainQueue = 1..Len(mainQueue) /\ DOMAIN mainQueue' = 1..Len(mainQueue) + 1
      /\ Len(mainQueue) \in Nat /\ \A i \in DOMAIN mainQueue : mainQueue'[i] = mainQueue[i]
      /\ mainQueue'[Len(mainQueue) + 1] = call
  BY <1>1, QueuePosted
<1>3. call.call # "read"
  OBVIOUS
<1> HIDE DEF call
<1>4. \A i \in DOMAIN mainQueue' :
        mainQueue'[i].call = "read" => i \in DOMAIN mainQueue /\ mainQueue'[i] = mainQueue[i]
  BY <1>2, <1>3
<1>5. \A i \in DOMAIN mainQueue : i \in DOMAIN mainQueue' /\ mainQueue'[i] = mainQueue[i]
  BY <1>2
<1>6. \A n : (Queuing(n)' <=> Queuing(n)) /\ (Shown(n)' <=> Shown(n)) /\ (Waiting(n)' <=> Waiting(n))
  BY <1>1, <1>4, <1>5 DEF Queuing, Is, Shown, Waiting
<1>7. \A n \in DOMAIN sent : sent[n].socket \in Sockets /\ flags'[sent[n].socket] = flags[sent[n].socket]
  <2>1. \A n \in DOMAIN sent : sent[n].socket \in Sockets /\ sent[n].socket # s
    BY <1>1, SentTypes DEF OrderInv, Numbered
  <2> QED BY <1>1, <2>1 DEF TypeOK
<1>8. Numbered' /\ Sorted'
  BY <1>1, <1>4, <1>7 DEF OrderInv, Numbered, Sorted, ShownSorted, QueueSorted, InboxSorted, Is
<1>9. Genuine'
  BY <1>1, <1>4 DEF OrderInv, Genuine, Is, IsSent
<1>10. Staged' /\ Gapless'
  BY <1>1, <1>6, <1>7 DEF OrderInv, Staged, Gapless, Present, Together, Readable
<1> QED BY <1>8, <1>9, <1>10 DEF OrderInv

\* The rest of what came in on a socket that is closed is not shown.
LEMMA CloseOrders ==
  ASSUME TypeOK, OrderInv, NEW s \in Sockets, NEW error \in BOOLEAN, flags[s] \in {"started", "connected"},
         Close(s, error), UNCHANGED <<sent, heard>>
  PROVE  OrderInv'
<1> DEFINE call == [call |-> "disconnected", socket |-> s, error |-> error]
<1>1. /\ call \in Calls /\ mainQueue' = Append(mainQueue, call)
      /\ flags' = [flags EXCEPT ![s] = "closed"] /\ inbox' = [inbox EXCEPT ![s] = <<>>]
  BY DEF Close, Post, Calls
<1>2. /\ DOMAIN mainQueue = 1..Len(mainQueue) /\ DOMAIN mainQueue' = 1..Len(mainQueue) + 1
      /\ Len(mainQueue) \in Nat /\ \A i \in DOMAIN mainQueue : mainQueue'[i] = mainQueue[i]
      /\ mainQueue'[Len(mainQueue) + 1] = call
  BY <1>1, QueuePosted
<1>3. call.call # "read"
  OBVIOUS
<1> HIDE DEF call
<1>4. \A i \in DOMAIN mainQueue' :
        mainQueue'[i].call = "read" => i \in DOMAIN mainQueue /\ mainQueue'[i] = mainQueue[i]
  BY <1>2, <1>3
<1>5. \A i \in DOMAIN mainQueue : i \in DOMAIN mainQueue' /\ mainQueue'[i] = mainQueue[i]
  BY <1>2
<1>6. \A n : (Queuing(n)' <=> Queuing(n)) /\ (Shown(n)' <=> Shown(n))
  BY <1>1, <1>4, <1>5 DEF Queuing, Is, Shown
<1>7. \A x \in Sockets : inbox'[x] = IF x = s THEN <<>> ELSE inbox[x]
  BY <1>1 DEF TypeOK
<1>8. \A n : Waiting(n)' <=> Waiting(n) /\ sent[n].socket # s
  <2> SUFFICES ASSUME NEW n PROVE Waiting(n)' <=> Waiting(n) /\ sent[n].socket # s
    OBVIOUS
  <2>1. Waiting(n)' => Waiting(n) /\ sent[n].socket # s
    BY <1>7 DEF Waiting, OrderInv, Genuine, IsSent
  <2>2. Waiting(n) /\ sent[n].socket # s => Waiting(n)'
    BY <1>7 DEF Waiting, OrderInv, Genuine, IsSent
  <2> QED BY <2>1, <2>2
<1>9. \A n \in DOMAIN sent : /\ sent[n].socket \in Sockets
                             /\ sent[n].socket = s => flags'[sent[n].socket] = "closed"
                             /\ sent[n].socket # s => flags'[sent[n].socket] = flags[sent[n].socket]
  BY <1>1, SentTypes DEF TypeOK
<1>10. Numbered' /\ Sorted'
  <2>1. Numbered'
    BY <1>9 DEF OrderInv, Numbered
  <2>2. ShownSorted' /\ QueueSorted'
    BY <1>4 DEF OrderInv, Sorted, ShownSorted, QueueSorted, Is
  <2>3. InboxSorted'
    BY <1>7 DEF OrderInv, Sorted, InboxSorted
  <2> QED BY <2>1, <2>2, <2>3 DEF Sorted
<1>11. Genuine'
  BY <1>4, <1>7 DEF OrderInv, Genuine, Is, IsSent
<1>12. Staged'
  BY <1>6, <1>8 DEF OrderInv, Staged, Together
<1>13. Gapless'
  <2>1. ASSUME NEW n \in DOMAIN sent, NEW m \in DOMAIN sent, n < m, Together(n, m), Readable(n), Present(m)'
        PROVE  Present(n)'
    <3>1. Present(n)
      BY <1>6, <1>8, <2>1 DEF Present, OrderInv, Gapless
    <3>2. CASE sent[n].socket # s
      BY <1>6, <1>8, <3>1, <3>2 DEF Present
    <3>3. CASE sent[n].socket = s
      <4>1. Shown(m) \/ Queuing(m)
        BY <1>6, <1>8, <2>1, <3>3 DEF Present, Together
      <4>2. ~Waiting(n)
        <5>1. Waiting(n) => m < n
          BY <2>1, <4>1 DEF OrderInv, Staged, Together
        <5>2. n \in Nat /\ m \in Nat
          BY DEF TypeOK
        <5> QED BY <2>1, <5>1, <5>2
      <4> QED BY <1>6, <3>1, <4>2 DEF Present
    <3> QED BY <3>2, <3>3
  <2>2. ASSUME NEW n \in DOMAIN sent, flags'[sent[n].socket] = "connected", Readable(n)
        PROVE  Present(n)'
    <3>1. sent[n].socket # s /\ flags[sent[n].socket] = "connected"
      BY <1>9, <2>2
    <3>2. Present(n)
      BY <2>2, <3>1 DEF OrderInv, Gapless
    <3> QED BY <1>6, <1>8, <3>1, <3>2 DEF Present
  <2> QED BY <2>1, <2>2 DEF Gapless, Together, Readable
<1> QED BY <1>10, <1>11, <1>12, <1>13 DEF OrderInv

\* A packet that is read goes from the head of what came in to the end of the queue.
LEMMA CompleteReadOrders ==
  ASSUME TypeOK, OrderInv, NEW s \in Sockets, CompleteRead(s)
  PROVE  OrderInv'
<1> DEFINE p == inbox[s][1]
           call == [call |-> "read", socket |-> s, packet |-> p]
<1>1. /\ inbox[s] \in Seq(Received) /\ inbox[s] # <<>> /\ Head(inbox[s]) = p /\ p \in Received
      /\ Len(inbox[s]) \in Nat \ {0} /\ DOMAIN inbox[s] = 1..Len(inbox[s])
  <2>1. inbox[s] \in Seq(Received) /\ inbox[s] # <<>>
    BY DEF CompleteRead, TypeOK
  <2>2. Len(inbox[s]) \in Nat \ {0} /\ DOMAIN inbox[s] = 1..Len(inbox[s]) /\ Head(inbox[s]) = p
    BY <2>1
  <2>3. p \in Received
    BY <2>1, <2>2
  <2> QED BY <2>1, <2>2, <2>3
<1>2. /\ UNCHANGED <<flags, sent, heard>> /\ inbox' = [inbox EXCEPT ![s] = Tail(@)]
      /\ mainQueue' = Append(mainQueue, call) /\ call \in Calls
  BY <1>1 DEF CompleteRead, Post, Calls, server
<1>3. /\ DOMAIN mainQueue = 1..Len(mainQueue) /\ DOMAIN mainQueue' = 1..Len(mainQueue) + 1
      /\ Len(mainQueue) \in Nat /\ \A i \in DOMAIN mainQueue : mainQueue'[i] = mainQueue[i]
      /\ mainQueue'[Len(mainQueue) + 1] = call
  BY <1>2, QueuePosted
<1>4. /\ DOMAIN inbox'[s] = 1..Len(inbox[s]) - 1
      /\ \A i \in DOMAIN inbox'[s] : i + 1 \in DOMAIN inbox[s] /\ inbox'[s][i] = inbox[s][i + 1]
      /\ \A i \in DOMAIN inbox[s] \ {1} : i - 1 \in DOMAIN inbox'[s] /\ inbox'[s][i - 1] = inbox[s][i]
      /\ \A x \in Sockets \ {s} : inbox'[x] = inbox[x]
  <2>1. inbox'[s] = Tail(inbox[s]) /\ \A x \in Sockets \ {s} : inbox'[x] = inbox[x]
    BY <1>2 DEF TypeOK
  <2>2. /\ DOMAIN Tail(inbox[s]) = 1..Len(inbox[s]) - 1
        /\ \A i \in 1..Len(inbox[s]) - 1 : Tail(inbox[s])[i] = inbox[s][i + 1]
    BY <1>1
  <2> QED BY <1>1, <2>1, <2>2
<1>5. call.call = "read" /\ call.packet = p /\ call.socket = s
  OBVIOUS
<1>6. 1 \in DOMAIN inbox[s] /\ p.nr \in DOMAIN sent /\ sent[p.nr] = p /\ p.socket = s /\ p.nr \in Nat
  BY <1>1, SentTypes DEF OrderInv, Genuine, IsSent
<1>7. Waiting(p.nr)
  BY <1>6 DEF Waiting
<1> HIDE DEF p, call
<1>8. \A n : Queuing(n)' <=> Queuing(n) \/ n = p.nr
  BY <1>3, <1>5 DEF Queuing, Is
<1>9. \A i \in DOMAIN inbox[s] \ {1} : p.nr < inbox[s][i].nr /\ inbox[s][i].nr # p.nr
  <2> SUFFICES ASSUME NEW i \in DOMAIN inbox[s] \ {1} PROVE p.nr < inbox[s][i].nr /\ inbox[s][i].nr # p.nr
    OBVIOUS
  <2>1. 1 < i
    BY <1>1
  <2>2. p.nr < inbox[s][i].nr
    BY <1>6, <2>1 DEF OrderInv, Sorted, InboxSorted, p
  <2>3. inbox[s][i].nr \in Nat
    BY SentTypes DEF OrderInv, Genuine, IsSent
  <2> QED BY <1>6, <2>2, <2>3
<1>10. \A n : Waiting(n)' <=> Waiting(n) /\ n # p.nr
  <2> SUFFICES ASSUME NEW n PROVE Waiting(n)' <=> Waiting(n) /\ n # p.nr
    OBVIOUS
  <2>1. ASSUME NEW x \in Sockets \ {s}, NEW i \in DOMAIN inbox[x] PROVE inbox[x][i].nr # p.nr
    BY <1>6 DEF OrderInv, Genuine, IsSent
  <2>2. Waiting(n)' => Waiting(n) /\ n # p.nr
    <3> SUFFICES ASSUME NEW x \in Sockets, NEW i \in DOMAIN inbox'[x], inbox'[x][i].nr = n
                 PROVE  Waiting(n) /\ n # p.nr
      BY DEF Waiting
    <3>1. CASE x = s
      <4>1. i + 1 \in DOMAIN inbox[s] \ {1} /\ inbox[s][i + 1].nr = n
        BY <1>4, <3>1
      <4> QED BY <1>9, <4>1 DEF Waiting
    <3>2. CASE x # s
      BY <1>4, <2>1, <3>2 DEF Waiting
    <3> QED BY <3>1, <3>2
  <2>3. Waiting(n) /\ n # p.nr => Waiting(n)'
    <3> SUFFICES ASSUME NEW x \in Sockets, NEW i \in DOMAIN inbox[x], inbox[x][i].nr = n, n # p.nr
                 PROVE  \E y \in Sockets : \E j \in DOMAIN inbox'[y] : inbox'[y][j].nr = n
      BY DEF Waiting
    <3>1. CASE x = s
      <4>1. i # 1
        BY <3>1 DEF p
      <4>2. i - 1 \in DOMAIN inbox'[s] /\ inbox'[s][i - 1].nr = n
        BY <1>4, <3>1, <4>1
      <4> QED BY <4>2
    <3>2. CASE x # s
      BY <1>4, <3>2
    <3> QED BY <3>1, <3>2
  <2> QED BY <2>2, <2>3
<1>11. \A n : Shown(n)' <=> Shown(n)
  BY <1>2 DEF Shown
<1>12. Numbered' /\ ShownSorted'
  BY <1>2 DEF OrderInv, Numbered, Sorted, ShownSorted
<1>13. Genuine'
  <2>1. \A i \in DOMAIN mainQueue' : mainQueue'[i].call = "read" =>
          IsSent(mainQueue'[i].packet) /\ mainQueue'[i].packet.socket = mainQueue'[i].socket
    BY <1>3, <1>5, <1>6 DEF OrderInv, Genuine, Is, IsSent
  <2>2. \A x \in Sockets : \A i \in DOMAIN inbox'[x] : IsSent(inbox'[x][i]) /\ inbox'[x][i].socket = x
    BY <1>4 DEF OrderInv, Genuine
  <2> QED BY <1>2, <2>1, <2>2 DEF OrderInv, Genuine, Is, IsSent
<1>14. QueueSorted'
  <2> SUFFICES ASSUME NEW i \in DOMAIN mainQueue', NEW j \in DOMAIN mainQueue', i < j,
                      mainQueue'[i].call = "read", mainQueue'[j].call = "read",
                      mainQueue'[i].socket = mainQueue'[j].socket
               PROVE  mainQueue'[i].packet.nr < mainQueue'[j].packet.nr
    BY DEF QueueSorted, Is
  <2>1. i \in DOMAIN mainQueue /\ mainQueue'[i] = mainQueue[i]
    BY <1>3
  <2>2. CASE j \in DOMAIN mainQueue
    BY <1>3, <2>1, <2>2 DEF OrderInv, Sorted, QueueSorted, Is
  <2>3. CASE j = Len(mainQueue) + 1
    <3>1. Queuing(mainQueue[i].packet.nr)
      BY <2>1 DEF Queuing, Is
    <3>2. IsSent(mainQueue[i].packet) /\ mainQueue[i].packet.socket = s
      BY <1>3, <1>5, <2>1, <2>3 DEF OrderInv, Genuine, Is
    <3>3. mainQueue[i].packet.nr < p.nr
      BY <1>6, <1>7, <3>1, <3>2 DEF OrderInv, Staged, Together, IsSent
    <3> QED BY <1>3, <1>5, <2>1, <2>3, <3>3
  <2> QED BY <1>3, <2>2, <2>3
<1>15. InboxSorted'
  <2> SUFFICES ASSUME NEW x \in Sockets, NEW i \in DOMAIN inbox'[x], NEW j \in DOMAIN inbox'[x], i < j
               PROVE  inbox'[x][i].nr < inbox'[x][j].nr
    BY DEF InboxSorted
  <2>1. CASE x = s
    <3>1. i + 1 < j + 1
      BY <1>1, <1>4, <2>1
    <3> QED BY <1>4, <2>1, <3>1 DEF OrderInv, Sorted, InboxSorted
  <2>2. CASE x # s
    BY <1>4, <2>2 DEF OrderInv, Sorted, InboxSorted
  <2> QED BY <2>1, <2>2
<1>16. Staged'
  <2> SUFFICES ASSUME NEW n \in DOMAIN sent, NEW m \in DOMAIN sent, Together(n, m)
               PROVE  /\ Shown(n)' /\ (Queuing(m)' \/ Waiting(m)') => n < m
                      /\ Queuing(n)' /\ Waiting(m)' => n < m
    BY <1>2 DEF Staged, Together
  <2>1. Shown(n)' /\ (Queuing(m)' \/ Waiting(m)') => n < m
    BY <1>7, <1>8, <1>10, <1>11 DEF OrderInv, Staged
  <2>2. CASE n = p.nr /\ Waiting(m)'
    <3>1. PICK x \in Sockets : \E i \in DOMAIN inbox[x] : inbox[x][i].nr = m /\ m # p.nr
      BY <1>10, <2>2 DEF Waiting
    <3>4. PICK i \in DOMAIN inbox[x] : inbox[x][i].nr = m /\ m # p.nr
      BY <3>1
    <3>2. x = s
      BY <1>6, <2>2, <3>4 DEF OrderInv, Genuine, IsSent, Together
    <3>3. i # 1
      BY <3>4, <3>2 DEF p
    <3> QED BY <1>9, <2>2, <3>4, <3>2, <3>3
  <2>3. CASE n # p.nr
    BY <1>8, <1>10, <2>1, <2>3 DEF OrderInv, Staged
  <2> QED BY <2>1, <2>2, <2>3
<1>17. Gapless'
  <2>1. \A n : Present(n)' <=> Present(n)
    BY <1>7, <1>8, <1>10, <1>11 DEF Present
  <2> QED BY <1>2, <2>1 DEF OrderInv, Gapless, Together, Readable
<1> QED BY <1>12, <1>13, <1>14, <1>15, <1>16, <1>17 DEF OrderInv, Sorted

\* A read that begins is at the head of the queue, the first of its connection.
LEMMA SocketDidReadDataOrders ==
  ASSUME TypeOK, OrderInv, SocketDidReadData
  PROVE  OrderInv'
<1> DEFINE p == Call.packet
<1>1. /\ mainQueue # <<>> /\ mainQueue' = Tail(mainQueue) /\ Call.call = "read"
      /\ UNCHANGED <<flags, inbox, sent>>
      /\ heard' = IF p.kind = "malformed" THEN heard ELSE Append(heard, p)
  BY DEF SocketDidReadData, Begin, socket, server
<1>2. /\ Call \in Calls /\ Call = mainQueue[1] /\ Len(mainQueue) \in Nat \ {0} /\ 1 \in DOMAIN mainQueue
      /\ DOMAIN mainQueue = 1..Len(mainQueue) /\ DOMAIN mainQueue' = 1..Len(mainQueue) - 1
      /\ \A i \in DOMAIN mainQueue' : mainQueue'[i] = mainQueue[i + 1]
  BY <1>1, QueueBegun
<1>3. p.nr \in DOMAIN sent /\ sent[p.nr] = p /\ p.socket = Call.socket /\ p.nr \in Nat /\ p \in Received
  BY <1>1, <1>2, SentTypes DEF OrderInv, Genuine, IsSent, Is
<1>4. Queuing(p.nr)
  BY <1>1, <1>2 DEF Queuing, Is
<1>5. \A i \in DOMAIN mainQueue \ {1} : mainQueue[i].call = "read" /\ mainQueue[i].socket = p.socket =>
        p.nr < mainQueue[i].packet.nr /\ p.nr # mainQueue[i].packet.nr
  <2> SUFFICES ASSUME NEW i \in DOMAIN mainQueue \ {1}, mainQueue[i].call = "read", mainQueue[i].socket = p.socket
               PROVE  p.nr < mainQueue[i].packet.nr /\ p.nr # mainQueue[i].packet.nr
    OBVIOUS
  <2>1. 1 < i
    BY <1>2
  <2>2. p.nr < mainQueue[i].packet.nr
    BY <1>1, <1>2, <1>3, <2>1 DEF OrderInv, Sorted, QueueSorted, Is
  <2>3. mainQueue[i].packet.nr \in Nat
    BY SentTypes DEF OrderInv, Genuine, IsSent, Is
  <2> QED BY <1>3, <2>2, <2>3
<1> HIDE DEF p
<1>6. \A i \in DOMAIN mainQueue' : i + 1 \in DOMAIN mainQueue \ {1} /\ mainQueue'[i] = mainQueue[i + 1]
  BY <1>2
<1>7. \A i \in DOMAIN mainQueue \ {1} : i - 1 \in DOMAIN mainQueue' /\ mainQueue'[i - 1] = mainQueue[i]
  BY <1>2
<1>8. \A n : Queuing(n)' <=> Queuing(n) /\ n # p.nr
  <2> SUFFICES ASSUME NEW n PROVE Queuing(n)' <=> Queuing(n) /\ n # p.nr
    OBVIOUS
  <2>1. \A i \in DOMAIN mainQueue \ {1} : mainQueue[i].call = "read" => p.nr # mainQueue[i].packet.nr
    BY <1>3, <1>5 DEF OrderInv, Genuine, IsSent, Is
  <2>2. Queuing(n)' => Queuing(n) /\ n # p.nr
    BY <1>6, <2>1 DEF Queuing, Is
  <2>3. Queuing(n) /\ n # p.nr => Queuing(n)'
    BY <1>2, <1>7 DEF Queuing, Is, p
  <2> QED BY <2>2, <2>3
<1>9. \A n : Waiting(n)' <=> Waiting(n)
  BY <1>1 DEF Waiting
<1>10. /\ heard \in Seq(Received) /\ heard' \in Seq(Received) /\ DOMAIN heard = 1..Len(heard) /\ Len(heard) \in Nat
       /\ \A i \in DOMAIN heard : i \in DOMAIN heard' /\ heard'[i] = heard[i]
       /\ p.kind = "malformed" => heard' = heard
       /\ p.kind # "malformed" => DOMAIN heard' = 1..Len(heard) + 1 /\ heard'[Len(heard) + 1] = p
  <2>1. heard \in Seq(Received)
    BY DEF OrderInv, Numbered
  <2> QED BY <1>1, <1>3, <2>1
<1>11. \A n : Shown(n)' <=> Shown(n) \/ (n = p.nr /\ p.kind # "malformed")
  <2> SUFFICES ASSUME NEW n PROVE Shown(n)' <=> Shown(n) \/ (n = p.nr /\ p.kind # "malformed")
    OBVIOUS
  <2>1. CASE p.kind = "malformed"
    BY <1>10, <2>1 DEF Shown
  <2>2. CASE p.kind # "malformed"
    BY <1>10, <2>2 DEF Shown
  <2> QED BY <2>1, <2>2
<1>12. Numbered' /\ InboxSorted'
  BY <1>1, <1>10 DEF OrderInv, Numbered, Sorted, InboxSorted
<1>13. Genuine'
  <2>1. \A i \in DOMAIN heard' : IsSent(heard'[i])
    BY <1>3, <1>10 DEF OrderInv, Genuine, IsSent
  <2>2. \A i \in DOMAIN mainQueue' : mainQueue'[i].call = "read" =>
          IsSent(mainQueue'[i].packet) /\ mainQueue'[i].packet.socket = mainQueue'[i].socket
    BY <1>6 DEF OrderInv, Genuine, Is
  <2> QED BY <1>1, <2>1, <2>2 DEF OrderInv, Genuine, Is, IsSent
<1>14. QueueSorted'
  <2> SUFFICES ASSUME NEW i \in DOMAIN mainQueue', NEW j \in DOMAIN mainQueue', i < j,
                      mainQueue'[i].call = "read", mainQueue'[j].call = "read",
                      mainQueue'[i].socket = mainQueue'[j].socket
               PROVE  mainQueue'[i].packet.nr < mainQueue'[j].packet.nr
    BY DEF QueueSorted, Is
  <2>1. i + 1 < j + 1
    BY <1>2
  <2> QED BY <1>6, <2>1 DEF OrderInv, Sorted, QueueSorted, Is
<1>15. ShownSorted'
  <2> SUFFICES ASSUME NEW i \in DOMAIN heard', NEW j \in DOMAIN heard', i < j, heard'[i].socket = heard'[j].socket
               PROVE  heard'[i].nr < heard'[j].nr
    BY DEF ShownSorted
  <2>1. CASE i \in DOMAIN heard /\ j \in DOMAIN heard
    BY <1>10, <2>1 DEF OrderInv, Sorted, ShownSorted
  <2>2. CASE ~(i \in DOMAIN heard /\ j \in DOMAIN heard)
    <3>1. p.kind # "malformed" /\ i \in DOMAIN heard /\ j = Len(heard) + 1
      BY <1>10, <2>2
    <3>2. Shown(heard[i].nr) /\ IsSent(heard[i]) /\ heard[i].socket = p.socket
      BY <1>10, <3>1 DEF Shown, OrderInv, Genuine
    <3>3. heard[i].nr < p.nr
      BY <1>3, <1>4, <3>2 DEF OrderInv, Staged, Together, IsSent
    <3> QED BY <1>10, <3>1, <3>3
  <2> QED BY <2>1, <2>2
<1>16. Staged'
  <2> SUFFICES ASSUME NEW n \in DOMAIN sent, NEW m \in DOMAIN sent, Together(n, m)
               PROVE  /\ Shown(n)' /\ (Queuing(m)' \/ Waiting(m)') => n < m
                      /\ Queuing(n)' /\ Waiting(m)' => n < m
    BY <1>1 DEF Staged, Together
  <2>1. Queuing(n)' /\ Waiting(m)' => n < m
    BY <1>8, <1>9 DEF OrderInv, Staged
  <2>2. CASE n # p.nr
    BY <1>8, <1>9, <1>11, <2>2 DEF OrderInv, Staged
  <2>3. CASE n = p.nr /\ Waiting(m)'
    BY <1>4, <1>9, <2>3 DEF OrderInv, Staged
  <2>4. CASE n = p.nr /\ Queuing(m)'
    <3>1. PICK i \in DOMAIN mainQueue : mainQueue[i].call = "read" /\ mainQueue[i].packet.nr = m /\ m # p.nr
      BY <1>8, <2>4 DEF Queuing, Is
    <3>2. mainQueue[i].socket = p.socket
      BY <1>3, <2>4, <3>1 DEF OrderInv, Genuine, IsSent, Together, Is
    <3>3. i # 1
      BY <1>2, <3>1 DEF p
    <3> QED BY <1>5, <2>4, <3>1, <3>2, <3>3
  <2> QED BY <2>1, <2>2, <2>3, <2>4
<1>17. Gapless'
  <2>1. \A n \in DOMAIN sent : Present(n)' => Present(n)
    BY <1>4, <1>8, <1>9, <1>11 DEF Present
  <2>2. \A n \in DOMAIN sent : Readable(n) /\ Present(n) => Present(n)'
    BY <1>3, <1>8, <1>9, <1>11 DEF Present, Readable
  <2> QED BY <1>1, <2>1, <2>2 DEF OrderInv, Gapless, Together, Readable
<1> QED BY <1>12, <1>13, <1>14, <1>15, <1>16, <1>17 DEF OrderInv, Sorted

\* A call that is no read begins.
LEMMA OtherBegins ==
  ASSUME TypeOK, OrderInv, mainQueue # <<>>, mainQueue' = Tail(mainQueue), Call.call # "read",
         UNCHANGED <<sent, heard, inbox, flags>>
  PROVE  OrderInv'
<1>1. /\ Call = mainQueue[1] /\ Len(mainQueue) \in Nat \ {0}
      /\ DOMAIN mainQueue = 1..Len(mainQueue) /\ DOMAIN mainQueue' = 1..Len(mainQueue) - 1
      /\ \A i \in DOMAIN mainQueue' : mainQueue'[i] = mainQueue[i + 1]
  BY QueueBegun
<1>2. \A i \in DOMAIN mainQueue' : i + 1 \in DOMAIN mainQueue /\ mainQueue'[i] = mainQueue[i + 1]
  BY <1>1
<1>3. \A j \in DOMAIN mainQueue : mainQueue[j].call = "read" =>
        j - 1 \in DOMAIN mainQueue' /\ mainQueue'[j - 1] = mainQueue[j]
  BY <1>1
<1>4. QueueSorted'
  <2> SUFFICES ASSUME NEW i \in DOMAIN mainQueue', NEW j \in DOMAIN mainQueue', i < j,
                      mainQueue'[i].call = "read", mainQueue'[j].call = "read",
                      mainQueue'[i].socket = mainQueue'[j].socket
               PROVE  mainQueue'[i].packet.nr < mainQueue'[j].packet.nr
    BY DEF QueueSorted, Is
  <2>1. i + 1 < j + 1
    BY <1>1
  <2> QED BY <1>2, <2>1 DEF OrderInv, Sorted, QueueSorted, Is
<1>5. \A i \in DOMAIN mainQueue' : \E j \in DOMAIN mainQueue : mainQueue[j] = mainQueue'[i]
  BY <1>2
<1>6. \A j \in DOMAIN mainQueue : mainQueue[j].call = "read" =>
        \E i \in DOMAIN mainQueue' : mainQueue[j] = mainQueue'[i]
  BY <1>3
<1> QED BY <1>4, <1>5, <1>6, QueueOfReads

\* A packet that is sent is behind all others.
LEMMA ServerSendsOrders ==
  ASSUME TypeOK, OrderInv, ServerSends
  PROVE  OrderInv'
<1>1. PICK s \in registered \ gone, kind \in Packets :
        LET p == [socket |-> s, nr |-> Len(sent) + 1, kind |-> kind] IN
        /\ flags[s] = "connected" /\ sent' = Append(sent, p)
        /\ inbox' = [inbox EXCEPT ![s] = Append(@, p)]
        /\ UNCHANGED <<mainQueue, flags, heard>>
  BY DEF ServerSends
<1> DEFINE p == [socket |-> s, nr |-> Len(sent) + 1, kind |-> kind]
<1>2. s \in Sockets /\ sent \in Seq(Received) /\ inbox[s] \in Seq(Received)
  BY DEF TypeOK
<1>3. Len(sent) \in Nat /\ DOMAIN sent = 1..Len(sent) /\ p \in Received /\ p.nr = Len(sent) + 1 /\ p.socket = s
  BY <1>2 DEF Received
<1> HIDE DEF p
<1>4. /\ flags[s] = "connected" /\ sent' = Append(sent, p) /\ inbox' = [inbox EXCEPT ![s] = Append(@, p)]
      /\ UNCHANGED <<mainQueue, flags, heard>>
  BY <1>1 DEF p
<1>5. /\ DOMAIN sent' = 1..p.nr /\ p.nr \in Nat /\ p.nr \in DOMAIN sent' /\ sent'[p.nr] = p
      /\ \A n \in DOMAIN sent : n \in DOMAIN sent' /\ sent'[n] = sent[n] /\ n < p.nr /\ n # p.nr /\ n \in Nat
      /\ \A n \in DOMAIN sent' : n # p.nr => n \in DOMAIN sent
  BY <1>2, <1>3, <1>4
<1>6. /\ Len(inbox[s]) \in Nat /\ DOMAIN inbox[s] = 1..Len(inbox[s])
      /\ DOMAIN inbox'[s] = 1..Len(inbox[s]) + 1 /\ inbox'[s][Len(inbox[s]) + 1] = p
      /\ \A i \in DOMAIN inbox[s] : inbox'[s][i] = inbox[s][i]
      /\ \A x \in Sockets \ {s} : inbox'[x] = inbox[x]
  <2>1. inbox'[s] = Append(inbox[s], p) /\ \A x \in Sockets \ {s} : inbox'[x] = inbox[x]
    BY <1>2, <1>4 DEF TypeOK
  <2> QED BY <1>2, <1>3, <2>1
<1>7. \A n : (Queuing(n)' <=> Queuing(n)) /\ (Shown(n)' <=> Shown(n))
  BY <1>4 DEF Queuing, Is, Shown
<1>8. \A n : Waiting(n)' <=> Waiting(n) \/ n = p.nr
  <2> SUFFICES ASSUME NEW n PROVE Waiting(n)' <=> Waiting(n) \/ n = p.nr
    OBVIOUS
  <2>1. Waiting(n)' => Waiting(n) \/ n = p.nr
    <3> SUFFICES ASSUME NEW x \in Sockets, NEW i \in DOMAIN inbox'[x], inbox'[x][i].nr = n, n # p.nr
                 PROVE  Waiting(n)
      BY DEF Waiting
    <3>1. i \in DOMAIN inbox[x] /\ inbox[x][i].nr = n
      BY <1>6
    <3> QED BY <3>1 DEF Waiting
  <2>2. n = p.nr => Waiting(n)'
    <3>1. Len(inbox[s]) + 1 \in DOMAIN inbox'[s]
      BY <1>6
    <3> QED BY <1>2, <1>6, <3>1 DEF Waiting
  <2>3. Waiting(n) => Waiting(n)'
    <3> SUFFICES ASSUME NEW x \in Sockets, NEW i \in DOMAIN inbox[x], inbox[x][i].nr = n
                 PROVE  \E y \in Sockets : \E j \in DOMAIN inbox'[y] : inbox'[y][j].nr = n
      BY DEF Waiting
    <3>1. i \in DOMAIN inbox'[x] /\ inbox'[x][i].nr = n
      BY <1>6
    <3> QED BY <3>1
  <2> QED BY <2>1, <2>2, <2>3
<1>9. \A n : Queuing(n) \/ Shown(n) \/ Waiting(n) => n \in DOMAIN sent
  BY DEF Queuing, Shown, Waiting, OrderInv, Genuine, IsSent
<1>10. \A q : IsSent(q) => q.nr \in DOMAIN sent' /\ q = sent'[q.nr]
  BY <1>5 DEF IsSent
<1>11. Numbered'
  BY <1>3, <1>4, <1>5 DEF OrderInv, Numbered
<1>12. Genuine'
  <2>1. ASSUME NEW x \in Sockets, NEW i \in DOMAIN inbox'[x]
        PROVE  LET q == inbox'[x][i] IN q.nr \in DOMAIN sent' /\ q = sent'[q.nr] /\ q.socket = x
    <3>1. CASE i \in DOMAIN inbox[x] /\ inbox'[x][i] = inbox[x][i]
      BY <1>10, <3>1 DEF OrderInv, Genuine
    <3>2. CASE x = s /\ inbox'[x][i] = p
      BY <1>3, <1>5, <3>2
    <3> QED BY <1>6, <3>1, <3>2
  <2>2. \A i \in DOMAIN heard : heard[i].nr \in DOMAIN sent' /\ heard[i] = sent'[heard[i].nr]
    BY <1>10 DEF OrderInv, Genuine
  <2>3. \A i \in DOMAIN mainQueue : mainQueue[i].call = "read" =>
          LET q == mainQueue[i].packet IN
          q.nr \in DOMAIN sent' /\ q = sent'[q.nr] /\ q.socket = mainQueue[i].socket
    BY <1>10 DEF OrderInv, Genuine, Is
  <2> QED BY <1>4, <2>1, <2>2, <2>3 DEF Genuine, IsSent, Is
<1>13. ShownSorted' /\ QueueSorted'
  BY <1>4 DEF OrderInv, Sorted, ShownSorted, QueueSorted, Is
<1>14. InboxSorted'
  <2> SUFFICES ASSUME NEW x \in Sockets, NEW i \in DOMAIN inbox'[x], NEW j \in DOMAIN inbox'[x], i < j
               PROVE  inbox'[x][i].nr < inbox'[x][j].nr
    BY DEF InboxSorted
  <2>1. CASE i \in DOMAIN inbox[x] /\ j \in DOMAIN inbox[x]
    BY <1>6, <2>1 DEF OrderInv, Sorted, InboxSorted
  <2>2. CASE ~(i \in DOMAIN inbox[x] /\ j \in DOMAIN inbox[x])
    <3>1. x = s /\ i \in DOMAIN inbox[s] /\ j = Len(inbox[s]) + 1
      BY <1>6, <2>2
    <3>2. inbox[s][i].nr \in DOMAIN sent
      BY <1>2, <3>1 DEF OrderInv, Genuine, IsSent
    <3> QED BY <1>5, <1>6, <3>1, <3>2
  <2> QED BY <2>1, <2>2
<1>15. Staged'
  <2> SUFFICES ASSUME NEW n \in DOMAIN sent', NEW m \in DOMAIN sent', Together(n, m)'
               PROVE  /\ Shown(n)' /\ (Queuing(m)' \/ Waiting(m)') => n < m
                      /\ Queuing(n)' /\ Waiting(m)' => n < m
    BY DEF Staged
  <2>1. CASE n # p.nr /\ m # p.nr
    BY <1>5, <1>7, <1>8, <2>1 DEF OrderInv, Staged, Together
  <2>2. CASE n = p.nr
    BY <1>5, <1>7, <1>9, <2>2
  <2>3. CASE n # p.nr /\ m = p.nr
    BY <1>5, <2>3
  <2> QED BY <2>1, <2>2, <2>3
<1>16. Gapless'
  <2>1. \A n : Present(n)' <=> Present(n) \/ n = p.nr
    BY <1>7, <1>8 DEF Present
  <2>2. ASSUME NEW n \in DOMAIN sent', NEW m \in DOMAIN sent', n < m, Together(n, m)', Readable(n)', Present(m)'
        PROVE  Present(n)'
    <3>1. n \in DOMAIN sent /\ sent'[n] = sent[n]
      BY <1>5, <2>2
    <3>2. CASE m = p.nr
      <4>1. sent[n].socket = s /\ Readable(n)
        BY <1>3, <1>5, <2>2, <3>1, <3>2 DEF Together, Readable
      <4> QED BY <1>4, <2>1, <3>1, <4>1 DEF OrderInv, Gapless
    <3>3. CASE m # p.nr
      BY <1>5, <2>1, <2>2, <3>1, <3>3 DEF OrderInv, Gapless, Together, Readable
    <3> QED BY <3>2, <3>3
  <2>3. ASSUME NEW n \in DOMAIN sent', flags'[sent'[n].socket] = "connected", Readable(n)'
        PROVE  Present(n)'
    BY <1>4, <1>5, <2>1, <2>3 DEF OrderInv, Gapless, Readable
  <2> QED BY <2>2, <2>3 DEF Gapless
<1> QED BY <1>11, <1>12, <1>13, <1>14, <1>15, <1>16 DEF OrderInv, Sorted

LEMMA OrderStep == ASSUME TypeOK, OrderInv, [Next]_vars PROVE OrderInv'
<1>1. CASE ConnectAgain \/ Register \/ ReadNext \/ DropSocket \/ ServerCloses \/ UNCHANGED vars
  BY <1>1, OrderKept
     DEF ConnectAgain, Register, ReadNext, DropSocket, ServerCloses, vars, library, socket, server
<1>2. CASE ConnectToServer
  <2>1. PICK new \in Sockets \ Made : flags' = [flags EXCEPT ![new] = "started"]
    BY <1>2 DEF ConnectToServer
  <2>2. flags[new] = "none"
    BY <2>1 DEF Made
  <2>3. \A s \in Sockets : s # new => flags'[s] = flags[s]
    BY <2>1 DEF TypeOK
  <2>4. flags'[new] = "started"
    BY <2>1 DEF TypeOK
  <2>5. UNCHANGED <<mainQueue, inbox, sent, heard>>
    BY <1>2 DEF ConnectToServer, server
  <2> QED BY <2>2, <2>3, <2>4, <2>5, OrderKept
<1>3. CASE DisconnectFromServer
  <2>1. clientSocket \in Sockets /\ flags[clientSocket] \in {"started", "connected"}
    BY <1>3 DEF DisconnectFromServer, Started, FlagsOf, TypeOK, Sockets
  <2> QED BY <1>3, <2>1, CloseOrders DEF DisconnectFromServer, server
<1>4. CASE SocketDidConnect
  BY <1>4, OtherBegins DEF SocketDidConnect, Begin, socket, server
<1>5. CASE SocketDidDisconnect
  BY <1>5, OtherBegins DEF SocketDidDisconnect, Begin, socket, server
<1>6. ASSUME NEW s \in Sockets, Socket(s) \/ Fail(s) PROVE OrderInv'
  <2>1. CASE DidNotConnect(s)
    BY <2>1, CloseOrders DEF DidNotConnect, server
  <2>2. CASE ReadEOF(s)
    BY <2>2, CloseOrders DEF ReadEOF, server
  <2>3. CASE Fail(s)
    BY <2>3, CloseOrders DEF Fail, server
  <2> QED BY <1>6, <2>1, <2>2, <2>3, DidConnectOrders, CompleteReadOrders DEF Socket
<1> QED BY <1>1, <1>2, <1>3, <1>4, <1>5, <1>6, SocketDidReadDataOrders, ServerSendsOrders
        DEF Next, Application, MainQueue

\* didReadData shows the packets of a connection in the order sent, none twice and none
\* left out before one that is shown, although a read may be queued on a socket other
\* than the one the data came from and a closing drops what has not been read.
THEOREM ShownInOrder == Spec => []HeardInOrder
<1>1. ASSUME TypeOK, OrderInv PROVE HeardInOrder
  <2>1. \A i \in DOMAIN heard : heard[i].nr \in DOMAIN sent /\ heard[i] = sent[heard[i].nr]
    BY <1>1 DEF OrderInv, Genuine, IsSent
  <2>2. \A i, j \in DOMAIN heard :
          i < j /\ heard[i].socket = heard[j].socket => heard[i].nr < heard[j].nr
    BY <1>1 DEF OrderInv, Sorted, ShownSorted
  <2>3. ASSUME NEW j \in DOMAIN heard, NEW n \in DOMAIN sent, n < heard[j].nr,
               sent[n].socket = heard[j].socket, sent[n].kind # "malformed"
        PROVE  \E i \in DOMAIN heard : heard[i] = sent[n]
    <3> DEFINE m == heard[j].nr
    <3>1. m \in DOMAIN sent /\ m \in Nat /\ n \in Nat /\ Together(n, m) /\ Shown(m) /\ n < m
      BY <1>1, <2>1, <2>3, SentTypes DEF Together, Shown
    <3>2. Present(n)
      BY <1>1, <2>3, <3>1 DEF OrderInv, Gapless, Readable, Present
    <3>3. ~Queuing(n) /\ ~Waiting(n)
      <4>1. Queuing(n) \/ Waiting(n) => m < n
        BY <1>1, <3>1 DEF OrderInv, Staged, Together
      <4> QED BY <3>1, <4>1
    <3>4. PICK i \in DOMAIN heard : heard[i].nr = n
      BY <3>2, <3>3 DEF Present, Shown
    <3> QED BY <2>1, <3>4
  <2> QED BY <2>1, <2>2, <2>3 DEF HeardInOrder
<1>2. Spec => []OrderInv
  <2>1. IosInv => TypeOK
    BY DEF IosInv
  <2> QED BY <2>1, OrderAtInit, OrderStep, Invariant, PTL DEF Spec
<1>3. IosInv /\ OrderInv => HeardInOrder
  BY <1>1 DEF IosInv
<1> QED BY <1>2, <1>3, Invariant, PTL
=============================================================================
