------------------------ MODULE AndroidEngine_proofs ------------------------
(***************************************************************************)
(* Proofs about AndroidEngine, for any number of connections and packets.    *)
(***************************************************************************)
EXTENDS AndroidEngine, WellFoundedInduction, TLAPS

TypeOK ==
  /\ socket \in 0..MaxConnects /\ thread \in 0..MaxConnects
  /\ exitThread \in BOOLEAN /\ wasAskedToDisconnect \in BOOLEAN /\ checkingState \in BOOLEAN
  /\ ui \in {"idle", "yield", "reset", "dial", "start", "drop"}
  /\ pc \in [Readers -> {"none", "new", "test", "fetch", "read", "handle", "catch", "tell", "post", "done"}]
  /\ link \in [Readers -> {"none", "up", "gone", "closed"}]
  /\ socket # 0 => link[socket] # "none"
  /\ ui \in {"yield", "reset", "dial"} => Opened # Readers

\* Where the user-interface thread is tells what it has done to the old connection and
\* the old thread.
Closing == ui \in {"yield", "reset", "dial", "drop"}

OldIsClosed ==
  /\ Closing /\ socket # 0 => link[socket] = "closed" \/ (ui = "drop" /\ socket \in unwritten)
  /\ ui \in {"reset", "dial"} => thread = 0
  /\ ui = "yield" => thread # 0
  /\ ui = "start" => thread # 0 /\ socket = thread /\ pc[thread] = "new"

\* The flag of an availability check is up only while connect() runs.
CheckGoesOn == checkingState => ui \in {"yield", "reset", "dial", "start"}

\* A reader that is going to tell of a loss, or has told, has asked itself to exit; unless
\* disconnect() has given it up nobody takes that back.
Ending ==
  \A n \in Readers :
    /\ link[n] = "none" => pc[n] = "none" /\ ~Told(n)
    /\ n \notin dropped =>
         /\ pc[n] \in {"tell", "post"} => exitThread
         /\ Told(n) => pc[n] = "done" \/ (pc[n] = "test" /\ exitThread)

\* A connection in the engine's hands with which no older reader could interfere: its
\* own reader is the only one, and asked to exit only by itself.
Undisturbed ==
  \A k \in Readers \ haunted :
    socket = k /\ link[k] \in {"up", "gone"} =>
      /\ \A n \in Readers : Alive(n) => n = k
      /\ ~wasAskedToDisconnect
      /\ exitThread => pc[k] \in {"tell", "post"} \/ Told(k)
      /\ pc[k] = "done" => Told(k)

\* The same of the connection that connect() is about to open.
Quiet ==
  ui = "dial" /\ Newest \notin haunted =>
    ~OldReader /\ ~exitThread /\ ~wasAskedToDisconnect

EngineInv ==
  TypeOK /\ OneReader /\ CheckGoesOn /\ NothingLeftOpen /\ OldIsClosed /\ Ending /\ Undisturbed /\ Quiet

-----------------------------------------------------------------------------
LEMMA ReaderNumbers == 0 \notin Readers /\ \A n \in 0..MaxConnects : n = 0 \/ n \in Readers
BY BoundsAssumption DEF Readers

\* The next connection is one that was not opened.
LEMMA NewestIsNew ==
  ASSUME Opened # Readers
  PROVE  Newest \in Readers \ Opened
<1> DEFINE S == Readers \ Opened
<1>1. S \subseteq Nat /\ S # {}
  BY DEF Opened, Readers
<1>2. PICK n \in S : \A m \in S : <<m, n>> \notin OpToRel(<, Nat)
  <2> HIDE DEF S
  <2> QED BY <1>1, NatLessThanWellFounded, WFMin, Zenon
<1>3. \A m \in S : m \in Nat /\ n \in Nat
  BY <1>1
<1>4. \A m \in S : ~(m < n)
  <2> HIDE DEF S
  <2> QED BY <1>2, <1>3, Zenon DEF OpToRel
<1>5. \A m \in S : n <= m
  BY <1>3, <1>4
<1> QED BY <1>5 DEF Newest

\* Closing the old connection opens none and closes no other.
LEMMA OldClosed ==
  ASSUME TypeOK, CloseOld
  PROVE  /\ link' \in [Readers -> {"none", "up", "gone", "closed"}]
         /\ \A k \in Readers : link'[k] = IF k = socket THEN "closed" ELSE link[k]
         /\ Opened' = Opened
<1>1. /\ link' \in [Readers -> {"none", "up", "gone", "closed"}]
      /\ \A k \in Readers : link'[k] = IF k = socket THEN "closed" ELSE link[k]
  BY DEF CloseOld, TypeOK
<1>2. \A k \in Readers : link'[k] = "none" <=> link[k] = "none"
  BY <1>1, ReaderNumbers DEF TypeOK
<1> QED BY <1>1, <1>2 DEF Opened

LEMMA InitHolds == Init => EngineInv
<1> SUFFICES ASSUME Init PROVE EngineInv
  OBVIOUS
<1>1. TypeOK
  <2>1. 0 \in 0..MaxConnects
    BY BoundsAssumption
  <2> QED BY <2>1 DEF Init, TypeOK
<1>2. OneReader /\ CheckGoesOn /\ NothingLeftOpen
  BY DEF Init, OneReader, CheckGoesOn, NothingLeftOpen, Opened, Alive
<1>3. OldIsClosed /\ Ending /\ Undisturbed /\ Quiet
  BY ReaderNumbers DEF Init, OldIsClosed, Closing, Ending, Told, Undisturbed, Quiet
<1> QED BY <1>1, <1>2, <1>3 DEF EngineInv

-----------------------------------------------------------------------------
(* connect().                                                               *)

\* By the application or by an availability check, which sets the flag.
LEMMA BeginConnectKeeps ==
  ASSUME EngineInv, BeginConnect, Opened # Readers, checkingState' \in BOOLEAN
  PROVE  EngineInv'
<1> USE ReaderNumbers DEF EngineInv
<1>1. /\ link' \in [Readers -> {"none", "up", "gone", "closed"}]
      /\ \A k \in Readers : link'[k] = IF k = socket THEN "closed" ELSE link[k]
      /\ Opened' = Opened
  BY OldClosed DEF BeginConnect
<1>2. /\ exitThread' = (exitThread \/ thread # 0)
      /\ ui' = IF thread # 0 THEN "yield" ELSE "reset"
      /\ UNCHANGED <<socket, thread, wasAskedToDisconnect, pc, posted, lost, dropped, haunted, unwritten>>
  BY DEF BeginConnect, reading, history
<1>3. TypeOK'
  <2>1. exitThread' \in BOOLEAN
    BY <1>2 DEF TypeOK
  <2>2. socket # 0 => link'[socket] # "none"
    BY <1>1 DEF TypeOK
  <2> QED BY <1>1, <1>2, <2>1, <2>2 DEF TypeOK
<1>4. OneReader' /\ CheckGoesOn' /\ Quiet'
  BY <1>2 DEF OneReader, Alive, CheckGoesOn, Quiet
<1>8. Ending'
  BY <1>1, <1>2 DEF Ending, Told, TypeOK
<1>5. NothingLeftOpen'
  BY <1>1, <1>2 DEF NothingLeftOpen, Opened
<1>6. OldIsClosed'
  BY <1>1, <1>2 DEF OldIsClosed, Closing, TypeOK
<1>7. Undisturbed'
  BY <1>1, <1>2 DEF Undisturbed
<1> QED BY <1>3, <1>4, <1>5, <1>6, <1>7, <1>8

\* A connect() that throws has closed the old connection.
LEMMA ThrowKeeps ==
  ASSUME EngineInv, ui \in {"yield", "dial"}, Throw,
         UNCHANGED <<socket, thread, exitThread, wasAskedToDisconnect, pc, link, posted, lost, dropped,
                     haunted, unwritten>>
  PROVE  EngineInv'
<1> USE ReaderNumbers DEF EngineInv
<1>1. ui' = "idle" /\ checkingState' = FALSE
  BY DEF Throw, FlagOff
<1>2. TypeOK'
  BY <1>1 DEF TypeOK
<1>3. OneReader' /\ CheckGoesOn' /\ Ending' /\ Quiet'
  BY <1>1 DEF OneReader, Alive, CheckGoesOn, Ending, Told, Quiet
<1>4. NothingLeftOpen' /\ OldIsClosed' /\ Undisturbed'
  BY <1>1 DEF NothingLeftOpen, Opened, OldIsClosed, Closing, Undisturbed, Told, Alive
<1> QED BY <1>2, <1>3, <1>4

LEMMA StopOldKeeps ==
  ASSUME EngineInv, StopOld
  PROVE  EngineInv'
<1> USE ReaderNumbers DEF EngineInv
<1>1. CASE Alive(thread)
  BY <1>1, ThrowKeeps DEF StopOld, reading, wire, history
<1>2. CASE ~Alive(thread)
  <2>1. /\ ui = "yield" /\ ui' = "reset" /\ thread' = 0
        /\ UNCHANGED <<socket, exitThread, wasAskedToDisconnect, checkingState, pc, link, posted, lost, dropped,
                       haunted, unwritten>>
    BY <1>2 DEF StopOld, reading, wire, history
  <2>2. TypeOK'
    <3>1. 0 \in 0..MaxConnects
      BY BoundsAssumption
    <3> QED BY <2>1, <3>1 DEF TypeOK, Opened
  <2>3. OneReader'
    BY <1>2, <2>1 DEF OneReader, Alive
  <2>4. CheckGoesOn' /\ Ending' /\ Quiet'
    BY <2>1 DEF CheckGoesOn, Ending, Told, Quiet
  <2>5. NothingLeftOpen' /\ OldIsClosed' /\ Undisturbed'
    BY <2>1 DEF NothingLeftOpen, Opened, OldIsClosed, Closing, Undisturbed, Told, Alive
  <2> QED BY <2>2, <2>3, <2>4, <2>5
<1> QED BY <1>1, <1>2

LEMMA ResetFlagsKeeps ==
  ASSUME EngineInv, ResetFlags
  PROVE  EngineInv'
<1> USE ReaderNumbers DEF EngineInv
<1>1. /\ ui = "reset" /\ ui' = "dial" /\ exitThread' = FALSE /\ wasAskedToDisconnect' = FALSE
      /\ haunted' = IF OldReader THEN haunted \cup {Newest} ELSE haunted \ {Newest}
      /\ UNCHANGED <<socket, thread, checkingState, pc, link, posted, lost, dropped, unwritten>>
  BY DEF ResetFlags, NotAsked, check, reading, wire
<1>2. TypeOK'
  BY <1>1 DEF TypeOK, Opened
<1>3. OneReader' /\ CheckGoesOn'
  BY <1>1 DEF OneReader, Alive, CheckGoesOn
<1>6. Ending'
  <2>1. \A n \in Readers \ dropped : ~Alive(n)
    BY <1>1 DEF OneReader, OldIsClosed
  <2> QED BY <1>1, <2>1 DEF Ending, Told, Alive
<1>4. NothingLeftOpen' /\ OldIsClosed' /\ Undisturbed'
  BY <1>1 DEF NothingLeftOpen, Opened, OldIsClosed, Closing, Undisturbed
<1>5. Quiet'
  <2>1. Newest' = Newest /\ (OldReader' <=> OldReader)
    BY <1>1 DEF Newest, Opened, OldReader, Alive
  <2> QED BY <1>1, <2>1 DEF Quiet
<1> QED BY <1>2, <1>3, <1>4, <1>5, <1>6

\* The new connection takes the place of one that is closed, or that disconnect() left.
LEMMA DialKeeps ==
  ASSUME EngineInv, Dial
  PROVE  EngineInv'
<1> USE ReaderNumbers DEF EngineInv
<1>1. CASE ~Throw
  <2> DEFINE new == Newest
  <2>1. /\ ui = "dial" /\ ui' = "start" /\ socket' = new /\ thread' = new
        /\ link' = [link EXCEPT ![new] = "up"] /\ pc' = [pc EXCEPT ![new] = "new"]
        /\ haunted' = IF OldReader THEN haunted \cup {new} ELSE haunted
        /\ UNCHANGED <<exitThread, wasAskedToDisconnect, checkingState, posted, lost, dropped, unwritten>>
    BY <1>1 DEF Dial, check
  <2>2. new \in Readers /\ link[new] = "none"
    BY <2>1, NewestIsNew DEF TypeOK, Opened
  <2> HIDE DEF new
  <2>3. /\ link' \in [Readers -> {"none", "up", "gone", "closed"}]
        /\ \A k \in Readers : link'[k] = IF k = new THEN "up" ELSE link[k]
        /\ pc' \in [Readers -> {"none", "new", "test", "fetch", "read", "handle", "catch", "tell", "post", "done"}]
        /\ \A n \in Readers : pc'[n] = IF n = new THEN "new" ELSE pc[n]
    BY <2>1, <2>2 DEF TypeOK
  <2>4. TypeOK'
    <3>1. new \in 0..MaxConnects /\ new # 0
      BY <2>2, BoundsAssumption DEF Readers
    <3> QED BY <2>1, <2>2, <2>3, <3>1 DEF TypeOK
  <2>5. \A n \in Readers : Alive(n)' <=> Alive(n) /\ n # new
    BY <2>3 DEF Alive
  <2>6. OneReader' /\ CheckGoesOn' /\ Quiet'
    BY <2>1, <2>5 DEF OneReader, CheckGoesOn, Quiet, OldIsClosed
  <2>10. Ending'
    BY <2>1, <2>2, <2>3 DEF Ending, Told
  <2>7. NothingLeftOpen'
    BY <2>1, <2>2, <2>3 DEF NothingLeftOpen, Opened, OldIsClosed, Closing
  <2>8. OldIsClosed'
    BY <2>1, <2>2, <2>3 DEF OldIsClosed, Closing
  <2>9. Undisturbed'
    <3> SUFFICES ASSUME new \notin haunted'
                 PROVE  /\ \A n \in Readers : ~Alive(n)'
                        /\ ~wasAskedToDisconnect' /\ ~exitThread' /\ pc'[new] # "done"
      BY <2>1 DEF Undisturbed
    <3>1. ~OldReader /\ new \notin haunted
      BY <2>1
    <3>2. ~exitThread /\ ~wasAskedToDisconnect
      BY <2>1, <3>1 DEF Quiet, new
    <3> QED BY <2>1, <2>2, <2>3, <2>5, <3>1, <3>2 DEF OldReader
  <2> QED BY <2>4, <2>6, <2>7, <2>8, <2>9, <2>10
<1>2. CASE Throw
  <2>1. UNCHANGED <<socket, thread, link, pc, haunted>>
    BY <1>2 DEF Dial, Throw
  <2> QED BY <1>2, <2>1, ThrowKeeps DEF Dial
<1> QED BY <1>1, <1>2

LEMMA StartReaderKeeps ==
  ASSUME EngineInv, StartReader
  PROVE  EngineInv'
<1> USE ReaderNumbers DEF EngineInv
<1>1. /\ ui = "start" /\ ui' = "idle" /\ thread \in Readers /\ socket = thread /\ checkingState' = FALSE
      /\ UNCHANGED <<socket, thread, exitThread, wasAskedToDisconnect, link, posted, lost, dropped, haunted,
                     unwritten>>
      /\ pc[thread] = "new" /\ (UNCHANGED pc \/ pc' = [pc EXCEPT ![thread] = "test"])
  BY DEF StartReader, FlagOff, OldIsClosed, TypeOK, fields, wire, history
<1>2. /\ pc' \in [Readers -> {"none", "new", "test", "fetch", "read", "handle", "catch", "tell", "post", "done"}]
      /\ \A n \in Readers : pc'[n] = pc[n] \/ (n = thread /\ pc'[n] = "test")
  BY <1>1 DEF TypeOK
<1>3. TypeOK'
  BY <1>1, <1>2 DEF TypeOK
<1>4. \A n \in Readers : Alive(n)' => Alive(n) \/ n = thread
  BY <1>2 DEF Alive
<1>5. OneReader' /\ CheckGoesOn' /\ Quiet'
  BY <1>1, <1>4 DEF OneReader, CheckGoesOn, Quiet
<1>8. Ending'
  <2>1. link[thread] # "none"
    BY <1>1 DEF TypeOK
  <2> QED BY <1>1, <1>2, <2>1 DEF Ending, Told
<1>6. NothingLeftOpen' /\ OldIsClosed'
  BY <1>1 DEF NothingLeftOpen, Opened, OldIsClosed, Closing
<1>7. Undisturbed'
  BY <1>1, <1>2, <1>4 DEF Undisturbed, Told
<1> QED BY <1>3, <1>5, <1>6, <1>7, <1>8

-----------------------------------------------------------------------------
(* disconnect() and the other calls.                                        *)

LEMMA DisconnectKeeps ==
  ASSUME EngineInv, Disconnect
  PROVE  EngineInv'
<1> USE ReaderNumbers DEF EngineInv
<1>1. /\ ui = "idle" /\ ui' = "drop"
      /\ UNCHANGED <<socket, thread, exitThread, checkingState, pc, posted, lost, dropped, haunted>>
  BY DEF Disconnect, check, reading
<1>2. CASE wasAskedToDisconnect' = TRUE /\ CloseOld /\ UNCHANGED unwritten
  <2>1. /\ link' \in [Readers -> {"none", "up", "gone", "closed"}]
        /\ \A k \in Readers : link'[k] = IF k = socket THEN "closed" ELSE link[k]
        /\ Opened' = Opened
    BY <1>2, OldClosed
  <2>2. socket # 0 => link'[socket] # "none"
    BY <2>1 DEF TypeOK
  <2>3. TypeOK'
    BY <1>1, <1>2, <2>1, <2>2 DEF TypeOK
  <2>4. OneReader' /\ CheckGoesOn' /\ Quiet'
    BY <1>1, <1>2 DEF OneReader, Alive, CheckGoesOn, Quiet
  <2>7. Ending'
    BY <1>1, <1>2, <2>1, <2>2 DEF Ending, Told, TypeOK
  <2>5. NothingLeftOpen'
    BY <1>1, <1>2, <2>1 DEF NothingLeftOpen, Opened
  <2>6. OldIsClosed' /\ Undisturbed'
    BY <1>1, <1>2, <2>1 DEF OldIsClosed, Closing, Undisturbed, TypeOK
  <2> QED BY <2>3, <2>4, <2>5, <2>6, <2>7
<1>3. CASE /\ unwritten' = IF socket = 0 THEN unwritten ELSE unwritten \cup {socket}
           /\ UNCHANGED <<wasAskedToDisconnect, link>>
  <2>1. TypeOK'
    BY <1>1, <1>3 DEF TypeOK
  <2>2. OneReader' /\ CheckGoesOn' /\ Ending' /\ Quiet'
    BY <1>1, <1>3 DEF OneReader, Alive, CheckGoesOn, Ending, Told, Quiet
  <2>3. NothingLeftOpen' /\ OldIsClosed' /\ Undisturbed'
    BY <1>1, <1>3 DEF NothingLeftOpen, Opened, OldIsClosed, Closing, Undisturbed, Told, Alive
  <2> QED BY <2>1, <2>2, <2>3
<1> QED BY <1>2, <1>3 DEF Disconnect

LEMMA ForgetKeeps ==
  ASSUME EngineInv, Forget
  PROVE  EngineInv'
<1> USE ReaderNumbers DEF EngineInv
<1>1. /\ ui = "drop" /\ ui' = "idle" /\ exitThread' = TRUE /\ socket' = 0 /\ thread' = 0
      /\ dropped' = IF thread = 0 THEN dropped ELSE dropped \cup {thread}
      /\ UNCHANGED <<wasAskedToDisconnect, checkingState, pc, link, posted, lost, haunted, unwritten>>
  BY DEF Forget, check, reading, wire
<1>2. TypeOK'
  <2>1. 0 \in 0..MaxConnects
    BY BoundsAssumption
  <2> QED BY <1>1, <2>1 DEF TypeOK
<1>3. OneReader'
  <2> SUFFICES ASSUME NEW n \in Readers, Alive(n) PROVE n \in dropped'
    BY <1>1 DEF OneReader, Alive
  <2>1. n = thread \/ n \in dropped
    BY DEF OneReader
  <2> QED BY <1>1, <2>1
<1>5. CheckGoesOn' /\ Ending' /\ Quiet'
  BY <1>1 DEF CheckGoesOn, Ending, Told, Quiet
<1>4. NothingLeftOpen' /\ OldIsClosed' /\ Undisturbed'
  BY <1>1 DEF NothingLeftOpen, Opened, OldIsClosed, Closing, Undisturbed
<1> QED BY <1>2, <1>3, <1>4, <1>5

\* Steps that leave the connection, its reader and the flags alone; the server may close
\* a connection, the report that waits may be run.
LEMMA QuietKeeps ==
  ASSUME EngineInv,
         UNCHANGED <<socket, thread, exitThread, wasAskedToDisconnect, checkingState, ui, pc,
                     dropped, haunted, unwritten>>,
         posted' \cup lost' = posted \cup lost,
         link' \in [Readers -> {"none", "up", "gone", "closed"}],
         \A k \in Readers : link'[k] = link[k] \/ (link[k] = "up" /\ link'[k] = "gone")
  PROVE  EngineInv'
<1> USE ReaderNumbers DEF EngineInv
<1>1. \A k \in Readers : (link'[k] = "none" <=> link[k] = "none") /\ (link'[k] = "closed" <=> link[k] = "closed")
  OBVIOUS
<1>2. Opened' = Opened
  BY <1>1 DEF Opened
<1>3. TypeOK'
  <2>1. socket # 0 => link'[socket] # "none"
    BY <1>1 DEF TypeOK
  <2> QED BY <1>2, <2>1 DEF TypeOK
<1>4. OneReader' /\ CheckGoesOn'
  BY DEF OneReader, Alive, CheckGoesOn
<1>9. \A n \in Readers : Told(n)' <=> Told(n)
  BY Zenon DEF Told
<1>10. Ending'
  BY <1>1, <1>9 DEF Ending
<1>5. NothingLeftOpen'
  BY <1>1, <1>2 DEF NothingLeftOpen, Opened
<1>6. OldIsClosed'
  BY <1>1 DEF OldIsClosed, Closing, TypeOK
<1>7. Undisturbed'
  BY <1>9 DEF Undisturbed, Alive
<1>8. Quiet'
  <2>1. Newest' = Newest
    BY <1>2 DEF Newest
  <2> QED BY <2>1 DEF Quiet, OldReader, Alive
<1> QED BY <1>3, <1>4, <1>5, <1>6, <1>7, <1>8, <1>10

-----------------------------------------------------------------------------
(* The reader threads.                                                      *)

\* A reader moves on.  What it does to exitThread and to what it has told is what a
\* connection that it has to itself allows.
LEMMA ReaderKeeps ==
  ASSUME EngineInv, NEW n \in Readers, Alive(n),
         NEW to \in {"test", "fetch", "read", "handle", "catch", "tell", "post", "done"},
         pc' = [pc EXCEPT ![n] = to],
         UNCHANGED <<socket, thread, wasAskedToDisconnect, checkingState, ui, link,
                     lost, haunted, unwritten>>,
         exitThread' \in BOOLEAN, exitThread => exitThread',
         dropped' = dropped \/ (to = "done" /\ dropped' = dropped \ {n}),
         posted' = posted \/ (pc[n] = "post" /\ to = "test" /\ posted' = posted \cup {n}),
         n \notin dropped /\ to \in {"tell", "post"} => exitThread',
         pc[n] = "test" /\ exitThread => to = "done",
         ~wasAskedToDisconnect /\ (exitThread => pc[n] \in {"tell", "post"} \/ Told(n)) =>
           /\ exitThread' => to \in {"tell", "post"} \/ Told(n)'
           /\ to = "done" => Told(n)'
  PROVE  EngineInv'
<1> USE ReaderNumbers DEF EngineInv
<1>1. /\ pc' \in [Readers -> {"none", "new", "test", "fetch", "read", "handle", "catch", "tell", "post", "done"}]
      /\ \A m \in Readers : pc'[m] = IF m = n THEN to ELSE pc[m]
  BY DEF TypeOK
<1>2. TypeOK'
  BY <1>1 DEF TypeOK, Opened
<1>3. \A m \in Readers : Alive(m)' => Alive(m) /\ (m = n => to # "done")
  BY <1>1 DEF Alive
<1>4. OneReader'
  BY <1>3 DEF OneReader
<1>5. CheckGoesOn' /\ NothingLeftOpen'
  BY DEF CheckGoesOn, NothingLeftOpen, Opened
<1>6. OldIsClosed'
  BY <1>1 DEF OldIsClosed, Closing, Alive, TypeOK
<1>9. \A m \in Readers : (Told(m) => Told(m)') /\ (m # n => (Told(m)' => Told(m)))
  BY DEF Told
<1>10. Ending'
  <2> SUFFICES ASSUME NEW m \in Readers
               PROVE  /\ link[m] = "none" => pc'[m] = "none" /\ ~Told(m)'
                      /\ m \notin dropped' =>
                           /\ pc'[m] \in {"tell", "post"} => exitThread'
                           /\ Told(m)' => pc'[m] = "done" \/ (pc'[m] = "test" /\ exitThread')
    BY DEF Ending
  <2>1. CASE m # n
    BY <1>1, <1>9, <2>1 DEF Ending
  <2>2. CASE m = n
    <3>1. link[n] # "none"
      BY DEF Ending, Alive
    <3>2. ASSUME n \notin dropped', Told(n)' PROVE to = "done" \/ (to = "test" /\ exitThread')
      <4>1. CASE to = "done"
        BY <4>1
      <4>2. CASE to # "done" /\ Told(n)
        BY <3>2, <4>2 DEF Ending, Alive
      <4>3. CASE to # "done" /\ ~Told(n)
        BY <3>2, <4>3 DEF Ending, Told
      <4> QED BY <4>1, <4>2, <4>3
    <3> QED BY <1>1, <2>2, <3>1, <3>2
  <2> QED BY <2>1, <2>2
<1>7. Undisturbed'
  BY <1>1, <1>3, <1>9 DEF Undisturbed
<1>8. Quiet'
  <2>1. Newest' = Newest
    BY DEF Newest, Opened
  <2> QED BY <2>1 DEF Quiet, OldReader, Alive
<1> QED BY <1>2, <1>4, <1>5, <1>6, <1>7, <1>8, <1>10

LEMMA ReaderStepKeeps ==
  ASSUME EngineInv, NEW n \in Readers, Reader(n)
  PROVE  EngineInv'
<1> USE DEF Alive, fields, check, wire, history
<1>0. exitThread \in BOOLEAN
  BY DEF EngineInv, TypeOK
<1>1. CASE TestExit(n)
  <2>1. CASE exitThread
    BY <1>0, <1>1, <2>1, ReaderKeeps DEF TestExit, Told
  <2>2. CASE ~exitThread
    BY <1>0, <1>1, <2>2, ReaderKeeps DEF TestExit
  <2> QED BY <2>1, <2>2
<1>2. CASE FetchReader(n)
  BY <1>0, <1>2, ReaderKeeps DEF FetchReader, Told
<1>3. CASE ReadPacket(n)
  <2>1. PICK to \in {"handle", "catch"} : pc' = [pc EXCEPT ![n] = to]
    BY <1>3 DEF ReadPacket
  <2> QED BY <1>0, <1>3, <2>1, ReaderKeeps DEF ReadPacket, Told
<1>4. CASE ReadEnd(n)
  BY <1>0, <1>4, ReaderKeeps DEF ReadEnd, Told
<1>5. CASE Handle(n)
  BY <1>0, <1>5, ReaderKeeps DEF Handle, Told
<1>6. CASE Catch(n)
  BY <1>6, ReaderKeeps DEF Catch, At, AskToExit
<1>7. CASE DidDisconnectLogic(n)
  <2>1. n \notin dropped => exitThread
    BY <1>7 DEF EngineInv, Ending, DidDisconnectLogic, At
  <2>2. CASE wasAskedToDisconnect
    BY <1>0, <1>7, <2>2, ReaderKeeps DEF DidDisconnectLogic, At
  <2>3. CASE ~wasAskedToDisconnect
    BY <1>0, <1>7, <2>1, <2>3, ReaderKeeps DEF DidDisconnectLogic, At
  <2> QED BY <2>2, <2>3
<1>8. CASE PostLoss(n)
  BY <1>0, <1>8, ReaderKeeps DEF PostLoss, At, Told
<1> QED BY <1>1, <1>2, <1>3, <1>4, <1>5, <1>6, <1>7, <1>8 DEF Reader

-----------------------------------------------------------------------------
(* Every step.                                                              *)

LEMMA Step == ASSUME EngineInv, [Next]_vars PROVE EngineInv'
<1> USE DEF fields, check, reading, wire, history
<1>1. CASE Call
  <2>1. CASE Connect
    BY <2>1, BeginConnectKeeps DEF Connect, EngineInv, TypeOK
  <2>2. CASE Register \/ CheckState
    BY <2>2, QuietKeeps DEF Register, CheckState, EngineInv, TypeOK
  <2>3. CASE OnLocationChanged
    BY <2>3, BeginConnectKeeps, QuietKeeps DEF OnLocationChanged, EngineInv, TypeOK
  <2> QED BY <1>1, <2>1, <2>2, <2>3, DisconnectKeeps DEF Call
<1>2. CASE Return
  BY <1>2, StopOldKeeps, ResetFlagsKeeps, DialKeeps, StartReaderKeeps, ForgetKeeps DEF Return
<1>3. CASE \E n \in Readers : Reader(n)
  BY <1>3, ReaderStepKeeps
<1>4. CASE ServerSends
  BY <1>4, QuietKeeps DEF ServerSends, EngineInv, TypeOK
<1>5. CASE ServerCloses
  <2>1. PICK k \in Readers : link[k] = "up" /\ link' = [link EXCEPT ![k] = "gone"]
    BY <1>5 DEF ServerCloses
  <2>2. /\ link' \in [Readers -> {"none", "up", "gone", "closed"}]
        /\ \A m \in Readers : link'[m] = link[m] \/ (link[m] = "up" /\ link'[m] = "gone")
    BY <2>1 DEF EngineInv, TypeOK
  <2> QED BY <1>5, <2>2, QuietKeeps DEF ServerCloses
<1>6. CASE ReportLoss
  <2>1. posted' \cup lost' = posted \cup lost
    BY <1>6 DEF ReportLoss
  <2> QED BY <1>6, <2>1, QuietKeeps DEF ReportLoss, EngineInv, TypeOK
<1>7. CASE UNCHANGED vars
  BY <1>7, QuietKeeps DEF vars, EngineInv, TypeOK
<1> QED BY <1>1, <1>2, <1>3, <1>4, <1>5, <1>6, <1>7 DEF Next

LEMMA Invariant == Spec => []EngineInv
<1> QED BY InitHolds, Step, PTL DEF Spec

\* connect() alone never leaves two reader threads alive: Thread.stop, which it calls
\* on one that is, throws.
THEOREM NeverTwoReaders == Spec => []OneReader
<1>1. EngineInv => OneReader
  BY DEF EngineInv
<1> QED BY <1>1, Invariant, PTL

\* However it ends, an availability check clears checkingState, which would keep the
\* next connect() from starting its reader.
THEOREM ChecksEnd == Spec => []CheckIsOver
<1>1. EngineInv => CheckIsOver
  BY DEF EngineInv, CheckGoesOn, CheckIsOver
<1> QED BY <1>1, Invariant, PTL

\* connect() and disconnect() leave no connection open behind them, but for the one whose
\* unregister request could not be written.
THEOREM LeavesNoneOpen == Spec => []NothingLeftOpen
<1>1. EngineInv => NothingLeftOpen
  BY DEF EngineInv
<1> QED BY <1>1, Invariant, PTL

\* A reader that gives up a connection that is still the engine's has told the application,
\* whatever checks and calls came before, unless an older reader was alive.
THEOREM DeafnessIsTold == Spec => []NeverDeaf
<1>1. EngineInv => NeverDeaf
  BY DEF EngineInv, Undisturbed, NeverDeaf
<1> QED BY <1>1, Invariant, PTL

\* A reader that nobody has given up reports one loss at most, whatever connects and
\* disconnects come between: it is told by its own order to exit, which all readers share.
THEOREM TellsOnce == Spec => []ToldOnce
<1>1. EngineInv => ToldOnce
  BY DEF EngineInv, Ending, ToldOnce
<1> QED BY <1>1, Invariant, PTL

-----------------------------------------------------------------------------
(* The way of a packet: it comes in on its connection, is in the hands of the *)
(* reader that has read it, and is reported.  Packets are known by their      *)
(* connection and number.                                                     *)

Received == [conn : Readers, nr : Nat, kind : Packets]

PacketTypes ==
  /\ sent \in [Readers -> Seq(Received)] /\ heard \in [Readers -> Seq(Received)]
  /\ inbox \in [Readers -> Seq(Received)] /\ got \in [Readers -> Seq(Received)]
  /\ on \in [Readers -> 0..MaxConnects] /\ registered \subseteq Readers /\ mixed \subseteq Readers
  /\ \A r \in Readers : pc[r] \in {"read", "handle"} => on[r] # 0
  /\ \A r \in Readers : pc[r] = "handle" => got[r] # <<>>

Heard(k, n)   == \E i \in DOMAIN heard[k] : heard[k][i].nr = n
Holds(r, k)   == pc[r] = "handle" /\ on[r] = k
InHand(k, n)  == \E r \in Readers : Holds(r, k) /\ got[r][1].nr = n
Waiting(k, n) == \E i \in DOMAIN inbox[k] : inbox[k][i].nr = n
Present(k, n) == Heard(k, n) \/ InHand(k, n) \/ Waiting(k, n)

\* Whatever threads there are, a packet is what the server sent on its connection.
IsSent(k, p) == p.nr \in DOMAIN sent[k] /\ p = sent[k][p.nr] /\ p.conn = k
Genuine ==
  \A k \in Readers :
    /\ \A i \in DOMAIN heard[k] : IsSent(k, heard[k][i]) /\ Reported(heard[k][i])
    /\ \A i \in DOMAIN inbox[k] : IsSent(k, inbox[k][i])
    /\ \A r \in Readers :
         Holds(r, k) => IsSent(k, got[r][1]) /\ CallbackOf[got[r][1].kind] # "throws"

\* Nothing has been done with a connection that was not opened.
Fresh ==
  \A k \in Readers : link[k] = "none" =>
    sent[k] = <<>> /\ pc[k] = "none" /\ k \notin mixed /\ \A r \in Readers : on[r] # k

\* The stream of a connection that no older reader could reach is in the hands of its
\* own reader only.
Own ==
  \A k \in Readers \ haunted :
    /\ socket = k => \A r \in Readers : Alive(r) => r = k
    /\ \A r \in Readers : on[r] = k => r = k
    /\ k \notin mixed

InboxSorted == \A k \in Readers : \A i, j \in DOMAIN inbox[k] : i < j => inbox[k][i].nr < inbox[k][j].nr
HeardSorted ==
  \A k \in Readers \ haunted : \A i, j \in DOMAIN heard[k] : i < j => heard[k][i].nr < heard[k][j].nr

\* What was reported is before what is in hand, and that before what waits; nothing to
\* report is missing in between, and of a connection that is up nothing at all.
Staged ==
  \A k \in Readers \ haunted : \A n, m \in DOMAIN sent[k] :
    /\ Heard(k, n) /\ (InHand(k, m) \/ Waiting(k, m)) => n < m
    /\ InHand(k, n) /\ Waiting(k, m) => n < m

Gapless ==
  \A k \in Readers \ haunted : \A n \in DOMAIN sent[k] : Reported(sent[k][n]) =>
    /\ link[k] = "up" => Present(k, n)
    /\ \A m \in DOMAIN sent[k] : n < m /\ Present(k, m) => Present(k, n)

OrderInv == PacketTypes /\ Genuine /\ Fresh /\ Own /\ InboxSorted /\ HeardSorted /\ Staged /\ Gapless

-----------------------------------------------------------------------------
LEMMA HeadAndTail ==
  ASSUME NEW S, NEW q \in Seq(S), q # <<>>
  PROVE  /\ 1 \in DOMAIN q /\ Head(q) = q[1] /\ q[1] \in S /\ Tail(q) \in Seq(S)
         /\ \A i \in DOMAIN Tail(q) : i \in Nat /\ i + 1 \in DOMAIN q \ {1} /\ Tail(q)[i] = q[i + 1]
         /\ \A i \in DOMAIN q \ {1} : 1 < i /\ i - 1 \in DOMAIN Tail(q) /\ Tail(q)[i - 1] = q[i]
<1>1. Len(q) \in Nat \ {0} /\ DOMAIN q = 1..Len(q)
  OBVIOUS
<1>2. /\ Tail(q) \in Seq(S) /\ DOMAIN Tail(q) = 1..Len(q) - 1
      /\ \A i \in 1..Len(q) - 1 : Tail(q)[i] = q[i + 1]
  BY <1>1
<1> QED BY <1>1, <1>2

LEMMA Appended ==
  ASSUME NEW S, NEW q \in Seq(S), NEW p \in S
  PROVE  /\ Append(q, p) \in Seq(S) /\ Len(q) \in Nat /\ DOMAIN q = 1..Len(q)
         /\ DOMAIN Append(q, p) = 1..Len(q) + 1 /\ Append(q, p)[Len(q) + 1] = p
         /\ \A i \in DOMAIN q : i \in DOMAIN Append(q, p) /\ Append(q, p)[i] = q[i] /\ i < Len(q) + 1
         /\ \A i \in DOMAIN Append(q, p) : i = Len(q) + 1 \/ i \in DOMAIN q
<1>1. Len(q) \in Nat /\ DOMAIN q = 1..Len(q)
  OBVIOUS
<1>2. /\ Append(q, p) \in Seq(S) /\ DOMAIN Append(q, p) = 1..Len(q) + 1
      /\ Append(q, p)[Len(q) + 1] = p /\ \A i \in 1..Len(q) : Append(q, p)[i] = q[i]
  OBVIOUS
<1> QED BY <1>1, <1>2

LEMMA SentTypes ==
  ASSUME PacketTypes, NEW k \in Readers, NEW p, IsSent(k, p)
  PROVE  p \in Received /\ p.nr \in Nat /\ p.conn = k
<1>1. sent[k] \in Seq(Received)
  BY DEF PacketTypes
<1>2. \A n \in DOMAIN sent[k] : n \in Nat /\ sent[k][n] \in Received
  BY <1>1
<1> QED BY <1>2 DEF IsSent

LEMMA OrderAtInit == Init => OrderInv
<1> SUFFICES ASSUME Init PROVE OrderInv
  OBVIOUS
<1>1. \A k \in Readers :
        /\ sent[k] = <<>> /\ DOMAIN sent[k] = {} /\ DOMAIN heard[k] = {} /\ DOMAIN inbox[k] = {}
        /\ pc[k] = "none" /\ on[k] = 0
  BY DEF Init
<1>2. PacketTypes
  <2>1. <<>> \in Seq(Received) /\ 0 \in 0..MaxConnects
    BY BoundsAssumption
  <2> QED BY <2>1, <1>1 DEF Init, PacketTypes
<1>3. Genuine /\ Fresh /\ Own
  BY <1>1, ReaderNumbers DEF Init, Genuine, Fresh, Own, Holds, Alive
<1> QED BY <1>1, <1>2, <1>3 DEF OrderInv, InboxSorted, HeardSorted, Staged, Gapless

\* Steps that take no packet from one place to another; what waits on a connection that
\* is closed is dropped, and a connection that was not opened may be haunted or not.
LEMMA StillOrdered ==
  ASSUME OrderInv, PacketTypes', Fresh', Own', UNCHANGED <<sent, heard>>,
         \A r, k \in Readers : Holds(r, k)' <=> Holds(r, k),
         \A r \in Readers : pc[r] = "handle" => got'[r] = got[r],
         \A k \in Readers : inbox'[k] = inbox[k] \/ (inbox'[k] = <<>> /\ link'[k] = "closed"),
         \A k \in Readers : link'[k] = "up" => link[k] \in {"none", "up"},
         \A k \in Readers \ haunted' : k \in haunted => link[k] = "none"
  PROVE  OrderInv'
<1>1. \A r, k \in Readers : Holds(r, k) => got'[r] = got[r]
  BY DEF Holds
<1>2. \A k \in Readers : \A n : (InHand(k, n)' <=> InHand(k, n)) /\ (Heard(k, n)' <=> Heard(k, n))
  BY <1>1 DEF InHand, Heard
<1>3. \A k \in Readers : \A n : Waiting(k, n)' => Waiting(k, n) /\ inbox'[k] = inbox[k]
  BY DEF Waiting
<1>4. \A k \in Readers : \A n : Waiting(k, n) /\ inbox'[k] = inbox[k] => Waiting(k, n)'
  BY DEF Waiting
<1>5. Genuine'
  <2> SUFFICES ASSUME NEW k \in Readers
               PROVE  /\ \A i \in DOMAIN heard[k] : IsSent(k, heard[k][i]) /\ Reported(heard[k][i])
                      /\ \A i \in DOMAIN inbox'[k] : IsSent(k, inbox'[k][i])
                      /\ \A r \in Readers : Holds(r, k) =>
                           IsSent(k, got[r][1]) /\ CallbackOf[got[r][1].kind] # "throws"
    BY <1>1 DEF Genuine, IsSent, Reported
  <2> QED BY DEF OrderInv, Genuine
<1>6. InboxSorted'
  BY DEF OrderInv, InboxSorted
<1>7. ASSUME NEW k \in Readers \ haunted'
      PROVE  /\ \A i, j \in DOMAIN heard[k] : i < j => heard[k][i].nr < heard[k][j].nr
             /\ \A n, m \in DOMAIN sent[k] :
                  /\ Heard(k, n)' /\ (InHand(k, m)' \/ Waiting(k, m)') => n < m
                  /\ InHand(k, n)' /\ Waiting(k, m)' => n < m
             /\ \A n \in DOMAIN sent[k] : Reported(sent[k][n]) =>
                  /\ link'[k] = "up" => Present(k, n)'
                  /\ \A m \in DOMAIN sent[k] : n < m /\ Present(k, m)' => Present(k, n)'
  <2>1. CASE link[k] = "none"
    <3>1. sent[k] = <<>> /\ DOMAIN sent[k] = {} /\ DOMAIN heard[k] = {}
      BY <2>1 DEF OrderInv, Fresh, Genuine, IsSent
    <3> QED BY <3>1
  <2>2. CASE link[k] # "none"
    <3>1. k \in Readers \ haunted
      BY <2>2
    <3>2. /\ \A i, j \in DOMAIN heard[k] : i < j => heard[k][i].nr < heard[k][j].nr
          /\ \A n, m \in DOMAIN sent[k] :
                  /\ Heard(k, n)' /\ (InHand(k, m)' \/ Waiting(k, m)') => n < m
                  /\ InHand(k, n)' /\ Waiting(k, m)' => n < m
      BY <1>2, <1>3, <3>1 DEF OrderInv, HeardSorted, Staged
    <3>3. ASSUME NEW n \in DOMAIN sent[k], Reported(sent[k][n]), link'[k] = "up"
          PROVE  Present(k, n)'
      <4>1. Present(k, n) /\ inbox'[k] = inbox[k]
        BY <2>2, <3>1, <3>3 DEF OrderInv, Gapless
      <4> QED BY <1>2, <1>4, <4>1 DEF Present
    <3>4. ASSUME NEW n \in DOMAIN sent[k], Reported(sent[k][n]), NEW m \in DOMAIN sent[k], n < m, Present(k, m)'
          PROVE  Present(k, n)'
      <4>1. Present(k, m)
        BY <1>2, <1>3, <3>4 DEF Present
      <4>2. Present(k, n)
        BY <3>1, <3>4, <4>1 DEF OrderInv, Gapless
      <4>3. CASE inbox'[k] = inbox[k]
        BY <1>2, <1>4, <4>2, <4>3 DEF Present
      <4>4. CASE inbox'[k] # inbox[k]
        <5>1. Heard(k, m) \/ InHand(k, m)
          BY <1>2, <1>3, <3>4, <4>4 DEF Present
        <5>2. Waiting(k, n) => m < n
          BY <3>1, <5>1 DEF OrderInv, Staged
        <5>3. n \in Nat /\ m \in Nat
          <6>1. sent[k] \in Seq(Received)
            BY DEF OrderInv, PacketTypes
          <6> QED BY <6>1
        <5> QED BY <1>2, <3>4, <4>2, <5>2, <5>3 DEF Present
      <4> QED BY <4>3, <4>4
    <3> QED BY <3>2, <3>3, <3>4
  <2> QED BY <2>1, <2>2
<1>8. HeardSorted' /\ Staged'
  BY <1>7 DEF HeardSorted, Staged
<1>9. Gapless'
  BY <1>7 DEF Gapless, Reported
<1> QED BY <1>5, <1>6, <1>8, <1>9 DEF OrderInv

\* The first of what waits is taken by the reader that has the stream.  It is not kept
\* only when it cannot be reported.
LEMMA ReadPacketOrders ==
  ASSUME TypeOK, OrderInv, NEW r \in Readers, ReadPacket(r)
  PROVE  OrderInv'
<1>1. PICK k \in Readers : k = on[r] /\ pc[r] = "read" /\ inbox[k] # <<>> /\ link[k] \in {"up", "gone"}
  BY ReaderNumbers DEF ReadPacket, OrderInv, PacketTypes
<1>2. inbox[k] \in Seq(Received) /\ inbox \in [Readers -> Seq(Received)] /\ got \in [Readers -> Seq(Received)]
  BY <1>1 DEF OrderInv, PacketTypes
<1>3. PICK p \in Received : p = inbox[k][1] /\ Head(inbox[k]) = p /\ 1 \in DOMAIN inbox[k]
  BY <1>1, <1>2, HeadAndTail
<1> DEFINE kept == CallbackOf[p.kind] # "throws" /\ got' = [got EXCEPT ![r] = <<p>>]
                     /\ pc' = [pc EXCEPT ![r] = "handle"]
           refused == (CallbackOf[p.kind] = "throws" \/ k \in mixed) /\ pc' = [pc EXCEPT ![r] = "catch"]
                        /\ UNCHANGED got
<1>4. /\ UNCHANGED <<socket, on, mixed, link, registered, sent, heard, haunted>>
      /\ inbox' = [inbox EXCEPT ![k] = Tail(@)] /\ (kept \/ refused)
  BY <1>1, <1>3 DEF ReadPacket, Taken, fields, history
<1>5. /\ \A x \in Readers \ {k} : inbox'[x] = inbox[x]
      /\ inbox' \in [Readers -> Seq(Received)]
      /\ \A i \in DOMAIN inbox'[k] :
           i \in Nat /\ i + 1 \in DOMAIN inbox[k] \ {1} /\ inbox'[k][i] = inbox[k][i + 1]
      /\ \A i \in DOMAIN inbox[k] \ {1} :
           1 < i /\ i - 1 \in DOMAIN inbox'[k] /\ inbox'[k][i - 1] = inbox[k][i]
  <2>1. inbox'[k] = Tail(inbox[k]) /\ \A x \in Readers \ {k} : inbox'[x] = inbox[x]
    BY <1>1, <1>2, <1>4
  <2>2. /\ Tail(inbox[k]) \in Seq(Received)
        /\ \A i \in DOMAIN Tail(inbox[k]) :
             i \in Nat /\ i + 1 \in DOMAIN inbox[k] \ {1} /\ Tail(inbox[k])[i] = inbox[k][i + 1]
        /\ \A i \in DOMAIN inbox[k] \ {1} :
             1 < i /\ i - 1 \in DOMAIN Tail(inbox[k]) /\ Tail(inbox[k])[i - 1] = inbox[k][i]
    BY <1>1, <1>2, HeadAndTail
  <2>3. inbox' \in [Readers -> Seq(Received)]
    BY <1>2, <1>4, <2>2
  <2> QED BY <2>1, <2>2, <2>3, Zenon
<1>6. IsSent(k, p) /\ p.nr \in Nat /\ Waiting(k, p.nr) /\ p.nr \in DOMAIN sent[k] /\ sent[k][p.nr] = p
  BY <1>1, <1>3, SentTypes DEF OrderInv, Genuine, Waiting, IsSent
<1>7. \A i \in DOMAIN inbox[k] \ {1} : p.nr < inbox[k][i].nr /\ p.nr # inbox[k][i].nr
  <2> SUFFICES ASSUME NEW i \in DOMAIN inbox[k] \ {1} PROVE p.nr < inbox[k][i].nr /\ p.nr # inbox[k][i].nr
    OBVIOUS
  <2>1. p.nr < inbox[k][i].nr
    BY <1>1, <1>3, <1>5 DEF OrderInv, InboxSorted
  <2>2. inbox[k][i].nr \in Nat
    BY <1>1, SentTypes DEF OrderInv, Genuine
  <2> QED BY <1>6, <2>1, <2>2
<1>8. /\ pc'[r] \in {"handle", "catch"} /\ \A x \in Readers \ {r} : pc'[x] = pc[x] /\ got'[x] = got[x]
      /\ kept => pc'[r] = "handle" /\ got'[r] = <<p>> /\ got'[r] # <<>>
      /\ refused => pc'[r] = "catch"
      /\ got' \in [Readers -> Seq(Received)]
  <2>1. CASE kept
    <3>1. <<p>> \in Seq(Received) /\ <<p>> # <<>>
      OBVIOUS
    <3> QED BY <1>2, <2>1, <3>1 DEF TypeOK
  <2>2. CASE refused
    BY <1>2, <2>2 DEF TypeOK
  <2> QED BY <1>4, <2>1, <2>2
<1>9. \A x, y \in Readers : Holds(x, y)' <=> Holds(x, y) \/ (x = r /\ y = k /\ kept)
  BY <1>1, <1>4, <1>8 DEF Holds
<1>10. \A x, y \in Readers : Holds(x, y) => got'[x] = got[x]
  BY <1>1, <1>8 DEF Holds
<1>11. kept => got'[r][1] = p
  BY <1>8
<1> HIDE DEF kept, refused
<1>12. \A y \in Readers : \A n : InHand(y, n)' <=> InHand(y, n) \/ (y = k /\ n = p.nr /\ kept)
  BY <1>9, <1>10, <1>11 DEF InHand
<1>13. \A y \in Readers : \A n : Heard(y, n)' <=> Heard(y, n)
  BY <1>4 DEF Heard
<1>14. \A y \in Readers : \A n : Waiting(y, n)' <=> Waiting(y, n) /\ (y = k => n # p.nr)
  <2> SUFFICES ASSUME NEW y \in Readers, NEW n PROVE Waiting(y, n)' <=> Waiting(y, n) /\ (y = k => n # p.nr)
    OBVIOUS
  <2>1. CASE y # k
    BY <1>5, <2>1 DEF Waiting
  <2>2. CASE y = k
    <3>1. Waiting(k, n)' => Waiting(k, n) /\ n # p.nr
      BY <1>3, <1>5, <1>7 DEF Waiting
    <3>2. Waiting(k, n) /\ n # p.nr => Waiting(k, n)'
      BY <1>3, <1>5 DEF Waiting
    <3> QED BY <2>2, <3>1, <3>2
  <2> QED BY <2>1, <2>2
<1>15. PacketTypes'
  <2>1. \A x \in Readers : pc'[x] \in {"read", "handle"} => on'[x] # 0
    BY <1>1, <1>4, <1>8, ReaderNumbers DEF OrderInv, PacketTypes
  <2>2. \A x \in Readers : pc'[x] = "handle" => got'[x] # <<>>
    <3>1. kept => got'[r] # <<>>
      BY <1>8
    <3> QED BY <1>4, <1>8, <3>1 DEF OrderInv, PacketTypes
  <2> QED BY <1>4, <1>5, <1>8, <2>1, <2>2 DEF OrderInv, PacketTypes
<1>16. Fresh'
  BY <1>1, <1>4, <1>8 DEF OrderInv, Fresh
<1>17. Own'
  <2>1. \A x \in Readers : Alive(x)' => Alive(x)
    BY <1>1, <1>8 DEF Alive
  <2> QED BY <1>4, <2>1 DEF OrderInv, Own
<1>18. Genuine'
  <2> SUFFICES ASSUME NEW y \in Readers
               PROVE  /\ \A i \in DOMAIN heard[y] : IsSent(y, heard[y][i]) /\ Reported(heard[y][i])
                      /\ \A i \in DOMAIN inbox'[y] : IsSent(y, inbox'[y][i])
                      /\ \A x \in Readers : Holds(x, y)' =>
                           IsSent(y, got'[x][1]) /\ CallbackOf[got'[x][1].kind] # "throws"
    BY <1>4 DEF Genuine, IsSent, Reported
  <2>1. \A i \in DOMAIN heard[y] : IsSent(y, heard[y][i]) /\ Reported(heard[y][i])
    BY DEF OrderInv, Genuine
  <2>2. \A i \in DOMAIN inbox'[y] : IsSent(y, inbox'[y][i])
    BY <1>3, <1>5 DEF OrderInv, Genuine
  <2>3. \A x \in Readers : Holds(x, y)' => IsSent(y, got'[x][1]) /\ CallbackOf[got'[x][1].kind] # "throws"
    <3>1. kept => CallbackOf[p.kind] # "throws"
      BY DEF kept
    <3> QED BY <1>6, <1>9, <1>10, <1>11, <3>1 DEF OrderInv, Genuine
  <2> QED BY <2>1, <2>2, <2>3
<1>19. InboxSorted'
  <2> SUFFICES ASSUME NEW y \in Readers, NEW i \in DOMAIN inbox'[y], NEW j \in DOMAIN inbox'[y], i < j
               PROVE  inbox'[y][i].nr < inbox'[y][j].nr
    BY DEF InboxSorted
  <2>1. CASE y = k
    <3>1. i + 1 < j + 1
      BY <1>3, <1>5, <2>1
    <3> QED BY <1>3, <1>5, <2>1, <3>1 DEF OrderInv, InboxSorted
  <2>2. CASE y # k
    BY <1>5, <2>2 DEF OrderInv, InboxSorted
  <2> QED BY <2>1, <2>2
<1>20. HeardSorted'
  BY <1>4 DEF OrderInv, HeardSorted
<1>21. Staged'
  <2> SUFFICES ASSUME NEW y \in Readers \ haunted, NEW n \in DOMAIN sent[y], NEW m \in DOMAIN sent[y]
               PROVE  /\ Heard(y, n)' /\ (InHand(y, m)' \/ Waiting(y, m)') => n < m
                      /\ InHand(y, n)' /\ Waiting(y, m)' => n < m
    BY <1>4 DEF Staged
  <2>1. Heard(y, n)' /\ (InHand(y, m)' \/ Waiting(y, m)') => n < m
    BY <1>6, <1>12, <1>13, <1>14 DEF OrderInv, Staged
  <2>2. CASE y = k /\ n = p.nr /\ Waiting(y, m)'
    <3>1. PICK i \in DOMAIN inbox[k] : inbox[k][i].nr = m /\ m # p.nr
      BY <1>14, <2>2 DEF Waiting
    <3>2. i # 1
      BY <1>3, <3>1
    <3> QED BY <1>7, <2>1, <2>2, <3>1, <3>2
  <2>3. CASE ~(y = k /\ n = p.nr)
    BY <1>12, <1>14, <2>1, <2>3 DEF OrderInv, Staged
  <2> QED BY <2>1, <2>2, <2>3
<1>22. Gapless'
  <2>1. \A y \in Readers : \A n : Present(y, n)' => Present(y, n)
    BY <1>6, <1>12, <1>13, <1>14 DEF Present
  <2>2. ASSUME NEW y \in Readers \ haunted, NEW n \in DOMAIN sent[y], Reported(sent[y][n]), Present(y, n)
        PROVE  Present(y, n)'
    <3>1. CASE y = k /\ n = p.nr
      <4>1. CallbackOf[p.kind] # "throws" /\ k \notin mixed
        BY <1>6, <2>2, <3>1 DEF Reported, OrderInv, Own
      <4>2. kept
        BY <1>4, <4>1 DEF refused
      <4> QED BY <1>12, <3>1, <4>2 DEF Present
    <3>2. CASE ~(y = k /\ n = p.nr)
      BY <1>12, <1>13, <1>14, <2>2, <3>2 DEF Present
    <3> QED BY <3>1, <3>2
  <2> QED BY <1>4, <2>1, <2>2 DEF OrderInv, Gapless, Reported
<1> QED BY <1>15, <1>16, <1>17, <1>18, <1>19, <1>20, <1>21, <1>22 DEF OrderInv

\* A packet that a reader reports is the only one in hand of its connection.
LEMMA HandleOrders ==
  ASSUME TypeOK, OrderInv, NEW r \in Readers, Handle(r)
  PROVE  OrderInv'
<1>1. PICK k \in Readers : k = on[r] /\ Holds(r, k)
  BY ReaderNumbers DEF Handle, Holds, OrderInv, PacketTypes
<1>2. PICK p \in Received :
        /\ p = got[r][1] /\ IsSent(k, p) /\ p.nr \in Nat /\ p.conn = k /\ InHand(k, p.nr)
        /\ CallbackOf[p.kind] # "none" => Reported(p)
        /\ p.nr \in DOMAIN sent[k] /\ sent[k][p.nr] = p
  BY <1>1, SentTypes DEF OrderInv, Genuine, InHand, IsSent, Reported
<1> DEFINE told == CallbackOf[p.kind] # "none"
<1>3. heard[k] \in Seq(Received) /\ heard \in [Readers -> Seq(Received)] /\ got \in [Readers -> Seq(Received)]
  BY <1>1 DEF OrderInv, PacketTypes
<1>4. /\ UNCHANGED <<socket, on, mixed, link, inbox, registered, sent, haunted>>
      /\ pc' = [pc EXCEPT ![r] = "test"] /\ got' = [got EXCEPT ![r] = <<>>]
      /\ heard' = IF told THEN [heard EXCEPT ![k] = Append(@, p)] ELSE heard
  BY <1>2 DEF Handle, fields, wire
<1> HIDE DEF told
<1>5. /\ Append(heard[k], p) \in Seq(Received) /\ Len(heard[k]) \in Nat
      /\ Append(heard[k], p)[Len(heard[k]) + 1] = p /\ Len(heard[k]) + 1 \in DOMAIN Append(heard[k], p)
      /\ \A i \in DOMAIN heard[k] :
           i \in DOMAIN Append(heard[k], p) /\ Append(heard[k], p)[i] = heard[k][i] /\ i < Len(heard[k]) + 1
      /\ \A i \in DOMAIN Append(heard[k], p) : i = Len(heard[k]) + 1 \/ i \in DOMAIN heard[k]
  BY <1>2, <1>3, Appended
<1>6. /\ heard' \in [Readers -> Seq(Received)] /\ \A y \in Readers \ {k} : heard'[y] = heard[y]
      /\ heard'[k] = IF told THEN Append(heard[k], p) ELSE heard[k]
  <2>1. CASE told
    BY <1>1, <1>3, <1>4, <1>5, <2>1
  <2>2. CASE ~told
    BY <1>3, <1>4, <2>2
  <2> QED BY <2>1, <2>2
<1>7. /\ pc'[r] = "test" /\ \A x \in Readers \ {r} : pc'[x] = pc[x] /\ got'[x] = got[x]
      /\ got' \in [Readers -> Seq(Received)]
  <2>1. <<>> \in Seq(Received)
    OBVIOUS
  <2> QED BY <1>3, <1>4, <2>1 DEF TypeOK
<1>8. \A x, y \in Readers : Holds(x, y)' <=> Holds(x, y) /\ x # r
  BY <1>4, <1>7 DEF Holds
<1>9. \A y \in Readers : \A n : InHand(y, n)' => InHand(y, n)
  BY <1>7, <1>8 DEF InHand
<1>10. \A y \in Readers \ {k} : \A n : InHand(y, n) => InHand(y, n)'
  <2>1. \A y \in Readers \ {k} : ~Holds(r, y)
    BY <1>1 DEF Holds
  <2> QED BY <1>7, <1>8, <2>1 DEF InHand
<1>11. k \notin haunted => \A n : ~InHand(k, n)' /\ (InHand(k, n) => n = p.nr)
  <2>1. ASSUME k \notin haunted, NEW x \in Readers, Holds(x, k) PROVE x = r
    BY <1>1, <2>1 DEF OrderInv, Own, Holds
  <2> QED BY <1>1, <1>2, <1>8, <2>1 DEF InHand
<1>12. \A y \in Readers : \A n : Heard(y, n)' <=> Heard(y, n) \/ (y = k /\ n = p.nr /\ told)
  <2> SUFFICES ASSUME NEW y \in Readers, NEW n PROVE Heard(y, n)' <=> Heard(y, n) \/ (y = k /\ n = p.nr /\ told)
    OBVIOUS
  <2>1. CASE y # k \/ ~told
    BY <1>6, <2>1 DEF Heard
  <2>2. CASE y = k /\ told
    BY <1>5, <1>6, <2>2 DEF Heard
  <2> QED BY <2>1, <2>2
<1>13. \A y \in Readers : \A n : Waiting(y, n)' <=> Waiting(y, n)
  BY <1>4 DEF Waiting
<1>14. PacketTypes'
  <2>1. \A x \in Readers : (pc'[x] \in {"read", "handle"} => on'[x] # 0) /\ (pc'[x] = "handle" => got'[x] # <<>>)
    BY <1>4, <1>7 DEF OrderInv, PacketTypes
  <2> QED BY <1>4, <1>6, <1>7, <2>1 DEF OrderInv, PacketTypes
<1>15. Fresh'
  BY <1>1, <1>4, <1>7 DEF OrderInv, Fresh, Holds
<1>16. Own'
  <2>1. \A x \in Readers : Alive(x)' => Alive(x)
    BY <1>1, <1>7 DEF Alive, Holds
  <2> QED BY <1>4, <2>1 DEF OrderInv, Own
<1>17. Genuine'
  <2> SUFFICES ASSUME NEW y \in Readers
               PROVE  /\ \A i \in DOMAIN heard'[y] : IsSent(y, heard'[y][i]) /\ Reported(heard'[y][i])
                      /\ \A i \in DOMAIN inbox[y] : IsSent(y, inbox[y][i])
                      /\ \A x \in Readers : Holds(x, y)' =>
                           IsSent(y, got'[x][1]) /\ CallbackOf[got'[x][1].kind] # "throws"
    BY <1>4 DEF Genuine, IsSent, Reported
  <2>1. \A i \in DOMAIN heard'[y] : IsSent(y, heard'[y][i]) /\ Reported(heard'[y][i])
    <3>1. CASE heard'[y] = heard[y]
      BY <3>1 DEF OrderInv, Genuine
    <3>2. CASE heard'[y] # heard[y]
      <4>1. y = k /\ told /\ heard'[k] = Append(heard[k], p)
        BY <1>6, <3>2
      <4>2. Reported(p)
        BY <1>2, <4>1 DEF told
      <4> QED BY <1>2, <1>5, <4>1, <4>2 DEF OrderInv, Genuine
    <3> QED BY <3>1, <3>2
  <2>2. \A i \in DOMAIN inbox[y] : IsSent(y, inbox[y][i])
    BY DEF OrderInv, Genuine
  <2>3. \A x \in Readers : Holds(x, y)' => IsSent(y, got'[x][1]) /\ CallbackOf[got'[x][1].kind] # "throws"
    BY <1>7, <1>8 DEF OrderInv, Genuine
  <2> QED BY <2>1, <2>2, <2>3
<1>18. InboxSorted'
  BY <1>4 DEF OrderInv, InboxSorted
<1>19. HeardSorted'
  <2> SUFFICES ASSUME NEW y \in Readers \ haunted, NEW i \in DOMAIN heard'[y], NEW j \in DOMAIN heard'[y], i < j
               PROVE  heard'[y][i].nr < heard'[y][j].nr
    BY <1>4 DEF HeardSorted
  <2>1. CASE heard'[y] = heard[y]
    BY <2>1 DEF OrderInv, HeardSorted
  <2>2. CASE heard'[y] # heard[y]
    <3>1. y = k /\ heard'[k] = Append(heard[k], p)
      BY <1>6, <2>2
    <3>2. CASE j \in DOMAIN heard[k]
      <4>1. i \in DOMAIN heard[k]
        BY <1>5, <3>1, <3>2
      <4> QED BY <1>5, <3>1, <3>2, <4>1 DEF OrderInv, HeardSorted
    <3>3. CASE j = Len(heard[k]) + 1
      <4>1. i \in DOMAIN heard[k]
        BY <1>5, <3>1, <3>3
      <4>2. Heard(k, heard[k][i].nr) /\ heard[k][i].nr \in DOMAIN sent[k]
        BY <1>1, <4>1 DEF Heard, OrderInv, Genuine, IsSent
      <4>3. heard[k][i].nr < p.nr
        BY <1>2, <3>1, <4>2 DEF OrderInv, Staged
      <4> QED BY <1>5, <3>1, <3>3, <4>1, <4>3
    <3> QED BY <1>5, <3>1, <3>2, <3>3
  <2> QED BY <2>1, <2>2
<1>20. Staged'
  <2> SUFFICES ASSUME NEW y \in Readers \ haunted, NEW n \in DOMAIN sent[y], NEW m \in DOMAIN sent[y]
               PROVE  /\ Heard(y, n)' /\ (InHand(y, m)' \/ Waiting(y, m)') => n < m
                      /\ InHand(y, n)' /\ Waiting(y, m)' => n < m
    BY <1>4 DEF Staged
  <2>1. InHand(y, n)' /\ Waiting(y, m)' => n < m
    BY <1>9, <1>13 DEF OrderInv, Staged
  <2>2. CASE y = k /\ n = p.nr
    BY <1>2, <1>11, <1>13, <2>1, <2>2 DEF OrderInv, Staged
  <2>3. CASE ~(y = k /\ n = p.nr)
    BY <1>9, <1>12, <1>13, <2>1, <2>3 DEF OrderInv, Staged
  <2> QED BY <2>2, <2>3
<1>21. Gapless'
  <2>1. \A y \in Readers \ haunted : \A n : Present(y, n)' => Present(y, n)
    BY <1>2, <1>9, <1>12, <1>13 DEF Present
  <2>2. ASSUME NEW y \in Readers \ haunted, NEW n \in DOMAIN sent[y], Reported(sent[y][n]), Present(y, n)
        PROVE  Present(y, n)'
    <3>1. CASE y = k /\ n = p.nr
      <4>1. told
        BY <1>2, <2>2, <3>1 DEF Reported, told
      <4> QED BY <1>12, <3>1, <4>1 DEF Present
    <3>2. CASE ~(y = k /\ n = p.nr)
      BY <1>10, <1>11, <1>12, <1>13, <2>2, <3>2 DEF Present
    <3> QED BY <3>1, <3>2
  <2> QED BY <1>4, <2>1, <2>2 DEF OrderInv, Gapless, Reported
<1> QED BY <1>14, <1>15, <1>16, <1>17, <1>18, <1>19, <1>20, <1>21 DEF OrderInv

\* A packet that is sent is behind all others of its connection.
LEMMA ServerSendsOrders ==
  ASSUME TypeOK, OrderInv, ServerSends
  PROVE  OrderInv'
<1>1. PICK k \in registered, kind \in Packets :
        LET p == [conn |-> k, nr |-> Len(sent[k]) + 1, kind |-> kind] IN
        /\ link[k] = "up"
        /\ sent'  = [sent EXCEPT ![k] = Append(@, p)]
        /\ inbox' = [inbox EXCEPT ![k] = Append(@, p)]
        /\ UNCHANGED <<fields, reading, link, registered, heard, haunted>>
  BY DEF ServerSends
<1>2. /\ k \in Readers /\ sent \in [Readers -> Seq(Received)] /\ inbox \in [Readers -> Seq(Received)]
      /\ sent[k] \in Seq(Received) /\ inbox[k] \in Seq(Received)
  BY DEF OrderInv, PacketTypes
<1>3. PICK p \in Received : p = [conn |-> k, nr |-> Len(sent[k]) + 1, kind |-> kind]
  <2>1. Len(sent[k]) + 1 \in Nat
    BY <1>2
  <2> QED BY <1>1, <1>2, <2>1 DEF Received
<1>4. /\ link[k] = "up" /\ p.nr = Len(sent[k]) + 1 /\ p.conn = k
      /\ sent'  = [sent EXCEPT ![k] = Append(@, p)]
      /\ inbox' = [inbox EXCEPT ![k] = Append(@, p)]
      /\ UNCHANGED <<socket, pc, on, got, mixed, link, registered, heard, haunted>>
  BY <1>1, <1>3 DEF fields, reading
<1>5. /\ sent' \in [Readers -> Seq(Received)] /\ \A y \in Readers \ {k} : sent'[y] = sent[y]
      /\ p.nr \in Nat /\ p.nr \in DOMAIN sent'[k] /\ sent'[k][p.nr] = p
      /\ \A n \in DOMAIN sent[k] : n \in DOMAIN sent'[k] /\ sent'[k][n] = sent[k][n] /\ n < p.nr /\ n \in Nat /\ n # p.nr
      /\ \A n \in DOMAIN sent'[k] : n = p.nr \/ n \in DOMAIN sent[k]
  <2>1. sent'[k] = Append(sent[k], p) /\ \A y \in Readers \ {k} : sent'[y] = sent[y]
    BY <1>2, <1>4
  <2>2. /\ Append(sent[k], p) \in Seq(Received) /\ Len(sent[k]) \in Nat /\ DOMAIN sent[k] = 1..Len(sent[k])
        /\ DOMAIN Append(sent[k], p) = 1..Len(sent[k]) + 1 /\ Append(sent[k], p)[Len(sent[k]) + 1] = p
        /\ \A i \in DOMAIN sent[k] : Append(sent[k], p)[i] = sent[k][i]
    BY <1>2, Appended
  <2>3. sent' \in [Readers -> Seq(Received)]
    BY <1>2, <1>4, <2>2
  <2> QED BY <1>4, <2>1, <2>2, <2>3
<1>6. PICK last \in Nat :
        /\ inbox' \in [Readers -> Seq(Received)] /\ \A y \in Readers \ {k} : inbox'[y] = inbox[y]
        /\ last \in DOMAIN inbox'[k] /\ inbox'[k][last] = p
        /\ \A i \in DOMAIN inbox[k] : i \in DOMAIN inbox'[k] /\ inbox'[k][i] = inbox[k][i] /\ i < last /\ i \in Nat
        /\ \A i \in DOMAIN inbox'[k] : i = last \/ i \in DOMAIN inbox[k]
  <2>1. inbox'[k] = Append(inbox[k], p) /\ \A y \in Readers \ {k} : inbox'[y] = inbox[y]
    BY <1>2, <1>4
  <2>2. /\ Append(inbox[k], p) \in Seq(Received) /\ Len(inbox[k]) \in Nat /\ DOMAIN inbox[k] = 1..Len(inbox[k])
        /\ DOMAIN Append(inbox[k], p) = 1..Len(inbox[k]) + 1 /\ Append(inbox[k], p)[Len(inbox[k]) + 1] = p
        /\ \A i \in DOMAIN inbox[k] : Append(inbox[k], p)[i] = inbox[k][i]
    BY <1>2, Appended
  <2>3. inbox' \in [Readers -> Seq(Received)]
    BY <1>2, <1>4, <2>2
  <2>4. Len(inbox[k]) + 1 \in Nat
    BY <2>2
  <2> QED BY <2>1, <2>2, <2>3, <2>4
<1>7. \A y \in Readers : \A q : IsSent(y, q) => q.nr \in DOMAIN sent'[y] /\ q = sent'[y][q.nr] /\ q.conn = y
  BY <1>5 DEF IsSent
<1>8. \A x, y \in Readers : Holds(x, y)' <=> Holds(x, y)
  BY <1>4 DEF Holds
<1>9. \A y \in Readers : \A n : (Heard(y, n)' <=> Heard(y, n)) /\ (InHand(y, n)' <=> InHand(y, n))
  BY <1>4, <1>8 DEF Heard, InHand
<1>10. \A y \in Readers : \A n : Waiting(y, n)' <=> Waiting(y, n) \/ (y = k /\ n = p.nr)
  <2> SUFFICES ASSUME NEW y \in Readers, NEW n PROVE Waiting(y, n)' <=> Waiting(y, n) \/ (y = k /\ n = p.nr)
    OBVIOUS
  <2>1. CASE y # k
    BY <1>6, <2>1 DEF Waiting
  <2>2. CASE y = k
    BY <1>6, <2>2 DEF Waiting
  <2> QED BY <2>1, <2>2
<1>11. \A y \in Readers : \A n : Present(y, n) => n \in DOMAIN sent[y]
  BY DEF Present, Heard, InHand, Waiting, OrderInv, Genuine, IsSent
<1>12. \A y \in Readers : \A n : Present(y, n)' <=> Present(y, n) \/ (y = k /\ n = p.nr)
  BY <1>9, <1>10 DEF Present
<1>13. PacketTypes'
  BY <1>4, <1>5, <1>6 DEF OrderInv, PacketTypes
<1>14. Fresh'
  <2>1. \A y \in Readers : link[y] = "none" => y # k
    BY <1>4
  <2> QED BY <1>4, <1>5, <2>1 DEF OrderInv, Fresh
<1>15. Own'
  BY <1>4 DEF OrderInv, Own, Alive
<1>16. Genuine'
  <2>1. ASSUME NEW y \in Readers, NEW i \in DOMAIN inbox'[y]
        PROVE  LET q == inbox'[y][i] IN q.nr \in DOMAIN sent'[y] /\ q = sent'[y][q.nr] /\ q.conn = y
    <3>1. CASE i \in DOMAIN inbox[y] /\ inbox'[y][i] = inbox[y][i]
      BY <1>7, <3>1 DEF OrderInv, Genuine
    <3>2. CASE y = k /\ inbox'[y][i] = p
      BY <1>4, <1>5, <3>2
    <3> QED BY <1>6, <3>1, <3>2
  <2>2. ASSUME NEW y \in Readers, NEW i \in DOMAIN heard[y]
        PROVE  LET q == heard[y][i] IN
               q.nr \in DOMAIN sent'[y] /\ q = sent'[y][q.nr] /\ q.conn = y /\ Reported(q)
    BY <1>7 DEF OrderInv, Genuine
  <2>3. ASSUME NEW y \in Readers, NEW x \in Readers, Holds(x, y)
        PROVE  LET q == got[x][1] IN
               q.nr \in DOMAIN sent'[y] /\ q = sent'[y][q.nr] /\ q.conn = y /\ CallbackOf[q.kind] # "throws"
    BY <1>7, <2>3 DEF OrderInv, Genuine
  <2> QED BY <1>4, <1>8, <2>1, <2>2, <2>3 DEF Genuine, IsSent, Reported
<1>17. InboxSorted'
  <2> SUFFICES ASSUME NEW y \in Readers, NEW i \in DOMAIN inbox'[y], NEW j \in DOMAIN inbox'[y], i < j
               PROVE  inbox'[y][i].nr < inbox'[y][j].nr
    BY DEF InboxSorted
  <2>1. CASE inbox'[y] = inbox[y]
    BY <2>1 DEF OrderInv, InboxSorted
  <2>2. CASE y = k
    <3>1. i \in DOMAIN inbox[k]
      BY <1>6, <2>2
    <3>2. CASE j \in DOMAIN inbox[k]
      BY <1>6, <2>2, <3>1, <3>2 DEF OrderInv, InboxSorted
    <3>3. CASE j = last
      <4>1. inbox[k][i].nr \in DOMAIN sent[k]
        BY <1>2, <3>1 DEF OrderInv, Genuine, IsSent
      <4> QED BY <1>5, <1>6, <2>2, <3>1, <3>3, <4>1
    <3> QED BY <1>6, <2>2, <3>2, <3>3
  <2> QED BY <1>6, <2>1, <2>2
<1>18. HeardSorted'
  BY <1>4 DEF OrderInv, HeardSorted
<1>19. Staged'
  <2> SUFFICES ASSUME NEW y \in Readers \ haunted, NEW n \in DOMAIN sent'[y], NEW m \in DOMAIN sent'[y]
               PROVE  /\ Heard(y, n)' /\ (InHand(y, m)' \/ Waiting(y, m)') => n < m
                      /\ InHand(y, n)' /\ Waiting(y, m)' => n < m
    BY <1>4 DEF Staged
  <2>1. Heard(y, n) \/ InHand(y, n) => n \in DOMAIN sent[y]
    BY <1>11 DEF Present
  <2>2. CASE y = k /\ m = p.nr
    BY <1>5, <1>9, <2>1, <2>2
  <2>3. CASE ~(y = k /\ m = p.nr)
    <3>1. m \in DOMAIN sent[y]
      BY <1>5, <2>3
    <3> QED BY <1>9, <1>10, <2>1, <2>3, <3>1 DEF OrderInv, Staged
  <2> QED BY <2>2, <2>3
<1>20. Gapless'
  <2> SUFFICES ASSUME NEW y \in Readers \ haunted, NEW n \in DOMAIN sent'[y], Reported(sent'[y][n])
               PROVE  /\ link[y] = "up" => Present(y, n)'
                      /\ \A m \in DOMAIN sent'[y] : n < m /\ Present(y, m)' => Present(y, n)'
    BY <1>4 DEF Gapless, Reported
  <2>1. CASE y = k /\ n = p.nr
    BY <1>12, <2>1
  <2>2. CASE ~(y = k /\ n = p.nr)
    <3>1. n \in DOMAIN sent[y] /\ Reported(sent[y][n])
      BY <1>5, <2>2
    <3>2. link[y] = "up" => Present(y, n)'
      BY <1>12, <3>1 DEF OrderInv, Gapless
    <3>3. ASSUME NEW m \in DOMAIN sent'[y], n < m, Present(y, m)' PROVE Present(y, n)'
      <4>1. CASE y = k
        BY <1>4, <3>2, <4>1
      <4>2. CASE y # k
        BY <1>5, <1>12, <3>1, <3>3, <4>2 DEF OrderInv, Gapless
      <4> QED BY <4>1, <4>2
    <3> QED BY <3>2, <3>3
  <2> QED BY <2>1, <2>2
<1> QED BY <1>13, <1>14, <1>15, <1>16, <1>17, <1>18, <1>19, <1>20 DEF OrderInv

-----------------------------------------------------------------------------
(* The steps that take no packet on.                                        *)

\* No reader is started or takes a stream; a connection may be closed.
LEMMA QuietOrders ==
  ASSUME TypeOK, OrderInv, UNCHANGED <<on, got, mixed, sent, heard, haunted>>,
         registered' \subseteq Readers, socket' \in {socket, 0},
         \A r \in Readers : \/ pc'[r] = pc[r]
                            \/ Alive(r) /\ pc[r] # "handle" /\ pc'[r] \in {"test", "catch", "tell", "post"},
         inbox' \in [Readers -> Seq(Received)],
         \A k \in Readers : inbox'[k] = inbox[k] \/ (inbox'[k] = <<>> /\ link'[k] = "closed"),
         \A k \in Readers : link'[k] \in {"up", "none"} => link'[k] = link[k]
  PROVE  OrderInv'
<1>1. \A r, k \in Readers : Holds(r, k)' <=> Holds(r, k)
  BY DEF Holds
<1>2. PacketTypes'
  BY DEF OrderInv, PacketTypes
<1>3. Fresh'
  BY DEF OrderInv, Fresh, Alive
<1>4. Own'
  <2>1. \A r \in Readers : Alive(r)' => Alive(r)
    BY DEF Alive
  <2> QED BY <2>1, ReaderNumbers DEF OrderInv, Own
<1> QED BY <1>1, <1>2, <1>3, <1>4, StillOrdered

LEMMA CloseOldOrders ==
  ASSUME TypeOK, OrderInv, CloseOld
  PROVE  /\ inbox' \in [Readers -> Seq(Received)]
         /\ \A k \in Readers : inbox'[k] = inbox[k] \/ (inbox'[k] = <<>> /\ link'[k] = "closed")
         /\ \A k \in Readers : link'[k] \in {"up", "none"} => link'[k] = link[k]
<1>1. /\ inbox' = [k \in Readers |-> IF k = socket THEN <<>> ELSE inbox[k]]
      /\ \A k \in Readers : link'[k] = IF k = socket THEN "closed" ELSE link[k]
  BY OldClosed DEF CloseOld
<1>2. inbox \in [Readers -> Seq(Received)] /\ <<>> \in Seq(Received)
  BY DEF OrderInv, PacketTypes
<1>3. inbox' \in [Readers -> Seq(Received)]
  BY <1>1, <1>2
<1> QED BY <1>1, <1>3

\* A connection that was not opened has no packets, and is haunted or not as the readers
\* there are make it.
LEMMA ResetFlagsOrders ==
  ASSUME EngineInv, OrderInv, ResetFlags
  PROVE  OrderInv'
<1>1. /\ ui = "reset" /\ UNCHANGED <<socket, pc, on, got, mixed, link, inbox, registered, sent, heard>>
      /\ haunted' = IF OldReader THEN haunted \cup {Newest} ELSE haunted \ {Newest}
  BY DEF ResetFlags, reading, wire
<1>2. Newest \in Readers /\ link[Newest] = "none"
  BY <1>1, NewestIsNew DEF EngineInv, TypeOK, Opened
<1>3. PacketTypes' /\ Fresh'
  BY <1>1 DEF OrderInv, PacketTypes, Fresh
<1>4. Own'
  <2> SUFFICES ASSUME NEW k \in Readers \ haunted'
               PROVE  /\ socket = k => \A r \in Readers : Alive(r) => r = k
                      /\ \A r \in Readers : on[r] = k => r = k
                      /\ k \notin mixed
    BY <1>1 DEF Own, Alive
  <2>1. CASE k = Newest
    <3>1. socket # k
      BY <1>2, <2>1, ReaderNumbers DEF EngineInv, TypeOK
    <3>2. k \notin mixed /\ \A r \in Readers : on[r] # k
      BY <1>2, <2>1 DEF OrderInv, Fresh
    <3> QED BY <3>1, <3>2
  <2>2. CASE k # Newest
    BY <1>1, <2>2 DEF OrderInv, Own
  <2> QED BY <2>1, <2>2
<1>5. \A r, k \in Readers : Holds(r, k)' <=> Holds(r, k)
  BY <1>1 DEF Holds
<1>6. \A k \in Readers \ haunted' : k \in haunted => link[k] = "none"
  BY <1>1, <1>2
<1> QED BY <1>1, <1>3, <1>4, <1>5, <1>6, StillOrdered

\* The connection that is opened is haunted or no reader is alive.
LEMMA DialOrders ==
  ASSUME EngineInv, OrderInv, Dial
  PROVE  OrderInv'
<1>1. CASE Throw /\ UNCHANGED <<socket, thread, link, pc, haunted>>
  BY <1>1, QuietOrders DEF Dial, EngineInv, OrderInv, PacketTypes
<1>2. CASE ~(Throw /\ UNCHANGED <<socket, thread, link, pc, haunted>>)
  <2>1. PICK new : new = Newest
    OBVIOUS
  <2>2. /\ ui = "dial" /\ socket' = new /\ link' = [link EXCEPT ![new] = "up"]
        /\ pc' = [pc EXCEPT ![new] = "new"]
        /\ haunted' = IF OldReader THEN haunted \cup {new} ELSE haunted
        /\ UNCHANGED <<on, got, mixed, inbox, registered, sent, heard>>
    BY <1>2, <2>1 DEF Dial
  <2>3. new \in Readers /\ link[new] = "none"
    BY <2>1, <2>2, NewestIsNew DEF EngineInv, TypeOK, Opened
  <2>4. /\ \A k \in Readers : link'[k] = IF k = new THEN "up" ELSE link[k]
        /\ \A r \in Readers : pc'[r] = IF r = new THEN "new" ELSE pc[r]
    BY <2>2, <2>3 DEF EngineInv, TypeOK
  <2>5. \A r \in Readers : on[r] # new
    BY <2>3 DEF OrderInv, Fresh
  <2>6. new \notin mixed /\ \A r \in Readers : Alive(r)' <=> Alive(r) /\ r # new
    BY <2>3, <2>4 DEF OrderInv, Fresh, Alive
  <2>7. PacketTypes'
    BY <2>2, <2>4 DEF OrderInv, PacketTypes
  <2>8. Fresh'
    BY <2>2, <2>4 DEF OrderInv, Fresh
  <2>9. Own'
    <3> SUFFICES ASSUME NEW k \in Readers \ haunted'
                 PROVE  /\ new = k => \A r \in Readers : ~Alive(r)'
                        /\ \A r \in Readers : on[r] = k => r = k
                        /\ k \notin mixed
      BY <2>2 DEF Own
    <3>1. \A r \in Readers : on[r] = k => r = k
      BY <2>2 DEF OrderInv, Own
    <3>2. k \notin mixed
      BY <2>2 DEF OrderInv, Own
    <3>3. new = k => \A r \in Readers : ~Alive(r)'
      BY <2>2, <2>6 DEF OldReader
    <3> QED BY <3>1, <3>2, <3>3
  <2>10. \A r, k \in Readers : Holds(r, k)' <=> Holds(r, k)
    <3>1. pc[new] = "none" /\ pc'[new] = "new"
      BY <2>3, <2>4 DEF OrderInv, Fresh
    <3>2. ASSUME NEW r \in Readers, NEW k \in Readers, r # new PROVE Holds(r, k)' <=> Holds(r, k)
      BY <2>2, <2>4, <3>2 DEF Holds
    <3> QED BY <3>1, <3>2 DEF Holds
  <2>11. \A k \in Readers : link'[k] = "up" => link[k] \in {"none", "up"}
    BY <2>3, <2>4
  <2>12. \A k \in Readers \ haunted' : k \in haunted => link[k] = "none"
    BY <2>2
  <2> QED BY <2>2, <2>7, <2>8, <2>9, <2>10, <2>11, <2>12, StillOrdered
<1> QED BY <1>1, <1>2

\* The reader of the engine's connection starts.
LEMMA StartReaderOrders ==
  ASSUME EngineInv, OrderInv, StartReader
  PROVE  OrderInv'
<1>1. /\ UNCHANGED <<socket, on, got, mixed, link, inbox, registered, sent, heard, haunted>>
      /\ thread \in Readers /\ socket = thread /\ pc[thread] = "new"
      /\ UNCHANGED pc \/ pc' = [pc EXCEPT ![thread] = "test"]
  BY DEF StartReader, EngineInv, OldIsClosed, TypeOK, Readers, fields, wire, history
<1>2. \A r \in Readers : pc'[r] = pc[r] \/ (r = thread /\ pc'[r] = "test")
  BY <1>1 DEF EngineInv, TypeOK
<1>3. \A r, k \in Readers : Holds(r, k)' <=> Holds(r, k)
  BY <1>1, <1>2 DEF Holds
<1>4. PacketTypes'
  BY <1>1, <1>2 DEF OrderInv, PacketTypes
<1>5. Fresh'
  <2>1. link[thread] # "none"
    BY <1>1, ReaderNumbers DEF EngineInv, TypeOK
  <2> QED BY <1>1, <1>2, <2>1 DEF OrderInv, Fresh
<1>6. Own'
  <2>1. \A r \in Readers : Alive(r)' => Alive(r) \/ r = socket
    BY <1>1, <1>2 DEF Alive
  <2> QED BY <1>1, <2>1 DEF OrderInv, Own
<1> QED BY <1>1, <1>3, <1>4, <1>5, <1>6, StillOrdered

LEMMA TestExitOrders ==
  ASSUME EngineInv, OrderInv, NEW r \in Readers, TestExit(r)
  PROVE  OrderInv'
<1>1. /\ UNCHANGED <<socket, got, mixed, link, inbox, registered, sent, heard, haunted>>
      /\ pc[r] = "test" /\ on' = [on EXCEPT ![r] = 0]
      /\ pc' = [pc EXCEPT ![r] = "done"] \/ pc' = [pc EXCEPT ![r] = "fetch"]
  BY DEF TestExit, fields, wire
<1>2. /\ pc'[r] \in {"done", "fetch"} /\ on'[r] = 0
      /\ \A x \in Readers \ {r} : pc'[x] = pc[x] /\ on'[x] = on[x]
      /\ on' \in [Readers -> 0..MaxConnects]
  <2>1. 0 \in 0..MaxConnects
    BY BoundsAssumption
  <2> QED BY <1>1, <2>1 DEF EngineInv, TypeOK, OrderInv, PacketTypes
<1>3. \A x, k \in Readers : Holds(x, k)' <=> Holds(x, k)
  BY <1>1, <1>2 DEF Holds
<1>4. PacketTypes'
  BY <1>1, <1>2 DEF OrderInv, PacketTypes
<1>5. Fresh'
  BY <1>1, <1>2, ReaderNumbers DEF OrderInv, Fresh
<1>6. Own'
  <2>1. \A x \in Readers : Alive(x)' => Alive(x)
    BY <1>1, <1>2 DEF Alive
  <2> QED BY <1>1, <1>2, <2>1, ReaderNumbers DEF OrderInv, Own
<1> QED BY <1>1, <1>3, <1>4, <1>5, <1>6, StillOrdered

\* A stream that is not haunted is taken by its own reader, who is alone.
LEMMA FetchReaderOrders ==
  ASSUME EngineInv, OrderInv, NEW r \in Readers, FetchReader(r)
  PROVE  OrderInv'
<1>1. /\ UNCHANGED <<socket, got, link, inbox, registered, sent, heard, haunted>>
      /\ pc[r] = "fetch" /\ on' = [on EXCEPT ![r] = socket]
      /\ pc' = [pc EXCEPT ![r] = IF socket = 0 THEN "catch" ELSE "read"]
      /\ mixed' = IF Sharers(socket) = {} THEN mixed ELSE mixed \cup {socket}
  BY DEF FetchReader, fields, wire, history
<1>2. /\ pc'[r] = (IF socket = 0 THEN "catch" ELSE "read") /\ on'[r] = socket
      /\ \A x \in Readers \ {r} : pc'[x] = pc[x] /\ on'[x] = on[x]
      /\ on' \in [Readers -> 0..MaxConnects]
  BY <1>1 DEF EngineInv, TypeOK, OrderInv, PacketTypes
<1>3. Sharers(socket) # {} => socket \in Readers /\ \E x \in Readers : x # r /\ Alive(x)
  <2> SUFFICES ASSUME NEW x \in Sharers(socket) PROVE socket \in Readers /\ x \in Readers /\ x # r /\ Alive(x)
    OBVIOUS
  <2>1. x \in Readers /\ pc[x] = "read" /\ on[x] = socket
    BY DEF Sharers
  <2>2. socket # 0
    BY <2>1 DEF OrderInv, PacketTypes
  <2>3. socket \in Readers
    BY <2>2, ReaderNumbers DEF EngineInv, TypeOK
  <2> QED BY <1>1, <2>1, <2>3 DEF Alive
<1>4. \A x, k \in Readers : Holds(x, k)' <=> Holds(x, k)
  BY <1>1, <1>2 DEF Holds
<1>5. PacketTypes'
  <2>1. mixed' \subseteq Readers
    BY <1>1, <1>3 DEF OrderInv, PacketTypes
  <2> QED BY <1>1, <1>2, <2>1 DEF OrderInv, PacketTypes
<1>6. Alive(r)
  BY <1>1 DEF Alive
<1>7. Fresh'
  <2> SUFFICES ASSUME NEW k \in Readers, link[k] = "none"
               PROVE  sent[k] = <<>> /\ pc'[k] = "none" /\ k \notin mixed' /\ \A x \in Readers : on'[x] # k
    BY <1>1 DEF Fresh
  <2>1. socket # k
    BY ReaderNumbers DEF EngineInv, TypeOK
  <2> QED BY <1>1, <1>2, <2>1 DEF OrderInv, Fresh
<1>8. Own'
  <2> SUFFICES ASSUME NEW k \in Readers \ haunted
               PROVE  /\ socket = k => \A x \in Readers : Alive(x)' => x = k
                      /\ \A x \in Readers : on'[x] = k => x = k
                      /\ k \notin mixed'
    BY <1>1 DEF Own
  <2>1. \A x \in Readers : Alive(x)' => Alive(x)
    BY <1>1, <1>2 DEF Alive
  <2>2. socket = k => r = k
    BY <1>6 DEF OrderInv, Own
  <2>3. socket = k => Sharers(socket) = {}
    BY <1>3, <2>2 DEF OrderInv, Own
  <2>4. k \notin mixed'
    BY <1>1, <2>3 DEF OrderInv, Own
  <2> QED BY <1>1, <1>2, <2>1, <2>2, <2>4 DEF OrderInv, Own
<1> QED BY <1>1, <1>4, <1>5, <1>7, <1>8, StillOrdered

LEMMA OrderStep == ASSUME EngineInv, OrderInv, [Next]_vars PROVE OrderInv'
<1> USE DEF fields, check, reading, wire, history
<1>1. TypeOK /\ socket \in {socket, 0} /\ inbox \in [Readers -> Seq(Received)] /\ registered \subseteq Readers
  BY DEF EngineInv, OrderInv, PacketTypes
<1>2. CASE Call
  <2>1. CASE BeginConnect
    BY <1>1, <2>1, CloseOldOrders, QuietOrders DEF BeginConnect
  <2>2. CASE Disconnect
    <3>1. CASE CloseOld
      BY <1>1, <2>2, <3>1, CloseOldOrders, QuietOrders DEF Disconnect
    <3>2. CASE UNCHANGED <<link, inbox>>
      BY <1>1, <2>2, <3>2, QuietOrders DEF Disconnect
    <3> QED BY <2>2, <3>1, <3>2 DEF Disconnect
  <2>3. CASE Register
    <3>1. registered' \subseteq Readers
      BY <1>1, <2>3, ReaderNumbers DEF Register, Registrable, TypeOK
    <3> QED BY <1>1, <2>3, <3>1, QuietOrders DEF Register
  <2>4. CASE CheckState \/ (OnLocationChanged /\ ~BeginConnect)
    BY <1>1, <2>4, QuietOrders DEF CheckState, OnLocationChanged
  <2> QED BY <1>2, <2>1, <2>2, <2>3, <2>4 DEF Call, Connect
<1>3. CASE Return
  <2>1. CASE StopOld
    BY <1>1, <2>1, QuietOrders DEF StopOld
  <2>2. CASE Forget
    BY <1>1, <2>2, QuietOrders DEF Forget
  <2> QED BY <1>3, <2>1, <2>2, ResetFlagsOrders, DialOrders, StartReaderOrders DEF Return
<1>4. ASSUME NEW r \in Readers, Reader(r) PROVE OrderInv'
  <2>1. ASSUME NEW to \in {"test", "catch", "tell", "post"}, pc' = [pc EXCEPT ![r] = to],
               pc[r] \in {"read", "catch", "tell", "post"}
        PROVE  \A x \in Readers : \/ pc'[x] = pc[x]
                                  \/ Alive(x) /\ pc[x] # "handle" /\ pc'[x] \in {"test", "catch", "tell", "post"}
    BY <1>1, <2>1 DEF TypeOK, Alive
  <2>2. CASE ReadEnd(r)
    BY <1>1, <2>1, <2>2, QuietOrders DEF ReadEnd
  <2>3. CASE Catch(r)
    BY <1>1, <2>1, <2>3, QuietOrders DEF Catch, At
  <2>4. CASE DidDisconnectLogic(r)
    BY <1>1, <2>1, <2>4, QuietOrders DEF DidDisconnectLogic, At
  <2>5. CASE PostLoss(r)
    BY <1>1, <2>1, <2>5, QuietOrders DEF PostLoss, At
  <2> QED BY <1>1, <1>4, <2>2, <2>3, <2>4, <2>5, TestExitOrders, FetchReaderOrders, ReadPacketOrders, HandleOrders
          DEF Reader
<1>5. CASE ServerCloses
  <2>1. PICK k \in Readers : link[k] = "up" /\ link' = [link EXCEPT ![k] = "gone"]
    BY <1>5 DEF ServerCloses
  <2>2. \A x \in Readers : link'[x] \in {"up", "none"} => link'[x] = link[x]
    BY <1>1, <2>1 DEF TypeOK
  <2> QED BY <1>1, <1>5, <2>2, QuietOrders DEF ServerCloses
<1>6. CASE ReportLoss
  BY <1>1, <1>6, QuietOrders DEF ReportLoss
<1>7. CASE UNCHANGED vars
  BY <1>1, <1>7, QuietOrders DEF vars
<1> QED BY <1>1, <1>2, <1>3, <1>4, <1>5, <1>6, <1>7, ServerSendsOrders DEF Next

\* readRequest takes the stream from the engine's field each time it is called, and several
\* readers may be alive; what is reported of a connection is still what the server sent on
\* it, in order, once and complete, if no older reader was alive when it was opened.
THEOREM ReportedInOrder == Spec => []HeardInOrder
<1>1. ASSUME EngineInv, OrderInv PROVE HeardInOrder
  <2> SUFFICES ASSUME NEW k \in Readers \ haunted
               PROVE  /\ \A i \in DOMAIN heard[k] :
                           LET p == heard[k][i] IN p.nr \in DOMAIN sent[k] /\ p = sent[k][p.nr] /\ Reported(p)
                      /\ \A i, j \in DOMAIN heard[k] : i < j => heard[k][i].nr < heard[k][j].nr
                      /\ \A j \in DOMAIN heard[k], n \in DOMAIN sent[k] :
                           n < heard[k][j].nr /\ Reported(sent[k][n]) =>
                             \E i \in DOMAIN heard[k] : heard[k][i] = sent[k][n]
    BY DEF HeardInOrder
  <2>1. \A i \in DOMAIN heard[k] : IsSent(k, heard[k][i]) /\ Reported(heard[k][i])
    BY <1>1 DEF OrderInv, Genuine
  <2>2. \A i, j \in DOMAIN heard[k] : i < j => heard[k][i].nr < heard[k][j].nr
    BY <1>1 DEF OrderInv, HeardSorted
  <2>3. ASSUME NEW j \in DOMAIN heard[k], NEW n \in DOMAIN sent[k], n < heard[k][j].nr, Reported(sent[k][n])
        PROVE  \E i \in DOMAIN heard[k] : heard[k][i] = sent[k][n]
    <3>1. PICK m \in DOMAIN sent[k] : m = heard[k][j].nr /\ m \in Nat /\ n \in Nat /\ Heard(k, m)
      <4>1. sent[k] \in Seq(Received)
        BY <1>1 DEF OrderInv, PacketTypes
      <4>2. n \in Nat
        BY <4>1
      <4> QED BY <1>1, <2>1, <4>2, SentTypes DEF Heard, IsSent, OrderInv
    <3>2. Present(k, n)
      BY <1>1, <2>3, <3>1 DEF OrderInv, Gapless, Present
    <3>3. ~InHand(k, n) /\ ~Waiting(k, n)
      <4>1. InHand(k, n) \/ Waiting(k, n) => m < n
        BY <1>1, <3>1 DEF OrderInv, Staged
      <4> QED BY <2>3, <3>1, <4>1
    <3>4. PICK i \in DOMAIN heard[k] : heard[k][i].nr = n
      BY <3>2, <3>3 DEF Present, Heard
    <3> QED BY <2>1, <3>4 DEF IsSent
  <2> QED BY <2>1, <2>2, <2>3 DEF IsSent
<1>2. Spec => []OrderInv
  BY OrderAtInit, OrderStep, Invariant, PTL DEF Spec
<1>3. EngineInv /\ OrderInv => HeardInOrder
  BY <1>1
<1> QED BY <1>2, <1>3, Invariant, PTL
=============================================================================
