------------------------ MODULE ContextCreation_proofs ------------------------
(***************************************************************************)
(* A proof about ContextCreation, for any number of threads and calls.       *)
(***************************************************************************)
EXTENDS ContextCreation, TLAPS

Typed ==
  /\ instance \in Nat \cup {None}
  /\ created \in Nat
  /\ pc      \in [Threads -> {"idle", "create", "return", "use"}]
  /\ context \in [Threads -> Nat \cup {None}]

LEMMA TypedInvariant == Spec => []Typed
<1>1. Init => Typed
  BY DEF Init, Typed
<1>2. Typed /\ [Next]_vars => Typed'
  <2> SUFFICES ASSUME Typed, [Next]_vars PROVE Typed'
    OBVIOUS
  <2>1. ASSUME NEW t \in Threads, Call(t) PROVE Typed'
    BY <2>1 DEF Typed, Call
  <2>2. ASSUME NEW t \in Threads, Create(t) PROVE Typed'
    BY <2>2 DEF Typed, Create
  <2>3. ASSUME NEW t \in Threads, Return(t) PROVE Typed'
    BY <2>3 DEF Typed, Return
  <2>4. ASSUME NEW t \in Threads, Use(t) PROVE Typed'
    BY <2>4 DEF Typed, Use
  <2>5. CASE UNCHANGED vars
    BY <2>5 DEF Typed, vars
  <2> QED BY <2>1, <2>2, <2>3, <2>4, <2>5 DEF Next
<1> QED BY <1>1, <1>2, PTL DEF Spec

\* A thread that finds an instance creates none, and no other is about to.
Settled == instance # None /\ Creating = {}
Kept    == /\ instance' = instance /\ Creating' = {}
           /\ \A t \in Threads : context'[t] \in {context[t], instance}

LEMMA SettledStep ==
  ASSUME Typed, Next, Settled
  PROVE  Kept
<1>1. \A t \in Threads : pc[t] # "create"
  BY DEF Settled, Creating
<1>2. PICK t \in Threads : Call(t) \/ Create(t) \/ Return(t) \/ Use(t)
  BY DEF Next
<1>3. CASE Call(t)
  BY <1>1, <1>3 DEF Typed, Settled, Call, Missing, Kept, Creating
<1>4. CASE Create(t)
  BY <1>1, <1>4 DEF Create
<1>5. CASE Return(t)
  BY <1>1, <1>5 DEF Typed, Return, Kept, Creating
<1>6. CASE Use(t)
  BY <1>1, <1>6 DEF Typed, Use, Kept, Creating
<1> QED BY <1>2, <1>3, <1>4, <1>5, <1>6

\* Once no thread is creating a context there is one for good, and it is what every call
\* returns: what is registered in it can be paired, however many threads raced to create it.
THEOREM OneContextForGood == Spec => SettlesForGood
<1>1. Typed /\ [Next]_vars => [Settled => Kept]_vars
  BY SettledStep
<1>2. Spec => [][Settled => Kept]_vars
  BY <1>1, TypedInvariant, PTL DEF Spec
<1> QED BY <1>2 DEF SettlesForGood, Settled, Kept
=============================================================================
