--------------------------- MODULE ContextCreation ---------------------------
(***************************************************************************)
(* The creation of the registry: getOperationalServerContextInstance, which  *)
(* client threads call for every request and every disconnection, without    *)
(* synchronisation.  A request is handled in the context the call returned.  *)
(*                                                                           *)
(* Definitions named X_Y are X with a fault Y, to show that a property needs   *)
(* X.                                                                         *)
(***************************************************************************)
EXTENDS Naturals

CONSTANTS
  Threads,  \* client threads
  None,     \* Java's null
  MaxCalls  \* bound: calls each thread makes

ASSUME NoneAssumption  == None \notin Nat
ASSUME CallsAssumption == MaxCalls \in Nat

VARIABLES
  instance,  \* _operationalServerContextInstance; contexts are numbered
  created,   \* contexts created so far
  pc,        \* control point of each thread's call
  context,   \* what its last call returned
  calls      \* calls made so far

vars == <<instance, created, pc, context, calls>>

Init ==
  /\ instance = None /\ created = 0
  /\ pc      = [t \in Threads |-> "idle"]
  /\ context = [t \in Threads |-> None]
  /\ calls   = [t \in Threads |-> 0]

\* instance == null
Missing_Always == TRUE
Missing == instance = None

Call(t) ==
  /\ pc[t] = "idle" /\ calls[t] < MaxCalls
  /\ calls' = [calls EXCEPT ![t] = @ + 1]
  /\ pc' = [pc EXCEPT ![t] = IF Missing THEN "create" ELSE "return"]
  /\ UNCHANGED <<instance, created, context>>

\* The constructor and the assignment.
Create(t) ==
  /\ pc[t] = "create"
  /\ created'  = created + 1
  /\ instance' = created + 1
  /\ pc' = [pc EXCEPT ![t] = "return"]
  /\ UNCHANGED <<context, calls>>

\* The static is read again to be returned.
Return(t) ==
  /\ pc[t] = "return"
  /\ context' = [context EXCEPT ![t] = instance]
  /\ pc' = [pc EXCEPT ![t] = "use"]
  /\ UNCHANGED <<instance, created, calls>>

\* handleClientRequest or handleClientDisconnection in the context returned.
Use(t) ==
  /\ pc[t] = "use"
  /\ pc' = [pc EXCEPT ![t] = "idle"]
  /\ UNCHANGED <<instance, created, context, calls>>

Next == \E t \in Threads : Call(t) \/ Create(t) \/ Return(t) \/ Use(t)

Spec == Init /\ [][Next]_vars

-----------------------------------------------------------------------------
(* Properties.                                                              *)

Creating == {t \in Threads : pc[t] = "create"}

\* Once no thread is creating a context there is one for good: it is what every call
\* returns from then on, so that what is registered in it can be paired.
SettlesForGood ==
  [][instance # None /\ Creating = {} =>
       /\ instance' = instance /\ Creating' = {}
       /\ \A t \in Threads : context'[t] \in {context[t], instance}]_vars
=============================================================================
