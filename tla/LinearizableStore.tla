-------------------------- MODULE LinearizableStore --------------------------
(***************************************************************************)
(* What store_base promises its clients: every call takes effect in one    *)
(* indivisible step between its invocation and its return, and its answer  *)
(* is that of the call on the document at that step.                       *)
(***************************************************************************)
EXTENDS StoreCalls

CONSTANTS
  Threads,
  InitialRoots   \* documents a store may be constructed with

VARIABLES
  store,    \* the document
  client    \* per thread: idle, a call invoked, or a call answered

vars == <<store, client>>

Idle           == [phase |-> "idle"]
Invoked(c)     == [phase |-> "invoked", call |-> c]
Answered(c, a) == [phase |-> "answered", call |-> c, answer |-> a]

Init ==
  /\ store \in InitialRoots
  /\ client = [t \in Threads |-> Idle]

Invoke(t) ==
  /\ client[t] = Idle
  /\ \E c \in Calls : client' = [client EXCEPT ![t] = Invoked(c)]
  /\ UNCHANGED store

Linearize(t) ==
  \E c \in Calls :
    /\ client[t] = Invoked(c)
    /\ store' = NewRoot(c, store)
    /\ client' = [client EXCEPT ![t] = Answered(c, Answer(c, store))]

Return(t) ==
  /\ client[t].phase = "answered"
  /\ client' = [client EXCEPT ![t] = Idle]
  /\ UNCHANGED store

Next == \E t \in Threads : Invoke(t) \/ Linearize(t) \/ Return(t)

Spec == Init /\ [][Next]_vars

=============================================================================
