-------------------------- MODULE PromiseContract --------------------------
(***************************************************************************)
(* What promise and future of futures.h promise their users: whatever the  *)
(* order in which a value is set and a callback is attached, and whatever  *)
(* threads do it, the callback runs exactly once, with that value.         *)
(***************************************************************************)
EXTENDS Naturals

CONSTANTS
  Cells,     \* the pairs of a promise and its future
  Values,
  NoValue    \* no member of Values

VARIABLES
  fulfilled,   \* per cell: the value its promise was given, or NoValue
  subscribed,  \* the cells whose future was given a callback
  received,    \* per cell: the value its callback ran with, or NoValue
  deliveries   \* per cell: how often its callback ran

contractVars == <<fulfilled, subscribed, received, deliveries>>

(* make_future yields a future whose value is there from the start.        *)
Init ==
  /\ fulfilled \in [Cells -> Values \cup {NoValue}]
  /\ subscribed = {}
  /\ received = [c \in Cells |-> NoValue]
  /\ deliveries = [c \in Cells |-> 0]

Fulfil(c) ==
  /\ fulfilled[c] = NoValue
  /\ \E v \in Values : fulfilled' = [fulfilled EXCEPT ![c] = v]
  /\ UNCHANGED <<subscribed, received, deliveries>>

Subscribe(c) ==
  /\ c \notin subscribed
  /\ subscribed' = subscribed \cup {c}
  /\ UNCHANGED <<fulfilled, received, deliveries>>

Deliver(c) ==
  /\ fulfilled[c] # NoValue
  /\ c \in subscribed
  /\ deliveries[c] = 0
  /\ received' = [received EXCEPT ![c] = fulfilled[c]]
  /\ deliveries' = [deliveries EXCEPT ![c] = 1]
  /\ UNCHANGED <<fulfilled, subscribed>>

Next == \E c \in Cells : Fulfil(c) \/ Subscribe(c) \/ Deliver(c)

Spec == Init /\ [][Next]_contractVars

=============================================================================
