------------------------------ MODULE Futures ------------------------------
(***************************************************************************)
(* promise<T> and future<T> of futures.h.  A cell is the shared_state that *)
(* the two have in common; promise::set and future::then may be called by  *)
(* different threads at the same time.  Whoever comes second runs the      *)
(* callback, on its own stack: the callback of future::then calls set or   *)
(* then on further cells, so that a chain of futures is delivered.         *)
(*                                                                         *)
(* A program says what every thread, and the callback of every cell, does: *)
(* a sequence of calls of set and then.  A value is the set of the cells   *)
(* it has come through.                                                    *)
(***************************************************************************)
EXTENDS Naturals, Sequences

CONSTANTS
  Threads,
  Cells,
  Programs   \* records [does : [Threads \cup Cells -> Seq(calls)], ready : SUBSET Cells]

VARIABLES
  program,   \* the program that runs; it does not change
  state,     \* _state
  value,     \* _value, or NoValue
  callback,  \* the cells whose _callback is there
  pc,        \* per call: the step it takes next
  arg,       \* per cell: the value its callback ran with, or NoValue
  runs,      \* per cell: how often its callback was run
  aborted    \* an assertion has failed; the process is gone

vars == <<program, state, value, callback, pc, arg, runs, aborted>>

Owners == Threads \cup Cells
Values == (SUBSET Cells) \ {{}}
NoValue == {}

(* A call is named by who makes it and its place in what that one does.    *)
CallsOf(p) == UNION {{<<o, i>> : i \in DOMAIN p.does[o]} : o \in Owners}
Calls == CallsOf(program)
CallIn(p, a) == p.does[a[1]][a[2]]
Call(a) == CallIn(program, a)
CellOf(a) == Call(a).cell

SetCall(c)  == [op |-> "set", cell |-> c]
ThenCall(c) == [op |-> "then", cell |-> c]

ASSUME OwnersAssumption == Threads \cap Cells = {}

ASSUME ProgramsAssumption ==
  \A p \in Programs :
    /\ p.ready \subseteq Cells
    /\ \A a \in CallsOf(p) : CallIn(p, a) \in [op : {"set", "then"}, cell : Cells]

(* No promise is set twice, and no future awaited twice: the one is moved  *)
(* from by set(), the other by then(), but a promise can be copied before. *)
LinearUse(p) ==
  \A a \in CallsOf(p) :
    /\ \A b \in CallsOf(p) : CallIn(p, a) = CallIn(p, b) => a = b
    /\ CallIn(p, a).op = "set" => CallIn(p, a).cell \notin p.ready

Linear == LinearUse(program)

(* transit<A, B>: the state a call leaves, and the one it expects of a     *)
(* call of the other kind that came first.                                 *)
Mine(a)   == IF Call(a).op = "set" THEN "VALUE" ELSE "CALLBACK"
Theirs(a) == IF Call(a).op = "set" THEN "CALLBACK" ELSE "VALUE"

-----------------------------------------------------------------------------
(* What the three forms of future::then attach to a cell: the promise of   *)
(* the cell that then returns gets f's result, or a unit when f has done   *)
(* its work, or what comes to the future that f returns.                   *)
ThenValue(next)         == <<SetCall(next)>>
ThenVoid(work, unit)    == Append(work, SetCall(unit))
ThenFuture(work, inner) == Append(work, ThenCall(inner))

(* reschedule hands the setting of next to the scheduler, which runs it at *)
(* once; the future of the unit is dropped.                                *)
Reschedule(next, unit) == ThenVoid(<<SetCall(next)>>, unit)

(* Mutant: make_future leaves its cell EMPTY.                              *)
InitAllEmpty ==
  /\ program \in Programs
  /\ state = [c \in Cells |-> "EMPTY"]
  /\ value = [c \in Cells |-> IF c \in program.ready THEN {c} ELSE NoValue]
  /\ callback = {}
  /\ pc = [a \in Calls |-> "store"]
  /\ arg = [c \in Cells |-> NoValue]
  /\ runs = [c \in Cells |-> 0]
  /\ aborted = FALSE

(* make_promise leaves a cell EMPTY, make_future one that has its value.   *)
Init ==
  /\ program \in Programs
  /\ state = [c \in Cells |-> IF c \in program.ready THEN "VALUE" ELSE "EMPTY"]
  /\ value = [c \in Cells |-> IF c \in program.ready THEN {c} ELSE NoValue]
  /\ callback = {}
  /\ pc = [a \in Calls |-> "store"]
  /\ arg = [c \in Cells |-> NoValue]
  /\ runs = [c \in Cells |-> 0]
  /\ aborted = FALSE

(* A thread runs from the start, a callback while a call is running it;    *)
(* what they do they do in order, each call after the last has returned.   *)
Running(o) == o \in Threads \/ \E b \in Calls : CellOf(b) = o /\ pc[b] = "running"

Reached(a) ==
  /\ Running(a[1])
  /\ \A b \in Calls : b[1] = a[1] /\ b[2] < a[2] => pc[b] = "done"

At(a, label) == ~aborted /\ pc[a] = label
Goto(a, label) == pc' = [pc EXCEPT ![a] = label]

(* Mutant: a callback passes on its own result only.                       *)
OutcomeOfCallbackOnly(a) == {CellOf(a)}

(* What a callback sets is computed from what it was run with.             *)
Outcome(a) == {CellOf(a)} \cup (IF a[1] \in Cells THEN arg[a[1]] ELSE {})

(* setValue and setCallback, up to the call of transit.                    *)
Store(a) ==
  /\ At(a, "store")
  /\ Reached(a)
  /\ \/ /\ Call(a).op = "set"
        /\ value' = [value EXCEPT ![CellOf(a)] = Outcome(a)]
        /\ UNCHANGED callback
     \/ /\ Call(a).op = "then"
        /\ callback' = callback \cup {CellOf(a)}
        /\ UNCHANGED value
  /\ Goto(a, "first_cas")
  /\ UNCHANGED <<program, state, arg, runs, aborted>>

(* Mutant: A is stored over what another call has left.                    *)
FirstCasOverwriting(a) ==
  /\ At(a, "first_cas")
  /\ state' = [state EXCEPT ![CellOf(a)] = Mine(a)]
  /\ Goto(a, "done")
  /\ UNCHANGED <<program, value, callback, arg, runs, aborted>>

(* Mutant: the call that comes first runs the callback.                    *)
FirstCasThenCall(a) ==
  /\ At(a, "first_cas")
  /\ IF state[CellOf(a)] = "EMPTY"
       THEN state' = [state EXCEPT ![CellOf(a)] = Mine(a)] /\ Goto(a, "call")
       ELSE Goto(a, "done") /\ UNCHANGED state
  /\ UNCHANGED <<program, value, callback, arg, runs, aborted>>

(* Mutant: the callback is run without a second compare-and-exchange.      *)
FirstCasOnly(a) ==
  /\ At(a, "first_cas")
  /\ IF state[CellOf(a)] = "EMPTY"
       THEN state' = [state EXCEPT ![CellOf(a)] = Mine(a)] /\ Goto(a, "done")
       ELSE Goto(a, "call") /\ UNCHANGED state
  /\ UNCHANGED <<program, value, callback, arg, runs, aborted>>

(* _state.compare_exchange_strong(EMPTY, A), and assert(expected == B).    *)
FirstCas(a) ==
  /\ At(a, "first_cas")
  /\ \/ /\ state[CellOf(a)] = "EMPTY"
        /\ state' = [state EXCEPT ![CellOf(a)] = Mine(a)]
        /\ Goto(a, "done")
        /\ UNCHANGED aborted
     \/ /\ state[CellOf(a)] = Theirs(a)
        /\ Goto(a, "second_cas")
        /\ UNCHANGED <<state, aborted>>
     \/ /\ state[CellOf(a)] \notin {"EMPTY", Theirs(a)}
        /\ aborted' = TRUE
        /\ UNCHANGED <<state, pc>>
  /\ UNCHANGED <<program, value, callback, arg, runs>>

(* Mutant: the second exchange is a store.                                 *)
SecondStore(a) ==
  /\ At(a, "second_cas")
  /\ state' = [state EXCEPT ![CellOf(a)] = "DONE"]
  /\ Goto(a, "call")
  /\ UNCHANGED <<program, value, callback, arg, runs, aborted>>

(* _state.compare_exchange_strong(B, DONE), and assert(false).             *)
SecondCas(a) ==
  /\ At(a, "second_cas")
  /\ \/ /\ state[CellOf(a)] = Theirs(a)
        /\ state' = [state EXCEPT ![CellOf(a)] = "DONE"]
        /\ Goto(a, "call")
        /\ UNCHANGED aborted
     \/ /\ state[CellOf(a)] # Theirs(a)
        /\ aborted' = TRUE
        /\ UNCHANGED <<state, pc>>
  /\ UNCHANGED <<program, value, callback, arg, runs>>

(* _callback(std::move( *_value )); without a callback or a value the      *)
(* exception, or the undefined behaviour, ends the process.                *)
RunCallback(a) ==
  /\ At(a, "call")
  /\ LET c == CellOf(a) IN
       \/ /\ c \in callback
          /\ value[c] # NoValue
          /\ arg' = [arg EXCEPT ![c] = value[c]]
          /\ runs' = [runs EXCEPT ![c] = @ + 1]
          /\ Goto(a, "running")
          /\ UNCHANGED aborted
       \/ /\ c \notin callback \/ value[c] = NoValue
          /\ aborted' = TRUE
          /\ UNCHANGED <<pc, arg, runs>>
  /\ UNCHANGED <<program, state, value, callback>>

(* The callback has made its calls and returns to the call that ran it.    *)
CallbackReturns(a) ==
  /\ At(a, "running")
  /\ \A b \in Calls : b[1] = CellOf(a) => pc[b] = "done"
  /\ Goto(a, "done")
  /\ UNCHANGED <<program, state, value, callback, arg, runs, aborted>>

Step(a) == Store(a) \/ FirstCas(a) \/ SecondCas(a) \/ RunCallback(a) \/ CallbackReturns(a)

(* Every thread has returned from its last call, or the process is gone.   *)
Terminating ==
  /\ aborted \/ \A a \in Calls : a[1] \in Threads => pc[a] = "done"
  /\ UNCHANGED vars

Next == Terminating \/ \E a \in Calls : Step(a)

(* Every thread is scheduled.                                              *)
AllCalls == UNION {CallsOf(p) : p \in Programs}
Fairness == \A a \in AllCalls : WF_vars(a \in Calls /\ Step(a))

Spec == Init /\ [][Next]_vars
FairSpec == Spec /\ Fairness

-----------------------------------------------------------------------------
(* Every cell and every call is at a step of the protocol.                 *)
TypeOK ==
  /\ program \in Programs
  /\ state \in [Cells -> {"EMPTY", "CALLBACK", "VALUE", "DONE"}]
  /\ value \in [Cells -> Values \cup {NoValue}]
  /\ callback \subseteq Cells
  /\ pc \in [Calls -> {"store", "first_cas", "second_cas", "call", "running", "done"}]
  /\ arg \in [Cells -> Values \cup {NoValue}]
  /\ runs \in [Cells -> Nat]
  /\ aborted \in BOOLEAN
  /\ \A a \in Calls : pc[a] \in {"call", "running"} => state[CellOf(a)] = "DONE"

(* The assertions of transit, and what the call of _callback presupposes,  *)
(* hold whatever the interleaving.                                         *)
NeverAborts == Linear => ~aborted

(***************************************************************************)
(* _value and _callback are no atomics: nobody may write one of them while *)
(* another writes it, or while transit moves the one into the other.       *)
(***************************************************************************)
MayStore(a) == pc[a] = "store" /\ Reached(a)

NoFieldRace ==
  \A a, b \in Calls :
    Linear /\ a # b /\ CellOf(a) = CellOf(b) /\ MayStore(a) =>
      /\ pc[b] # "call"
      /\ ~(MayStore(b) /\ Call(a).op = Call(b).op)

(* When the promise of a cell has been set and its future has a callback,  *)
(* and both calls have returned, the callback has run, with that value.    *)
Supplied(c) ==
  c \in program.ready \/ \E a \in Calls : Call(a) = SetCall(c) /\ pc[a] = "done"

NoLostCallback ==
  \A a \in Calls :
    LET c == CellOf(a) IN
      Linear /\ Call(a).op = "then" /\ pc[a] = "done" /\ Supplied(c) =>
        runs[c] = 1 /\ arg[c] = value[c]

(* A callback runs once at most, even if copies of the promise are set:    *)
(* transit lets one of the calls through and stops the process at others.  *)
AtMostOnce == \A c \in Cells : runs[c] <= 1

(***************************************************************************)
(* A chain composes: a callback is run with a value that came through all  *)
(* the cells before it, in whatever order they were set and attached.      *)
(* Setters are the cells whose callback sets c; CameThrough is the least   *)
(* set that has c and the setters of its members.                          *)
(***************************************************************************)
Setters(c) ==
  {e \in Cells : \E i \in DOMAIN program.does[e] : program.does[e][i] = SetCall(c)}

CameThrough(c) ==
  {d \in Cells :
     \A upstream \in SUBSET Cells :
       c \in upstream /\ (\A e \in upstream : Setters(e) \subseteq upstream) => d \in upstream}

Composed == \A c \in Cells : Linear /\ runs[c] > 0 => arg[c] = CameThrough(c)

-----------------------------------------------------------------------------
(* The shared states keep the contract of promise and future: a call takes *)
(* effect at the compare_exchange_strong that succeeds for it.             *)
Contract == INSTANCE PromiseContract WITH
  fulfilled  <- [c \in Cells |-> IF state[c] \in {"VALUE", "DONE"} THEN value[c] ELSE NoValue],
  subscribed <- {c \in Cells : state[c] \in {"CALLBACK", "DONE"}},
  received   <- arg,
  deliveries <- runs

KeepsContract == Contract!Spec

(***************************************************************************)
(* A thread returns from every call, and when both a value and a callback  *)
(* are there the callback makes all of its own calls, so that a chain gets *)
(* as far as it has values.                                                *)
(***************************************************************************)
ChainsComplete ==
  /\ \A a \in AllCalls : a[1] \in Threads => <>(Linear /\ a \in Calls => pc[a] = "done")
  /\ \A c \in Cells :
       Linear /\ Supplied(c) /\ c \in callback ~>
         runs[c] = 1 /\ \A b \in Calls : b[1] = c => pc[b] = "done"

=============================================================================
