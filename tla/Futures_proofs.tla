--------------------------- MODULE Futures_proofs ---------------------------
(***************************************************************************)
(* Proofs about Futures, for every program, every set of threads and any   *)
(* number of cells: the protocol is type correct and runs no callback      *)
(* twice; and for programs that set no promise and await no future twice   *)
(* it never fails an assertion, has no race, loses no callback and keeps   *)
(* the contract of a promise.                                              *)
(***************************************************************************)
EXTENDS Futures, TLAPS

LEMMA CallTyped ==
  ASSUME program \in Programs, NEW a \in Calls
  PROVE  Call(a) \in [op : {"set", "then"}, cell : Cells] /\ CellOf(a) \in Cells
BY ProgramsAssumption DEF Calls, Call, CellOf

(* What a step leaves alone: the program, and so every call of it.         *)
LEMMA ProgramStays ==
  ASSUME [Next]_vars
  PROVE  /\ program' = program
         /\ Calls' = Calls
         /\ \A a : Call(a)' = Call(a) /\ CellOf(a)' = CellOf(a)
                   /\ Mine(a)' = Mine(a) /\ Theirs(a)' = Theirs(a)
<1>1. program' = program
  BY DEF Next, Step, Terminating, Store, FirstCas, SecondCas, RunCallback, CallbackReturns, vars
<1> QED
  BY <1>1 DEF Calls, Call, CellOf, Mine, Theirs

(* The type invariant.                                                     *)
LEMMA TypeInductive ==
  ASSUME TypeOK, [Next]_vars
  PROVE  TypeOK'
<1> USE DEF TypeOK
<1>a. /\ program' = program
      /\ Calls' = Calls
      /\ \A a : CellOf(a)' = CellOf(a)
  BY ProgramStays
<1>b. \A a \in Calls : Call(a).op \in {"set", "then"} /\ CellOf(a) \in Cells
  BY CallTyped
<1> USE <1>a, <1>b
<1>1. ASSUME NEW a \in Calls, Store(a) PROVE TypeOK'
  <2>1. Outcome(a) \in Values
    <3>1. a[1] \in Cells => arg[a[1]] \subseteq Cells
      BY DEF Values, NoValue
    <3> QED
      BY <3>1 DEF Outcome, Values, NoValue
  <2> QED
    BY <1>1, <2>1 DEF Store, At, Goto
<1>2. ASSUME NEW a \in Calls, FirstCas(a) PROVE TypeOK'
  <2>1. /\ UNCHANGED <<value, callback, arg, runs>>
        /\ pc' \in [Calls -> {"store", "first_cas", "second_cas", "call", "running", "done"}]
        /\ state' \in [Cells -> {"EMPTY", "CALLBACK", "VALUE", "DONE"}]
        /\ aborted' \in BOOLEAN
    BY <1>2 DEF FirstCas, At, Goto, Mine
  <2>2. ASSUME NEW b \in Calls, pc'[b] \in {"call", "running"}
        PROVE  state'[CellOf(b)] = "DONE"
    <3>1. pc[b] = pc'[b]
      BY <1>2, <2>2 DEF FirstCas, Goto
    <3>2. state[CellOf(b)] = "DONE"
      BY <2>2, <3>1
    <3> QED
      BY <1>2, <3>2 DEF FirstCas
  <2> QED
    BY <2>1, <2>2
<1>3. ASSUME NEW a \in Calls, SecondCas(a) PROVE TypeOK'
  BY <1>3 DEF SecondCas, At, Goto, Theirs
<1>4. ASSUME NEW a \in Calls, RunCallback(a) PROVE TypeOK'
  <2>1. /\ UNCHANGED <<state, value, callback>>
        /\ arg' \in [Cells -> Values \cup {NoValue}]
        /\ runs' \in [Cells -> Nat]
    <3>1. CellOf(a) \in Cells /\ runs[CellOf(a)] + 1 \in Nat
      OBVIOUS
    <3>2. value[CellOf(a)] \in Values \cup {NoValue}
      OBVIOUS
    <3> HIDE DEF TypeOK
    <3> QED
      BY <1>4, <3>1, <3>2 DEF RunCallback, TypeOK
  <2>3. aborted' \in BOOLEAN
    BY <1>4 DEF RunCallback
  <2>2. /\ pc[a] = "call"
        /\ pc' = [pc EXCEPT ![a] = "running"] \/ pc' = pc
    BY <1>4 DEF RunCallback, At, Goto
  <2> QED
    BY <2>1, <2>2, <2>3
<1>5. ASSUME NEW a \in Calls, CallbackReturns(a) PROVE TypeOK'
  BY <1>5 DEF CallbackReturns, At, Goto
<1>6. ASSUME UNCHANGED vars PROVE TypeOK'
  BY <1>6 DEF vars
<1> QED
  BY <1>1, <1>2, <1>3, <1>4, <1>5, <1>6 DEF Next, Step, Terminating

LEMMA TypeInitially == Init => TypeOK
<1> SUFFICES ASSUME Init PROVE TypeOK
  OBVIOUS
<1>1. \A c \in Cells : {c} \in Values
  BY DEF Values
<1> QED
  BY <1>1 DEF Init, TypeOK

(* Every cell and call keeps to the steps of the protocol.                 *)
THEOREM TypeCorrect == Spec => []TypeOK
BY TypeInitially, TypeInductive, PTL DEF Spec

-----------------------------------------------------------------------------
(***************************************************************************)
(* At most one delivery, copied promises or not: a call runs the callback  *)
(* of a cell only after it has itself moved the cell to DONE, which no     *)
(* other call can do after it.                                             *)
(***************************************************************************)
OneDelivery ==
  \A a \in Calls :
    pc[a] = "call" =>
      /\ runs[CellOf(a)] = 0
      /\ \A b \in Calls : CellOf(b) = CellOf(a) /\ pc[b] = "call" => a = b

OnceInv ==
  /\ OneDelivery
  /\ \A c \in Cells : runs[c] <= 1 /\ (state[c] # "DONE" => runs[c] = 0)

LEMMA OnceInductive ==
  ASSUME TypeOK, OnceInv, [Next]_vars
  PROVE  OnceInv'
<1> USE DEF OnceInv, OneDelivery
<1>a. /\ program' = program
      /\ Calls' = Calls
      /\ \A a : CellOf(a)' = CellOf(a)
  BY ProgramStays
<1>b. \A a \in Calls : CellOf(a) \in Cells
  BY CallTyped DEF TypeOK
<1>c. /\ state \in [Cells -> {"EMPTY", "CALLBACK", "VALUE", "DONE"}]
      /\ pc \in [Calls -> {"store", "first_cas", "second_cas", "call", "running", "done"}]
      /\ runs \in [Cells -> Nat]
      /\ \A a \in Calls : pc[a] \in {"call", "running"} => state[CellOf(a)] = "DONE"
  BY DEF TypeOK
<1> USE <1>a, <1>b, <1>c
<1>1. ASSUME NEW a \in Calls, Store(a) PROVE OnceInv'
  BY <1>1 DEF Store, Goto, At
<1>2. ASSUME NEW a \in Calls, FirstCas(a) PROVE OnceInv'
  <2>1. /\ UNCHANGED runs
        /\ \A b \in Calls : pc'[b] = "call" => pc[b] = "call"
        /\ \A c \in Cells : state'[c] # "DONE" => state[c] # "DONE"
    BY <1>2 DEF FirstCas, At, Goto, Mine
  <2> QED
    BY <2>1
<1>3. ASSUME NEW a \in Calls, SecondCas(a) PROVE OnceInv'
  <2>1. CASE state[CellOf(a)] = Theirs(a)
    <3>1. /\ UNCHANGED runs
          /\ state' = [state EXCEPT ![CellOf(a)] = "DONE"]
          /\ pc' = [pc EXCEPT ![a] = "call"]
      BY <1>3, <2>1 DEF SecondCas, Goto
    <3>2. /\ state[CellOf(a)] # "DONE"
          /\ runs[CellOf(a)] = 0
          /\ \A b \in Calls : CellOf(b) = CellOf(a) => pc[b] # "call"
      BY <2>1 DEF Theirs
    <3> QED
      BY <3>1, <3>2
  <2>2. CASE state[CellOf(a)] # Theirs(a)
    BY <1>3, <2>2 DEF SecondCas
  <2> QED
    BY <2>1, <2>2
<1>4. ASSUME NEW a \in Calls, RunCallback(a) PROVE OnceInv'
  <2>1. CASE aborted' = aborted
    <3>1. /\ UNCHANGED state
          /\ pc[a] = "call"
          /\ runs' = [runs EXCEPT ![CellOf(a)] = @ + 1]
          /\ pc' = [pc EXCEPT ![a] = "running"]
      BY <1>4, <2>1 DEF RunCallback, At, Goto
    <3>2. /\ runs[CellOf(a)] = 0
          /\ state[CellOf(a)] = "DONE"
          /\ \A b \in Calls : CellOf(b) = CellOf(a) /\ pc[b] = "call" => a = b
      BY <3>1
    <3> QED
      BY <3>1, <3>2
  <2>2. CASE aborted' # aborted
    BY <1>4, <2>2 DEF RunCallback
  <2> QED
    BY <2>1, <2>2
<1>5. ASSUME NEW a \in Calls, CallbackReturns(a) PROVE OnceInv'
  BY <1>5 DEF CallbackReturns, Goto, At
<1>6. ASSUME UNCHANGED vars PROVE OnceInv'
  BY <1>6 DEF vars
<1> QED
  BY <1>1, <1>2, <1>3, <1>4, <1>5, <1>6 DEF Next, Step, Terminating

(* No program, not even one that sets copies of a promise, makes a         *)
(* callback run twice.                                                     *)
THEOREM CallbackRunsOnce == Spec => []AtMostOnce
<1>1. Init => OnceInv
  BY DEF Init, OnceInv, OneDelivery
<1>2. OnceInv => AtMostOnce
  BY DEF OnceInv, AtMostOnce
<1> QED
  BY <1>1, <1>2, OnceInductive, TypeCorrect, PTL DEF Spec

-----------------------------------------------------------------------------
(***************************************************************************)
(* The protocol, for programs that use every promise and future once.      *)
(* Where a call stands says what the cell holds; what the cell holds says  *)
(* that the callback has run or that a call is about to run it.            *)
(***************************************************************************)
HasField(a) ==
  IF Call(a).op = "set" THEN value[CellOf(a)] # NoValue ELSE CellOf(a) \in callback

CallsAgree ==
  \A a \in Calls :
    /\ pc[a] = "store" => state[CellOf(a)] \in {"EMPTY", Theirs(a)}
    /\ pc[a] = "first_cas" => state[CellOf(a)] \in {"EMPTY", Theirs(a)} /\ HasField(a)
    /\ pc[a] = "second_cas" => state[CellOf(a)] = Theirs(a) /\ HasField(a)
    /\ pc[a] = "done" => state[CellOf(a)] \in {Mine(a), "DONE"}

CellsAgree ==
  \A c \in Cells :
    /\ state[c] \in {"VALUE", "DONE"} => value[c] # NoValue
    /\ state[c] \in {"CALLBACK", "DONE"} => c \in callback
    /\ c \in program.ready => state[c] \in {"VALUE", "DONE"}
    /\ state[c] = "DONE" =>
         \/ runs[c] = 1 /\ arg[c] = value[c]
         \/ \E a \in Calls : CellOf(a) = c /\ pc[a] = "call"

Protocol == CallsAgree /\ CellsAgree /\ ~aborted

(* In a linear program two calls of one kind on one cell are one call.     *)
LEMMA OneOfAKind ==
  ASSUME TypeOK, Linear, NEW a \in Calls, NEW b \in Calls,
         CellOf(a) = CellOf(b), Call(a).op = Call(b).op
  PROVE  a = b
<1>1. /\ Call(a) \in [op : {"set", "then"}, cell : Cells]
      /\ Call(b) \in [op : {"set", "then"}, cell : Cells]
  BY CallTyped DEF TypeOK
<1>2. Call(a) = Call(b)
  BY <1>1 DEF CellOf
<1> QED
  BY <1>2 DEF Linear, LinearUse, Calls, Call

LEMMA ProtocolInductive ==
  ASSUME TypeOK, OnceInv, Linear, Protocol, [Next]_vars
  PROVE  Protocol' /\ Linear'
<1> USE DEF Protocol
<1>a. /\ program' = program
      /\ Calls' = Calls
      /\ \A a : Call(a)' = Call(a) /\ CellOf(a)' = CellOf(a)
                /\ Mine(a)' = Mine(a) /\ Theirs(a)' = Theirs(a)
  BY ProgramStays
<1>b. \A a \in Calls : Call(a).op \in {"set", "then"} /\ CellOf(a) \in Cells
  BY CallTyped DEF TypeOK
<1>c. /\ state \in [Cells -> {"EMPTY", "CALLBACK", "VALUE", "DONE"}]
      /\ pc \in [Calls -> {"store", "first_cas", "second_cas", "call", "running", "done"}]
      /\ runs \in [Cells -> Nat]
      /\ value \in [Cells -> Values \cup {NoValue}]
      /\ arg \in [Cells -> Values \cup {NoValue}]
      /\ \A a \in Calls : pc[a] \in {"call", "running"} => state[CellOf(a)] = "DONE"
  BY DEF TypeOK
<1>d. \A a, b \in Calls : CellOf(a) = CellOf(b) /\ Call(a).op = Call(b).op => a = b
  BY OneOfAKind
<1>e. /\ \A a \in Calls : Mine(a) \in {"VALUE", "CALLBACK"} /\ Theirs(a) \in {"VALUE", "CALLBACK"}
      /\ \A a \in Calls : Mine(a) # Theirs(a)
      /\ \A a, b \in Calls : Call(a).op # Call(b).op => Mine(b) = Theirs(a) /\ Theirs(b) = Mine(a)
  BY <1>b DEF Mine, Theirs
<1>l. Linear'
  BY <1>a DEF Linear, LinearUse
<1>1. ASSUME NEW a \in Calls, Store(a) PROVE Protocol'
  <2>1. /\ UNCHANGED <<program, state, arg, runs, aborted>>
        /\ pc[a] = "store"
        /\ pc' = [pc EXCEPT ![a] = "first_cas"]
    BY <1>1 DEF Store, At, Goto
  <2>2. state[CellOf(a)] \in {"EMPTY", Theirs(a)}
    BY <2>1 DEF CallsAgree
  <2>3. CASE Call(a).op = "set"
    <3>1. /\ value' = [value EXCEPT ![CellOf(a)] = Outcome(a)]
          /\ UNCHANGED callback
      BY <1>1, <2>3 DEF Store
    <3>2. Outcome(a) # NoValue
      BY DEF Outcome, NoValue
    <3>3. state[CellOf(a)] \in {"EMPTY", "CALLBACK"}
      BY <2>2, <2>3 DEF Theirs
    <3>4. CallsAgree'
      BY <1>a, <1>b, <1>c, <1>d, <2>1, <2>3, <3>1, <3>2 DEF CallsAgree, HasField
    <3>5. CellsAgree'
      BY <1>a, <1>b, <1>c, <2>1, <3>1, <3>3 DEF CellsAgree
    <3> QED
      BY <2>1, <3>4, <3>5
  <2>4. CASE Call(a).op = "then"
    <3>1. /\ callback' = callback \cup {CellOf(a)}
          /\ UNCHANGED value
      BY <1>1, <2>4 DEF Store
    <3>4. CallsAgree'
      BY <1>a, <1>b, <1>c, <1>d, <2>1, <2>4, <3>1 DEF CallsAgree, HasField
    <3>5. CellsAgree'
      BY <1>a, <1>b, <1>c, <2>1, <3>1 DEF CellsAgree
    <3> QED
      BY <2>1, <3>4, <3>5
  <2> QED
    BY <1>b, <2>3, <2>4
<1>2. ASSUME NEW a \in Calls, FirstCas(a) PROVE Protocol'
  <2>1. /\ UNCHANGED <<program, value, callback, arg, runs>>
        /\ pc[a] = "first_cas"
        /\ state[CellOf(a)] \in {"EMPTY", Theirs(a)}
        /\ HasField(a)
    BY <1>2 DEF FirstCas, At, CallsAgree
  <2>2. CASE state[CellOf(a)] = "EMPTY"
    <3>1. /\ state' = [state EXCEPT ![CellOf(a)] = Mine(a)]
          /\ pc' = [pc EXCEPT ![a] = "done"]
          /\ UNCHANGED aborted
      BY <1>e, <1>2, <2>2 DEF FirstCas, Goto
    <3>2. \A b \in Calls : b # a /\ CellOf(b) = CellOf(a) => pc[b] \notin {"second_cas", "done"}
      BY <1>b, <1>d, <1>e, <2>2 DEF CallsAgree
    <3>3. \A b \in Calls : b # a /\ CellOf(b) = CellOf(a) => Mine(a) = Theirs(b)
      BY <1>b, <1>d, <1>e
    <3>4. CallsAgree'
      BY <1>a, <1>b, <1>c, <2>1, <3>1, <3>2, <3>3 DEF CallsAgree, HasField
    <3>5. CellsAgree'
      <4>1. state'[CellOf(a)] = Mine(a)
        BY <1>b, <1>c, <3>1
      <4>2. Mine(a) = "VALUE" => value[CellOf(a)] # NoValue
        BY <2>1 DEF Mine, HasField
      <4>3. Mine(a) = "CALLBACK" => CellOf(a) \in callback
        BY <2>1 DEF Mine, HasField
      <4>4. CellOf(a) \notin program.ready
        BY <1>b, <2>2 DEF CellsAgree
      <4> QED
        BY <1>a, <1>b, <1>c, <1>e, <2>1, <3>1, <4>1, <4>2, <4>3, <4>4 DEF CellsAgree
    <3> QED
      BY <3>1, <3>4, <3>5
  <2>3. CASE state[CellOf(a)] = Theirs(a)
    <3>1. /\ UNCHANGED <<state, aborted>>
          /\ pc' = [pc EXCEPT ![a] = "second_cas"]
      BY <1>e, <1>2, <2>3 DEF FirstCas, Goto
    <3>2. CallsAgree'
      BY <1>a, <1>b, <1>c, <2>1, <2>3, <3>1 DEF CallsAgree, HasField
    <3>3. CellsAgree'
      BY <1>a, <1>b, <1>c, <2>1, <3>1 DEF CellsAgree
    <3> QED
      BY <3>1, <3>2, <3>3
  <2> QED
    BY <2>1, <2>2, <2>3
<1>3. ASSUME NEW a \in Calls, SecondCas(a) PROVE Protocol'
  <2>1. /\ UNCHANGED <<program, value, callback, arg, runs, aborted>>
        /\ pc[a] = "second_cas"
        /\ state[CellOf(a)] = Theirs(a)
        /\ HasField(a)
        /\ state' = [state EXCEPT ![CellOf(a)] = "DONE"]
        /\ pc' = [pc EXCEPT ![a] = "call"]
    BY <1>3 DEF SecondCas, At, Goto, CallsAgree
  <2>2. \A b \in Calls : b # a /\ CellOf(b) = CellOf(a) => pc[b] \notin {"store", "first_cas", "second_cas"}
    BY <1>b, <1>d, <1>e, <2>1 DEF CallsAgree
  <2>3. CallsAgree'
    BY <1>a, <1>b, <1>c, <2>1, <2>2 DEF CallsAgree, HasField
  <2>4. CellsAgree'
    <3>1. Theirs(a) = "VALUE" => value[CellOf(a)] # NoValue /\ CellOf(a) \in callback
      BY <1>b, <2>1 DEF Theirs, HasField, CellsAgree
    <3>2. Theirs(a) = "CALLBACK" => value[CellOf(a)] # NoValue /\ CellOf(a) \in callback
      BY <1>b, <2>1 DEF Theirs, HasField, CellsAgree
    <3>3. pc'[a] = "call"
      BY <1>c, <2>1
    <3>4. \A b \in Calls : pc[b] = "call" => pc'[b] = "call"
      BY <1>c, <2>1
    <3> QED
      BY <1>a, <1>b, <1>c, <1>e, <2>1, <3>1, <3>2, <3>3, <3>4 DEF CellsAgree
  <2> QED
    BY <2>1, <2>3, <2>4
<1>4. ASSUME NEW a \in Calls, RunCallback(a) PROVE Protocol'
  <2>1. /\ UNCHANGED <<program, state, value, callback>>
        /\ pc[a] = "call"
        /\ state[CellOf(a)] = "DONE"
    BY <1>c, <1>4 DEF RunCallback, At
  <2>2. CellOf(a) \in callback /\ value[CellOf(a)] # NoValue
    BY <1>b, <2>1 DEF CellsAgree
  <2>3. /\ UNCHANGED aborted
        /\ arg' = [arg EXCEPT ![CellOf(a)] = value[CellOf(a)]]
        /\ runs' = [runs EXCEPT ![CellOf(a)] = @ + 1]
        /\ pc' = [pc EXCEPT ![a] = "running"]
    BY <1>4, <2>2 DEF RunCallback, Goto
  <2>4. runs[CellOf(a)] = 0
    BY <2>1 DEF OnceInv, OneDelivery
  <2>5. CallsAgree'
    BY <1>a, <1>b, <1>c, <2>1, <2>3 DEF CallsAgree, HasField
  <2>6. CellsAgree'
    <3>1. runs'[CellOf(a)] = 1 /\ arg'[CellOf(a)] = value'[CellOf(a)]
      BY <1>b, <1>c, <2>1, <2>3, <2>4
    <3>2. \A c \in Cells : c # CellOf(a) => runs'[c] = runs[c] /\ arg'[c] = arg[c]
      BY <1>c, <2>3
    <3>3. \A b \in Calls : CellOf(b) # CellOf(a) => pc'[b] = pc[b]
      BY <1>c, <2>3
    <3> QED
      BY <1>a, <1>b, <2>1, <3>1, <3>2, <3>3 DEF CellsAgree
  <2> QED
    BY <2>3, <2>5, <2>6
<1>5. ASSUME NEW a \in Calls, CallbackReturns(a) PROVE Protocol'
  <2>1. /\ UNCHANGED <<program, state, value, callback, arg, runs, aborted>>
        /\ pc[a] = "running"
        /\ pc' = [pc EXCEPT ![a] = "done"]
        /\ state[CellOf(a)] = "DONE"
    BY <1>c, <1>5 DEF CallbackReturns, At, Goto
  <2>2. CallsAgree'
    BY <1>a, <1>b, <1>c, <2>1 DEF CallsAgree, HasField
  <2>3. CellsAgree'
    BY <1>a, <1>b, <1>c, <2>1 DEF CellsAgree
  <2> QED
    BY <2>1, <2>2, <2>3
<1>6. ASSUME UNCHANGED vars PROVE Protocol'
  BY <1>a, <1>6 DEF vars, CallsAgree, CellsAgree, HasField
<1> QED
  BY <1>l, <1>1, <1>2, <1>3, <1>4, <1>5, <1>6 DEF Next, Step, Terminating

LEMMA ProtocolInitially ==
  ASSUME Init, Linear
  PROVE  OnceInv /\ Protocol
<1>1. OnceInv
  BY DEF Init, OnceInv, OneDelivery
<1>3. \A a \in Calls : /\ CellOf(a) \in Cells
                       /\ Call(a).op \in {"set", "then"}
                       /\ Call(a).op = "set" => CellOf(a) \notin program.ready
  BY CallTyped DEF Init, Linear, LinearUse, Calls, Call, CellOf
<1>4. CallsAgree
  BY <1>3 DEF Init, CallsAgree, Theirs
<1>5. CellsAgree
  BY DEF Init, CellsAgree, NoValue
<1> QED
  BY <1>1, <1>4, <1>5 DEF Protocol, Init

(* A call about to store finds its cell before DONE, and a call about to   *)
(* run a callback finds it at DONE.                                        *)
LEMMA ProtocolHasNoRace ==
  ASSUME TypeOK, Linear, Protocol
  PROVE  NoFieldRace
<1>1. \A a, b \in Calls :
        CellOf(a) = CellOf(b) /\ pc[a] = "store" /\ pc[b] = "call" => FALSE
  BY DEF TypeOK, Protocol, CallsAgree, Theirs
<1> QED
  BY <1>1, OneOfAKind DEF NoFieldRace, MayStore

LEMMA ProtocolLosesNothing ==
  ASSUME TypeOK, Linear, Protocol
  PROVE  NoLostCallback
<1> SUFFICES ASSUME NEW a \in Calls, Call(a).op = "then", pc[a] = "done", Supplied(CellOf(a))
             PROVE  runs[CellOf(a)] = 1 /\ arg[CellOf(a)] = value[CellOf(a)]
  BY DEF NoLostCallback
<1>1. CellOf(a) \in Cells
  BY CallTyped DEF TypeOK
<1>2. state[CellOf(a)] \in {"CALLBACK", "DONE"}
  BY DEF Protocol, CallsAgree, Mine
<1>3. CASE CellOf(a) \in program.ready
  <2>1. state[CellOf(a)] = "DONE"
    BY <1>1, <1>2, <1>3 DEF Protocol, CellsAgree
  <2>2. \A b \in Calls : CellOf(b) = CellOf(a) => Call(b).op # "set"
    BY <1>3 DEF Linear, LinearUse, Calls, Call, CellOf
  <2>3. \A b \in Calls : CellOf(b) = CellOf(a) => a = b
    BY <2>2, OneOfAKind, CallTyped DEF TypeOK
  <2> QED
    BY <1>1, <2>1, <2>3 DEF Protocol, CellsAgree
<1>4. CASE \E b \in Calls : Call(b) = SetCall(CellOf(a)) /\ pc[b] = "done"
  <2>1. PICK b \in Calls : Call(b) = SetCall(CellOf(a)) /\ pc[b] = "done"
    BY <1>4
  <2>2. CellOf(b) = CellOf(a) /\ Call(b).op = "set"
    BY <2>1 DEF SetCall, CellOf
  <2>3. state[CellOf(a)] = "DONE"
    BY <1>2, <2>1, <2>2 DEF Protocol, CallsAgree, Mine
  <2>4. \A d \in Calls : CellOf(d) = CellOf(a) => d = a \/ d = b
    BY <2>2, OneOfAKind, CallTyped DEF TypeOK
  <2> QED
    BY <1>1, <2>1, <2>3, <2>4 DEF Protocol, CellsAgree
<1> QED
  BY <1>3, <1>4 DEF Supplied

(* The protocol, as an invariant of linear programs.                       *)
ProtocolInv == TypeOK /\ OnceInv /\ (Linear => Protocol)

LEMMA ProtocolHolds == Spec => []ProtocolInv
<1>1. Init => ProtocolInv
  <2>1. Init => OnceInv
    BY DEF Init, OnceInv, OneDelivery
  <2> QED
    BY <2>1, TypeInitially, ProtocolInitially DEF ProtocolInv
<1>2. ProtocolInv /\ [Next]_vars => ProtocolInv'
  <2> SUFFICES ASSUME ProtocolInv, [Next]_vars PROVE ProtocolInv'
    OBVIOUS
  <2>1. Linear' => Linear
    BY ProgramStays DEF Linear, LinearUse
  <2> QED
    BY <2>1, TypeInductive, OnceInductive, ProtocolInductive DEF ProtocolInv
<1> QED
  BY <1>1, <1>2, PTL DEF Spec

(* In a program that sets no promise and awaits no future twice, no        *)
(* assertion of transit fails.                                             *)
THEOREM NoAssertionFails == Spec => []NeverAborts
<1>1. ProtocolInv => NeverAborts
  BY DEF ProtocolInv, Protocol, NeverAborts
<1> QED
  BY <1>1, ProtocolHolds, PTL

(* In such a program _value and _callback are used by one thread at a time.*)
THEOREM FieldsNeverRaced == Spec => []NoFieldRace
<1>1. ProtocolInv => NoFieldRace
  BY ProtocolHasNoRace DEF ProtocolInv, NoFieldRace
<1> QED
  BY <1>1, ProtocolHolds, PTL

(* In such a program a callback and a value that are both there have met.  *)
THEOREM NoCallbackLost == Spec => []NoLostCallback
<1>1. ProtocolInv => NoLostCallback
  BY ProtocolLosesNothing DEF ProtocolInv, NoLostCallback
<1> QED
  BY <1>1, ProtocolHolds, PTL

-----------------------------------------------------------------------------
(***************************************************************************)
(* Chains.  The value of a cell came through the cell and through whatever *)
(* the value came through that the callback setting it was run with.       *)
(***************************************************************************)
Upstream(S) == \A e \in S : Setters(e) \subseteq S

LEMMA CameThroughItself ==
  ASSUME NEW c \in Cells
  PROVE  /\ CameThrough(c) \subseteq Cells
         /\ c \in CameThrough(c)
         /\ Upstream(CameThrough(c))
<1>1. \A e \in CameThrough(c) : \A d \in Setters(e) : d \in CameThrough(c)
  BY DEF CameThrough, Setters
<1> QED
  BY <1>1 DEF CameThrough, Upstream

LEMMA CameThroughLeast ==
  ASSUME NEW c \in Cells, NEW S \in SUBSET Cells, c \in S, Upstream(S)
  PROVE  CameThrough(c) \subseteq S
BY DEF CameThrough, Upstream

(* A cell that no callback sets begins a chain.                            *)
LEMMA ChainBegins ==
  ASSUME NEW c \in Cells, Setters(c) = {}
  PROVE  CameThrough(c) = {c}
<1>1. Upstream({c})
  BY DEF Upstream
<1> QED
  BY <1>1, CameThroughItself, CameThroughLeast

(* A cell that one callback sets continues its chain.                      *)
LEMMA ChainContinues ==
  ASSUME NEW c \in Cells, NEW d \in Cells, Setters(c) = {d}
  PROVE  CameThrough(c) = {c} \cup CameThrough(d)
<1>1. CameThrough(c) \subseteq {c} \cup CameThrough(d)
  <2>1. Upstream({c} \cup CameThrough(d))
    BY CameThroughItself DEF Upstream
  <2> QED
    BY <2>1, CameThroughItself, CameThroughLeast
<1>2. CameThrough(d) \subseteq CameThrough(c)
  <2>1. d \in CameThrough(c)
    BY CameThroughItself DEF Upstream
  <2> QED
    BY <2>1, CameThroughItself, CameThroughLeast
<1> QED
  BY <1>1, <1>2, CameThroughItself

(* What a call of set sets, when the callback that makes it was run with   *)
(* a value of its chain.                                                   *)
LEMMA OutcomeContinues ==
  ASSUME TypeOK, Linear, NEW a \in Calls, Call(a).op = "set",
         a[1] \in Cells => arg[a[1]] = CameThrough(a[1])
  PROVE  Outcome(a) = CameThrough(CellOf(a))
<1> DEFINE c == CellOf(a)
<1>1. c \in Cells /\ Call(a) = SetCall(c)
  BY CallTyped DEF SetCall, CellOf, TypeOK
<1>2. a[1] \in Owners /\ a[2] \in DOMAIN program.does[a[1]]
  BY DEF Calls, CallsOf
<1>3. \A e \in Setters(c) : e = a[1]
  <2> SUFFICES ASSUME NEW e \in Setters(c) PROVE e = a[1]
    OBVIOUS
  <2>1. PICK i \in DOMAIN program.does[e] : program.does[e][i] = SetCall(c)
    BY DEF Setters
  <2>2. <<e, i>> \in Calls /\ Call(<<e, i>>) = SetCall(c)
    BY <2>1 DEF Setters, Calls, CallsOf, Owners, Call, CallIn
  <2>3. a = <<e, i>>
    BY <1>1, <2>2 DEF Linear, LinearUse, Calls, Call
  <2> QED
    BY <2>3
<1>4. CASE a[1] \in Cells
  <2>1. a[1] \in Setters(c)
    BY <1>1, <1>2, <1>4 DEF Setters, Call, CallIn
  <2>2. Setters(c) = {a[1]}
    BY <1>3, <2>1
  <2> QED
    BY <1>1, <1>4, <2>2, ChainContinues DEF Outcome
<1>5. CASE a[1] \notin Cells
  <2>1. Setters(c) = {}
    BY <1>3, <1>5 DEF Setters
  <2> QED
    BY <1>1, <1>5, <2>1, ChainBegins DEF Outcome
<1> QED
  BY <1>4, <1>5

(* Values come through their chains, and a callback that has run, or that  *)
(* runs, was given one.                                                    *)
ChainInv ==
  /\ \A c \in Cells :
       /\ value[c] \in {NoValue, CameThrough(c)}
       /\ arg[c] \in {NoValue, CameThrough(c)}
       /\ runs[c] > 0 => arg[c] # NoValue
  /\ \A a \in Calls : pc[a] = "running" => arg[CellOf(a)] # NoValue

LEMMA ChainInitially ==
  ASSUME Init, Linear
  PROVE  ChainInv
<1>1. ASSUME NEW c \in program.ready PROVE CameThrough(c) = {c}
  <2>1. c \in Cells
    BY ProgramsAssumption DEF Init
  <2>2. ASSUME NEW e \in Setters(c) PROVE FALSE
    <3>1. PICK i \in DOMAIN program.does[e] : program.does[e][i] = SetCall(c)
      BY DEF Setters
    <3>2. <<e, i>> \in Calls /\ Call(<<e, i>>) = SetCall(c)
      BY <3>1 DEF Setters, Calls, CallsOf, Owners, Call, CallIn
    <3> QED
      BY <3>2 DEF Linear, LinearUse, Calls, Call, SetCall
  <2> QED
    BY <2>1, <2>2, ChainBegins
<1>2. \A c \in Cells : value[c] \in {NoValue, CameThrough(c)}
  BY <1>1 DEF Init
<1> QED
  BY <1>2 DEF Init, ChainInv

LEMMA ChainInductive ==
  ASSUME TypeOK, Linear, ChainInv, [Next]_vars
  PROVE  ChainInv'
<1>a. /\ program' = program
      /\ Calls' = Calls
      /\ \A a : Call(a)' = Call(a) /\ CellOf(a)' = CellOf(a)
  BY ProgramStays
<1>b. \A a \in Calls : Call(a).op \in {"set", "then"} /\ CellOf(a) \in Cells
  BY CallTyped DEF TypeOK
<1>c. /\ pc \in [Calls -> {"store", "first_cas", "second_cas", "call", "running", "done"}]
      /\ runs \in [Cells -> Nat]
      /\ value \in [Cells -> Values \cup {NoValue}]
      /\ arg \in [Cells -> Values \cup {NoValue}]
  BY DEF TypeOK
<1>d. \A c \in Cells : CameThrough(c)' = CameThrough(c)
  BY <1>a DEF CameThrough, Setters
<1>q. ASSUME UNCHANGED <<value, arg, runs>>,
             \A a \in Calls : pc'[a] = "running" => pc[a] = "running"
      PROVE  ChainInv'
  BY <1>a, <1>b, <1>d, <1>q DEF ChainInv
<1>1. ASSUME NEW a \in Calls, Store(a) PROVE ChainInv'
  <2>1. /\ UNCHANGED <<arg, runs>>
        /\ \A b \in Calls : pc'[b] = "running" => pc[b] = "running"
    BY <1>1, <1>c DEF Store, Goto
  <2>2. CASE Call(a).op = "set"
    <3>1. value' = [value EXCEPT ![CellOf(a)] = Outcome(a)]
      BY <1>1, <2>2 DEF Store
    <3>2. a[1] \in Cells => arg[a[1]] = CameThrough(a[1])
      BY <1>1, OwnersAssumption DEF Store, Reached, Running, ChainInv
    <3>3. Outcome(a) = CameThrough(CellOf(a))
      BY <2>2, <3>2, OutcomeContinues
    <3>4. \A c \in Cells : value'[c] \in {NoValue, CameThrough(c)}
      BY <1>b, <1>c, <3>1, <3>3 DEF ChainInv
    <3> QED
      BY <1>a, <1>b, <1>d, <2>1, <3>4 DEF ChainInv
  <2>3. CASE Call(a).op = "then"
    BY <1>1, <1>q, <2>1, <2>3 DEF Store
  <2> QED
    BY <1>b, <2>2, <2>3
<1>2. ASSUME NEW a \in Calls, FirstCas(a) PROVE ChainInv'
  BY <1>2, <1>c, <1>q DEF FirstCas, Goto
<1>3. ASSUME NEW a \in Calls, SecondCas(a) PROVE ChainInv'
  BY <1>3, <1>c, <1>q DEF SecondCas, Goto
<1>4. ASSUME NEW a \in Calls, RunCallback(a) PROVE ChainInv'
  <2>1. CASE aborted' = aborted
    <3>1. /\ UNCHANGED value
          /\ value[CellOf(a)] # NoValue
          /\ arg' = [arg EXCEPT ![CellOf(a)] = value[CellOf(a)]]
          /\ runs' = [runs EXCEPT ![CellOf(a)] = @ + 1]
          /\ pc' = [pc EXCEPT ![a] = "running"]
      BY <1>4, <2>1 DEF RunCallback, At, Goto
    <3>2. value[CellOf(a)] = CameThrough(CellOf(a))
      BY <1>b, <3>1 DEF ChainInv
    <3>3. \A c \in Cells : arg'[c] \in {NoValue, CameThrough(c)}
      BY <1>b, <1>c, <3>1, <3>2 DEF ChainInv
    <3>4. \A c \in Cells : runs'[c] > 0 => arg'[c] # NoValue
      BY <1>b, <1>c, <3>1 DEF ChainInv
    <3>5. \A b \in Calls : pc'[b] = "running" => arg'[CellOf(b)] # NoValue
      BY <1>b, <1>c, <3>1 DEF ChainInv
    <3> QED
      BY <1>a, <1>d, <3>1, <3>3, <3>4, <3>5 DEF ChainInv
  <2>2. CASE aborted' # aborted
    BY <1>4, <1>q, <2>2 DEF RunCallback
  <2> QED
    BY <2>1, <2>2
<1>5. ASSUME NEW a \in Calls, CallbackReturns(a) PROVE ChainInv'
  BY <1>5, <1>c, <1>q DEF CallbackReturns, Goto
<1>6. CASE UNCHANGED vars
  BY <1>6, <1>q DEF vars
<1> QED
  BY <1>1, <1>2, <1>3, <1>4, <1>5, <1>6 DEF Next, Step, Terminating

(* In a program that sets no promise and awaits no future twice, what a    *)
(* callback is run with came through every cell before it in the chain.    *)
THEOREM ChainsCompose == Spec => []Composed
<1> DEFINE Inv == Linear => ChainInv
<1>1. Init => Inv
  BY ChainInitially
<1>2. TypeOK /\ Inv /\ [Next]_vars => Inv'
  <2> SUFFICES ASSUME TypeOK, Inv, [Next]_vars PROVE Inv'
    OBVIOUS
  <2>1. Linear' => Linear
    BY ProgramStays DEF Linear, LinearUse
  <2> QED
    BY <2>1, ChainInductive
<1>3. Inv => Composed
  BY DEF ChainInv, Composed
<1> QED
  BY <1>1, <1>2, <1>3, TypeCorrect, PTL DEF Spec

-----------------------------------------------------------------------------
(* Every step of the shared states is a step of the contract or none.      *)
LEMMA InitRefines ==
  ASSUME Init
  PROVE  Contract!Init
<1>1. \A c \in Cells : {c} \in Values
  BY DEF Values
<1> QED
  BY <1>1 DEF Init, Contract!Init

LEMMA StepRefines ==
  ASSUME TypeOK, OnceInv, Linear, Protocol, [Next]_vars
  PROVE  [Contract!Next]_(Contract!contractVars)
<1> DEFINE F == [c \in Cells |-> IF state[c] \in {"VALUE", "DONE"} THEN value[c] ELSE NoValue]
           S == {c \in Cells : state[c] \in {"CALLBACK", "DONE"}}
<1>b. \A a \in Calls : Call(a).op \in {"set", "then"} /\ CellOf(a) \in Cells
  BY CallTyped DEF TypeOK
<1>c. /\ state \in [Cells -> {"EMPTY", "CALLBACK", "VALUE", "DONE"}]
      /\ value \in [Cells -> Values \cup {NoValue}]
  BY DEF TypeOK
<1>d. ASSUME F' = F, S' = S, arg' = arg, runs' = runs
      PROVE  UNCHANGED Contract!contractVars
  BY <1>d DEF Contract!contractVars
<1>f. ASSUME NEW c \in Cells, S' = S, arg' = arg, runs' = runs, F[c] = NoValue,
             NEW v \in Values, F' = [F EXCEPT ![c] = v]
      PROVE  Contract!Next
  BY <1>f DEF Contract!Next, Contract!Fulfil
<1>s. ASSUME NEW c \in Cells, F' = F, arg' = arg, runs' = runs, c \notin S, S' = S \cup {c}
      PROVE  Contract!Next
  BY <1>s DEF Contract!Next, Contract!Subscribe
<1>1. ASSUME NEW a \in Calls, Store(a) PROVE UNCHANGED Contract!contractVars
  <2>1. UNCHANGED <<state, arg, runs>> /\ pc[a] = "store"
    BY <1>1 DEF Store, At
  <2>2. Call(a).op = "set" => state[CellOf(a)] \notin {"VALUE", "DONE"}
    BY <2>1 DEF Protocol, CallsAgree, Theirs
  <2>3. \A c \in Cells : state[c] \in {"VALUE", "DONE"} => value'[c] = value[c]
    BY <1>1, <1>b, <1>c, <2>2 DEF Store
  <2> QED
    BY <1>d, <2>1, <2>3
<1>2. ASSUME NEW a \in Calls, FirstCas(a) PROVE [Contract!Next]_(Contract!contractVars)
  <2>1. /\ UNCHANGED <<value, arg, runs>>
        /\ HasField(a)
    BY <1>2 DEF FirstCas, At, Protocol, CallsAgree
  <2>2. CASE state[CellOf(a)] = "EMPTY" /\ state' = [state EXCEPT ![CellOf(a)] = Mine(a)]
    <3>1. CASE Call(a).op = "set"
      <4>1. /\ S' = S
            /\ F[CellOf(a)] = NoValue
            /\ F' = [F EXCEPT ![CellOf(a)] = value[CellOf(a)]]
        BY <1>b, <1>c, <2>1, <2>2, <3>1 DEF Mine
      <4>2. value[CellOf(a)] \in Values
        BY <1>b, <1>c, <2>1, <3>1 DEF HasField
      <4> QED
        BY <1>b, <1>f, <2>1, <4>1, <4>2
    <3>2. CASE Call(a).op = "then"
      <4>1. F' = F /\ CellOf(a) \notin S /\ S' = S \cup {CellOf(a)}
        BY <1>b, <1>c, <2>1, <2>2, <3>2 DEF Mine
      <4> QED
        BY <1>b, <1>s, <2>1, <4>1
    <3> QED
      BY <1>b, <3>1, <3>2
  <2>3. CASE state' = state
    BY <1>d, <2>1, <2>3
  <2> QED
    BY <1>2, <2>2, <2>3 DEF FirstCas
<1>3. ASSUME NEW a \in Calls, SecondCas(a) PROVE [Contract!Next]_(Contract!contractVars)
  <2>1. /\ UNCHANGED <<value, arg, runs>>
        /\ HasField(a)
        /\ state[CellOf(a)] = Theirs(a)
        /\ state' = [state EXCEPT ![CellOf(a)] = "DONE"]
    BY <1>3 DEF SecondCas, At, Protocol, CallsAgree
  <2>2. CASE Call(a).op = "set"
    <3>1. /\ S' = S
          /\ F[CellOf(a)] = NoValue
          /\ F' = [F EXCEPT ![CellOf(a)] = value[CellOf(a)]]
      BY <1>b, <1>c, <2>1, <2>2 DEF Theirs
    <3>2. value[CellOf(a)] \in Values
      BY <1>b, <1>c, <2>1, <2>2 DEF HasField
    <3> QED
      BY <1>b, <1>f, <2>1, <3>1, <3>2
  <2>3. CASE Call(a).op = "then"
    <3>1. F' = F /\ CellOf(a) \notin S /\ S' = S \cup {CellOf(a)}
      BY <1>b, <1>c, <2>1, <2>3 DEF Theirs
    <3> QED
      BY <1>b, <1>s, <2>1, <3>1
  <2> QED
    BY <1>b, <2>2, <2>3
<1>4. ASSUME NEW a \in Calls, RunCallback(a) PROVE Contract!Next
  <2>1. /\ pc[a] = "call"
        /\ UNCHANGED <<state, value>>
        /\ state[CellOf(a)] = "DONE"
        /\ runs[CellOf(a)] = 0
    BY <1>4 DEF RunCallback, At, TypeOK, OnceInv, OneDelivery
  <2>2. CellOf(a) \in callback /\ value[CellOf(a)] # NoValue
    BY <1>b, <2>1 DEF Protocol, CellsAgree
  <2>3. /\ arg' = [arg EXCEPT ![CellOf(a)] = F[CellOf(a)]]
        /\ runs' = [runs EXCEPT ![CellOf(a)] = 1]
    BY <1>4, <1>b, <2>1, <2>2 DEF RunCallback
  <2>4. F' = F /\ S' = S /\ F[CellOf(a)] # NoValue /\ CellOf(a) \in S
    BY <1>b, <2>1, <2>2
  <2> QED
    BY <1>b, <2>1, <2>3, <2>4 DEF Contract!Next, Contract!Deliver
<1>5. ASSUME NEW a \in Calls, CallbackReturns(a) PROVE UNCHANGED Contract!contractVars
  BY <1>5, <1>d DEF CallbackReturns
<1>6. ASSUME UNCHANGED vars PROVE UNCHANGED Contract!contractVars
  BY <1>6, <1>d DEF vars
<1> QED
  BY <1>1, <1>2, <1>3, <1>4, <1>5, <1>6 DEF Next, Step, Terminating

(* The shared states of such a program keep the contract: the callback of  *)
(* every cell runs once, with the value its promise was given.             *)
THEOREM ContractKept ==
  ASSUME \A p \in Programs : LinearUse(p)
  PROVE  Spec => KeepsContract
<1>1. ProtocolInv /\ [Next]_vars => [Contract!Next]_(Contract!contractVars)
  <2>1. ProtocolInv => Linear
    BY DEF ProtocolInv, TypeOK, Linear
  <2> QED
    BY <2>1, StepRefines DEF ProtocolInv
<1> QED
  BY <1>1, InitRefines, ProtocolHolds, PTL DEF Spec, KeepsContract, Contract!Spec

=============================================================================
