-------------------------- MODULE StoreTTL_proofs --------------------------
(***************************************************************************)
(* Proofs about StoreTTL, for any number of clients, paths and times to    *)
(* live.  The first theorem says that the expiry of keys is one more       *)
(* client of store_base, so that everything proved of StoreBase holds      *)
(* while keys expire; the others are about the nesting of ttl_queue_guard  *)
(* and the mutexes of the store.                                           *)
(***************************************************************************)
EXTENDS StoreTTL, StoreBase_proofs

(* A step of the whole system is a step of store_base or leaves it alone.  *)
LEMMA NextIsStoreNext == [NextTTL]_varsTTL => [Next]_vars
<1> SUFFICES ASSUME [NextTTL]_varsTTL PROVE [Next]_vars
  OBVIOUS
<1>1. CASE UNCHANGED varsTTL
  BY <1>1 DEF varsTTL
<1>2. CASE Tick \/ TerminatingTTL
  BY <1>2 DEF Tick, TerminatingTTL, varsTTL
<1>3. CASE SweeperStep
  BY <1>3, TtlAssumption DEF SweeperStep, TestStopped, LockForSweep, Collect, Sweep, Swept,
                             Wait, TimeOut, Relock, Next, Step
<1>4. ASSUME NEW t \in Clients, ClientInvoke(t) \/ TtlInvoke(t) \/ TtlStep(t)
      PROVE  [Next]_vars
  BY <1>4 DEF Clients, ClientInvoke, TtlInvoke, TtlStep, LockGuard, SetTtl, RemoveTtl,
              Stop, Notify, Next
<1>5. ASSUME NEW t \in Threads, StoreStep(t) PROVE [Next]_vars
  BY <1>5 DEF StoreStep, Next
<1> QED
  BY <1>1, <1>2, <1>3, <1>4, <1>5 DEF NextTTL

(* The store with expiring keys is a store_base with one client more.      *)
THEOREM TtlIsAClient == SpecTTL => StoreUnchanged
BY NextIsStoreNext, PTL DEF SpecTTL, InitTTL, StoreUnchanged, Spec

(* So its calls, and the removals of the sweeper, are linearizable.        *)
THEOREM StoreWithTtlIsLinearizable == SpecTTL => Linearizable
BY TtlIsAClient, StoreIsLinearizable DEF StoreUnchanged

-----------------------------------------------------------------------------
(* A step of a call concerns the label of its thread, and does not end the *)
(* call unless it is the return.                                           *)
LEMMA StepKeepsCall ==
  ASSUME TypeOK, NEW t \in Threads, Step(t)
  PROVE  /\ UNCHANGED call
         /\ pc[t] # "idle"
         /\ pc[t] # "return" => pc'[t] # "idle"
         /\ \A u \in Threads : u # t => pc'[u] = pc[u]
         /\ DOMAIN pc' = Threads
<1> USE DEF TypeOK, At, Goto
<1>1. CASE Return(t)
  BY <1>1 DEF Return
<1>2. CASE LockModify(t)
  <2>1. call[t].op \in {"transact", "write", "set"}
    BY <1>2 DEF LockModify, StepFits, Modifying
  <2> QED
    BY <1>2, <2>1 DEF LockModify
<1>3. CASE FoldRoot(t) \/ TransformRoot(t)
  BY <1>3 DEF FoldRoot, TransformRoot
<1>4. CASE LockRoot(t) \/ Assign(t) \/ CopyRoot(t)
  BY <1>4 DEF LockRoot, Assign, CopyRoot, locks
<1>5. CASE UnlockRoot(t) \/ UnlockModify(t)
  BY <1>5 DEF UnlockRoot, UnlockModify
<1>6. CASE LockShared(t) \/ CopyShared(t)
  BY <1>6 DEF LockShared, CopyShared
<1>7. CASE UnlockShared(t) \/ Evaluate(t)
  BY <1>7 DEF UnlockShared, Evaluate
<1>8. CASE Crash(t)
  BY <1>8 DEF Crash
<1> QED
  BY <1>1, <1>2, <1>3, <1>4, <1>5, <1>6, <1>7, <1>8 DEF Step

LEMMA InvokeFacts ==
  ASSUME TypeOK, NEW t \in Threads, Invoke(t)
  PROVE  /\ pc[t] = "idle"
         /\ pc'[t] # "idle"
         /\ \A u \in Threads : u # t => pc'[u] = pc[u] /\ call'[u] = call[u]
BY DEF Invoke, TypeOK, At, Goto

-----------------------------------------------------------------------------
(***************************************************************************)
(* The inductive invariant: the sweeper is in a call of store_base exactly *)
(* while it is at "sweeping", and from collect until then its batch and    *)
(* the list have no path in common.                                        *)
(***************************************************************************)
ListedPaths == {e.path : e \in ttlList}

SweepInv ==
  /\ ttlPc[Sweeper] = "sweeping" <=> pc[Sweeper] # "idle"
  /\ ttlPc[Sweeper] \in {"sweep", "sweeping"} => batch \cap ListedPaths = {}
  /\ ttlPc[Sweeper] = "sweeping" => call[Sweeper] = Write(RemovalOf(batch))

TtlInv == TypeOKTTL /\ GuardDiscipline /\ SweepInv

LEMMA TtlInitially == InitTTL => TtlInv
<1> SUFFICES ASSUME InitTTL PROVE TtlInv
  OBVIOUS
<1> USE TtlAssumption DEF InitTTL, Init
<1>1. TypeOKTTL
  BY DEF TypeOKTTL, Clients, ClientLabels, SweeperLabels
<1>2. GuardDiscipline
  BY DEF GuardDiscipline, GuardSection
<1>3. SweepInv
  BY DEF SweepInv
<1> QED
  BY <1>1, <1>2, <1>3 DEF TtlInv

LEMMA TtlInductive == TypeOK /\ TtlInv /\ [NextTTL]_varsTTL => TtlInv'
<1> SUFFICES ASSUME TypeOK, TtlInv, [NextTTL]_varsTTL PROVE TtlInv'
  OBVIOUS
<1> USE TtlAssumption
<1>a. pc \in [Threads -> Labels]
  BY DEF TypeOK
<1>b. TypeOKTTL /\ GuardDiscipline /\ SweepInv
  BY DEF TtlInv
<1>c. /\ ttlPc \in [Threads -> ClientLabels \cup SweeperLabels]
      /\ ttlPc[Sweeper] \in SweeperLabels
      /\ \A t \in Clients : ttlPc[t] \in ClientLabels /\ (ttlPc[t] # "idle" => pc[t] = "idle")
  BY <1>b DEF TypeOKTTL
<1>d. \A d, e \in ttlList : d.path = e.path => d = e
  BY <1>b DEF TypeOKTTL
<1> USE DEF TtlAt, TtlGoto
<1>1. CASE UNCHANGED varsTTL
  BY <1>1, <1>b DEF varsTTL, vars, ttlVars, TtlInv, TypeOKTTL, GuardDiscipline, SweepInv, ListedPaths
<1>2. CASE Tick
  <2>1. UNCHANGED <<pc, call, ttlList, guardians, stopped, ttlPc, ttlCall, batch, ttlRemaining>>
    BY <1>2 DEF Tick, vars
  <2>2. clock' \in Nat
    BY <1>2, <1>b DEF Tick, TypeOKTTL
  <2> QED
    BY <1>b, <2>1, <2>2 DEF TtlInv, TypeOKTTL, GuardDiscipline, SweepInv, ListedPaths
<1>3. CASE TerminatingTTL
  BY <1>3, <1>1 DEF TerminatingTTL
<1>4. ASSUME NEW t \in Clients, ClientInvoke(t) PROVE TtlInv'
  <2>1. UNCHANGED ttlVars /\ t # Sweeper /\ ttlPc[t] = "idle" /\ t \in Threads
    BY <1>4 DEF ClientInvoke, Clients
  <2>2. \A u \in Threads : u # t => pc'[u] = pc[u] /\ call'[u] = call[u]
    BY <1>4, <2>1, InvokeFacts DEF ClientInvoke
  <2> QED
    BY <1>b, <2>1, <2>2 DEF ttlVars, TtlInv, TypeOKTTL, GuardDiscipline, SweepInv, ListedPaths, Clients
<1>5. ASSUME NEW t \in Clients, TtlInvoke(t) PROVE TtlInv'
  <2>1. /\ t # Sweeper /\ t \in Threads
        /\ UNCHANGED <<pc, call, ttlList, guardians, stopped, clock, batch>>
        /\ pc[t] = "idle" /\ ttlPc[t] = "idle"
        /\ ttlPc' = [ttlPc EXCEPT ![t] = "lock_guard"]
        /\ ttlRemaining' \in [Threads -> Nat]
        /\ ttlCall' \in [Threads -> TtlCalls \cup {NoCall}]
        /\ ttlCall'[t] \in TtlCalls
        /\ \A u \in Threads : u # t => ttlCall'[u] = ttlCall[u]
    BY <1>5, <1>b DEF TtlInvoke, Clients, vars, TypeOKTTL
  <2>2. TypeOKTTL'
    BY <1>b, <2>1 DEF TypeOKTTL, Clients, ClientLabels
  <2>3. GuardDiscipline'
    BY <1>b, <1>c, <2>1 DEF GuardDiscipline, GuardSection
  <2>4. SweepInv'
    BY <1>b, <1>c, <2>1 DEF SweepInv, ListedPaths
  <2> QED
    BY <2>2, <2>3, <2>4 DEF TtlInv
<1>6. ASSUME NEW t \in Clients, LockGuard(t) PROVE TtlInv'
  <2>1. /\ t # Sweeper /\ t \in Threads
        /\ UNCHANGED <<pc, call, ttlList, stopped, clock, ttlCall, batch, ttlRemaining>>
        /\ ttlPc[t] = "lock_guard" /\ pc[t] = "idle"
        /\ ttlCall[t] \in TtlCalls
        /\ guardians = {} /\ guardians' = {t}
        /\ ttlPc' = [ttlPc EXCEPT ![t] = ttlCall[t].op]
    BY <1>6, <1>b DEF LockGuard, Clients, vars, TypeOKTTL, ClientLabels
  <2>2. ttlCall[t].op \in {"set_ttl", "remove_ttl", "stop"}
    BY <2>1 DEF TtlCalls
  <2>3. TypeOKTTL'
    BY <1>b, <2>1, <2>2 DEF TypeOKTTL, Clients, ClientLabels
  <2>4. GuardDiscipline'
    BY <1>b, <1>c, <2>1, <2>2 DEF GuardDiscipline, GuardSection
  <2>5. SweepInv'
    BY <1>b, <1>c, <2>1 DEF SweepInv, ListedPaths
  <2> QED
    BY <2>3, <2>4, <2>5 DEF TtlInv
<1>7. ASSUME NEW t \in Clients, SetTtl(t) \/ RemoveTtl(t) PROVE TtlInv'
  <2>1. /\ t # Sweeper /\ t \in Threads
        /\ UNCHANGED <<pc, call, stopped, clock, ttlCall, batch, ttlRemaining>>
        /\ ttlPc[t] \in {"set_ttl", "remove_ttl"}
        /\ guardians' = guardians \ {t}
        /\ ttlPc' = [ttlPc EXCEPT ![t] = "idle"]
    BY <1>7 DEF SetTtl, RemoveTtl, Clients, vars
  <2>2. ttlCall[t] \in TtlCalls
    BY <1>b, <2>1 DEF TypeOKTTL, ClientLabels
  <2>3. /\ ttlList' \subseteq [path : Paths, end_of_life : Nat]
        /\ \A d, e \in ttlList' : d.path = e.path => d = e
    <3>1. CASE SetTtl(t)
      <4> DEFINE entry == [path |-> ttlCall[t].path, end_of_life |-> clock + ttlCall[t].ttl]
      <4>1. ttlPc[t] = "set_ttl" /\ ttlList' = {e \in ttlList : e.path # entry.path} \cup {entry}
        BY <3>1 DEF SetTtl
      <4>2. ttlCall[t].op = "set_ttl"
        BY <1>b, <4>1 DEF TypeOKTTL
      <4>3. entry \in [path : Paths, end_of_life : Nat]
        <5>1. ttlCall[t].path \in Paths /\ ttlCall[t].ttl \in Nat
          BY <2>2, <4>2 DEF TtlCalls
        <5> QED
          BY <5>1, <1>b DEF TypeOKTTL
      <4> QED
        BY <1>b, <1>d, <4>1, <4>3 DEF TypeOKTTL
    <3>2. CASE RemoveTtl(t)
      BY <1>b, <1>d, <3>2 DEF RemoveTtl, TypeOKTTL
    <3> QED
      BY <1>7, <3>1, <3>2
  <2>4. TypeOKTTL'
    BY <1>b, <2>1, <2>3 DEF TypeOKTTL, Clients, ClientLabels
  <2>5. GuardDiscipline'
    BY <1>b, <1>c, <2>1 DEF GuardDiscipline, GuardSection
  <2>6. SweepInv'
    <3>1. Sweeper \notin guardians
      BY <1>b, <1>c, <2>1 DEF GuardDiscipline, GuardSection
    <3>2. ttlPc'[Sweeper] \notin {"sweep", "sweeping"}
      BY <1>b, <1>c, <2>1, <3>1 DEF GuardDiscipline, GuardSection
    <3> QED
      BY <1>b, <1>c, <2>1, <3>2 DEF SweepInv
  <2> QED
    BY <2>4, <2>5, <2>6 DEF TtlInv
<1>8. ASSUME NEW t \in Clients, Stop(t) \/ Notify(t) PROVE TtlInv'
  <2>1. /\ t # Sweeper /\ t \in Threads
        /\ UNCHANGED <<pc, call, ttlList, clock, ttlCall, batch, ttlRemaining>>
        /\ stopped' \in BOOLEAN
        /\ pc[t] = "idle"
        /\ ttlCall[t] \in TtlCalls
    BY <1>8, <1>b DEF Stop, Notify, Clients, vars, TypeOKTTL, ClientLabels
  <2>2. /\ \/ ttlPc[t] = "stop" /\ ttlPc'[t] = "notify" /\ UNCHANGED guardians
           \/ ttlPc[t] = "notify" /\ ttlPc'[t] = "idle" /\ guardians' = guardians \ {t}
        /\ ttlPc' \in [Threads -> ClientLabels \cup SweeperLabels]
        /\ \/ ttlPc'[Sweeper] = ttlPc[Sweeper]
           \/ ttlPc[Sweeper] = "waiting" /\ ttlPc'[Sweeper] = "relock"
        /\ \A u \in Clients : u # t => ttlPc'[u] = ttlPc[u]
    BY <1>8, <1>c, <2>1 DEF Stop, Notify, Clients, vars, ClientLabels, SweeperLabels
  <2>3. TypeOKTTL'
    BY <1>b, <1>c, <2>1, <2>2 DEF TypeOKTTL, ClientLabels, SweeperLabels
  <2>4. GuardDiscipline'
    BY <1>b, <1>c, <2>1, <2>2 DEF GuardDiscipline, GuardSection, Clients
  <2>5. SweepInv'
    BY <1>b, <2>1, <2>2 DEF SweepInv, ListedPaths
  <2> QED
    BY <2>3, <2>4, <2>5 DEF TtlInv
<1>9. CASE TestStopped \/ TimeOut \/ Relock \/ LockForSweep \/ Wait
  <2>1. /\ UNCHANGED <<pc, call, ttlList, stopped, clock, ttlCall, batch, ttlRemaining>>
        /\ \/ /\ ttlPc[Sweeper] \in {"test", "waiting", "relock"}
              /\ \E l \in {"exited", "lock", "relock", "test"} : ttlPc' = [ttlPc EXCEPT ![Sweeper] = l]
              /\ UNCHANGED guardians
           \/ /\ ttlPc[Sweeper] = "lock"
              /\ ttlPc' = [ttlPc EXCEPT ![Sweeper] = "collect"]
              /\ guardians = {} /\ guardians' = {Sweeper}
           \/ /\ ttlPc[Sweeper] = "wait"
              /\ ttlPc' = [ttlPc EXCEPT ![Sweeper] = "waiting"]
              /\ guardians' = guardians \ {Sweeper}
    BY <1>9 DEF TestStopped, TimeOut, Relock, LockForSweep, Wait, vars
  <2>2. TypeOKTTL'
    BY <1>b, <1>c, <2>1 DEF TypeOKTTL, Clients, SweeperLabels
  <2>3. GuardDiscipline'
    BY <1>b, <1>c, <2>1 DEF GuardDiscipline, GuardSection
  <2>4. SweepInv'
    BY <1>b, <1>c, <2>1 DEF SweepInv
  <2> QED
    BY <2>2, <2>3, <2>4 DEF TtlInv
<1>10. CASE Collect
  <2>1. /\ UNCHANGED <<pc, call, guardians, stopped, clock, ttlCall, ttlRemaining>>
        /\ ttlPc[Sweeper] = "collect"
        /\ batch' = {e.path : e \in {e \in ttlList : IsExpired(e)}}
        /\ ttlList' = {e \in ttlList : ~IsExpired(e)}
        /\ \E l \in {"wait", "sweep"} : ttlPc' = [ttlPc EXCEPT ![Sweeper] = l]
    BY <1>10 DEF Collect, vars
  <2>2. batch' \subseteq Paths
    BY <1>b, <2>1 DEF TypeOKTTL
  <2>3. TypeOKTTL'
    BY <1>b, <1>c, <2>1, <2>2 DEF TypeOKTTL, Clients, SweeperLabels
  <2>4. GuardDiscipline'
    BY <1>b, <1>c, <2>1 DEF GuardDiscipline, GuardSection
  <2>5. batch' \cap ListedPaths' = {}
    BY <1>d, <2>1 DEF ListedPaths
  <2>6. SweepInv'
    BY <1>b, <1>c, <2>1, <2>5 DEF SweepInv
  <2> QED
    BY <2>3, <2>4, <2>6 DEF TtlInv
<1>11. CASE Sweep
  <2>1. /\ UNCHANGED <<ttlList, guardians, stopped, clock, ttlCall, batch, ttlRemaining>>
        /\ ttlPc[Sweeper] = "sweep"
        /\ ttlPc' = [ttlPc EXCEPT ![Sweeper] = "sweeping"]
        /\ call'[Sweeper] = Write(RemovalOf(batch))
    BY <1>11 DEF Sweep
  <2>2. /\ pc'[Sweeper] # "idle"
        /\ \A u \in Threads : u # Sweeper => pc'[u] = pc[u]
    BY <1>11, InvokeFacts DEF Sweep
  <2>3. TypeOKTTL'
    BY <1>b, <1>c, <2>1, <2>2 DEF TypeOKTTL, Clients, SweeperLabels
  <2>4. GuardDiscipline'
    BY <1>b, <1>c, <2>1 DEF GuardDiscipline, GuardSection
  <2>5. SweepInv'
    BY <1>b, <1>c, <2>1, <2>2 DEF SweepInv, ListedPaths
  <2> QED
    BY <2>3, <2>4, <2>5 DEF TtlInv
<1>12. CASE Swept
  <2>1. /\ UNCHANGED <<call, ttlList, guardians, stopped, clock, ttlCall, batch, ttlRemaining>>
        /\ ttlPc[Sweeper] = "sweeping"
        /\ ttlPc' = [ttlPc EXCEPT ![Sweeper] = "wait"]
        /\ pc' = [pc EXCEPT ![Sweeper] = "idle"]
    BY <1>12 DEF Swept, Return, Goto
  <2>2. TypeOKTTL'
    BY <1>a, <1>b, <1>c, <2>1 DEF TypeOKTTL, Clients, SweeperLabels
  <2>3. GuardDiscipline'
    BY <1>b, <1>c, <2>1 DEF GuardDiscipline, GuardSection
  <2>4. SweepInv'
    BY <1>a, <1>c, <2>1 DEF SweepInv
  <2> QED
    BY <2>2, <2>3, <2>4 DEF TtlInv
<1>13. ASSUME NEW t \in Threads, StoreStep(t) PROVE TtlInv'
  <2>1. /\ UNCHANGED ttlVars /\ UNCHANGED call
        /\ pc[t] # "idle"
        /\ t = Sweeper => pc'[t] # "idle"
        /\ \A u \in Threads : u # t => pc'[u] = pc[u]
    BY <1>13, StepKeepsCall DEF StoreStep
  <2>2. t = Sweeper \/ ttlPc[t] = "idle"
    BY <1>c, <2>1 DEF Clients
  <2>3. /\ \A u \in Clients : ttlPc[u] # "idle" => pc'[u] = "idle"
        /\ pc'[Sweeper] # "idle" <=> pc[Sweeper] # "idle"
    BY <1>c, <2>1, <2>2 DEF Clients
  <2> QED
    BY <1>b, <2>1, <2>3 DEF ttlVars, TtlInv, TypeOKTTL, GuardDiscipline, SweepInv, ListedPaths
<1> QED
  BY <1>1, <1>2, <1>3, <1>4, <1>5, <1>6, <1>7, <1>8, <1>9, <1>10, <1>11, <1>12, <1>13
     DEF NextTTL, SweeperStep, TtlStep

LEMMA TtlInvariant == SpecTTL => [](TypeOK /\ TtlInv)
<1>1. SpecTTL => []TypeOK
  BY TtlIsAClient, TypeCorrect, PTL DEF StoreUnchanged
<1> QED
  BY <1>1, TtlInitially, TtlInductive, PTL DEF SpecTTL

(* Every thread is at a step of one call, and no path is listed twice.     *)
THEOREM TtlTypeCorrect == SpecTTL => []TypeOKTTL
BY TtlInvariant, PTL DEF TtlInv

(* ttl_queue_guard is held exactly where the code holds it.                *)
THEOREM GuardCorrect == SpecTTL => []GuardDiscipline
BY TtlInvariant, PTL DEF TtlInv

(* No removal is under way for a path that is in the list again, and no    *)
(* client changes the list meanwhile.                                      *)
THEOREM SweepNotOvertaken == SpecTTL => []SweepIsNotOvertaken
<1>1. TtlInv => SweepIsNotOvertaken
  <2> SUFFICES ASSUME TtlInv, pc[Sweeper] # "idle" PROVE SweepIsNotOvertaken
    BY DEF SweepIsNotOvertaken
  <2>1. ttlPc[Sweeper] = "sweeping"
    BY DEF TtlInv, SweepInv
  <2>2. \A t \in Clients : ttlPc[t] \notin GuardSection
    BY <2>1, TtlAssumption DEF TtlInv, GuardDiscipline, GuardSection, Clients
  <2> QED
    BY <2>1, <2>2 DEF TtlInv, SweepInv, SweepIsNotOvertaken, ListedPaths
<1> QED
  BY <1>1, TtlInvariant, PTL

(* Nobody waits for ttl_queue_guard with a mutex of the store held.        *)
THEOREM MutexOrder == SpecTTL => []MutexesNest
<1>1. TtlInv /\ LockDiscipline => MutexesNest
  <2> SUFFICES ASSUME TtlInv, LockDiscipline, NEW t \in Threads,
                      ttlPc[t] \in {"lock_guard", "lock", "relock"}
               PROVE  t \notin modifyHolders \cup writers \cup readers
    BY DEF MutexesNest
  <2>1. pc[t] = "idle"
    BY DEF TtlInv, TypeOKTTL, SweepInv, Clients
  <2> QED
    BY <2>1 DEF LockDiscipline, ModifySection, WriteSection, ReadSection
<1>2. SpecTTL => []LockDiscipline
  BY TtlIsAClient, LocksCorrect, PTL DEF StoreUnchanged
<1> QED
  BY <1>1, <1>2, TtlInvariant, PTL

=============================================================================
