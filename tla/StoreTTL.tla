------------------------------ MODULE StoreTTL ------------------------------
(***************************************************************************)
(* store_ttl of store.h on top of store_base: clients give keys a time to  *)
(* live, and one thread, in run_queue_thread, removes keys from the        *)
(* document.  The list of keys is guarded by ttl_queue_guard, which the    *)
(* sweeper holds while it changes the document, so that the mutexes nest:  *)
(* ttl_queue_guard, root_modify_mutex, root_mutex.                         *)
(*                                                                         *)
(* Every step of StoreBase is a step here.  The sweeper is one of its      *)
(* threads, which makes no call but the removal of what it has collected.  *)
(* The template is never instantiated and calls a member modification that *)
(* store_base does not have; write is what takes its argument.             *)
(***************************************************************************)
EXTENDS StoreBase

CONSTANTS
  Sweeper,       \* the thread in run_queue_thread
  Paths,
  Ttls,          \* times to live
  RemovalOf(_),  \* the operations that remove a set of paths
  MaxTtlCalls,   \* bound: calls of set_ttl, remove_ttl and stop per client
  MaxClock       \* bound: how far the clock goes

ASSUME TtlAssumption ==
  /\ Sweeper \in Threads
  /\ Ttls \subseteq Nat
  /\ MaxTtlCalls \in Nat /\ MaxClock \in Nat
  /\ \A removed \in (SUBSET Paths) \ {{}} : Write(RemovalOf(removed)) \in Calls

VARIABLES
  ttlList,     \* ttl_list: records of a path and its end_of_life
  guardians,   \* threads that hold ttl_queue_guard
  stopped,
  clock,       \* clock_type::now()
  ttlPc,       \* per thread: its step in a member of store_ttl
  ttlCall,     \* per thread: the call of store_ttl it is in, or was in last
  batch,       \* the paths the sweeper has collected last
  ttlRemaining \* per thread: the calls of store_ttl it may still make

ttlVars == <<ttlList, guardians, stopped, clock, ttlPc, ttlCall, batch, ttlRemaining>>
varsTTL == <<vars, ttlVars>>

Clients == Threads \ {Sweeper}
TtlCalls == [op : {"set_ttl"}, path : Paths, ttl : Ttls]
              \cup [op : {"remove_ttl"}, path : Paths] \cup [op : {"stop"}]

TtlAt(t, label) == ~crashed /\ ttlPc[t] = label
TtlGoto(t, label) == ttlPc' = [ttlPc EXCEPT ![t] = label]

InitTTL ==
  /\ Init
  /\ ttlList = {}
  /\ guardians = {}
  /\ stopped = FALSE
  /\ clock = 0
  /\ ttlPc = [t \in Threads |-> IF t = Sweeper THEN "test" ELSE "idle"]
  /\ ttlCall = [t \in Threads |-> NoCall]
  /\ batch = {}
  /\ ttlRemaining = [t \in Threads |-> MaxTtlCalls]

Tick ==
  /\ clock < MaxClock
  /\ clock' = clock + 1
  /\ UNCHANGED <<vars, ttlList, guardians, stopped, ttlPc, ttlCall, batch, ttlRemaining>>

-----------------------------------------------------------------------------
(* The clients: calls of store_base, and set_ttl, remove_ttl and stop.     *)

ClientInvoke(t) == Invoke(t) /\ TtlAt(t, "idle") /\ UNCHANGED ttlVars

TtlInvoke(t) ==
  /\ TtlAt(t, "idle")
  /\ pc[t] = "idle"
  /\ ttlRemaining[t] > 0
  /\ \E c \in TtlCalls : ttlCall' = [ttlCall EXCEPT ![t] = c]
  /\ ttlRemaining' = [ttlRemaining EXCEPT ![t] = @ - 1]
  /\ TtlGoto(t, "lock_guard")
  /\ UNCHANGED <<vars, ttlList, guardians, stopped, clock, batch>>

LockGuard(t) ==
  /\ TtlAt(t, "lock_guard")
  /\ guardians = {}
  /\ guardians' = {t}
  /\ TtlGoto(t, ttlCall[t].op)
  /\ UNCHANGED <<vars, ttlList, stopped, clock, ttlCall, batch, ttlRemaining>>

(* Mutant: set_ttl waits for the entry of the path to be collected.        *)
SetTtlRetrying(t) ==
  /\ TtlAt(t, "set_ttl")
  /\ LET entry == [path |-> ttlCall[t].path, end_of_life |-> clock + ttlCall[t].ttl]
         listed == \E e \in ttlList : e.path = entry.path
     IN  /\ ttlList' = IF listed THEN ttlList ELSE ttlList \cup {entry}
         /\ TtlGoto(t, IF listed THEN "lock_guard" ELSE "idle")
  /\ guardians' = guardians \ {t}
  /\ UNCHANGED <<vars, stopped, clock, ttlCall, batch, ttlRemaining>>

(* The entry of the path is updated, or the path gets one.                 *)
SetTtl(t) ==
  /\ TtlAt(t, "set_ttl")
  /\ LET entry == [path |-> ttlCall[t].path, end_of_life |-> clock + ttlCall[t].ttl]
     IN  ttlList' = {e \in ttlList : e.path # entry.path} \cup {entry}
  /\ guardians' = guardians \ {t}
  /\ TtlGoto(t, "idle")
  /\ UNCHANGED <<vars, stopped, clock, ttlCall, batch, ttlRemaining>>

RemoveTtl(t) ==
  /\ TtlAt(t, "remove_ttl")
  /\ ttlList' = {e \in ttlList : e.path # ttlCall[t].path}
  /\ guardians' = guardians \ {t}
  /\ TtlGoto(t, "idle")
  /\ UNCHANGED <<vars, stopped, clock, ttlCall, batch, ttlRemaining>>

(* stopped is read without ttl_queue_guard: the assignment and the         *)
(* notification, which wakes the sweeper if it waits, are two steps.       *)
Stop(t) ==
  /\ TtlAt(t, "stop")
  /\ stopped' = TRUE
  /\ TtlGoto(t, "notify")
  /\ UNCHANGED <<vars, ttlList, guardians, clock, ttlCall, batch, ttlRemaining>>

Notify(t) ==
  /\ TtlAt(t, "notify")
  /\ ttlPc' = [ttlPc EXCEPT ![t] = "idle",
                            ![Sweeper] = IF @ = "waiting" THEN "relock" ELSE @]
  /\ guardians' = guardians \ {t}
  /\ UNCHANGED <<vars, ttlList, stopped, clock, ttlCall, batch, ttlRemaining>>

TtlStep(t) == LockGuard(t) \/ SetTtl(t) \/ RemoveTtl(t) \/ Stop(t) \/ Notify(t)

-----------------------------------------------------------------------------
(* The sweeper: run_queue_thread.                                          *)

TestStopped ==
  /\ TtlAt(Sweeper, "test")
  /\ TtlGoto(Sweeper, IF stopped THEN "exited" ELSE "lock")
  /\ UNCHANGED <<vars, ttlList, guardians, stopped, clock, ttlCall, batch, ttlRemaining>>

LockForSweep ==
  /\ TtlAt(Sweeper, "lock")
  /\ guardians = {}
  /\ guardians' = {Sweeper}
  /\ TtlGoto(Sweeper, "collect")
  /\ UNCHANGED <<vars, ttlList, stopped, clock, ttlCall, batch, ttlRemaining>>

(* isExpired, as it is written.                                            *)
IsExpired(e) == e.end_of_life > clock

(* The paths whose entries isExpired picks leave the list for the batch.   *)
Collect ==
  /\ TtlAt(Sweeper, "collect")
  /\ batch' = {e.path : e \in {e \in ttlList : IsExpired(e)}}
  /\ ttlList' = {e \in ttlList : ~IsExpired(e)}
  /\ TtlGoto(Sweeper, IF batch' = {} THEN "wait" ELSE "sweep")
  /\ UNCHANGED <<vars, guardians, stopped, clock, ttlCall, ttlRemaining>>

(* Mutant: ttl_queue_guard is released before the document is changed.     *)
SweepReleasing ==
  /\ TtlAt(Sweeper, "sweep")
  /\ Invoke(Sweeper)
  /\ call'[Sweeper] = Write(RemovalOf(batch))
  /\ TtlGoto(Sweeper, "sweeping")
  /\ guardians' = guardians \ {Sweeper}
  /\ UNCHANGED <<ttlList, stopped, clock, ttlCall, batch, ttlRemaining>>

(* self().modification(remove_actions), with ttl_queue_guard held.         *)
Sweep ==
  /\ TtlAt(Sweeper, "sweep")
  /\ Invoke(Sweeper)
  /\ call'[Sweeper] = Write(RemovalOf(batch))
  /\ TtlGoto(Sweeper, "sweeping")
  /\ UNCHANGED <<ttlList, guardians, stopped, clock, ttlCall, batch, ttlRemaining>>

(* Mutant: the removal is left to run while the sweeper waits.             *)
SweptEarly ==
  /\ TtlAt(Sweeper, "sweeping")
  /\ TtlGoto(Sweeper, "wait")
  /\ UNCHANGED <<vars, ttlList, guardians, stopped, clock, ttlCall, batch, ttlRemaining>>

Swept ==
  /\ TtlAt(Sweeper, "sweeping")
  /\ Return(Sweeper)
  /\ TtlGoto(Sweeper, "wait")
  /\ UNCHANGED <<ttlList, guardians, stopped, clock, ttlCall, batch, ttlRemaining>>

(* wait_for releases ttl_queue_guard, returns when it is notified, after a *)
(* second or for no reason, and takes ttl_queue_guard again; the guard is  *)
(* released at the end of the loop's body.                                 *)
Wait ==
  /\ TtlAt(Sweeper, "wait")
  /\ guardians' = guardians \ {Sweeper}
  /\ TtlGoto(Sweeper, "waiting")
  /\ UNCHANGED <<vars, ttlList, stopped, clock, ttlCall, batch, ttlRemaining>>

(* Mutant: the sweeper waits for a notification only.                      *)
TimeOutNever == FALSE /\ UNCHANGED varsTTL

TimeOut ==
  /\ TtlAt(Sweeper, "waiting")
  /\ TtlGoto(Sweeper, "relock")
  /\ UNCHANGED <<vars, ttlList, guardians, stopped, clock, ttlCall, batch, ttlRemaining>>

Relock ==
  /\ TtlAt(Sweeper, "relock")
  /\ guardians = {}
  /\ TtlGoto(Sweeper, "test")
  /\ UNCHANGED <<vars, ttlList, guardians, stopped, clock, ttlCall, batch, ttlRemaining>>

SweeperStep ==
  \/ TestStopped \/ LockForSweep \/ Collect \/ Sweep
  \/ Swept \/ Wait \/ TimeOut \/ Relock

-----------------------------------------------------------------------------
(* A step of a call of store_base; the sweeper's return is Swept.          *)
StoreStep(t) == Step(t) /\ (t = Sweeper => pc[t] # "return") /\ UNCHANGED ttlVars

(* The sweeper has left its loop and the clients have made their calls.    *)
TerminatingTTL ==
  /\ crashed \/ /\ ttlPc[Sweeper] = "exited"
                /\ \A t \in Clients : pc[t] = "idle" /\ ttlPc[t] = "idle"
  /\ UNCHANGED varsTTL

NextTTL ==
  \/ Tick \/ SweeperStep \/ TerminatingTTL
  \/ \E t \in Clients : ClientInvoke(t) \/ TtlInvoke(t) \/ TtlStep(t)
  \/ \E t \in Threads : StoreStep(t)

(* Every thread is scheduled, and a wait of one second ends.  As nobody    *)
(* but the sweeper takes ttl_queue_guard for ever again, and it leaves it  *)
(* free for a second each time, a client that waits for it gets it.        *)
(* Clients need not make calls, and time need not pass.                    *)
FairnessTTL ==
  /\ WF_varsTTL(SweeperStep)
  /\ \A t \in Clients : SF_varsTTL(LockGuard(t)) /\ WF_varsTTL(TtlStep(t))
  /\ \A t \in Threads : WF_varsTTL(StoreStep(t))

SpecTTL == InitTTL /\ [][NextTTL]_varsTTL
FairSpecTTL == SpecTTL /\ FairnessTTL

-----------------------------------------------------------------------------
GuardSection == {"set_ttl", "remove_ttl", "stop", "notify",
                 "collect", "sweep", "sweeping", "wait"}
ClientLabels == {"idle", "lock_guard", "set_ttl", "remove_ttl", "stop", "notify"}
SweeperLabels == {"test", "lock", "collect", "sweep", "sweeping", "wait",
                  "waiting", "relock", "exited"}

(* A client is in one call at a time, of store_base or of store_ttl.       *)
TypeOKTTL ==
  /\ ttlList \subseteq [path : Paths, end_of_life : Nat]
  /\ \A d, e \in ttlList : d.path = e.path => d = e
  /\ guardians \subseteq Threads
  /\ stopped \in BOOLEAN
  /\ clock \in Nat
  /\ ttlPc \in [Threads -> ClientLabels \cup SweeperLabels]
  /\ ttlPc[Sweeper] \in SweeperLabels
  /\ \A t \in Clients :
       /\ ttlPc[t] \in ClientLabels
       /\ ttlPc[t] # "idle" => pc[t] = "idle"
  /\ ttlCall \in [Threads -> TtlCalls \cup {NoCall}]
  /\ \A t \in Clients : ttlPc[t] \in ClientLabels \ {"idle"} => ttlCall[t] \in TtlCalls
  /\ \A t \in Clients : ttlPc[t] \in {"set_ttl", "remove_ttl", "stop"} => ttlCall[t].op = ttlPc[t]
  /\ batch \subseteq Paths
  /\ ttlRemaining \in [Threads -> Nat]

(* ttl_queue_guard is held exactly where the code holds it, by one thread. *)
GuardDiscipline ==
  /\ guardians = {t \in Threads : ttlPc[t] \in GuardSection}
  /\ \A t, u \in guardians : t = u

(***************************************************************************)
(* While the sweeper changes the document no path it removes is in the     *)
(* list: a set_ttl or remove_ttl that returns after a sweep has begun      *)
(* returns after the document has changed, and a path whose entry was      *)
(* renewed or taken away in time is never removed for its old entry.       *)
(***************************************************************************)
SweepIsNotOvertaken ==
  pc[Sweeper] # "idle" =>
    /\ call[Sweeper] = Write(RemovalOf(batch))
    /\ batch \cap {e.path : e \in ttlList} = {}
    /\ \A t \in Clients : ttlPc[t] \notin GuardSection

(* The mutexes are taken in one order: whoever holds a mutex of the store  *)
(* never waits for ttl_queue_guard.                                        *)
MutexesNest ==
  \A t \in Threads :
    ttlPc[t] \in {"lock_guard", "lock", "relock"} =>
      t \notin modifyHolders \cup writers \cup readers

(* store_ttl uses store_base as any other client does.                     *)
StoreUnchanged == Spec

(* stop ends the sweeper, also when its notification comes too early: after*)
(* the test of stopped and before the wait.                                *)
StopIsHeard == stopped ~> (ttlPc[Sweeper] = "exited" \/ crashed)

(* Every call of store_base and of store_ttl returns.                      *)
AllTtlCallsReturn ==
  \A t \in Clients : pc[t] # "idle" \/ ttlPc[t] # "idle"
                       ~> (pc[t] = "idle" /\ ttlPc[t] = "idle") \/ crashed

(* Violated: the keys removed have reached the end of their life.          *)
OnlyExpiredAreCollected ==
  [][\A e \in ttlList : TtlAt(Sweeper, "collect") /\ e.path \in batch' => e.end_of_life <= clock]_varsTTL

=============================================================================
