----------------------------- MODULE StoreBase -----------------------------
(***************************************************************************)
(* store_base of store.h: a document behind two mutexes, called by several *)
(* threads.  Every lock, unlock and access to the member root is a step of *)
(* its own; between two steps of a thread any other thread may run.        *)
(*                                                                         *)
(* root_modify_mutex serialises the modifying calls from the evaluation of *)
(* the preconditions to the return; root_mutex, a shared_mutex, guards the *)
(* pointer root while it is assigned and while readers copy it.  A holder  *)
(* of root_modify_mutex reads root without root_mutex.                     *)
(***************************************************************************)
EXTENDS StoreCalls, Naturals

CONSTANTS
  Threads,
  InitialRoots,   \* documents the store may be constructed with
  MaxCalls(_)     \* bound: the calls of a thread

ASSUME MaxCallsAssumption == \A t \in Threads : MaxCalls(t) \in Nat

VARIABLES
  root,          \* the member root
  modifyHolders, \* threads that hold root_modify_mutex
  writers,       \* threads that hold root_mutex exclusively
  readers,       \* threads that hold root_mutex shared
  pc,            \* per thread: the step it takes next
  call,          \* per thread: the call it is in, or was in last
  local,         \* per thread: new_root, or the root a reader copied
  answer,        \* per thread: the value its call returns
  remaining,     \* per thread: the calls it may still make
  crashed        \* a thread has dereferenced nullptr; the process is gone

locks == <<modifyHolders, writers, readers>>
vars == <<root, locks, pc, call, local, answer, remaining, crashed>>

Goto(t, label) == pc' = [pc EXCEPT ![t] = label]

At(t, label) == ~crashed /\ pc[t] = label

-----------------------------------------------------------------------------
NoCall == [op |-> "none"]

Init ==
  /\ root \in InitialRoots
  /\ modifyHolders = {}
  /\ writers = {}
  /\ readers = {}
  /\ pc = [t \in Threads |-> "idle"]
  /\ call = [t \in Threads |-> NoCall]
  /\ local = [t \in Threads |-> NullRoot]
  /\ answer = [t \in Threads |-> NullRoot]
  /\ remaining = [t \in Threads |-> MaxCalls(t)]
  /\ crashed = FALSE

Invoke(t) ==
  /\ At(t, "idle")
  /\ remaining[t] > 0
  /\ \E c \in Calls :
       /\ call' = [call EXCEPT ![t] = c]
       /\ Goto(t, IF c.op \in Modifying THEN "lock_modify" ELSE "lock_shared")
  /\ remaining' = [remaining EXCEPT ![t] = @ - 1]
  /\ UNCHANGED <<root, locks, local, answer, crashed>>

Return(t) ==
  /\ At(t, "return")
  /\ Goto(t, "idle")
  /\ UNCHANGED <<root, locks, call, local, answer, remaining, crashed>>

-----------------------------------------------------------------------------
(* transact, write and set.                                                *)

(* Mutant: root_modify_mutex is not waited for.                            *)
LockModifyUnguarded(t) ==
  /\ At(t, "lock_modify")
  /\ modifyHolders' = modifyHolders \cup {t}
  /\ Goto(t, CASE call[t].op = "transact" -> "fold"
               [] call[t].op = "write"    -> "transform"
               [] call[t].op = "set"      -> "lock_root")
  /\ local' = IF call[t].op = "set" THEN [local EXCEPT ![t] = call[t].node] ELSE local
  /\ UNCHANGED <<root, writers, readers, call, answer, remaining, crashed>>

(* root_modify_mutex; set already has its new root.                        *)
LockModify(t) ==
  /\ At(t, "lock_modify")
  /\ modifyHolders = {}
  /\ modifyHolders' = {t}
  /\ Goto(t, CASE call[t].op = "transact" -> "fold"
               [] call[t].op = "write"    -> "transform"
               [] call[t].op = "set"      -> "lock_root")
  /\ local' = IF call[t].op = "set" THEN [local EXCEPT ![t] = call[t].node] ELSE local
  /\ UNCHANGED <<root, writers, readers, call, answer, remaining, crashed>>

(* root->fold<bool>(preconditions, std::logical_and{}, true), and the      *)
(* return nullptr where it is false.                                       *)
FoldRoot(t) ==
  /\ At(t, "fold")
  /\ FoldDefined(root, call[t].conds)
  /\ \/ /\ FoldOf(root, call[t].conds)
        /\ Goto(t, "transform")
        /\ UNCHANGED answer
     \/ /\ ~FoldOf(root, call[t].conds)
        /\ answer' = [answer EXCEPT ![t] = NullRoot]
        /\ Goto(t, "unlock_modify")
  /\ UNCHANGED <<root, locks, call, local, remaining, crashed>>

TransformRoot(t) ==
  /\ At(t, "transform")
  /\ TransformDefined(root, call[t].ops)
  /\ local' = [local EXCEPT ![t] = TransformOf(root, call[t].ops)]
  /\ Goto(t, "lock_root")
  /\ UNCHANGED <<root, locks, call, answer, remaining, crashed>>

(* Mutant: root_mutex is taken while readers hold it.                      *)
LockRootIgnoringReaders(t) ==
  /\ At(t, "lock_root")
  /\ writers = {}
  /\ writers' = {t}
  /\ Goto(t, "assign")
  /\ UNCHANGED <<root, modifyHolders, readers, call, local, answer, remaining, crashed>>

(* set_internal; it returns a copy of root made before root_mutex is left. *)
LockRoot(t) ==
  /\ At(t, "lock_root")
  /\ writers = {}
  /\ readers = {}
  /\ writers' = {t}
  /\ Goto(t, "assign")
  /\ UNCHANGED <<root, modifyHolders, readers, call, local, answer, remaining, crashed>>

Assign(t) ==
  /\ At(t, "assign")
  /\ root' = local[t]
  /\ Goto(t, "copy")
  /\ UNCHANGED <<locks, call, local, answer, remaining, crashed>>

CopyRoot(t) ==
  /\ At(t, "copy")
  /\ answer' = [answer EXCEPT ![t] = root]
  /\ Goto(t, "unlock_root")
  /\ UNCHANGED <<root, locks, call, local, remaining, crashed>>

UnlockRoot(t) ==
  /\ At(t, "unlock_root")
  /\ writers' = writers \ {t}
  /\ Goto(t, "unlock_modify")
  /\ UNCHANGED <<root, modifyHolders, readers, call, local, answer, remaining, crashed>>

UnlockModify(t) ==
  /\ At(t, "unlock_modify")
  /\ modifyHolders' = modifyHolders \ {t}
  /\ Goto(t, "return")
  /\ UNCHANGED <<root, writers, readers, call, local, answer, remaining, crashed>>

-----------------------------------------------------------------------------
(* read and check.                                                         *)

LockShared(t) ==
  /\ At(t, "lock_shared")
  /\ writers = {}
  /\ readers' = readers \cup {t}
  /\ Goto(t, "copy_shared")
  /\ UNCHANGED <<root, modifyHolders, writers, call, local, answer, remaining, crashed>>

CopyShared(t) ==
  /\ At(t, "copy_shared")
  /\ local' = [local EXCEPT ![t] = root]
  /\ Goto(t, "unlock_shared")
  /\ UNCHANGED <<root, locks, call, answer, remaining, crashed>>

UnlockShared(t) ==
  /\ At(t, "unlock_shared")
  /\ readers' = readers \ {t}
  /\ \/ /\ call[t].op = "read"
        /\ answer' = [answer EXCEPT ![t] = local[t]]
        /\ Goto(t, "return")
     \/ /\ call[t].op = "check"
        /\ Goto(t, "evaluate")
        /\ UNCHANGED answer
  /\ UNCHANGED <<root, modifyHolders, writers, call, local, remaining, crashed>>

(* Mutant: check folds over root, not over its copy.                       *)
EvaluateOnRoot(t) ==
  /\ At(t, "evaluate")
  /\ FoldDefined(root, call[t].conds)
  /\ answer' = [answer EXCEPT ![t] = Verdict(FoldOf(root, call[t].conds))]
  /\ Goto(t, "return")
  /\ UNCHANGED <<root, locks, call, local, remaining, crashed>>

(* Mutant: check tries again until its conditions hold.                    *)
EvaluateRetrying(t) ==
  /\ At(t, "evaluate")
  /\ FoldDefined(local[t], call[t].conds)
  /\ answer' = [answer EXCEPT ![t] = Verdict(FoldOf(local[t], call[t].conds))]
  /\ Goto(t, IF FoldOf(local[t], call[t].conds) THEN "return" ELSE "lock_shared")
  /\ UNCHANGED <<root, locks, call, local, remaining, crashed>>

(* check folds over its copy with no lock held.                            *)
Evaluate(t) ==
  /\ At(t, "evaluate")
  /\ FoldDefined(local[t], call[t].conds)
  /\ answer' = [answer EXCEPT ![t] = Verdict(FoldOf(local[t], call[t].conds))]
  /\ Goto(t, "return")
  /\ UNCHANGED <<root, locks, call, local, remaining, crashed>>

-----------------------------------------------------------------------------
(* A nullptr is dereferenced: the process and all its threads stop.        *)
Crash(t) ==
  /\ \/ At(t, "fold") /\ ~FoldDefined(root, call[t].conds)
     \/ At(t, "transform") /\ ~TransformDefined(root, call[t].ops)
     \/ At(t, "evaluate") /\ ~FoldDefined(local[t], call[t].conds)
  /\ crashed' = TRUE
  /\ UNCHANGED <<root, locks, pc, call, local, answer, remaining>>

Step(t) ==
  \/ Return(t)
  \/ LockModify(t) \/ FoldRoot(t) \/ TransformRoot(t)
  \/ LockRoot(t) \/ Assign(t) \/ CopyRoot(t) \/ UnlockRoot(t) \/ UnlockModify(t)
  \/ LockShared(t) \/ CopyShared(t) \/ UnlockShared(t) \/ Evaluate(t)
  \/ Crash(t)

(* Every thread has made its calls, or the process is gone.                *)
Terminating ==
  /\ crashed \/ \A t \in Threads : pc[t] = "idle" /\ remaining[t] = 0
  /\ UNCHANGED vars

Next == Terminating \/ \E t \in Threads : Invoke(t) \/ Step(t)

(* A thread that can take a step is scheduled eventually.  Whether a mutex *)
(* is handed to the thread that waits longest is not assumed.              *)
Fairness == \A t \in Threads : WF_vars(Step(t))

Spec == Init /\ [][Next]_vars
FairSpec == Spec /\ Fairness

-----------------------------------------------------------------------------
(* Where a thread is when it holds a mutex, and when it uses root.         *)
ModifySection == {"fold", "transform", "lock_root", "assign", "copy",
                  "unlock_root", "unlock_modify"}
WriteSection  == {"assign", "copy", "unlock_root"}
ReadSection   == {"copy_shared", "unlock_shared"}
RootUsers     == {"fold", "transform", "assign", "copy", "copy_shared"}

Labels == {"idle", "lock_modify", "lock_shared", "evaluate", "return"}
            \cup ModifySection \cup ReadSection

(* The steps that belong to a call.                                        *)
StepFits(label, c) ==
  /\ label # "idle" => c \in Calls
  /\ label \in {"lock_modify"} \cup ModifySection => c.op \in Modifying
  /\ label = "fold" => c.op = "transact"
  /\ label = "transform" => c.op # "set"
  /\ label \in {"lock_shared"} \cup ReadSection => c.op \in Reading
  /\ label = "evaluate" => c.op = "check"

(* Every thread is at a step of the call it is in.                         *)
TypeOK ==
  /\ modifyHolders \subseteq Threads
  /\ writers \subseteq Threads
  /\ readers \subseteq Threads
  /\ pc \in [Threads -> Labels]
  /\ call \in [Threads -> Calls \cup {NoCall}]
  /\ DOMAIN local = Threads
  /\ DOMAIN answer = Threads
  /\ remaining \in [Threads -> Nat]
  /\ crashed \in BOOLEAN
  /\ \A t \in Threads : StepFits(pc[t], call[t])

(***************************************************************************)
(* The mutexes are held exactly in their sections, each by the threads it  *)
(* admits: so no thread returns with a lock, waits for root_modify_mutex   *)
(* with root_mutex held, or unlocks what it does not hold.                 *)
(***************************************************************************)
LockDiscipline ==
  /\ modifyHolders = {t \in Threads : pc[t] \in ModifySection}
  /\ writers = {t \in Threads : pc[t] \in WriteSection}
  /\ readers = {t \in Threads : pc[t] \in ReadSection}
  /\ \A t, u \in modifyHolders : t = u
  /\ writers = {} \/ readers = {}

(***************************************************************************)
(* No thread assigns root while another reads the pointer or works on the  *)
(* tree it keeps alive: neither a reader in read(), nor a modifying call,  *)
(* which dereferences root without holding root_mutex.                     *)
(***************************************************************************)
NoRootRace ==
  \A t, u \in Threads :
    t # u /\ pc[t] = "assign" => pc[u] \notin RootUsers

(***************************************************************************)
(* What a modifying call is about to assign was computed from the root it  *)
(* replaces, and a transaction's preconditions hold of that very root: no  *)
(* update is lost between root->fold, root->transform and the assignment.  *)
(***************************************************************************)
PendingRootIsFresh ==
  \A t \in Threads :
    pc[t] \in {"lock_root", "assign"} =>
      /\ Changes(call[t], root)
      /\ local[t] = Result(call[t], root)

-----------------------------------------------------------------------------
(***************************************************************************)
(* store_base implements LinearizableStore.  A modifying call takes effect *)
(* when it assigns root or when its preconditions fail, a reading call     *)
(* when it copies root; from then on its answer is settled.                *)
(***************************************************************************)
Settled(t) ==
  CASE pc[t] = "copy" -> root
    [] pc[t] \in {"unlock_shared", "evaluate"} ->
         IF call[t].op = "read" THEN local[t] ELSE Verdict(FoldOf(local[t], call[t].conds))
    [] OTHER -> answer[t]

ClientOf(t) ==
  CASE pc[t] = "idle" -> [phase |-> "idle"]
    [] pc[t] \in {"copy", "unlock_root", "unlock_modify",
                  "unlock_shared", "evaluate", "return"} ->
         [phase |-> "answered", call |-> call[t], answer |-> Settled(t)]
    [] OTHER -> [phase |-> "invoked", call |-> call[t]]

Abstract == INSTANCE LinearizableStore WITH store <- root, client <- [t \in Threads |-> ClientOf(t)]

Linearizable == Abstract!Spec

(***************************************************************************)
(* Every call returns, unless the process is lost: the mutexes are taken   *)
(* in one order and each holder lets go of them.                           *)
(***************************************************************************)
AllCallsReturn == \A t \in Threads : pc[t] # "idle" ~> (pc[t] = "idle" \/ crashed)

=============================================================================
