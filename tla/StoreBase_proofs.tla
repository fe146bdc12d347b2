-------------------------- MODULE StoreBase_proofs --------------------------
(***************************************************************************)
(* Proofs about StoreBase, for any number of threads, any calls and any    *)
(* meaning of FoldOf and TransformOf.                                          *)
(***************************************************************************)
EXTENDS StoreBase, TLAPS

(* Type correctness: every thread is at a step of the call it is in.       *)
LEMMA TypeInit == Init => TypeOK
<1> SUFFICES ASSUME Init PROVE TypeOK
    OBVIOUS
<1>1. remaining \in [Threads -> Nat]
      BY MaxCallsAssumption DEF Init
<1>2. call \in [Threads -> Calls \cup {NoCall}]
      BY DEF Init
<1>3. pc \in [Threads -> Labels]
      BY DEF Init, Labels
<1>4. DOMAIN local = Threads /\ DOMAIN answer = Threads
      BY DEF Init
<1>5. \A t \in Threads : StepFits(pc[t], call[t])
      BY DEF Init, StepFits, ModifySection, ReadSection
<1> QED
    BY <1>1, <1>2, <1>3, <1>4, <1>5 DEF Init, TypeOK

LEMMA TypeStep == TypeOK /\ [Next]_vars => TypeOK'
<1> SUFFICES ASSUME TypeOK, [Next]_vars PROVE TypeOK'
    OBVIOUS
<1> USE MaxCallsAssumption, CallsAssumption DEF TypeOK, Labels, StepFits, Modifying, Reading, ModifySection, ReadSection, Goto, At, locks
<1>1. CASE UNCHANGED vars
      BY <1>1 DEF vars
<1>2. CASE Terminating
      BY <1>2 DEF Terminating, vars
<1>3. ASSUME NEW t \in Threads, Invoke(t) PROVE TypeOK'
      BY <1>3 DEF Invoke
<1>4. ASSUME NEW t \in Threads, Step(t) PROVE TypeOK'
  <2>1. CASE Return(t)
        BY <2>1 DEF Return
  <2>2. CASE LockModify(t)
        BY <2>2 DEF LockModify
  <2>3. CASE FoldRoot(t)
        BY <2>3 DEF FoldRoot
  <2>4. CASE TransformRoot(t)
        BY <2>4 DEF TransformRoot
  <2>5. CASE LockRoot(t)
        BY <2>5 DEF LockRoot
  <2>6. CASE Assign(t)
        BY <2>6 DEF Assign
  <2>7. CASE CopyRoot(t)
        BY <2>7 DEF CopyRoot
  <2>8. CASE UnlockRoot(t)
        BY <2>8 DEF UnlockRoot
  <2>9. CASE UnlockModify(t)
        BY <2>9 DEF UnlockModify
  <2>10. CASE LockShared(t)
        BY <2>10 DEF LockShared
  <2>11. CASE CopyShared(t)
        BY <2>11 DEF CopyShared
  <2>12. CASE UnlockShared(t)
        BY <2>12 DEF UnlockShared
  <2>13. CASE Evaluate(t)
        BY <2>13 DEF Evaluate
  <2>14. CASE Crash(t)
        BY <2>14 DEF Crash
  <2> QED
      BY <1>4, <2>1, <2>2, <2>3, <2>4, <2>5, <2>6, <2>7, <2>8, <2>9, <2>10,
         <2>11, <2>12, <2>13, <2>14 DEF Step
<1> QED
    BY <1>1, <1>2, <1>3, <1>4 DEF Next

(* The threads are always at a step of the call they are in.               *)
THEOREM TypeCorrect == Spec => []TypeOK
BY TypeInit, TypeStep, PTL DEF Spec

-----------------------------------------------------------------------------
LEMMA LocksInit == Init => LockDiscipline
BY DEF Init, LockDiscipline, ModifySection, WriteSection, ReadSection

LEMMA LocksStep == TypeOK /\ LockDiscipline /\ [Next]_vars => LockDiscipline'
<1> SUFFICES ASSUME TypeOK, LockDiscipline, [Next]_vars PROVE LockDiscipline'
    OBVIOUS
<1> USE DEF TypeOK, LockDiscipline, Labels, ModifySection, WriteSection, ReadSection,
         StepFits, Modifying, Reading, Goto, At, locks
<1>1. CASE UNCHANGED vars
      BY <1>1 DEF vars
<1>2. CASE Terminating
      BY <1>2 DEF Terminating, vars
<1>3. ASSUME NEW t \in Threads, Invoke(t) PROVE LockDiscipline'
      BY <1>3 DEF Invoke
<1>4. ASSUME NEW t \in Threads, Step(t) PROVE LockDiscipline'
  <2>1. CASE Return(t)
        BY <2>1 DEF Return
  <2>2. CASE LockModify(t)
        BY <2>2 DEF LockModify
  <2>3. CASE FoldRoot(t)
        BY <2>3 DEF FoldRoot
  <2>4. CASE TransformRoot(t)
        BY <2>4 DEF TransformRoot
  <2>5. CASE LockRoot(t)
        BY <2>5 DEF LockRoot
  <2>6. CASE Assign(t)
        BY <2>6 DEF Assign
  <2>7. CASE CopyRoot(t)
        BY <2>7 DEF CopyRoot
  <2>8. CASE UnlockRoot(t)
        BY <2>8 DEF UnlockRoot
  <2>9. CASE UnlockModify(t)
        BY <2>9 DEF UnlockModify
  <2>10. CASE LockShared(t)
        BY <2>10 DEF LockShared
  <2>11. CASE CopyShared(t)
        BY <2>11 DEF CopyShared
  <2>12. CASE UnlockShared(t)
        BY <2>12 DEF UnlockShared
  <2>13. CASE Evaluate(t)
        BY <2>13 DEF Evaluate
  <2>14. CASE Crash(t)
        BY <2>14 DEF Crash
  <2> QED
      BY <1>4, <2>1, <2>2, <2>3, <2>4, <2>5, <2>6, <2>7, <2>8, <2>9, <2>10,
         <2>11, <2>12, <2>13, <2>14 DEF Step
<1> QED
    BY <1>1, <1>2, <1>3, <1>4 DEF Next

THEOREM LocksCorrect == Spec => []LockDiscipline
BY TypeCorrect, LocksInit, LocksStep, PTL DEF Spec

(* No thread assigns root while another reads it or works on its tree.     *)
LEMMA RaceFree == TypeOK /\ LockDiscipline => NoRootRace
BY DEF TypeOK, LockDiscipline, NoRootRace, RootUsers, Labels,
       ModifySection, WriteSection, ReadSection

THEOREM RootNeverRaced == Spec => []NoRootRace
BY TypeCorrect, LocksCorrect, RaceFree, PTL

-----------------------------------------------------------------------------
(***************************************************************************)
(* PendingRootIsFresh is inductive once it speaks of the whole interval    *)
(* from the evaluation of the preconditions on: they hold of root while    *)
(* the new root is still to be computed.                                   *)
(***************************************************************************)
PreconditionsHold ==
  \A t \in Threads : pc[t] = "transform" => Changes(call[t], root)

FreshInv == PreconditionsHold /\ PendingRootIsFresh

LEMMA FreshInit == Init => FreshInv
BY DEF Init, FreshInv, PreconditionsHold, PendingRootIsFresh

LEMMA FreshStep == TypeOK /\ LockDiscipline /\ FreshInv /\ [Next]_vars => FreshInv'
<1> SUFFICES ASSUME TypeOK, LockDiscipline, FreshInv, [Next]_vars PROVE FreshInv'
    OBVIOUS
<1> USE DEF TypeOK, LockDiscipline, FreshInv, PreconditionsHold, PendingRootIsFresh,
         Labels, ModifySection, WriteSection, ReadSection, StepFits, Modifying, Reading,
         Changes, Result, Goto, At, locks
<1>1. CASE UNCHANGED vars
      BY <1>1 DEF vars
<1>2. CASE Terminating
      BY <1>2 DEF Terminating, vars
<1>3. ASSUME NEW t \in Threads, Invoke(t) PROVE FreshInv'
      BY <1>3 DEF Invoke
<1>4. ASSUME NEW t \in Threads, Step(t) PROVE FreshInv'
  <2>1. CASE Return(t)
        BY <2>1 DEF Return
  <2>2. CASE LockModify(t)
        BY <2>2 DEF LockModify
  <2>3. CASE FoldRoot(t)
        BY <2>3 DEF FoldRoot
  <2>4. CASE TransformRoot(t)
        BY <2>4 DEF TransformRoot
  <2>5. CASE LockRoot(t)
        BY <2>5 DEF LockRoot
  <2>6. CASE Assign(t)
        BY <2>6 DEF Assign
  <2>7. CASE CopyRoot(t)
        BY <2>7 DEF CopyRoot
  <2>8. CASE UnlockRoot(t)
        BY <2>8 DEF UnlockRoot
  <2>9. CASE UnlockModify(t)
        BY <2>9 DEF UnlockModify
  <2>10. CASE LockShared(t)
        BY <2>10 DEF LockShared
  <2>11. CASE CopyShared(t)
        BY <2>11 DEF CopyShared
  <2>12. CASE UnlockShared(t)
        BY <2>12 DEF UnlockShared
  <2>13. CASE Evaluate(t)
        BY <2>13 DEF Evaluate
  <2>14. CASE Crash(t)
        BY <2>14 DEF Crash
  <2> QED
      BY <1>4, <2>1, <2>2, <2>3, <2>4, <2>5, <2>6, <2>7, <2>8, <2>9, <2>10,
         <2>11, <2>12, <2>13, <2>14 DEF Step
<1> QED
    BY <1>1, <1>2, <1>3, <1>4 DEF Next

(* What is assigned was computed from the root it replaces.                *)
THEOREM NoLostUpdate == Spec => []PendingRootIsFresh
<1>1. Spec => []FreshInv
      BY TypeCorrect, LocksCorrect, FreshInit, FreshStep, PTL DEF Spec
<1> QED
    BY <1>1, PTL DEF FreshInv

-----------------------------------------------------------------------------
(***************************************************************************)
(* Refinement.  A step of a thread leaves what the specification sees of   *)
(* the other threads alone: only a settled answer read off root could      *)
(* change, and its owner holds root_modify_mutex.                          *)
(***************************************************************************)
LEMMA OthersUnseen ==
  ASSUME TypeOK, LockDiscipline, NEW t \in Threads, NEW u \in Threads, u # t,
         Invoke(t) \/ Step(t)
  PROVE  ClientOf(u)' = ClientOf(u)
<1>1. pc'[u] = pc[u] /\ call'[u] = call[u] /\ local'[u] = local[u] /\ answer'[u] = answer[u]
      BY DEF TypeOK, Goto, Invoke, Step, Return, LockModify, FoldRoot, TransformRoot,
             LockRoot, Assign, CopyRoot, UnlockRoot, UnlockModify, LockShared,
             CopyShared, UnlockShared, Evaluate, Crash, locks
<1>2. CASE pc[u] # "copy"
      BY <1>1, <1>2 DEF ClientOf, Settled
<1>3. CASE pc[u] = "copy"
  <2>1. pc[t] # "assign"
        BY <1>3 DEF LockDiscipline, ModifySection
  <2>2. root' = root
        BY <2>1 DEF Invoke, Step, Return, LockModify, FoldRoot, TransformRoot,
             LockRoot, Assign, CopyRoot, UnlockRoot, UnlockModify, LockShared,
             CopyShared, UnlockShared, Evaluate, Crash, locks, At
  <2> QED
      BY <1>1, <1>3, <2>2 DEF ClientOf, Settled
<1> QED
    BY <1>2, <1>3

(* A step that changes neither root nor what is seen of its thread.        *)
LEMMA Stutter ==
  ASSUME TypeOK, LockDiscipline, NEW t \in Threads, Invoke(t) \/ Step(t),
         root' = root, ClientOf(t)' = ClientOf(t)
  PROVE  UNCHANGED Abstract!vars
<1>1. \A u \in Threads : ClientOf(u)' = ClientOf(u)
      BY OthersUnseen
<1> QED
    BY <1>1 DEF Abstract!vars

LEMMA RefinementInit == Init => Abstract!Init
BY DEF Init, Abstract!Init, Abstract!Idle, ClientOf

(* A call is invoked.                                                      *)
LEMMA InvokeRefines ==
  ASSUME TypeOK, LockDiscipline, NEW t \in Threads, Invoke(t)
  PROVE  Abstract!Invoke(t)
<1> DEFINE client == [u \in Threads |-> ClientOf(u)]
<1>1. PICK c \in Calls : /\ call' = [call EXCEPT ![t] = c]
                         /\ Goto(t, IF c.op \in Modifying THEN "lock_modify" ELSE "lock_shared")
      BY DEF Invoke
<1>2. client[t] = Abstract!Idle
      BY DEF Invoke, At, ClientOf, Abstract!Idle
<1>3. ClientOf(t)' = Abstract!Invoked(c)
      BY <1>1 DEF TypeOK, Goto, ClientOf, Abstract!Invoked
<1>4. client' = [client EXCEPT ![t] = Abstract!Invoked(c)]
      BY <1>3, OthersUnseen
<1>5. root' = root
      BY DEF Invoke
<1> QED
    BY <1>2, <1>4, <1>5 DEF Abstract!Invoke

(* A call takes effect: root changes as the call says, and what is seen of *)
(* the thread becomes the call's answer.                                   *)
LEMMA LinearizeRefines ==
  ASSUME TypeOK, LockDiscipline, NEW t \in Threads, Step(t),
         NEW c \in Calls,
         ClientOf(t) = Abstract!Invoked(c),
         root' = Abstract!NewRoot(c, root),
         ClientOf(t)' = Abstract!Answered(c, Abstract!Answer(c, root))
  PROVE  Abstract!Linearize(t)
<1> DEFINE client == [u \in Threads |-> ClientOf(u)]
<1>1. client' = [client EXCEPT ![t] = Abstract!Answered(c, Abstract!Answer(c, root))]
      BY OthersUnseen
<1> QED
    BY <1>1 DEF Abstract!Linearize

(***************************************************************************)
(* Every step is an invocation, the step at which the call takes effect, a *)
(* return, or invisible.                                                   *)
(***************************************************************************)
LEMMA StepRefines ==
  ASSUME TypeOK, LockDiscipline, FreshInv, NEW t \in Threads, Step(t)
  PROVE  Abstract!Next \/ UNCHANGED Abstract!vars
<1> USE DEF At, Goto
<1>0. /\ call[t] \in Calls \cup {NoCall}
      /\ pc[t] # "idle" => call[t] \in Calls
      /\ pc[t] \in Labels
      BY DEF TypeOK, StepFits
<1>1. CASE Return(t)
  <2>1. ClientOf(t).phase = "answered"
        BY <1>1 DEF Return, ClientOf
  <2>2. ClientOf(t)' = Abstract!Idle
        BY <1>1 DEF Return, ClientOf, TypeOK, Abstract!Idle
  <2>3. root' = root
        BY <1>1 DEF Return
  <2>4. Abstract!Return(t)
        BY <2>1, <2>2, <2>3, OthersUnseen DEF Abstract!Return
  <2> QED
      BY <2>4 DEF Abstract!Next
<1>2. CASE LockModify(t)
  <2>1. pc'[t] \in {"fold", "transform", "lock_root"} /\ call' = call /\ root' = root
        BY <1>2 DEF LockModify, TypeOK, StepFits, Modifying
  <2>2. ClientOf(t)' = ClientOf(t)
        BY <1>2, <2>1 DEF LockModify, ClientOf
  <2> QED
      BY <2>1, <2>2, Stutter
<1>3. CASE FoldRoot(t)
  <2>1. CASE FoldOf(root, call[t].conds)
    <3>1. pc'[t] = "transform" /\ call' = call /\ root' = root /\ pc[t] = "fold"
          BY <1>3, <2>1 DEF FoldRoot, TypeOK
    <3>2. ClientOf(t)' = ClientOf(t)
          BY <3>1 DEF ClientOf
    <3> QED
        BY <3>1, <3>2, Stutter
  <2>2. CASE ~FoldOf(root, call[t].conds)
    <3>1. /\ pc[t] = "fold" /\ pc'[t] = "unlock_modify" /\ answer'[t] = NullRoot
          /\ call' = call /\ root' = root
          BY <1>3, <2>2 DEF FoldRoot, TypeOK
    <3>2. call[t] \in Calls /\ call[t].op = "transact"
          BY <3>1 DEF TypeOK, StepFits
    <3>3. root' = Abstract!NewRoot(call[t], root) /\ Abstract!Answer(call[t], root) = NullRoot
          BY <2>2, <3>1, <3>2 DEF Abstract!NewRoot, Abstract!Answer, Abstract!Changes, Abstract!Modifying
    <3>4. /\ ClientOf(t) = Abstract!Invoked(call[t])
          /\ ClientOf(t)' = Abstract!Answered(call[t], NullRoot)
          BY <3>1 DEF ClientOf, Settled, Abstract!Invoked, Abstract!Answered
    <3> QED
        BY <3>2, <3>3, <3>4, LinearizeRefines DEF Abstract!Next
  <2> QED
      BY <2>1, <2>2
<1>4. CASE TransformRoot(t)
  <2>1. pc[t] = "transform" /\ pc'[t] = "lock_root" /\ call' = call /\ root' = root
        BY <1>4 DEF TransformRoot, TypeOK
  <2>2. ClientOf(t)' = ClientOf(t)
        BY <2>1 DEF ClientOf
  <2> QED
      BY <2>1, <2>2, Stutter
<1>5. CASE LockRoot(t)
  <2>1. pc[t] = "lock_root" /\ pc'[t] = "assign" /\ call' = call /\ root' = root
        BY <1>5 DEF LockRoot, TypeOK
  <2>2. ClientOf(t)' = ClientOf(t)
        BY <2>1 DEF ClientOf
  <2> QED
      BY <2>1, <2>2, Stutter
<1>6. CASE Assign(t)
  <2>1. pc[t] = "assign" /\ pc'[t] = "copy" /\ call' = call /\ root' = local[t]
        BY <1>6 DEF Assign, TypeOK
  <2>2. call[t] \in Calls /\ call[t].op \in Modifying
        BY <2>1 DEF TypeOK, StepFits, ModifySection
  <2>3. Changes(call[t], root) /\ local[t] = Result(call[t], root)
        BY <2>1 DEF FreshInv, PendingRootIsFresh
  <2>4. root' = Abstract!NewRoot(call[t], root) /\ root' = Abstract!Answer(call[t], root)
        BY <2>1, <2>2, <2>3 DEF Abstract!NewRoot, Abstract!Answer, Abstract!Changes,
           Abstract!Result, Abstract!Modifying, Changes, Result, Modifying
  <2>5. /\ ClientOf(t) = Abstract!Invoked(call[t])
        /\ ClientOf(t)' = Abstract!Answered(call[t], root')
        BY <2>1 DEF ClientOf, Settled, Abstract!Invoked, Abstract!Answered
  <2> QED
      BY <2>2, <2>4, <2>5, LinearizeRefines DEF Abstract!Next
<1>7. CASE CopyRoot(t)
  <2>1. /\ pc[t] = "copy" /\ pc'[t] = "unlock_root" /\ answer'[t] = root
        /\ call' = call /\ root' = root
        BY <1>7 DEF CopyRoot, TypeOK
  <2>2. ClientOf(t)' = ClientOf(t)
        BY <2>1 DEF ClientOf, Settled
  <2> QED
      BY <2>1, <2>2, Stutter
<1>8. CASE UnlockRoot(t)
  <2>1. /\ pc[t] = "unlock_root" /\ pc'[t] = "unlock_modify" /\ answer' = answer
        /\ call' = call /\ root' = root
        BY <1>8 DEF UnlockRoot, TypeOK
  <2>2. ClientOf(t)' = ClientOf(t)
        BY <2>1 DEF ClientOf, Settled
  <2> QED
      BY <2>1, <2>2, Stutter
<1>9. CASE UnlockModify(t)
  <2>1. /\ pc[t] = "unlock_modify" /\ pc'[t] = "return" /\ answer' = answer
        /\ call' = call /\ root' = root
        BY <1>9 DEF UnlockModify, TypeOK
  <2>2. ClientOf(t)' = ClientOf(t)
        BY <2>1 DEF ClientOf, Settled
  <2> QED
      BY <2>1, <2>2, Stutter
<1>10. CASE LockShared(t)
  <2>1. /\ pc[t] = "lock_shared" /\ pc'[t] = "copy_shared" /\ call' = call /\ root' = root
        BY <1>10 DEF LockShared, TypeOK
  <2>2. ClientOf(t)' = ClientOf(t)
        BY <2>1 DEF ClientOf
  <2> QED
      BY <2>1, <2>2, Stutter
<1>11. CASE CopyShared(t)
  <2>1. /\ pc[t] = "copy_shared" /\ pc'[t] = "unlock_shared" /\ local'[t] = root
        /\ call' = call /\ root' = root
        BY <1>11 DEF CopyShared, TypeOK
  <2>2. call[t] \in Calls /\ call[t].op \in Reading
        BY <2>1 DEF TypeOK, StepFits, ReadSection
  <2>3. root' = Abstract!NewRoot(call[t], root)
        BY <2>1, <2>2 DEF Reading, Abstract!NewRoot, Abstract!Changes
  <2>4. Settled(t)' = Abstract!Answer(call[t], root)
        BY <2>1, <2>2 DEF Settled, Reading, Verdict, Abstract!Answer, Abstract!Modifying,
           Abstract!Verdict
  <2>5. /\ ClientOf(t) = Abstract!Invoked(call[t])
        /\ ClientOf(t)' = Abstract!Answered(call[t], Settled(t)')
        BY <2>1 DEF ClientOf, Abstract!Invoked, Abstract!Answered
  <2> QED
      BY <2>2, <2>3, <2>4, <2>5, LinearizeRefines DEF Abstract!Next
<1>12. CASE UnlockShared(t)
  <2>1. /\ pc[t] = "unlock_shared" /\ call' = call /\ root' = root /\ local' = local
        /\ \/ call[t].op = "read" /\ pc'[t] = "return" /\ answer'[t] = local[t]
           \/ call[t].op = "check" /\ pc'[t] = "evaluate"
        BY <1>12 DEF UnlockShared, TypeOK
  <2>2. ClientOf(t)' = ClientOf(t)
        BY <2>1 DEF ClientOf, Settled
  <2> QED
      BY <2>1, <2>2, Stutter
<1>13. CASE Evaluate(t)
  <2>1. /\ pc[t] = "evaluate" /\ pc'[t] = "return" /\ call' = call /\ root' = root
        /\ answer'[t] = Verdict(FoldOf(local[t], call[t].conds))
        BY <1>13 DEF Evaluate, TypeOK
  <2>2. call[t].op = "check"
        BY <2>1 DEF TypeOK, StepFits
  <2>3. ClientOf(t)' = ClientOf(t)
        BY <2>1, <2>2 DEF ClientOf, Settled
  <2> QED
      BY <2>1, <2>3, Stutter
<1>14. CASE Crash(t)
  <2>1. ClientOf(t)' = ClientOf(t) /\ root' = root
        BY <1>14 DEF Crash, ClientOf, Settled
  <2> QED
      BY <2>1, Stutter
<1> QED
    BY <1>1, <1>2, <1>3, <1>4, <1>5, <1>6, <1>7, <1>8, <1>9, <1>10,
       <1>11, <1>12, <1>13, <1>14 DEF Step

(* store_base implements the linearizable store.                           *)
THEOREM StoreIsLinearizable == Spec => Linearizable
<1>1. TypeOK /\ LockDiscipline /\ FreshInv /\ [Next]_vars => [Abstract!Next]_(Abstract!vars)
  <2> SUFFICES ASSUME TypeOK, LockDiscipline, FreshInv, [Next]_vars
               PROVE  Abstract!Next \/ UNCHANGED Abstract!vars
      OBVIOUS
  <2>1. CASE UNCHANGED vars
        BY <2>1 DEF vars, Abstract!vars, ClientOf, Settled
  <2>2. CASE Terminating
        BY <2>2 DEF Terminating, vars, Abstract!vars, ClientOf, Settled
  <2>3. ASSUME NEW t \in Threads, Invoke(t) PROVE Abstract!Next
        BY <2>3, InvokeRefines DEF Abstract!Next
  <2>4. ASSUME NEW t \in Threads, Step(t) PROVE Abstract!Next \/ UNCHANGED Abstract!vars
        BY <2>4, StepRefines
  <2> QED
      BY <2>1, <2>2, <2>3, <2>4 DEF Next
<1>2. Spec => []FreshInv
      BY TypeCorrect, LocksCorrect, FreshInit, FreshStep, PTL DEF Spec
<1> QED
    BY <1>1, <1>2, RefinementInit, TypeCorrect, LocksCorrect, PTL
       DEF Spec, Linearizable, Abstract!Spec

=============================================================================
