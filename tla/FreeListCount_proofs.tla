------------------------ MODULE FreeListCount_proofs ------------------------
(***************************************************************************)
(* Proof that the shared list of FreeList stays bounded, for any number of *)
(* threads.  A thread that has found room makes the list longer only by    *)
(* its one block, so the blocks that are linked or about to be linked are  *)
(* less than the limit and one per thread.                                 *)
(***************************************************************************)
EXTENDS FreeList_proofs, FiniteSetTheorems

(* The threads that are at one of some steps, and how many they are.       *)
ThreadsAt(labels) == {u \in Threads : pc[u] \in labels}
Number(labels) == Cardinality(ThreadsAt(labels))

One(label, labels) == IF label \in labels THEN 1 ELSE 0

(* A number of threads is a number.                                        *)
LEMMA NumberType ==
  ASSUME NEW labels
  PROVE  IsFiniteSet(ThreadsAt(labels)) /\ Number(labels) \in Nat
BY ThreadsAssumption, FS_Subset, FS_CardinalityType DEF ThreadsAt, Number

(* One thread goes from one step to another.                               *)
LEMMA Counted ==
  ASSUME TypeOK, NEW t \in Threads, NEW label, Go(t, label), NEW labels
  PROVE  Number(labels)' = Number(labels) - One(pc[t], labels) + One(label, labels)
<1> DEFINE before == ThreadsAt(labels)
           rest == before \ {t}
           after == ThreadsAt(labels)'
<1>1. IsFiniteSet(before) /\ Cardinality(before) \in Nat
  BY NumberType DEF Number
<1>2. /\ IsFiniteSet(rest) /\ Cardinality(rest) \in Nat
      /\ Cardinality(rest) = Cardinality(before) - One(t, before)
  BY <1>1, FS_RemoveElement, FS_CardinalityType DEF One
<1>3. Cardinality(rest \cup {t}) = Cardinality(rest) + 1
  BY <1>2, FS_AddElement
<1>4. after = IF label \in labels THEN rest \cup {t} ELSE rest
  BY DEF ThreadsAt, Go, TypeOK
<1>5. Cardinality(after) = Cardinality(rest) + One(label, labels)
  <2> HIDE DEF after, rest
  <2>1. CASE label \in labels BY <2>1, <1>3, <1>4 DEF One
  <2>2. CASE label \notin labels BY <2>2, <1>2, <1>4 DEF One
  <2> QED BY <2>1, <2>2
<1>6. One(t, before) = One(pc[t], labels)
  BY DEF ThreadsAt, One
<1> QED BY <1>2, <1>5, <1>6 DEF Number

-----------------------------------------------------------------------------
Adding == Number({"add"})
Subtracting == Number({"sub"})
Linking == Number({"push", "link"})

(* What the calls that are under way have yet to do.                       *)
Balanced ==
  ~torn =>
    /\ count = Len(stack) - Adding + Subtracting
    /\ Len(stack) + Linking <= Limit + Cardinality(Threads) - 1

(* What becomes of it when a thread takes a step.                          *)
LEMMA Balances ==
  ASSUME TypeOK, NEW t \in Threads, NEW label, Go(t, label)
  PROVE  /\ Adding \in Nat /\ Subtracting \in Nat /\ Linking \in Nat
         /\ Adding' = Adding - One(pc[t], {"add"}) + One(label, {"add"})
         /\ Subtracting' = Subtracting - One(pc[t], {"sub"}) + One(label, {"sub"})
         /\ Linking' = Linking - One(pc[t], {"push", "link"}) + One(label, {"push", "link"})
<1>1. Adding' = Adding - One(pc[t], {"add"}) + One(label, {"add"})
  BY Counted DEF Adding
<1>2. Subtracting' = Subtracting - One(pc[t], {"sub"}) + One(label, {"sub"})
  BY Counted DEF Subtracting
<1>3. Linking' = Linking - One(pc[t], {"push", "link"}) + One(label, {"push", "link"})
  BY Counted DEF Linking
<1> QED BY <1>1, <1>2, <1>3, NumberType DEF Adding, Subtracting, Linking

(* A thread that neither adds, subtracts nor links leaves a thread less to *)
(* do so.                                                                  *)
LEMMA OneIsElsewhere ==
  ASSUME TypeOK, NEW t \in Threads, pc[t] \notin {"add", "push", "link"}
  PROVE  Adding + Linking <= Cardinality(Threads) - 1
<1> DEFINE adding == ThreadsAt({"add"})
           linking == ThreadsAt({"push", "link"})
<1>1. IsFiniteSet(adding) /\ IsFiniteSet(linking)
  BY NumberType
<1>2. adding \cap linking = {}
  BY DEF ThreadsAt
<1>3. Cardinality(adding \cup linking) = Cardinality(adding) + Cardinality(linking)
  <2>1. Cardinality(adding \cap linking) = 0
    BY <1>2, FS_EmptySet
  <2>2. Cardinality(adding \cup linking)
          = Cardinality(adding) + Cardinality(linking) - Cardinality(adding \cap linking)
    BY <1>1, FS_Union
  <2> QED BY <2>1, <2>2, NumberType DEF Number
<1>4. adding \cup linking \subseteq Threads \ {t}
  BY DEF ThreadsAt
<1>5. IsFiniteSet(Threads \ {t}) /\ Cardinality(Threads \ {t}) = Cardinality(Threads) - 1
  BY ThreadsAssumption, FS_RemoveElement
<1> QED BY <1>3, <1>4, <1>5, FS_Subset DEF Adding, Linking, Number

(* A step that does not change the list, its count or who is changing them.*)
LEMMA Quiet ==
  ASSUME TypeOK, Balanced, NEW t \in Threads, NEW label, Go(t, label),
         {pc[t], label} \cap {"add", "sub", "push", "link"} = {},
         UNCHANGED <<count, stack, torn>>
  PROVE  Balanced'
<1>1. /\ One(pc[t], {"add"}) = 0 /\ One(pc[t], {"sub"}) = 0 /\ One(pc[t], {"push", "link"}) = 0
      /\ One(label, {"add"}) = 0 /\ One(label, {"sub"}) = 0 /\ One(label, {"push", "link"}) = 0
  BY DEF One
<1>2. Adding' = Adding /\ Subtracting' = Subtracting /\ Linking' = Linking
  BY <1>1, Balances
<1> QED BY <1>2 DEF Balanced

-----------------------------------------------------------------------------
(* One step per action: what it adds to the list, and to its count.        *)
LEMMA BalancedStep ==
  ASSUME Inv, Balanced, [Next]_vars
  PROVE  Balanced'
<1>1. TypeOK /\ Len(stack) \in Nat /\ count \in Int /\ Cardinality(Threads) \in Nat /\ Limit \in Nat
  BY ThreadsAssumption, LimitAssumption, FS_CardinalityType DEF Inv, TypeOK
<1> USE DEF At, Leave, Return, threadVars
<1>2. ASSUME UNCHANGED <<pc, count, stack, torn>> PROVE Balanced'
  BY <1>2 DEF Balanced, Adding, Subtracting, Linking, Number, ThreadsAt
<1>3. ASSUME NEW t \in Threads, AllocateLocal(t) PROVE Balanced'
  BY <1>2, <1>3 DEF AllocateLocal
<1>4. ASSUME NEW t \in Threads, Allocate(t) PROVE Balanced'
  BY <1>1, <1>4, Quiet DEF Allocate
<1>5. ASSUME NEW t \in Threads, LoadHead(t) PROVE Balanced'
  BY <1>1, <1>5, Quiet DEF LoadHead
<1>6. ASSUME NEW t \in Threads, AllocateFromParent(t) PROVE Balanced'
  BY <1>1, <1>6, Quiet DEF AllocateFromParent
<1>7. ASSUME NEW t \in Threads, ReadNext(t) PROVE Balanced'
  BY <1>1, <1>7, Quiet DEF ReadNext
<1>8. ASSUME NEW t \in Threads, Retry(t) PROVE Balanced'
  BY <1>1, <1>8, Quiet DEF Retry
<1>9. ASSUME NEW t \in Threads, Swap(t), ~torn' PROVE Balanced'
  <2>1. ~torn /\ stack' = Tail(stack) /\ count' = count /\ pc[t] = "swap" /\ Go(t, "sub")
    BY <1>9 DEF Swap
  <2>2. stack # <<>>
    BY <2>1, <1>9, NilAssumption DEF Swap, Inv, Whole, BlocksKnown, Top
  <2>3. Len(stack') = Len(stack) - 1
    BY <2>1, <2>2, <1>1, TailLemma DEF TypeOK
  <2>4. Adding \in Nat /\ Subtracting \in Nat /\ Linking \in Nat
        /\ Adding' = Adding /\ Subtracting' = Subtracting + 1 /\ Linking' = Linking
    BY <2>1, <1>1, Balances DEF One
  <2>5. ~torn /\ count' = count
    BY <2>1
  <2> QED BY <2>3, <2>4, <2>5, <1>1 DEF Balanced
<1>10. ASSUME NEW t \in Threads, Subtract(t) PROVE Balanced'
  <2>1. UNCHANGED <<stack, torn>> /\ count' = count - 1 /\ pc[t] = "sub" /\ Go(t, "idle")
    BY <1>10 DEF Subtract
  <2>2. Adding \in Nat /\ Subtracting \in Nat /\ Linking \in Nat
        /\ Adding' = Adding /\ Subtracting' = Subtracting - 1 /\ Linking' = Linking
    BY <2>1, <1>1, Balances DEF One
  <2> QED BY <2>1, <2>2, <1>1 DEF Balanced
<1>11. ASSUME NEW t \in Threads, NEW b \in used, Deallocate(t, b) PROVE Balanced'
  <2>1. UNCHANGED <<count, stack, torn>> /\ pc[t] = "idle" /\ (UNCHANGED pc \/ Go(t, "room"))
    BY <1>11 DEF Deallocate
  <2>2. CASE UNCHANGED pc BY <2>1, <2>2, <1>2
  <2>3. CASE Go(t, "room") BY <2>1, <2>3, <1>1, Quiet
  <2> QED BY <2>1, <2>2, <2>3
<1>12. ASSUME NEW t \in Threads, CheckRoom(t) PROVE Balanced'
  <2>1. UNCHANGED <<count, stack, torn>> /\ pc[t] = "room"
    BY <1>12 DEF CheckRoom
  <2>2. CASE Full(count) /\ Return(t)
    <3>1. PICK label \in {"idle", "clear"} : Go(t, label)
      BY <2>2
    <3> QED BY <2>1, <3>1, <1>1, Quiet
  <2>3. CASE ~Full(count) /\ Go(t, "push")
    <3>1. count < Limit
      BY <2>3, <1>1 DEF Full
    <3>2. Adding \in Nat /\ Subtracting \in Nat /\ Linking \in Nat
          /\ Adding' = Adding /\ Subtracting' = Subtracting /\ Linking' = Linking + 1
      BY <2>1, <2>3, <1>1, Balances DEF One
    <3>3. Adding + Linking <= Cardinality(Threads) - 1
      BY <2>1, <1>1, OneIsElsewhere
    <3> QED BY <2>1, <3>1, <3>2, <3>3, <1>1 DEF Balanced
  <2> QED BY <1>12, <2>2, <2>3 DEF CheckRoom
<1>13. ASSUME NEW t \in Threads, LoadForPush(t) \/ Relink(t) PROVE Balanced'
  <2>1. UNCHANGED <<count, stack, torn>>
    BY <1>13 DEF LoadForPush, Relink
  <2>2. PICK label \in {"push", "link"} : Go(t, label) /\ pc[t] \in {"push", "link"}
    BY <1>13 DEF LoadForPush, Relink
  <2>3. Adding \in Nat /\ Subtracting \in Nat /\ Linking \in Nat
        /\ Adding' = Adding /\ Subtracting' = Subtracting /\ Linking' = Linking
    BY <2>2, <1>1, Balances DEF One
  <2> QED BY <2>1, <2>3 DEF Balanced
<1>14. ASSUME NEW t \in Threads, Link(t) PROVE Balanced'
  <2>1. UNCHANGED <<count, torn>> /\ pc[t] = "link" /\ Go(t, "add")
        /\ stack' = IF torn THEN stack ELSE <<block[t]>> \o stack
    BY <1>14 DEF Link
  <2>2. UNCHANGED <<count, torn>> /\ (~torn => Len(stack') = Len(stack) + 1)
    BY <2>1, <1>1, ConsLemma DEF Inv, BlocksKnown, Holding, TypeOK
  <2>3. Adding \in Nat /\ Subtracting \in Nat /\ Linking \in Nat
        /\ Adding' = Adding + 1 /\ Subtracting' = Subtracting /\ Linking' = Linking - 1
    BY <2>1, <1>1, Balances DEF One
  <2> QED BY <2>2, <2>3, <1>1 DEF Balanced
<1>15. ASSUME NEW t \in Threads, Add(t) PROVE Balanced'
  <2>1. UNCHANGED <<stack, torn>> /\ count' = count + 1 /\ pc[t] = "add"
    BY <1>15 DEF Add
  <2>2. PICK label \in {"idle", "clear"} : Go(t, label)
    BY <1>15 DEF Add
  <2>3. Adding \in Nat /\ Subtracting \in Nat /\ Linking \in Nat
        /\ Adding' = Adding - 1 /\ Subtracting' = Subtracting /\ Linking' = Linking
    BY <2>1, <2>2, <1>1, Balances DEF One
  <2> QED BY <2>1, <2>3, <1>1 DEF Balanced
<1>16. ASSUME NEW t \in Threads, Exit(t) PROVE Balanced'
  BY <1>1, <1>16, Quiet DEF Exit
<1>17. ASSUME NEW t \in Threads, Clear(t) PROVE Balanced'
  <2>1. UNCHANGED <<count, stack, torn>> /\ pc[t] = "clear"
    BY <1>17 DEF Clear
  <2>2. PICK label \in {"idle", "room"} : Go(t, label)
    BY <1>17 DEF Clear
  <2> QED BY <2>1, <2>2, <1>1, Quiet
<1>18. CASE UNCHANGED vars
  BY <1>2, <1>18 DEF vars
<1>19. CASE torn'
  BY <1>19 DEF Balanced
<1>20. CASE Next /\ ~torn'
  <2>1. PICK t \in Threads :
          \/ AllocateLocal(t) \/ Allocate(t) \/ LoadHead(t) \/ AllocateFromParent(t)
          \/ ReadNext(t) \/ Retry(t) \/ Swap(t) \/ Subtract(t)
          \/ \E b \in used : Deallocate(t, b)
          \/ CheckRoom(t) \/ LoadForPush(t) \/ Relink(t) \/ Link(t) \/ Add(t)
          \/ Exit(t) \/ Clear(t)
    BY <1>20 DEF Next
  <2> QED
    BY <2>1, <1>3, <1>4, <1>5, <1>6, <1>7, <1>8, <1>9, <1>10, <1>11, <1>12, <1>13, <1>14, <1>15,
       <1>16, <1>17, <1>20
<1> QED BY <1>18, <1>19, <1>20

(* The shared list never has a block per thread more than its limit, and   *)
(* its count is off only by the calls that are about to change it.         *)
THEOREM ListStaysBounded == Spec => []ListIsBounded
<1>1. Init => Balanced
  <2> SUFFICES ASSUME Init PROVE Balanced
    OBVIOUS
  <2>1. ThreadsAt({"add"}) = {} /\ ThreadsAt({"sub"}) = {} /\ ThreadsAt({"push", "link"}) = {}
    BY DEF Init, ThreadsAt
  <2>2. Adding = 0 /\ Subtracting = 0 /\ Linking = 0
    BY <2>1, FS_EmptySet DEF Adding, Subtracting, Linking, Number
  <2>3. Cardinality(Threads) \in Nat /\ Limit \in Nat \ {0}
    BY ThreadsAssumption, LimitAssumption, FS_CardinalityType
  <2>4. stack = <<>> /\ Len(stack) = 0 /\ count = 0
    BY DEF Init
  <2> QED BY <2>2, <2>3, <2>4 DEF Balanced
<1>2. Inv /\ Balanced /\ [Next]_vars => Balanced'
  BY BalancedStep
<1>3. Inv /\ Balanced => ListIsBounded
  <2> SUFFICES ASSUME Inv, Balanced, ~torn PROVE ListIsBounded
    BY DEF ListIsBounded
  <2>1. Adding = Cardinality({t \in Threads : At(t, "add")})
        /\ Subtracting = Cardinality({t \in Threads : At(t, "sub")})
    <3>1. /\ ThreadsAt({"add"}) = {t \in Threads : At(t, "add")}
          /\ ThreadsAt({"sub"}) = {t \in Threads : At(t, "sub")}
      BY DEF ThreadsAt, At
    <3> QED BY <3>1 DEF Adding, Subtracting, Number
  <2>2. Len(stack) \in Nat /\ Linking \in Nat /\ Cardinality(Threads) \in Nat /\ Limit \in Nat
    BY NumberType, ThreadsAssumption, LimitAssumption, FS_CardinalityType DEF Linking, Inv, TypeOK
  <2> QED BY <2>1, <2>2 DEF Balanced, ListIsBounded
<1> QED BY <1>1, <1>2, <1>3, InvCorrect, PTL DEF Spec

=============================================================================
