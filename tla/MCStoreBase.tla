---------------------------- MODULE MCStoreBase ----------------------------
(***************************************************************************)
(* Instances of StoreBase for TLC, on the documents of Node.  The document *)
(* has a counter and a list; the calls are the transactions an agency      *)
(* makes: guarded and unguarded updates of both, and reads.                *)
(***************************************************************************)
EXTENDS StoreBase

CONSTANT t1   \* the thread that makes two calls

LOCAL N == INSTANCE NodeConditions WITH MaxDepth <- 4

MCNullRoot == N!NullPtr
MCFoldOf(node, conds) == N!Fold(node, conds)
MCTransformOf(node, ops) == N!Transform(node, ops)
MCFoldDefined(node, conds) == N!CanFold(node, conds)
MCTransformDefined(node, ops) == N!CanTransform(node, ops)

LOCAL counter == <<N!Name("counter")>>
LOCAL list    == <<N!Name("list")>>
LOCAL one     == N!Number(1)

(* A store may be constructed with a document or, by default, without.     *)
AnyRoots  == {N!EmptyObject, N!NullPtr}

Count  == Transact(<<N!Equal(counter, one)>>,
                   <<N!IncrementOp(counter, 1), N!PushOp(list, one)>>)
Add    == Write(<<N!IncrementOp(counter, 1)>>)
Clear  == SetRoot(N!EmptyObject)
Drop   == Write(<<N!RemoveOp(<<>>)>>)   \* leaves a null root
Probe  == Check(<<N!Equal(counter, one)>>)

AllCalls == {Count, Add, Clear, Drop, Read, Probe}
Bound(t) == IF t = t1 THEN 2 ELSE 1

=============================================================================
