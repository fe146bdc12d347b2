-------------------------- MODULE NodeTree_proofs --------------------------
(***************************************************************************)
(* Proofs about NodeTree, for all documents, paths and values: what the    *)
(* value operators, node::transform, node::extract and the conditions do   *)
(* to a document, whatever operations built it.                            *)
(*                                                                         *)
(* The inductive invariant says that the document is a tree; each theorem  *)
(* follows from a lemma of Node_proofs about the updates of one tree.      *)
(***************************************************************************)
EXTENDS NodeTree, Node_proofs

-----------------------------------------------------------------------------
(* One and two operations: the recursive functions of transform and        *)
(* extract.                                                                *)

IsTransform(node, ops, after) ==
  after = [i \in 0..Len(ops) |->
             IF i = 0 THEN node
             ELSE Set(after[i - 1], ops[i].path, Apply(ops[i], Get(node, ops[i].path)))]

(* One operation is one update.                                            *)
LEMMA TransformIsOne ==
  ASSUME NEW node, NEW op
  PROVE  Transform(node, <<op>>) = Set(node, op.path, Apply(op, Get(node, op.path)))
<1> DEFINE ops == <<op>>
           first == Set(node, op.path, Apply(op, Get(node, op.path)))
           made == [i \in 0..1 |-> IF i = 0 THEN node ELSE first]
           f == CHOOSE g : IsTransform(node, ops, g)
<1>1. Len(ops) = 1 /\ ops[1] = op
  OBVIOUS
<1>2. Transform(node, ops) = f[Len(ops)]
  BY DEF Transform, IsTransform
<1> HIDE DEF ops, first
<1>3. IsTransform(node, ops, made)
  <2>1. \A i \in 0..1 : made[i] = IF i = 0 THEN node ELSE Set(made[i - 1], ops[i].path, Apply(ops[i], Get(node, ops[i].path)))
    BY <1>1 DEF first
  <2> QED
    BY <1>1, <2>1 DEF IsTransform
<1>4. IsTransform(node, ops, f)
  BY <1>3
<1> HIDE DEF f
<1>5. f[0] = node
  BY <1>1, <1>4 DEF IsTransform
<1>6. f[1] = first
  BY <1>1, <1>4, <1>5 DEF IsTransform, first
<1> QED
  BY <1>1, <1>2, <1>6 DEF ops, first

(* Two are two updates, both with results of the original document.        *)
LEMMA TransformIsBoth ==
  ASSUME NEW node, NEW op, NEW other
  PROVE  Transform(node, <<op, other>>) =
           Set(Set(node, op.path, Apply(op, Get(node, op.path))),
               other.path, Apply(other, Get(node, other.path)))
<1> DEFINE ops == <<op, other>>
           first == Set(node, op.path, Apply(op, Get(node, op.path)))
           second == Set(first, other.path, Apply(other, Get(node, other.path)))
           made == [i \in 0..2 |-> IF i = 0 THEN node ELSE IF i = 1 THEN first ELSE second]
           f == CHOOSE g : IsTransform(node, ops, g)
<1>1. Len(ops) = 2 /\ ops[1] = op /\ ops[2] = other
  OBVIOUS
<1>2. Transform(node, ops) = f[Len(ops)]
  BY DEF Transform, IsTransform
<1>a. second = Set(first, other.path, Apply(other, Get(node, other.path)))
  OBVIOUS
<1>b. first = Set(node, op.path, Apply(op, Get(node, op.path)))
  OBVIOUS
<1> HIDE DEF ops, first, second
<1>3. IsTransform(node, ops, made)
  <2>1. \A i \in 0..2 : made[i] = IF i = 0 THEN node ELSE Set(made[i - 1], ops[i].path, Apply(ops[i], Get(node, ops[i].path)))
    <3>1. 0..2 = {0, 1, 2}
      OBVIOUS
    <3>2. made[0] = node /\ made[1] = first /\ made[2] = second
      OBVIOUS
    <3> QED
      BY <1>1, <1>a, <1>b, <3>1, <3>2
  <2> QED
    BY <1>1, <2>1 DEF IsTransform
<1>4. IsTransform(node, ops, f)
  BY <1>3
<1> HIDE DEF f
<1>5. f[0] = node
  BY <1>1, <1>4 DEF IsTransform
<1>6. f[1] = first
  BY <1>1, <1>4, <1>5, <1>b DEF IsTransform
<1>7. f[2] = second
  BY <1>1, <1>4, <1>6, <1>a DEF IsTransform
<1> QED
  BY <1>1, <1>2, <1>7, <1>a, <1>b DEF ops

IsExtract(node, paths, result) ==
  result = [i \in 0..Len(paths) |->
              IF i = 0 THEN EmptyObject ELSE Set(result[i - 1], paths[i], Get(node, paths[i]))]

(* An extract of two paths sets what is found at them, one by one.         *)
LEMMA ExtractIsBoth ==
  ASSUME NEW node, NEW p, NEW q
  PROVE  Extract(node, <<p, q>>) = Set(Set(EmptyObject, p, Get(node, p)), q, Get(node, q))
<1> DEFINE paths == <<p, q>>
           first == Set(EmptyObject, p, Get(node, p))
           second == Set(first, q, Get(node, q))
           made == [i \in 0..2 |-> IF i = 0 THEN EmptyObject ELSE IF i = 1 THEN first ELSE second]
           f == CHOOSE g : IsExtract(node, paths, g)
<1>1. Len(paths) = 2 /\ paths[1] = p /\ paths[2] = q
  OBVIOUS
<1>2. Extract(node, paths) = f[Len(paths)]
  BY DEF Extract, IsExtract
<1>a. second = Set(first, q, Get(node, q))
  OBVIOUS
<1>b. first = Set(EmptyObject, p, Get(node, p))
  OBVIOUS
<1> HIDE DEF paths, first, second
<1>3. IsExtract(node, paths, made)
  <2>1. \A i \in 0..2 : made[i] = IF i = 0 THEN EmptyObject ELSE Set(made[i - 1], paths[i], Get(node, paths[i]))
    <3>1. 0..2 = {0, 1, 2}
      OBVIOUS
    <3>2. made[0] = EmptyObject /\ made[1] = first /\ made[2] = second
      OBVIOUS
    <3> QED
      BY <1>1, <1>a, <1>b, <3>1, <3>2
  <2> QED
    BY <1>1, <2>1 DEF IsExtract
<1>4. IsExtract(node, paths, f)
  BY <1>3
<1> HIDE DEF f
<1>5. f[0] = EmptyObject
  BY <1>1, <1>4 DEF IsExtract
<1>6. f[1] = first
  BY <1>1, <1>4, <1>5, <1>b DEF IsExtract
<1>7. f[2] = second
  BY <1>1, <1>4, <1>6, <1>a DEF IsExtract
<1> QED
  BY <1>1, <1>2, <1>7, <1>a, <1>b DEF paths

-----------------------------------------------------------------------------
(* What clients bring: values, paths and pairs of paths.                   *)

(* Documents are trees, and MaxDepth bounds them.                          *)
LEMMA DocumentIsTree ==
  ASSUME NEW node, IsDocument(node)
  PROVE  Tree(node) /\ Shallow(node)
BY OwnDescendant DEF IsDocument, Tree

(* So are the values.                                                      *)
LEMMA ValuesAreTrees ==
  ASSUME NEW v \in Values \cup {InitialDoc}
  PROVE  Tree(v) /\ Shallow(v)
BY ValuesAssumption, DocumentIsTree

(* A value is a tree other than nullptr.                                   *)
LEMMA ValueIsNode ==
  ASSUME NEW v \in Values
  PROVE  v # NullPtr /\ Tree(v)
BY ValuesAssumption, ValuesAreTrees

(* The paths in use are made of keys.                                      *)
LEMMA PathsAreKeys ==
  ASSUME use \in Uses
  PROVE  Paths \subseteq Seq(Keys)
BY PathsAssumption DEF Paths

(* Paths that do not meet diverge.                                         *)
LEMMA IncomparableDiverge ==
  ASSUME NEW p \in Seq(Keys), NEW q \in Seq(Keys), Incomparable(p, q)
  PROVE  Diverge(p, q) /\ Diverge(q, p)
<1>1. \E i \in DOMAIN p \cap DOMAIN q : p[i] # q[i]
  <2> SUFFICES ASSUME \A i \in DOMAIN p \cap DOMAIN q : p[i] = q[i] PROVE FALSE
    OBVIOUS
  <2>1. Len(p) \in Nat /\ Len(q) \in Nat
    BY SequenceParts
  <2>2. CASE Len(p) <= Len(q)
    <3>1. SubSeq(p, 1, Len(p)) = SubSeq(q, 1, Len(p))
      BY <2>2
    <3> QED
      BY <2>2, <3>1 DEF Incomparable, IsPrefix
  <2>3. CASE Len(q) <= Len(p)
    <3>1. SubSeq(q, 1, Len(q)) = SubSeq(p, 1, Len(q))
      BY <2>3
    <3> QED
      BY <2>3, <3>1 DEF Incomparable, IsPrefix
  <2> QED
    BY <2>1, <2>2, <2>3
<1> QED
  BY <1>1 DEF Diverge

(* A path begins with its prefixes.                                        *)
LEMMA PrefixBegins ==
  ASSUME NEW p \in Seq(Keys), NEW q \in Seq(Keys), IsPrefix(p, q)
  PROVE  Begins(p, q)
<1>1. Len(p) \in Nat /\ Len(q) \in Nat /\ Len(p) <= Len(q)
  BY SequenceParts DEF IsPrefix
<1>2. SubSeq(p, 1, Len(p)) = SubSeq(q, 1, Len(p))
  BY DEF IsPrefix
<1>3. \A i \in 1..Len(p) : SubSeq(p, 1, Len(p))[i] = p[i] /\ SubSeq(q, 1, Len(p))[i] = q[i]
  BY <1>1, PrefixParts
<1>4. \A i \in 1..Len(p) : p[i] = q[i]
  BY <1>2, <1>3
<1> QED
  BY <1>1, <1>4 DEF Begins

(* The same with the keys of both paths canonical.                         *)
LEMMA ApartDiverge ==
  ASSUME NEW p \in Seq(Keys), NEW q \in Seq(Keys), Incomparable(p, q), CanonicalPath(p), CanonicalPath(q)
  PROVE  Diverge(p, q) /\ Diverge(q, p) /\ CanonicalKeys(p) /\ CanonicalKeys(q)
BY IncomparableDiverge DEF CanonicalPath, CanonicalKeys

-----------------------------------------------------------------------------
(* The operators make trees of trees.                                      *)

LEMMA ArrayTree ==
  ASSUME NEW parts, \A n \in parts : IsNode(n, parts), NEW elems \in Seq(parts)
  PROVE  Tree(Array(elems))
BY ArrayIsNode, NewRoot

(* What is no container is a tree.                                         *)
LEMMA LeafTree ==
  ASSUME NEW node, node.kind \notin {"array", "object"}
  PROVE  Tree(node)
<1>1. IsNode(node, {node})
  BY DEF IsNode
<1> QED
  BY <1>1 DEF Tree

(* The operators that default to null.                                     *)
LEMMA NodeOrNullTree ==
  ASSUME NEW ptr, Tree(ptr)
  PROVE  Tree(NodeOrNull(ptr))
BY LeafTree DEF NodeOrNull, NullNode

(* Push and prepend.                                                       *)
LEMMA PushTree ==
  ASSUME NEW node, Tree(node), NEW v, Tree(v)
  PROVE  Tree(Push(node, v)) /\ Tree(Prepend(node, v))
<1>1. PICK parts : node \in parts /\ v \in parts /\ NullNode \in parts /\ \A n \in parts : IsNode(n, parts)
  BY CommonParts
<1> DEFINE pushed == IF node.kind = "array" THEN Append(node.elems, v) ELSE <<v>>
           prepended == IF node.kind = "array" THEN <<v>> \o node.elems ELSE <<v>>
<1>2. node.kind = "array" => node.elems \in Seq(parts)
  BY <1>1 DEF IsNode
<1>3. pushed \in Seq(parts) /\ prepended \in Seq(parts)
  BY <1>1, <1>2
<1>4. Push(node, v) = Array(pushed) /\ Prepend(node, v) = Array(prepended)
  BY DEF Push, Prepend
<1> HIDE DEF pushed, prepended
<1> QED
  BY <1>1, <1>3, <1>4, ArrayTree

(* Pop and shift.                                                          *)
LEMMA PopTree ==
  ASSUME NEW ptr, Tree(ptr)
  PROVE  Tree(Pop(ptr)) /\ Tree(Shift(ptr))
<1>1. CASE ptr.kind = "array" /\ ptr.elems # <<>>
  <2>1. PICK parts : ptr.elems \in Seq(parts) /\ \A n \in parts : IsNode(n, parts)
    BY <1>1, ArrayParts
  <2>2. Front(ptr.elems) \in Seq(parts) /\ Tail(ptr.elems) \in Seq(parts)
    BY <1>1, <2>1 DEF Front
  <2>3. Pop(ptr) = Array(Front(ptr.elems)) /\ Shift(ptr) = Array(Tail(ptr.elems))
    BY <1>1 DEF Pop, Shift
  <2> QED
    BY <2>1, <2>2, <2>3, ArrayTree
<1>2. CASE ~(ptr.kind = "array" /\ ptr.elems # <<>>)
  BY <1>2 DEF Pop, Shift
<1> QED
  BY <1>1, <1>2

First(s, e) == Min({i \in 1..Len(s) : s[i] = e})

(* RemoveFirst takes out the first occurrence, if there is one.            *)
LEMMA RemoveFirstParts ==
  ASSUME NEW S, NEW s \in Seq(S), NEW e
  PROVE  /\ (\E i \in 1..Len(s) : s[i] = e) =>
              /\ First(s, e) \in 1..Len(s)
              /\ s[First(s, e)] = e
              /\ \A i \in 1..Len(s) : s[i] = e => First(s, e) <= i
              /\ RemoveFirst(s, e) = SubSeq(s, 1, First(s, e) - 1) \o SubSeq(s, First(s, e) + 1, Len(s))
         /\ ~(\E i \in 1..Len(s) : s[i] = e) => RemoveFirst(s, e) = s
<1> DEFINE I == {i \in 1..Len(s) : s[i] = e}
<1>1. CASE I # {}
  <2>1. I \subseteq Nat
    OBVIOUS
  <2>2. Min(I) \in I /\ \A n \in I : Min(I) <= n
    BY <1>1, <2>1, LeastExists
  <2>3. SelectInSeq(s, LAMBDA v : v = e) = Min(I)
    BY <1>1 DEF SelectInSeq
  <2>4. RemoveFirst(s, e) = SubSeq(s, 1, Min(I) - 1) \o SubSeq(s, Min(I) + 1, Len(s))
    BY <1>1, <2>3 DEF RemoveFirst, RemoveAt
  <2> QED
    BY <1>1, <2>2, <2>4 DEF First
<1>2. CASE I = {}
  BY <1>2 DEF RemoveFirst
<1> QED
  BY <1>1, <1>2

(* What is left are elements of the sequence.                              *)
LEMMA RemoveFirstTyped ==
  ASSUME NEW S, NEW s \in Seq(S), NEW e
  PROVE  RemoveFirst(s, e) \in Seq(S)
<1> DEFINE i == First(s, e)
<1>1. CASE \E j \in 1..Len(s) : s[j] = e
  <2>1. i \in 1..Len(s) /\ RemoveFirst(s, e) = SubSeq(s, 1, i - 1) \o SubSeq(s, i + 1, Len(s))
    BY <1>1, RemoveFirstParts
  <2> HIDE DEF i
  <2>2. SubSeq(s, 1, i - 1) \in Seq(S) /\ SubSeq(s, i + 1, Len(s)) \in Seq(S)
    BY <2>1
  <2> QED
    BY <2>1, <2>2
<1>2. CASE ~(\E j \in 1..Len(s) : s[j] = e)
  BY <1>2, RemoveFirstParts
<1> QED
  BY <1>1, <1>2

(* Erase.                                                                  *)
LEMMA EraseTree ==
  ASSUME NEW ptr, Tree(ptr), NEW v
  PROVE  Tree(Erase(ptr, v))
<1>1. CASE ptr.kind = "array"
  <2>1. PICK parts : ptr.elems \in Seq(parts) /\ \A n \in parts : IsNode(n, parts)
    BY <1>1, ArrayParts
  <2>2. RemoveFirst(ptr.elems, v) \in Seq(parts)
    BY <2>1, RemoveFirstTyped
  <2>3. Erase(ptr, v) = Array(RemoveFirst(ptr.elems, v))
    BY <1>1 DEF Erase
  <2> QED
    BY <2>1, <2>2, <2>3, ArrayTree
<1>2. CASE ptr.kind # "array"
  BY <1>2 DEF Erase
<1> QED
  BY <1>1, <1>2

(* What each operation is, and what it applies.                            *)
LEMMA OperationPath ==
  ASSUME NEW path, NEW op \in OpsAt(path)
  PROVE  op.path = path
BY DEF OpsAt, RemoveOp, IncrementOp, PopOp, ShiftOp, SetOp, PushOp, PrependOp, EraseOp

(* The operations on a path, one by one,                                   *)
LEMMA OperationKinds ==
  ASSUME NEW path, NEW op \in OpsAt(path)
  PROVE  \/ op = RemoveOp(path) \/ op = IncrementOp(path, 1) \/ op = PopOp(path) \/ op = ShiftOp(path)
         \/ \E v \in Values : op \in {SetOp(path, v), PushOp(path, v), PrependOp(path, v), EraseOp(path, v)}
BY DEF OpsAt

(* and what each of them makes of the node it finds.                       *)
LEMMA Applied ==
  ASSUME NEW path, NEW ptr, NEW v
  PROVE  /\ Apply(SetOp(path, v), ptr) = v
         /\ Apply(RemoveOp(path), ptr) = NullPtr
         /\ Apply(IncrementOp(path, 1), ptr) = Increment(NodeOrNull(ptr), 1)
         /\ Apply(PushOp(path, v), ptr) = Push(NodeOrNull(ptr), v)
         /\ Apply(PrependOp(path, v), ptr) = Prepend(NodeOrNull(ptr), v)
         /\ Apply(PopOp(path), ptr) = Pop(ptr)
         /\ Apply(ShiftOp(path), ptr) = Shift(ptr)
         /\ Apply(EraseOp(path, v), ptr) = Erase(ptr, v)
<1>1. Apply(SetOp(path, v), ptr) = v
  BY DEF Apply, SetOp
<1>2. Apply(RemoveOp(path), ptr) = NullPtr
  BY DEF Apply, RemoveOp
<1>3. Apply(IncrementOp(path, 1), ptr) = Increment(NodeOrNull(ptr), 1)
  BY DEF Apply, IncrementOp
<1>4. Apply(PushOp(path, v), ptr) = Push(NodeOrNull(ptr), v)
  BY DEF Apply, PushOp
<1>5. Apply(PrependOp(path, v), ptr) = Prepend(NodeOrNull(ptr), v)
  BY DEF Apply, PrependOp
<1>6. Apply(PopOp(path), ptr) = Pop(ptr)
  BY DEF Apply, PopOp
<1>7. Apply(ShiftOp(path), ptr) = Shift(ptr)
  BY DEF Apply, ShiftOp
<1>8. Apply(EraseOp(path, v), ptr) = Erase(ptr, v)
  BY DEF Apply, EraseOp
<1> QED
  BY <1>1, <1>2, <1>3, <1>4, <1>5, <1>6, <1>7, <1>8

(* Each of them makes a tree of a tree.                                    *)
LEMMA ApplyIsTree ==
  ASSUME NEW path, NEW op \in OpsAt(path), NEW ptr, Tree(ptr)
  PROVE  Tree(Apply(op, ptr))
<1>1. CASE op = RemoveOp(path)
  BY <1>1, Applied, NullIsTree
<1>2. CASE op = IncrementOp(path, 1)
  BY <1>2, Applied, LeafTree DEF Increment, Number
<1>3. CASE op = PopOp(path) \/ op = ShiftOp(path)
  BY <1>3, Applied, PopTree
<1>4. ASSUME NEW v \in Values, op \in {SetOp(path, v), PushOp(path, v), PrependOp(path, v), EraseOp(path, v)}
      PROVE  Tree(Apply(op, ptr))
  <2>1. Tree(v)
    BY ValueIsNode
  <2>2. CASE op = SetOp(path, v)
    BY <2>1, <2>2, Applied
  <2>3. CASE op = PushOp(path, v) \/ op = PrependOp(path, v)
    BY <2>1, <2>3, Applied, NodeOrNullTree, PushTree
  <2>4. CASE op = EraseOp(path, v)
    BY <2>4, Applied, EraseTree
  <2> QED
    BY <1>4, <2>2, <2>3, <2>4
<1> QED
  BY <1>1, <1>2, <1>3, <1>4, OperationKinds

-----------------------------------------------------------------------------
(* The inductive invariant: the document is a tree, and MaxDepth bounds    *)
(* it.                                                                     *)

TreeInv == Tree(doc) /\ Shallow(doc) /\ use \in Uses

(* The invariant holds of the initial document,                            *)
LEMMA TreeInitially == Init => TreeInv
BY ValuesAreTrees DEF Init, TreeInv

(* is kept by one transform,                                               *)
LEMMA PerformKeepsTree ==
  ASSUME TreeInv, NEW path \in Paths, NEW op \in OpsAt(path), Perform(<<op>>)
  PROVE  TreeInv'
<1> DEFINE after == Transform(doc, <<op>>)
<1>1. path \in Seq(Keys)
  BY PathsAreKeys DEF TreeInv
<1>2. after = Set(doc, path, Apply(op, Get(doc, path)))
  BY TransformIsOne, OperationPath
<1>3. Tree(Apply(op, Get(doc, path)))
  BY <1>1, GetIsTree, ApplyIsTree DEF TreeInv
<1>4. Tree(after)
  BY <1>1, <1>2, <1>3, SetIsTree DEF TreeInv
<1>5. doc' = after /\ use' = use /\ Bounded(after)
  BY DEF Perform
<1> HIDE DEF after
<1>6. Shallow(after)
  BY <1>5 DEF Bounded
<1>7. Tree(doc)' /\ Shallow(doc)'
  BY <1>4, <1>5, <1>6, Zenon DEF Tree, Shallow
<1> QED
  BY <1>5, <1>7 DEF TreeInv

(* and so by every step.                                                   *)
LEMMA TreeInductive == TreeInv /\ [Next]_vars => TreeInv'
<1> SUFFICES ASSUME TreeInv, [Next]_vars PROVE TreeInv'
  OBVIOUS
<1>1. CASE Next
  <2>1. PICK path \in Paths :
          \/ DoSet(path) \/ DoRemove(path) \/ DoIncrement(path) \/ DoPush(path)
          \/ DoPrepend(path) \/ DoPop(path) \/ DoShift(path) \/ DoErase(path)
    BY <1>1 DEF Next
  <2>2. \E op \in OpsAt(path) : Perform(<<op>>)
    <3>1. \A v \in Values : {SetOp(path, v), PushOp(path, v), PrependOp(path, v), EraseOp(path, v)} \subseteq OpsAt(path)
      BY DEF OpsAt
    <3>2. {RemoveOp(path), IncrementOp(path, 1), PopOp(path), ShiftOp(path)} \subseteq OpsAt(path)
      BY DEF OpsAt
    <3> QED
      BY <2>1, <3>1, <3>2 DEF DoSet, DoRemove, DoIncrement, DoPush, DoPrepend, DoPop, DoShift, DoErase
  <2> QED
    BY <2>2, PerformKeepsTree
<1>2. CASE UNCHANGED vars
  BY <1>2 DEF vars, TreeInv, Tree, Shallow
<1> QED
  BY <1>1, <1>2

(* Whatever operations built it, the document is a tree of nodes.          *)
THEOREM DocumentsAreTrees == Spec => []TreeInv
BY TreeInitially, TreeInductive, PTL DEF Spec

(* The document is a node, and so is, or is nullptr, everything below it.  *)
THEOREM TypeCorrect == Spec => []TypeOK
<1>1. ASSUME TreeInv PROVE TypeOK
  <2>1. PICK parts : doc \in parts /\ \A n \in parts : IsNode(n, parts)
    BY <1>1 DEF TreeInv, Tree
  <2> DEFINE found == Descendants(doc)
  <2>2. found \subseteq parts
    BY <2>1, ChildrenAreParts, DescendantsInside
  <2>3. \A n \in found : Children(n) \subseteq found
    BY <1>1, ShallowHoldsAll DEF TreeInv
  <2> HIDE DEF found
  <2>4. \A n \in found : IsNode(n, found)
    BY <2>1, <2>2, <2>3, FewerParts
  <2> QED
    BY <1>1, <2>4 DEF TypeOK, IsDocument, TreeInv, found
<1> QED
  BY <1>1, DocumentsAreTrees, PTL

-----------------------------------------------------------------------------
(* node::set, node::get and node::transform.                               *)

LEMMA TreeSet ==
  TreeInv => SetChangesOnePath
<1> SUFFICES ASSUME TreeInv, NEW p \in Paths, NEW ptr \in Pointers
             PROVE  /\ Get(Set(doc, p, ptr), p) = ptr
                    /\ \A q \in Paths :
                         Incomparable(p, q) /\ CanonicalPath(p) /\ CanonicalPath(q) /\ Get(doc, q) # NullPtr
                           => Get(Set(doc, p, ptr), q) = Get(doc, q)
  BY DEF SetChangesOnePath
<1>1. Tree(doc) /\ Paths \subseteq Seq(Keys)
  BY PathsAreKeys DEF TreeInv
<1>2. Get(Set(doc, p, ptr), p) = ptr
  BY <1>1, ReadBack
<1>3. ASSUME NEW q \in Paths, Incomparable(p, q), CanonicalPath(p), CanonicalPath(q), Get(doc, q) # NullPtr
      PROVE  Get(Set(doc, p, ptr), q) = Get(doc, q)
  BY <1>1, <1>3, ApartDiverge, FoundIsKept
<1> QED
  BY <1>2, <1>3

(* The pointer set at a path is read back at it, and an update loses no    *)
(* node on another path, through padding and conversion of arrays.         *)
THEOREM SetAndGetAgree == Spec => []SetChangesOnePath
BY DocumentsAreTrees, TreeSet, PTL

(* The reverse of a pair.                                                  *)
LEMMA ReversedPair ==
  ASSUME NEW a, NEW b
  PROVE  Reverse(<<a, b>>) = <<b, a>>
<1> DEFINE s == <<a, b>>
           r == [i \in 1..2 |-> s[(2 - i) + 1]]
<1>1. Reverse(s) = r
  BY DEF Reverse
<1>2. r[1] = b /\ r[2] = a
  OBVIOUS
<1>3. r \in Seq({a, b}) /\ Len(r) = 2
  <2>1. r = [i \in 1..2 |-> r[i]] /\ \A i \in 1..2 : r[i] \in {a, b}
    OBVIOUS
  <2> HIDE DEF r
  <2> QED
    BY <2>1, SequenceMade
<1> HIDE DEF r
<1>4. r = <<b, a>>
  BY <1>2, <1>3
<1> QED
  BY <1>1, <1>4

(* A transform of two operations, in both orders.                          *)
LEMMA ApartPair ==
  ASSUME TreeInv, NEW ops \in DisjointPairs
  PROVE  \E p, q \in Seq(Keys) :
           /\ Diverge(p, q) /\ Diverge(q, p) /\ CanonicalKeys(p) /\ CanonicalKeys(q)
           /\ ops = <<ops[1], ops[2]>>
           /\ ops[1] \in OpsAt(p) /\ ops[2] \in OpsAt(q)
           /\ ops[1].path = p /\ ops[2].path = q
           /\ Tree(Result(ops[1])) /\ Tree(Result(ops[2]))
           /\ Transform(doc, ops) = Set(Set(doc, p, Result(ops[1])), q, Result(ops[2]))
           /\ Transform(doc, Reverse(ops)) = Set(Set(doc, q, Result(ops[2])), p, Result(ops[1]))
<1>1. PICK pair \in ApartPaths : ops \in OpsAt(pair[1]) \X OpsAt(pair[2])
  BY DEF DisjointPairs
<1> DEFINE p == pair[1]
           q == pair[2]
           one == ops[1]
           two == ops[2]
<1>2. p \in Seq(Keys) /\ q \in Seq(Keys)
  BY PathsAreKeys DEF ApartPaths, TreeInv
<1>3. Incomparable(p, q) /\ CanonicalPath(p) /\ CanonicalPath(q)
  BY DEF ApartPaths
<1>4. ops = <<one, two>> /\ one \in OpsAt(p) /\ two \in OpsAt(q)
  BY <1>1
<1>5. Reverse(ops) = <<two, one>>
  BY <1>4, ReversedPair
<1> HIDE DEF p, q, one, two
<1>6. one.path = p /\ two.path = q
  BY <1>4, OperationPath
<1>7. Diverge(p, q) /\ Diverge(q, p) /\ CanonicalKeys(p) /\ CanonicalKeys(q)
  BY <1>2, <1>3, ApartDiverge
<1>8. Tree(Result(one)) /\ Tree(Result(two))
  BY <1>2, <1>4, <1>6, GetIsTree, ApplyIsTree DEF Result, TreeInv
<1>9. Transform(doc, <<one, two>>) = Set(Set(doc, p, Result(one)), q, Result(two))
  BY <1>6, TransformIsBoth DEF Result
<1>10. Transform(doc, <<two, one>>) = Set(Set(doc, q, Result(two)), p, Result(one))
  BY <1>6, TransformIsBoth DEF Result
<1> QED
  BY <1>2, <1>4, <1>5, <1>6, <1>7, <1>8, <1>9, <1>10 DEF one, two

(* From the invariant: the update at p reads back, and the one at q keeps it. *)
LEMMA TreeEffect ==
  TreeInv => EveryOperationTakesEffect
<1> SUFFICES ASSUME TreeInv, NEW ops \in DisjointPairs
             PROVE  \A i \in 1..2 : Get(Transform(doc, ops), ops[i].path) = Result(ops[i])
  BY DEF EveryOperationTakesEffect
<1>1. PICK p, q \in Seq(Keys) :
        /\ Diverge(p, q) /\ CanonicalKeys(p) /\ CanonicalKeys(q)
        /\ ops[1].path = p /\ ops[2].path = q
        /\ Tree(Result(ops[1]))
        /\ Transform(doc, ops) = Set(Set(doc, p, Result(ops[1])), q, Result(ops[2]))
  BY ApartPair
<1> DEFINE a == Result(ops[1])
           b == Result(ops[2])
           first == Set(doc, p, a)
<1> HIDE DEF a, b
<1>2. Get(Set(first, q, b), p) = a
  BY <1>1, SetIsKept DEF TreeInv, a
<1>3. Tree(first)
  BY <1>1, SetIsTree DEF TreeInv, a
<1>4. Get(Set(first, q, b), q) = b
  BY <1>1, <1>3, ReadBack
<1> QED
  BY <1>1, <1>2, <1>4 DEF a, b

(* After a transform, each path holds the result of its operation on the   *)
(* original document.                                                      *)
THEOREM OperationsTakeEffect == Spec => []EveryOperationTakesEffect
BY DocumentsAreTrees, TreeEffect, PTL

(* A path into no array meets none.                                        *)
LEMMA NotIntoArray ==
  ASSUME NEW path \in Seq(Keys), ~IntoArray(path)
  PROVE  Bare(doc, path)
<1> SUFFICES ASSUME NEW i \in DOMAIN path PROVE Visited(doc, path, i).kind # "array"
  BY DEF Bare
<1>1. i - 1 \in 0..(Len(path) - 1)
  BY SequenceParts
<1> QED
  BY <1>1 DEF IntoArray, Visited

(* From the invariant: updates on paths without arrays commute.            *)
LEMMA TreeOrder ==
  TreeInv => OrderDoesNotMatter
<1> SUFFICES ASSUME TreeInv, NEW ops \in DisjointPairs,
                    \A i \in 1..2 : /\ ~IntoArray(ops[i].path)
                                    /\ Result(ops[i]) = NullPtr => Get(doc, ops[i].path) # NullPtr
             PROVE  Transform(doc, ops) = Transform(doc, Reverse(ops))
  BY DEF OrderDoesNotMatter
<1>1. PICK p, q \in Seq(Keys) :
        /\ Diverge(p, q) /\ Diverge(q, p)
        /\ ops[1].path = p /\ ops[2].path = q
        /\ Transform(doc, ops) = Set(Set(doc, p, Result(ops[1])), q, Result(ops[2]))
        /\ Transform(doc, Reverse(ops)) = Set(Set(doc, q, Result(ops[2])), p, Result(ops[1]))
  BY ApartPair
<1> DEFINE a == Result(ops[1])
           b == Result(ops[2])
<1>2. Bare(doc, p) /\ Bare(doc, q)
  BY <1>1, NotIntoArray
<1>3. (a = NullPtr => Get(doc, p) # NullPtr) /\ (b = NullPtr => Get(doc, q) # NullPtr)
  BY <1>1
<1> HIDE DEF a, b
<1>4. Set(Set(doc, p, a), q, b) = Set(Set(doc, q, b), p, a)
  BY <1>1, <1>2, <1>3, UpdatesCommute DEF TreeInv
<1> QED
  BY <1>1, <1>4 DEF a, b

(* Two operations that go into no array, and store no nullptr where there  *)
(* was nothing, may be applied in either order.                            *)
THEOREM OperationsCommute == Spec => []OrderDoesNotMatter
BY DocumentsAreTrees, TreeOrder, PTL

(* From the invariant: an extract is a document of its own, without arrays. *)
LEMMA TreeExtract ==
  TreeInv => ExtractHoldsThePaths
<1> SUFFICES ASSUME TreeInv, NEW p \in Paths, NEW q \in Paths,
                    IsStrictPrefix(p, q) => Get(doc, q) # NullPtr
             PROVE  LET extract == Extract(doc, <<p, q>>)
                    IN  Get(extract, p) = Get(doc, p) /\ Get(extract, q) = Get(doc, q)
  BY DEF ExtractHoldsThePaths
<1>1. p \in Seq(Keys) /\ q \in Seq(Keys)
  BY PathsAreKeys DEF TreeInv
<1> DEFINE a == Get(doc, p)
           b == Get(doc, q)
           first == Set(EmptyObject, p, a)
<1>2. Extract(doc, <<p, q>>) = Set(first, q, b)
  BY ExtractIsBoth
<1>3. Tree(a)
  BY <1>1, GetIsTree DEF TreeInv
<1> HIDE DEF a, b
<1>4. Tree(EmptyObject) /\ EmptyObject.kind # "array"
  <2> DEFINE none == [key \in {} |-> NullPtr]
  <2>1. none \in [DOMAIN none -> {}]
    OBVIOUS
  <2>2. EmptyObject = Object(none)
    BY DEF EmptyObject
  <2> HIDE DEF none
  <2>3. IsNode(EmptyObject, {})
    BY <2>1, <2>2, ObjectIsNode
  <2> QED
    BY <2>2, <2>3, NewRoot DEF Object
<1>5. Bare(EmptyObject, p)
  <2>1. CASE p = <<>>
    BY <2>1 DEF Bare
  <2>2. CASE p # <<>>
    <3>1. Child(EmptyObject, p[1]) = NullPtr
      <4> DEFINE none == [key \in {} |-> NullPtr]
      <4>1. EmptyObject = Object(none)
        BY DEF EmptyObject
      <4>2. p[1] \notin DOMAIN none
        OBVIOUS
      <4> HIDE DEF none
      <4> QED
        BY <4>1, <4>2, ChildOfObject
    <3>2. Tail(p) \in Seq(Keys)
      BY <1>1, <2>2, TailParts
    <3> QED
      BY <1>1, <1>4, <2>2, <3>1, <3>2, BareNull, BareUp
  <2> QED
    BY <2>1, <2>2
<1>6. Tree(first) /\ Bare(first, p) /\ Get(first, p) = a
  BY <1>1, <1>3, <1>4, <1>5, SetIsTree, BareSet, ReadBack
<1> HIDE DEF first
<1>7. Get(Set(first, q, b), q) = b
  BY <1>1, <1>6, ReadBack
<1>8. ASSUME Incomparable(p, q) PROVE Get(Set(first, q, b), p) = a
  <2>1. Diverge(p, q) /\ Steady(first, p, q)
    BY <1>1, <1>6, <1>8, IncomparableDiverge, BareIsSteady
  <2> QED
    BY <1>1, <1>6, <2>1, Unmoved
<1>9. ASSUME IsPrefix(q, p) PROVE Get(Set(first, q, b), p) = a
  <2>1. Begins(q, p)
    BY <1>1, <1>9, PrefixBegins
  <2>2. Get(Set(first, q, b), q) = Get(doc, q)
    BY <1>7 DEF b
  <2>3. Get(Set(first, q, b), p) = Get(doc, p)
    BY <1>1, <2>1, <2>2, AgreeBelow DEF Decides
  <2> QED
    BY <2>3 DEF a
<1>10. ASSUME IsStrictPrefix(p, q) PROVE Get(Set(first, q, b), p) = a
  <2>1. Begins(p, q)
    BY <1>1, <1>10, PrefixBegins DEF IsStrictPrefix
  <2>2. b # NullPtr
    BY <1>10 DEF b
  <2>3. Get(first, p) = Get(doc, p)
    BY <1>6 DEF a
  <2>4. Get(first, q) = Get(doc, q)
    BY <1>1, <2>1, <2>3, AgreeBelow DEF Decides
  <2>5. Set(first, q, b) = first
    BY <1>1, <1>6, <2>2, <2>4, SetAgain DEF b
  <2> QED
    BY <1>6, <2>5
<1>11. Get(Set(first, q, b), p) = a
  BY <1>8, <1>9, <1>10 DEF Incomparable, IsStrictPrefix
<1> QED
  BY <1>2, <1>7, <1>11 DEF a, b

(* An extract of two paths holds what the document holds at them, unless   *)
(* the second leads below the first and to nothing.                        *)
THEOREM ExtractsHoldThePaths == Spec => []ExtractHoldsThePaths
BY DocumentsAreTrees, TreeExtract, PTL

-----------------------------------------------------------------------------
(* The conditions.                                                         *)

(* One condition, and its verdict on the node it is handed.                *)
LEMMA FoldIsOne ==
  ASSUME NEW node, NEW cond
  PROVE  Fold(node, <<cond>>) <=> Eval(cond, Get(node, cond.path))
<1> DEFINE conds == <<cond>>
<1>1. 1 \in DOMAIN conds /\ \A i \in DOMAIN conds : conds[i] = cond
  OBVIOUS
<1> HIDE DEF conds
<1>2. Fold(node, conds) <=> Eval(cond, Get(node, cond.path))
  BY <1>1, Zenon DEF Fold
<1> QED
  BY <1>2 DEF conds

(* What each condition says of the node at its path.                       *)
LEMMA Verdicts ==
  ASSUME NEW node, NEW path, NEW v
  PROVE  LET ptr == Get(node, path)
         IN  /\ Fold(node, <<Equal(path, v)>>) <=> ptr # NullPtr /\ v = ptr
             /\ Fold(node, <<NotEqual(path, v)>>) <=> ptr # NullPtr /\ v # ptr
             /\ Fold(node, <<In(path, v)>>) <=>
                  ptr # NullPtr /\ ptr.kind = "array" /\ ArrayContains(ptr, v)
             /\ Fold(node, <<NotIn(path, v)>>) <=>
                  ptr # NullPtr /\ ~(ptr.kind = "array" /\ ArrayContains(ptr, v))
<1> DEFINE ptr == Get(node, path)
<1> HIDE DEF ptr
<1>1. Eval(Equal(path, v), ptr) <=> ptr # NullPtr /\ v = ptr
  <2> DEFINE cond == Equal(path, v)
  <2>1. cond.condition = "equal" /\ cond.node = v
    BY DEF Equal
  <2> HIDE DEF cond
  <2>2. Eval(cond, ptr) <=> ConditionHelper(ptr, TRUE, cond.node = ptr, FALSE)
    BY <2>1 DEF Eval
  <2> QED
    BY <2>1, <2>2 DEF ConditionHelper, cond
<1>2. Eval(NotEqual(path, v), ptr) <=> ptr # NullPtr /\ v # ptr
  <2> DEFINE cond == NotEqual(path, v)
  <2>1. cond.condition = "not_equal" /\ cond.node = v
    BY DEF NotEqual
  <2> HIDE DEF cond
  <2>2. Eval(cond, ptr) <=> ConditionHelper(ptr, TRUE, cond.node = ptr, TRUE)
    BY <2>1 DEF Eval
  <2> QED
    BY <2>1, <2>2 DEF ConditionHelper, cond
<1>3. Eval(In(path, v), ptr) <=> ptr # NullPtr /\ ptr.kind = "array" /\ ArrayContains(ptr, v)
  <2> DEFINE cond == In(path, v)
  <2>1. cond.condition = "in" /\ cond.node = v
    BY DEF In
  <2> HIDE DEF cond
  <2>2. Eval(cond, ptr) <=> ConditionHelper(ptr, ptr.kind = "array", ArrayContains(ptr, cond.node), FALSE)
    BY <2>1 DEF Eval
  <2> QED
    BY <2>1, <2>2 DEF ConditionHelper, cond
<1>4. Eval(NotIn(path, v), ptr) <=> ptr # NullPtr /\ ~(ptr.kind = "array" /\ ArrayContains(ptr, v))
  <2> DEFINE cond == NotIn(path, v)
  <2>1. cond.condition = "not_in" /\ cond.node = v
    BY DEF NotIn
  <2> HIDE DEF cond
  <2>2. Eval(cond, ptr) <=> ConditionHelper(ptr, ptr.kind = "array", ArrayContains(ptr, cond.node), TRUE)
    BY <2>1 DEF Eval
  <2> QED
    BY <2>1, <2>2 DEF ConditionHelper, cond
<1>5. /\ Equal(path, v).path = path /\ NotEqual(path, v).path = path
      /\ In(path, v).path = path /\ NotIn(path, v).path = path
  BY DEF Equal, NotEqual, In, NotIn
<1>6. Fold(node, <<Equal(path, v)>>) <=> Eval(Equal(path, v), ptr)
  BY <1>5, FoldIsOne DEF ptr
<1>7. Fold(node, <<NotEqual(path, v)>>) <=> Eval(NotEqual(path, v), ptr)
  BY <1>5, FoldIsOne DEF ptr
<1>8. Fold(node, <<In(path, v)>>) <=> Eval(In(path, v), ptr)
  BY <1>5, FoldIsOne DEF ptr
<1>9. Fold(node, <<NotIn(path, v)>>) <=> Eval(NotIn(path, v), ptr)
  BY <1>5, FoldIsOne DEF ptr
<1> QED
  BY <1>1, <1>2, <1>3, <1>4, <1>6, <1>7, <1>8, <1>9 DEF ptr

(* Which is all that the partition needs: it holds of every document.      *)
LEMMA TreeNegation ==
  NegationPartitions
<1> SUFFICES ASSUME NEW path \in Paths, NEW v \in Values
             PROVE  LET holds(cond) == Fold(doc, <<cond>>)
                        ptr == Get(doc, path)
                    IN  /\ ptr = NullPtr =>
                             ~(\/ holds(Equal(path, v)) \/ holds(NotEqual(path, v))
                               \/ holds(In(path, v))    \/ holds(NotIn(path, v)))
                        /\ ptr # NullPtr =>
                             /\ holds(Equal(path, v)) = ~holds(NotEqual(path, v))
                             /\ holds(In(path, v)) = ~holds(NotIn(path, v))
                             /\ ptr.kind # "array" => holds(NotIn(path, v))
  BY Zenon DEF NegationPartitions
<1> DEFINE ptr == Get(doc, path)
           equal == Fold(doc, <<Equal(path, v)>>)
           unequal == Fold(doc, <<NotEqual(path, v)>>)
           in == Fold(doc, <<In(path, v)>>)
           notIn == Fold(doc, <<NotIn(path, v)>>)
<1>1. /\ equal <=> ptr # NullPtr /\ v = ptr
      /\ unequal <=> ptr # NullPtr /\ v # ptr
      /\ in <=> ptr # NullPtr /\ ptr.kind = "array" /\ ArrayContains(ptr, v)
      /\ notIn <=> ptr # NullPtr /\ ~(ptr.kind = "array" /\ ArrayContains(ptr, v))
  BY Verdicts
<1>2. equal \in BOOLEAN /\ unequal \in BOOLEAN /\ in \in BOOLEAN /\ notIn \in BOOLEAN
  BY Zenon DEF Fold
<1> HIDE DEF ptr, equal, unequal, in, notIn
<1>3. ptr = NullPtr => ~(equal \/ unequal \/ in \/ notIn)
  BY <1>1
<1>4. ptr # NullPtr => equal = ~unequal
  BY <1>1, <1>2, Zenon
<1>5. ptr # NullPtr => in = ~notIn
  BY <1>1, <1>2, Zenon
<1>6. ptr # NullPtr /\ ptr.kind # "array" => notIn
  BY <1>1
<1> QED
  BY <1>3, <1>4, <1>5, <1>6, Zenon DEF ptr, equal, unequal, in, notIn

(* Of a condition and its negation exactly one holds of a node that is     *)
(* there, neither of nullptr, and a node that is no array is NotIn.        *)
THEOREM ConditionsPartition == Spec => []NegationPartitions
BY TreeNegation, PTL

-----------------------------------------------------------------------------
(* The array operators.                                                    *)

(* An element of an array is found by in_condition.                        *)
LEMMA InHolds ==
  ASSUME NEW node, NEW path, NEW v, v # NullPtr, NEW elems,
         Get(node, path) = Array(elems), v \in Range(elems)
  PROVE  Fold(node, <<In(path, v)>>)
<1> DEFINE cond == In(path, v)
           ptr == Array(elems)
<1>1. cond.path = path /\ cond.condition = "in" /\ cond.node = v
  BY DEF In
<1> HIDE DEF cond
<1>2. ptr # NullPtr /\ ptr.kind = "array" /\ ptr.elems = elems
  BY DEF Array, NullPtr
<1> HIDE DEF ptr
<1>3. ArrayContains(ptr, v)
  BY <1>2 DEF ArrayContains
<1>4. Eval(cond, ptr) <=> ConditionHelper(ptr, ptr.kind = "array", ArrayContains(ptr, cond.node), FALSE)
  BY <1>1 DEF Eval
<1>5. Eval(cond, ptr)
  BY <1>1, <1>2, <1>3, <1>4 DEF ConditionHelper
<1> QED
  BY <1>1, <1>5, FoldIsOne DEF cond, ptr

(* The last of an append, the first of a prepend.                          *)
LEMMA Ends ==
  ASSUME NEW S, NEW s \in Seq(S), NEW v
  PROVE  /\ Append(s, v) # <<>> /\ Front(Append(s, v)) = s
         /\ <<v>> \o s # <<>> /\ Tail(<<v>> \o s) = s
         /\ v \in Range(Append(s, v)) /\ v \in Range(<<v>> \o s)
<1> DEFINE T == S \cup {v}
<1>1. s \in Seq(T) /\ v \in T
  OBVIOUS
<1> HIDE DEF T
<1>2. Append(s, v) \in Seq(T) /\ Len(Append(s, v)) = Len(s) + 1 /\ Append(s, v)[Len(s) + 1] = v
  BY <1>1
<1>3. \A i \in 1..Len(s) : Append(s, v)[i] = s[i]
  BY <1>1
<1>4. <<v>> \o s \in Seq(T) /\ Len(<<v>> \o s) = Len(s) + 1 /\ (<<v>> \o s)[1] = v
  BY <1>1
<1>5. \A i \in 1..Len(s) : (<<v>> \o s)[i + 1] = s[i]
  BY <1>1
<1>6. Front(Append(s, v)) = s
  BY <1>1, <1>2, <1>3 DEF Front
<1>7. Tail(<<v>> \o s) = s
  BY <1>1, <1>4, <1>5
<1>8. v \in Range(Append(s, v))
  BY <1>1, <1>2 DEF Range
<1>9. v \in Range(<<v>> \o s)
  BY <1>1, <1>4 DEF Range
<1> QED
  BY <1>1, <1>2, <1>4, <1>6, <1>7, <1>8, <1>9

(* Erasing what was put in front leaves the sequence.                      *)
LEMMA EraseFirst ==
  ASSUME NEW S, NEW s \in Seq(S), NEW v
  PROVE  RemoveFirst(<<v>> \o s, v) = s
<1> DEFINE T == S \cup {v}
           t == <<v>> \o s
           i == First(t, v)
<1>1. s \in Seq(T) /\ v \in T
  OBVIOUS
<1> HIDE DEF T
<1>2. t \in Seq(T) /\ Len(t) = Len(s) + 1 /\ t[1] = v /\ Tail(t) = s
  <2>1. Tail(t) = s
    BY Ends
  <2> QED
    BY <1>1, <2>1
<1> HIDE DEF t
<1>3. 1 \in 1..Len(t)
  BY <1>1, <1>2
<1>4. /\ i \in 1..Len(t) /\ i <= 1
      /\ RemoveFirst(t, v) = SubSeq(t, 1, i - 1) \o SubSeq(t, i + 1, Len(t))
  BY <1>2, <1>3, RemoveFirstParts
<1> HIDE DEF i
<1>5. i - 1 = 0 /\ i + 1 = 2
  BY <1>2, <1>4
<1>6. SubSeq(t, 1, 0) = <<>> /\ SubSeq(t, 2, Len(t)) = s
  BY <1>1, <1>2
<1>7. <<>> \o s = s
  BY <1>1
<1>8. RemoveFirst(t, v) = s
  BY <1>4, <1>5, <1>6, <1>7
<1> QED
  BY <1>8 DEF t

(* From the invariant: the sequence in the array is the one that was there. *)
LEMMA TreeUndo ==
  TreeInv => ArrayOperatorsUndo
<1> SUFFICES ASSUME TreeInv, NEW path \in Paths, NEW v \in Values
             PROVE  LET old == Get(doc, path)
                        after(op) == Transform(doc, <<op>>)
                        undone(op, undo) == Get(Transform(after(op), <<undo>>), path)
                    IN  /\ Fold(after(PushOp(path, v)), <<In(path, v)>>)
                        /\ Fold(after(PrependOp(path, v)), <<In(path, v)>>)
                        /\ old.kind = "array" =>
                             /\ undone(PushOp(path, v), PopOp(path)) = old
                             /\ undone(PrependOp(path, v), ShiftOp(path)) = old
                             /\ undone(PrependOp(path, v), EraseOp(path, v)) = old
  BY DEF ArrayOperatorsUndo
<1> DEFINE old == Get(doc, path)
           elems == IF NodeOrNull(old).kind = "array" THEN NodeOrNull(old).elems ELSE <<>>
           pushed == Transform(doc, <<PushOp(path, v)>>)
           prepended == Transform(doc, <<PrependOp(path, v)>>)
<1>1. path \in Seq(Keys) /\ v # NullPtr /\ Tree(doc) /\ Tree(v)
  BY PathsAreKeys, ValueIsNode DEF TreeInv
<1>2. Tree(old)
  BY <1>1, GetIsTree
<1>3. PICK S : elems \in Seq(S)
  <2>1. Tree(NodeOrNull(old))
    BY <1>2, NodeOrNullTree
  <2>2. CASE NodeOrNull(old).kind = "array"
    BY <2>1, <2>2, ArrayParts
  <2>3. CASE NodeOrNull(old).kind # "array"
    <3>1. elems \in Seq({})
      BY <2>3
    <3> QED
      BY <3>1
  <2> QED
    BY <2>2, <2>3
<1>4. Push(NodeOrNull(old), v) = Array(Append(elems, v))
  <2>1. Append(<<>>, v) = <<v>>
    OBVIOUS
  <2> QED
    BY <2>1 DEF Push
<1>5. Prepend(NodeOrNull(old), v) = Array(<<v>> \o elems)
  <2>1. <<v>> \o <<>> = <<v>>
    OBVIOUS
  <2> QED
    BY <2>1 DEF Prepend
<1>6. old.kind = "array" => old = Array(elems)
  <2> SUFFICES ASSUME old.kind = "array" PROVE old = Array(elems)
    OBVIOUS
  <2>1. old = Array(old.elems)
    BY <1>2, ArrayParts
  <2>2. NodeOrNull(old) = old
    BY DEF NodeOrNull, NullPtr
  <2> QED
    BY <2>1, <2>2
<1>7. pushed = Set(doc, path, Array(Append(elems, v)))
  <2>1. PushOp(path, v).path = path
    BY DEF PushOp
  <2> QED
    BY <1>4, <2>1, TransformIsOne, Applied
<1>8. prepended = Set(doc, path, Array(<<v>> \o elems))
  <2>1. PrependOp(path, v).path = path
    BY DEF PrependOp
  <2> QED
    BY <1>5, <2>1, TransformIsOne, Applied
<1> HIDE DEF elems, old, pushed, prepended
<1>9. /\ Append(elems, v) # <<>> /\ Front(Append(elems, v)) = elems
      /\ <<v>> \o elems # <<>> /\ Tail(<<v>> \o elems) = elems
      /\ v \in Range(Append(elems, v)) /\ v \in Range(<<v>> \o elems)
      /\ RemoveFirst(<<v>> \o elems, v) = elems
  BY <1>3, Ends, EraseFirst
<1> DEFINE longer == Append(elems, v)
           wider == <<v>> \o elems
<1>10. Get(pushed, path) = Array(longer) /\ Get(prepended, path) = Array(wider)
  BY <1>1, <1>7, <1>8, ReadBack
<1>11. Tree(pushed) /\ Tree(prepended)
  <2>1. Tree(Array(longer)) /\ Tree(Array(wider))
    BY <1>1, <1>2, <1>4, <1>5, NodeOrNullTree, PushTree DEF old
  <2> QED
    BY <1>1, <1>7, <1>8, <2>1, SetIsTree
<1>12. /\ longer # <<>> /\ Front(longer) = elems
       /\ wider # <<>> /\ Tail(wider) = elems /\ RemoveFirst(wider, v) = elems
       /\ v \in Range(longer) /\ v \in Range(wider)
  BY <1>9
<1> HIDE DEF longer, wider
<1>13. Fold(pushed, <<In(path, v)>>) /\ Fold(prepended, <<In(path, v)>>)
  BY <1>1, <1>10, <1>12, InHolds
<1>14. Get(Transform(pushed, <<PopOp(path)>>), path) = Array(elems)
  <2>1. PopOp(path).path = path
    BY DEF PopOp
  <2>2. Transform(pushed, <<PopOp(path)>>) = Set(pushed, path, Pop(Array(longer)))
    BY <1>10, <2>1, TransformIsOne, Applied
  <2>3. Pop(Array(longer)) = Array(elems)
    BY <1>12 DEF Pop, Array
  <2> QED
    BY <1>1, <1>11, <2>2, <2>3, ReadBack
<1>15. Get(Transform(prepended, <<ShiftOp(path)>>), path) = Array(elems)
  <2>1. ShiftOp(path).path = path
    BY DEF ShiftOp
  <2>2. Transform(prepended, <<ShiftOp(path)>>) = Set(prepended, path, Shift(Array(wider)))
    BY <1>10, <2>1, TransformIsOne, Applied
  <2>3. Shift(Array(wider)) = Array(elems)
    BY <1>12 DEF Shift, Array
  <2> QED
    BY <1>1, <1>11, <2>2, <2>3, ReadBack
<1>16. Get(Transform(prepended, <<EraseOp(path, v)>>), path) = Array(elems)
  <2>1. EraseOp(path, v).path = path
    BY DEF EraseOp
  <2>2. Transform(prepended, <<EraseOp(path, v)>>) = Set(prepended, path, Erase(Array(wider), v))
    BY <1>10, <2>1, TransformIsOne, Applied
  <2>3. Erase(Array(wider), v) = Array(elems)
    BY <1>12 DEF Erase, Array
  <2> QED
    BY <1>1, <1>11, <2>2, <2>3, ReadBack
<1> QED
  BY <1>6, <1>13, <1>14, <1>15, <1>16 DEF old, pushed, prepended

(* What was pushed is found; pop undoes push, shift and erase undo         *)
(* prepend.                                                                *)
THEOREM OperatorsUndo == Spec => []ArrayOperatorsUndo
BY DocumentsAreTrees, TreeUndo, PTL

-----------------------------------------------------------------------------
(* Documents without holes: what the operators leave is solid.             *)

LEMMA PushSolid ==
  ASSUME NEW node, Solid(node), NEW v, Solid(v), v # NullPtr
  PROVE  Solid(Push(node, v)) /\ Solid(Prepend(node, v))
<1>1. PICK parts : node \in parts /\ v \in parts /\ NullNode \in parts /\ \A n \in parts : IsSolid(n, parts)
  BY SolidParts
<1> DEFINE few == parts \ {NullPtr}
           pushed == IF node.kind = "array" THEN Append(node.elems, v) ELSE <<v>>
           prepended == IF node.kind = "array" THEN <<v>> \o node.elems ELSE <<v>>
<1>2. (node.kind = "array" => node.elems \in Seq(few)) /\ v \in few
  BY <1>1, SolidArrayParts
<1> HIDE DEF few
<1>3. pushed \in Seq(few) /\ prepended \in Seq(few)
  BY <1>2
<1>4. Push(node, v) = Array(pushed) /\ Prepend(node, v) = Array(prepended)
  BY DEF Push, Prepend
<1> HIDE DEF pushed, prepended
<1> QED
  BY <1>1, <1>3, <1>4, ArraySolid DEF few

(* Pop and shift.                                                          *)
LEMMA PopSolid ==
  ASSUME NEW ptr, Solid(ptr)
  PROVE  Solid(Pop(ptr)) /\ Solid(Shift(ptr))
<1>1. CASE ptr.kind = "array" /\ ptr.elems # <<>>
  <2>1. PICK parts : ptr.elems \in Seq(parts \ {NullPtr}) /\ \A n \in parts : IsSolid(n, parts)
    BY <1>1, SolidArray
  <2>2. Front(ptr.elems) \in Seq(parts \ {NullPtr}) /\ Tail(ptr.elems) \in Seq(parts \ {NullPtr})
    BY <1>1, <2>1 DEF Front
  <2>3. Pop(ptr) = Array(Front(ptr.elems)) /\ Shift(ptr) = Array(Tail(ptr.elems))
    BY <1>1 DEF Pop, Shift
  <2> QED
    BY <2>1, <2>2, <2>3, ArraySolid
<1>2. CASE ~(ptr.kind = "array" /\ ptr.elems # <<>>)
  BY <1>2 DEF Pop, Shift
<1> QED
  BY <1>1, <1>2

(* Erase.                                                                  *)
LEMMA EraseSolid ==
  ASSUME NEW ptr, Solid(ptr), NEW v
  PROVE  Solid(Erase(ptr, v))
<1>1. CASE ptr.kind = "array"
  <2>1. PICK parts : ptr.elems \in Seq(parts \ {NullPtr}) /\ \A n \in parts : IsSolid(n, parts)
    BY <1>1, SolidArray
  <2>2. RemoveFirst(ptr.elems, v) \in Seq(parts \ {NullPtr})
    BY <2>1, RemoveFirstTyped
  <2>3. Erase(ptr, v) = Array(RemoveFirst(ptr.elems, v))
    BY <1>1 DEF Erase
  <2> QED
    BY <2>1, <2>2, <2>3, ArraySolid
<1>2. CASE ptr.kind # "array"
  BY <1>2 DEF Erase
<1> QED
  BY <1>1, <1>2

(* Each operation makes a solid node of a solid one.                       *)
LEMMA ApplySolid ==
  ASSUME NEW path, NEW op \in OpsAt(path), NEW ptr, Solid(ptr), \A v \in Values : Solid(v)
  PROVE  Solid(Apply(op, ptr))
<1>1. CASE op = RemoveOp(path)
  BY <1>1, Applied, NullSolid
<1>2. CASE op = IncrementOp(path, 1)
  BY <1>2, Applied, LeafSolid DEF Increment, Number
<1>3. CASE op = PopOp(path) \/ op = ShiftOp(path)
  BY <1>3, Applied, PopSolid
<1>4. ASSUME NEW v \in Values, op \in {SetOp(path, v), PushOp(path, v), PrependOp(path, v), EraseOp(path, v)}
      PROVE  Solid(Apply(op, ptr))
  <2>1. Solid(v) /\ v # NullPtr
    BY ValueIsNode
  <2>2. CASE op = SetOp(path, v)
    BY <2>1, <2>2, Applied
  <2>3. CASE op = PushOp(path, v) \/ op = PrependOp(path, v)
    <3>1. Solid(NodeOrNull(ptr))
      BY NullSolid DEF NodeOrNull
    <3> QED
      BY <2>1, <2>3, <3>1, Applied, PushSolid
  <2>4. CASE op = EraseOp(path, v)
    BY <2>4, Applied, EraseSolid
  <2> QED
    BY <1>4, <2>2, <2>3, <2>4
<1> QED
  BY <1>1, <1>2, <1>3, <1>4, OperationKinds

(* Under the hypothesis NoHoles everything is solid.                       *)
LEMMA AllSolid ==
  ASSUME TreeInv, NoHoles
  PROVE  Solid(doc) /\ \A v \in Values : Solid(v)
BY ValuesAreTrees, HoleFreeSolid DEF NoHoles, TreeInv

(* From the invariant: a node is stored, or a member of an object erased.  *)
LEMMA TreeNoHole ==
  TreeInv => SafeOperationsMakeNoHole
<1> SUFFICES ASSUME TreeInv, NoHoles, NEW ops \in DisjointPairs, \A i \in 1..2 : StoresNoHole(ops[i])
             PROVE  HoleFree(Transform(doc, ops))
  BY DEF SafeOperationsMakeNoHole
<1>1. PICK p, q \in Seq(Keys) :
        /\ Diverge(p, q) /\ CanonicalKeys(p) /\ CanonicalKeys(q)
        /\ ops[1] \in OpsAt(p) /\ ops[2] \in OpsAt(q)
        /\ ops[1].path = p /\ ops[2].path = q
        /\ Transform(doc, ops) = Set(Set(doc, p, Result(ops[1])), q, Result(ops[2]))
  BY ApartPair
<1> DEFINE a == Result(ops[1])
           b == Result(ops[2])
           first == Set(doc, p, a)
<1>2. Tree(doc) /\ Solid(doc) /\ \A v \in Values : Solid(v)
  BY AllSolid DEF TreeInv
<1>3. Solid(a) /\ Solid(b)
  BY <1>1, <1>2, GetSolid, ApplySolid DEF Result
<1>4. (a = NullPtr => EndsInObject(doc, p)) /\ (b = NullPtr => EndsInObject(doc, q))
  BY <1>1 DEF StoresNoHole, EndsInObject
<1> HIDE DEF a, b
<1>5. b = NullPtr => EndsInObject(first, q)
  BY <1>1, <1>2, <1>4, ObjectKept
<1>6. Solid(first)
  BY <1>2, <1>3, <1>4, SetSolid
<1> HIDE DEF first
<1>7. Solid(Set(first, q, b))
  BY <1>3, <1>5, <1>6, SetSolid
<1> QED
  BY <1>1, <1>7, SolidHoleFree DEF a, b, first

(* Operations that leave a node, or delete a member of an object that is   *)
(* there, store no nullptr in a container.                                 *)
THEOREM SafeOperationsAreSafe == Spec => []SafeOperationsMakeNoHole
BY DocumentsAreTrees, TreeNoHole, PTL

-----------------------------------------------------------------------------
(* Comparing: on documents without holes no pair compared holds a nullptr. *)

IsPairLevels(left, right, m, level) ==
  level = [d \in 0..m |-> IF d = 0 THEN {<<left, right>>}
                          ELSE UNION {ChildPairs(pair) : pair \in level[d - 1]}]

(* By induction on the depth: the levels of a comparison exist.            *)
LEMMA PairLevelsExist ==
  ASSUME NEW left, NEW right
  PROVE  \A m \in Nat : \E level : IsPairLevels(left, right, m, level)
<1> DEFINE Good == {m \in Nat : \E level : IsPairLevels(left, right, m, level)}
<1>1. 0 \in Good
  <2>1. IsPairLevels(left, right, 0, [d \in 0..0 |-> {<<left, right>>}])
    BY DEF IsPairLevels
  <2> QED
    BY <2>1
<1>2. ASSUME NEW m \in Nat, m \in Good PROVE m + 1 \in Good
  <2>1. PICK f : IsPairLevels(left, right, m, f)
    BY <1>2
  <2> DEFINE last == UNION {ChildPairs(pair) : pair \in f[m]}
             start == {<<left, right>>}
  <2>2. last = UNION {ChildPairs(pair) : pair \in f[m]}
    OBVIOUS
  <2>3. \A d \in 0..m : f[d] = IF d = 0 THEN start ELSE UNION {ChildPairs(pair) : pair \in f[d - 1]}
    BY <2>1 DEF IsPairLevels
  <2> HIDE DEF last, start
  <2> DEFINE level == [d \in 0..(m + 1) |-> IF d = m + 1 THEN last ELSE f[d]]
  <2>4. \A d \in 0..(m + 1) : level[d] = IF d = 0 THEN start ELSE UNION {ChildPairs(pair) : pair \in level[d - 1]}
    <3> SUFFICES ASSUME NEW d \in 0..(m + 1)
                 PROVE  level[d] = IF d = 0 THEN start ELSE UNION {ChildPairs(pair) : pair \in level[d - 1]}
      OBVIOUS
    <3>1. CASE d = m + 1
      <4>1. level[d] = last /\ level[d - 1] = f[m] /\ d # 0
        BY <3>1
      <4> QED
        BY <2>2, <4>1
    <3>2. CASE d \in 0..m
      <4>1. level[d] = f[d] /\ (d # 0 => level[d - 1] = f[d - 1])
        BY <3>2
      <4> QED
        BY <2>3, <3>2, <4>1
    <3> QED
      BY <3>1, <3>2
  <2>5. level = [d \in 0..(m + 1) |-> level[d]]
    OBVIOUS
  <2> HIDE DEF level
  <2>6. IsPairLevels(left, right, m + 1, level)
    BY <2>4, <2>5 DEF IsPairLevels, start
  <2> QED
    BY <2>6
<1> HIDE DEF Good
<1>3. Nat \subseteq Good
  BY <1>1, <1>2, Induction
<1> QED
  BY <1>3 DEF Good

(* What is compared below two nodes are parts of theirs.                   *)
LEMMA ChildPairsInside ==
  ASSUME NEW P, NEW Q, NEW a, NEW b, IsNode(a, P), IsNode(b, Q)
  PROVE  ChildPairs(<<a, b>>) \subseteq P \X Q
<1> DEFINE pair == <<a, b>>
<1>1. pair[1] = a /\ pair[2] = b
  OBVIOUS
<1> HIDE DEF pair
<1>2. CASE a.kind = "array" /\ b.kind = "array" /\ Len(a.elems) = Len(b.elems)
  <2>1. a.elems \in Seq(P) /\ b.elems \in Seq(Q)
    BY <1>2 DEF IsNode
  <2>2. \A i \in DOMAIN a.elems : a.elems[i] \in P /\ b.elems[i] \in Q
    BY <1>2, <2>1
  <2>3. ChildPairs(pair) = {<<a.elems[i], b.elems[i]>> : i \in DOMAIN a.elems}
    BY <1>1, <1>2 DEF ChildPairs
  <2> QED
    BY <2>2, <2>3 DEF pair
<1>3. CASE a.kind = "object" /\ b.kind = "object"
  <2> DEFINE common == DOMAIN a.members \cap DOMAIN b.members
  <2>1. a.members \in [DOMAIN a.members -> P] /\ b.members \in [DOMAIN b.members -> Q]
    BY <1>3 DEF IsNode
  <2>2. \A key \in common : a.members[key] \in P /\ b.members[key] \in Q
    BY <2>1
  <2>3. ChildPairs(pair) = {<<a.members[key], b.members[key]>> : key \in common}
    BY <1>1, <1>3 DEF ChildPairs
  <2> QED
    BY <2>2, <2>3 DEF pair
<1>4. CASE /\ ~(a.kind = "array" /\ b.kind = "array" /\ Len(a.elems) = Len(b.elems))
           /\ ~(a.kind = "object" /\ b.kind = "object")
  <2>1. ChildPairs(pair) = {}
    BY <1>1, <1>4 DEF ChildPairs
  <2> QED
    BY <2>1 DEF pair
<1> QED
  BY <1>2, <1>3, <1>4

(* The comparison of solid nodes meets no nullptr,                         *)
LEMMA SolidCompare ==
  ASSUME NEW left, Solid(left), left # NullPtr, NEW right, Solid(right), right # NullPtr
  PROVE  CanCompare(left, right)
<1>1. PICK P : left \in P /\ \A n \in P : IsNode(n, P \ {NullPtr})
  BY DEF Solid, IsSolid
<1>2. PICK Q : right \in Q /\ \A n \in Q : IsNode(n, Q \ {NullPtr})
  BY DEF Solid, IsSolid
<1> DEFINE A == P \ {NullPtr}
           B == Q \ {NullPtr}
           level == CHOOSE f : IsPairLevels(left, right, MaxDepth, f)
<1>3. /\ left \in A /\ \A n \in A : IsNode(n, A) /\ n # NullPtr
      /\ right \in B /\ \A n \in B : IsNode(n, B) /\ n # NullPtr
  BY <1>1, <1>2
<1> HIDE DEF A, B
<1>4. CanCompare(left, right) <=>
        \A d \in 0..MaxDepth : \A pair \in level[d] : pair[1] # NullPtr /\ pair[2] # NullPtr
  BY Zenon DEF CanCompare, IsPairLevels
<1>5. IsPairLevels(left, right, MaxDepth, level)
  BY PairLevelsExist, MaxDepthAssumption
<1> HIDE DEF level
<1> DEFINE Good == {d \in Nat : d <= MaxDepth => level[d] \subseteq A \X B}
<1>6. 0 \in Good
  <2>1. level[0] = {<<left, right>>}
    BY <1>5, MaxDepthAssumption DEF IsPairLevels
  <2> QED
    BY <1>3, <2>1
<1>7. ASSUME NEW d \in Nat, d \in Good PROVE d + 1 \in Good
  <2> SUFFICES ASSUME d + 1 <= MaxDepth PROVE level[d + 1] \subseteq A \X B
    OBVIOUS
  <2>1. d + 1 \in 0..MaxDepth /\ d + 1 # 0 /\ (d + 1) - 1 = d /\ d <= MaxDepth
    BY MaxDepthAssumption
  <2>2. level[d] \subseteq A \X B
    BY <1>7, <2>1
  <2>3. level[d + 1] = UNION {ChildPairs(pair) : pair \in level[d]}
    BY <1>5, <2>1 DEF IsPairLevels
  <2>4. \A a \in A, b \in B : ChildPairs(<<a, b>>) \subseteq A \X B
    BY <1>3, ChildPairsInside
  <2>5. ASSUME NEW pair \in level[d] PROVE ChildPairs(pair) \subseteq A \X B
    <3>1. pair = <<pair[1], pair[2]>> /\ pair[1] \in A /\ pair[2] \in B
      BY <2>2
    <3> QED
      BY <2>4, <3>1
  <2> QED
    BY <2>3, <2>5
<1> HIDE DEF Good
<1>8. Nat \subseteq Good
  BY <1>6, <1>7, Induction
<1>9. ASSUME NEW d \in 0..MaxDepth, NEW pair \in level[d] PROVE pair[1] # NullPtr /\ pair[2] # NullPtr
  <2>1. level[d] \subseteq A \X B
    BY <1>8, MaxDepthAssumption DEF Good
  <2>2. pair[1] \in A /\ pair[2] \in B
    BY <2>1
  <2> QED
    BY <1>3, <2>2
<1> QED
  BY <1>4, <1>9

(* so an operation on a solid node dereferences none.                      *)
LEMMA SolidApply ==
  ASSUME NEW path, NEW op \in OpsAt(path), NEW ptr, Solid(ptr), \A v \in Values : Solid(v)
  PROVE  CanApply(op, ptr)
<1> SUFFICES ASSUME op.op = "erase", ptr.kind = "array" PROVE CanFind(ptr.elems, op.node)
  BY DEF CanApply
<1>1. PICK v \in Values : op = EraseOp(path, v)
  BY OperationKinds DEF RemoveOp, IncrementOp, PopOp, ShiftOp, SetOp, PushOp, PrependOp, EraseOp
<1>2. op.node = v /\ Solid(v) /\ v # NullPtr
  BY <1>1, ValueIsNode DEF EraseOp
<1>3. PICK parts : ptr.elems \in Seq(parts \ {NullPtr}) /\ \A n \in parts : IsSolid(n, parts)
  BY SolidArray
<1>4. ASSUME NEW i \in DOMAIN ptr.elems PROVE CanCompare(v, ptr.elems[i])
  <2>1. ptr.elems[i] \in parts \ {NullPtr}
    BY <1>3
  <2> QED
    BY <1>2, <1>3, <2>1, PartSolid, SolidCompare
<1> QED
  BY <1>2, <1>4 DEF CanFind

(* The first operation of two.                                             *)
LEMMA FirstOfPair ==
  ASSUME NEW a, NEW b
  PROVE  SubSeq(<<a, b>>, 1, 1) = <<a>>
<1> DEFINE s == <<a, b>>
           t == SubSeq(s, 1, 1)
<1>1. s \in Seq({a, b}) /\ Len(s) = 2 /\ s[1] = a
  OBVIOUS
<1> HIDE DEF s
<1>2. t \in Seq({a, b}) /\ Len(t) = 1 /\ t[1] = a
  BY <1>1
<1> HIDE DEF t
<1>3. t = <<a>>
  BY <1>2
<1> QED
  BY <1>3 DEF t, s

(* From the invariant: the first update leaves a solid node for the second. *)
LEMMA TreeNoNull ==
  TreeInv => NoNullDereference
<1> SUFFICES ASSUME TreeInv, Exists, NoHoles, NEW p \in Paths \ {<<>>}, NEW q \in Paths \ {<<>>},
                    NEW ops \in OpsAt(p) \X OpsAt(q)
             PROVE  CanTransform(doc, ops)
  BY DEF NoNullDereference
<1> DEFINE one == ops[1]
           two == ops[2]
<1>1. p \in Seq(Keys) /\ q \in Seq(Keys)
  BY PathsAreKeys DEF TreeInv
<1>2. ops = <<one, two>> /\ one \in OpsAt(p) /\ two \in OpsAt(q) /\ Len(ops) = 2 /\ DOMAIN ops = {1, 2}
  BY DEF OpsAt
<1>3. one.path = p /\ two.path = q
  BY <1>2, OperationPath
<1>4. Solid(doc) /\ \A v \in Values : Solid(v)
  BY AllSolid
<1>5. CanApply(one, Get(doc, p)) /\ CanApply(two, Get(doc, q))
  BY <1>1, <1>2, <1>4, GetSolid, SolidApply
<1>6. Transform(doc, SubSeq(ops, 1, 1)) # NullPtr
  <2>1. SubSeq(ops, 1, 1) = <<one>>
    BY <1>2, FirstOfPair
  <2> HIDE DEF one
  <2>2. Transform(doc, <<one>>) # NullPtr
    BY <1>1, <1>3, TransformIsOne, SetIsNode
  <2> QED
    BY <2>1, <2>2
<1>7. \A i \in 1..(Len(ops) - 1) : Transform(doc, SubSeq(ops, 1, i)) # NullPtr
  <2>1. \A i \in 1..(Len(ops) - 1) : i = 1
    BY <1>2
  <2> QED
    BY <1>6, <2>1
<1>8. \A i \in DOMAIN ops : CanApply(ops[i], Get(doc, ops[i].path))
  BY <1>2, <1>3, <1>5
<1> QED
  BY <1>7, <1>8 DEF CanTransform, Exists

(* Below the root, neither transform nor the comparisons of erase          *)
(* dereference a nullptr on a document without holes.                      *)
THEOREM NoNullIsDereferenced == Spec => []NoNullDereference
BY DocumentsAreTrees, TreeNoNull, PTL

-----------------------------------------------------------------------------
(* node::overlay: the recursive function exists, as that of Get does.      *)
At(row, b, o) == row[<<b, o>>]

Row(P, Q, below) == [pair \in P \X Q |-> OverlayNode(below, pair[1], pair[2])]

IsTable(P, Q, m, f) == f = [d \in 0..m |-> IF d = 0 THEN <<>> ELSE Row(P, Q, f[d - 1])]

(* By induction on the depth.                                              *)
LEMMA TableExists ==
  ASSUME NEW P, NEW Q
  PROVE  \A m \in Nat : \E f : IsTable(P, Q, m, f)
<1> DEFINE Good == {m \in Nat : \E f : IsTable(P, Q, m, f)}
<1>1. 0 \in Good
  <2>1. IsTable(P, Q, 0, [d \in 0..0 |-> <<>>])
    BY DEF IsTable
  <2> QED
    BY <2>1
<1>2. ASSUME NEW m \in Nat, m \in Good PROVE m + 1 \in Good
  <2>1. PICK g : IsTable(P, Q, m, g)
    BY <1>2
  <2> DEFINE last == Row(P, Q, g[m])
             f == [d \in 0..(m + 1) |-> IF d = m + 1 THEN last ELSE g[d]]
  <2>2. \A d \in 0..m : g[d] = IF d = 0 THEN <<>> ELSE Row(P, Q, g[d - 1])
    BY <2>1 DEF IsTable
  <2>3. last = Row(P, Q, g[m])
    OBVIOUS
  <2> HIDE DEF last
  <2>4. \A d \in 0..(m + 1) : f[d] = IF d = 0 THEN <<>> ELSE Row(P, Q, f[d - 1])
    <3> SUFFICES ASSUME NEW d \in 0..(m + 1) PROVE f[d] = IF d = 0 THEN <<>> ELSE Row(P, Q, f[d - 1])
      OBVIOUS
    <3>1. CASE d = m + 1
      <4>1. f[d] = last /\ f[d - 1] = g[m] /\ d # 0
        BY <3>1
      <4> QED
        BY <2>3, <4>1
    <3>2. CASE d \in 0..m
      <4>1. f[d] = g[d] /\ (d # 0 => f[d - 1] = g[d - 1])
        BY <3>2
      <4> QED
        BY <2>2, <3>2, <4>1
    <3> QED
      BY <3>1, <3>2
  <2>5. f = [d \in 0..(m + 1) |-> f[d]]
    OBVIOUS
  <2> HIDE DEF f
  <2>6. IsTable(P, Q, m + 1, f)
    BY <2>4, <2>5 DEF IsTable
  <2> QED
    BY <2>6
<1> HIDE DEF Good
<1>3. Nat \subseteq Good
  BY <1>1, <1>2, Induction
<1> QED
  BY <1>3 DEF Good

(* One entry of the table.                                                 *)
LEMMA TableAt ==
  ASSUME NEW P, NEW Q, NEW m \in Nat, NEW f, IsTable(P, Q, m, f),
         NEW d \in 1..m, NEW b \in P, NEW o \in Q
  PROVE  At(f[d], b, o) = OverlayNode(f[d - 1], b, o)
<1>1. d \in 0..m /\ d # 0
  OBVIOUS
<1>2. f[d] = Row(P, Q, f[d - 1])
  BY <1>1 DEF IsTable
<1> DEFINE pair == <<b, o>>
<1>3. pair \in P \X Q /\ pair[1] = b /\ pair[2] = o
  OBVIOUS
<1> HIDE DEF pair
<1>4. Row(P, Q, f[d - 1])[pair] = OverlayNode(f[d - 1], pair[1], pair[2])
  BY <1>3 DEF Row
<1> QED
  BY <1>2, <1>3, <1>4 DEF At, pair

(* The overlay is an entry of such a table.                                *)
LEMMA OverlayMade ==
  ASSUME NEW base, NEW ov
  PROVE  \E f : /\ IsTable(Descendants(base), Descendants(ov), MaxDepth + 1, f)
                /\ Overlay(base, ov) = At(f[MaxDepth + 1], base, ov)
<1> DEFINE f == CHOOSE g : IsTable(Descendants(base), Descendants(ov), MaxDepth + 1, g)
<1>1. Overlay(base, ov) = At(f[MaxDepth + 1], base, ov)
  BY DEF Overlay, IsTable, Row, At
<1>2. IsTable(Descendants(base), Descendants(ov), MaxDepth + 1, f)
  BY TableExists, MaxDepthAssumption
<1> QED
  BY <1>1, <1>2

-----------------------------------------------------------------------------
(* What is below one node of an overlay.                                   *)

(* Which members an overlay of two objects has.                            *)
OverlaidMember(below, base, ov, members, key) ==
  /\ key \in DOMAIN members <=>
       \/ key \in DOMAIN base /\ key \notin DOMAIN ov
       \/ key \in DOMAIN ov /\ ov[key] # NullPtr
  /\ key \in DOMAIN base /\ key \notin DOMAIN ov => members[key] = base[key]
  /\ key \in DOMAIN ov /\ ov[key] # NullPtr =>
       members[key] = IF key \in DOMAIN base /\ base[key] # NullPtr
                        THEN At(below, base[key], ov[key]) ELSE ov[key]

(* By the definition of the members.                                       *)
LEMMA MembersLaid ==
  ASSUME NEW below, NEW base, NEW ov, NEW key
  PROVE  OverlaidMember(below, base, ov, OverlayMembers(below, base, ov), key)
BY DEF OverlaidMember, OverlayMembers, At

(* What is below an object laid over another one, at a key.                *)
ChildOfBoth(below, b, o, key, child) ==
  /\ key \notin DOMAIN o.members => child = Child(b, key)
  /\ key \in DOMAIN o.members /\ Child(o, key) = NullPtr => child = NullPtr
  /\ Child(b, key) = NullPtr /\ Child(o, key) # NullPtr => child = Child(o, key)
  /\ Child(b, key) # NullPtr /\ Child(o, key) # NullPtr =>
       child = At(below, Child(b, key), Child(o, key))

(* What the overlay does not mention is kept, nullptr deletes, and the     *)
(* rest is laid over what is there.                                        *)
LEMMA ChildLaid ==
  ASSUME NEW below, NEW b, b.kind = "object", NEW o, o.kind = "object", NEW key
  PROVE  ChildOfBoth(below, b, o, key, Child(OverlayNode(below, b, o), key))
<1> DEFINE members == OverlayMembers(below, b.members, o.members)
<1>1. OverlayNode(below, b, o) = Object(members)
  BY DEF OverlayNode
<1>2. Child(o, key) = IF key \in DOMAIN o.members THEN o.members[key] ELSE NullPtr
  BY DEF Child
<1>3. Child(b, key) = IF key \in DOMAIN b.members THEN b.members[key] ELSE NullPtr
  BY DEF Child
<1>4. OverlaidMember(below, b.members, o.members, members, key)
  BY MembersLaid
<1> HIDE DEF members
<1>5. Child(Object(members), key) = IF key \in DOMAIN members THEN members[key] ELSE NullPtr
  BY ChildOfObject
<1>6. ChildOfBoth(below, b, o, key, Child(Object(members), key))
  BY <1>2, <1>3, <1>4, <1>5 DEF ChildOfBoth, OverlaidMember
<1> QED
  BY <1>1, <1>6

(* Of two arrays: an element of the overlay is there.                      *)
LEMMA ElementLaid ==
  ASSUME NEW below, NEW b, Tree(b), b.kind = "array", NEW o, Tree(o), o.kind = "array",
         NEW key, Child(o, key) # NullPtr
  PROVE  Child(OverlayNode(below, b, o), key) = Child(o, key)
<1>0. PICK S, T : b.elems \in Seq(S) /\ o.elems \in Seq(T)
  BY ArrayParts
<1> DEFINE elems == OverlayElements(b.elems, o.elems)
           m == IF Len(b.elems) < Len(o.elems) THEN Len(o.elems) ELSE Len(b.elems)
<1>1. OverlayNode(below, b, o) = Array(elems)
  BY DEF OverlayNode
<1>2. key.number \in 0..(Len(o.elems) - 1) /\ Child(o, key) = o.elems[key.number + 1]
  BY DEF Child
<1>3. m \in Nat /\ m >= Len(o.elems) /\ DOMAIN o.elems = 1..Len(o.elems) /\ Len(o.elems) \in Nat
  BY <1>0
<1>4. elems = [i \in 1..m |-> IF i \in DOMAIN o.elems /\ o.elems[i] # NullPtr THEN o.elems[i]
                              ELSE IF i \in DOMAIN b.elems THEN b.elems[i] ELSE NullNode]
  BY DEF OverlayElements
<1> HIDE DEF elems, m
<1>5. Len(elems) = m
  BY <1>3, <1>4
<1>6. key.number + 1 \in 1..m /\ key.number + 1 \in DOMAIN o.elems /\ key.number \in 0..(m - 1)
  BY <1>2, <1>3
<1>7. elems[key.number + 1] = o.elems[key.number + 1]
  BY <1>2, <1>4, <1>6
<1> QED
  BY <1>1, <1>2, <1>5, <1>6, <1>7, ChildOfArray

(* Everything else is replaced.                                            *)
LEMMA OtherLaid ==
  ASSUME NEW below, NEW b, NEW o,
         ~(b.kind = "object" /\ o.kind = "object"), ~(b.kind = "array" /\ o.kind = "array")
  PROVE  OverlayNode(below, b, o) = o
BY DEF OverlayNode

-----------------------------------------------------------------------------
(* What is along a path of an overlay, by induction on the path.  Laid is  *)
(* a node of an overlay: of nodes of two forests, one less than d deep.    *)
Laid(P, Q, m, f, d, b, o) ==
  /\ Forest(P) /\ Forest(Q) /\ IsTable(P, Q, m, f)
  /\ d \in 1..m /\ b \in P /\ o \in Q /\ Below(o, d)

Scalar(node) == node.kind \notin {"nullptr", "array", "object"}

(* It is laid by OverlayNode.                                              *)
LEMMA LaidAt ==
  ASSUME NEW P, NEW Q, NEW m \in Nat, NEW f, NEW d, NEW b, NEW o, Laid(P, Q, m, f, d, b, o)
  PROVE  At(f[d], b, o) = OverlayNode(f[d - 1], b, o)
<1>1. IsTable(P, Q, m, f) /\ d \in 1..m /\ b \in P /\ o \in Q
  BY DEF Laid
<1> QED
  BY <1>1, TableAt

(* Going down one key in two objects.                                      *)
LEMMA LaidBelow ==
  ASSUME NEW P, NEW Q, NEW m \in Nat, NEW f, NEW d, NEW b, NEW o, Laid(P, Q, m, f, d, b, o),
         b.kind = "object", o.kind = "object", NEW key, Child(b, key) # NullPtr, Child(o, key) # NullPtr
  PROVE  /\ Laid(P, Q, m, f, d - 1, Child(b, key), Child(o, key))
         /\ Child(At(f[d], b, o), key) = At(f[d - 1], Child(b, key), Child(o, key))
<1>1. Child(b, key) \in P /\ Child(o, key) \in Q
  BY ForestChild DEF Laid
<1>2. Child(o, key) \in Children(o) /\ key \in DOMAIN o.members
  BY MemberIsChild
<1>3. d - 1 \in Nat /\ (d - 1) + 1 = d /\ d \in 1..m /\ Below(o, d)
  BY DEF Laid
<1>4. Below(Child(o, key), d - 1)
  <2> DEFINE e == d - 1
  <2>1. e \in Nat /\ Below(o, e + 1)
    BY <1>3
  <2> HIDE DEF e
  <2>2. Below(Child(o, key), e)
    BY <1>2, <2>1, BelowChild
  <2> QED
    BY <2>2 DEF e
<1>5. d - 1 # 0
  BY <1>4, BelowNone
<1>6. d - 1 \in 1..m
  BY <1>3, <1>5
<1>7. At(f[d], b, o) = OverlayNode(f[d - 1], b, o)
  BY <1>3, TableAt DEF Laid
<1>8. Child(OverlayNode(f[d - 1], b, o), key) = At(f[d - 1], Child(b, key), Child(o, key))
  BY <1>2, ChildLaid DEF ChildOfBoth
<1>9. Laid(P, Q, m, f, d - 1, Child(b, key), Child(o, key))
  BY <1>1, <1>4, <1>6 DEF Laid
<1> QED
  BY <1>7, <1>8, <1>9

(* A value of the overlay is there, whatever the base has on the way.      *)
LEMMA ScalarLaid ==
  ASSUME NEW P, NEW Q, NEW m \in Nat, NEW f
  PROVE  \A path \in Seq(Keys) : \A d, b, o :
           Laid(P, Q, m, f, d, b, o) /\ Scalar(Get(o, path)) => Get(At(f[d], b, o), path) = Get(o, path)
<1> DEFINE Good == {n \in Nat : \A path \in Seq(Keys) : Len(path) = n => \A d, b, o :
                      Laid(P, Q, m, f, d, b, o) /\ Scalar(Get(o, path)) => Get(At(f[d], b, o), path) = Get(o, path)}
<1>1. 0 \in Good
  <2> SUFFICES ASSUME NEW path \in Seq(Keys), Len(path) = 0, NEW d, NEW b, NEW o,
                      Laid(P, Q, m, f, d, b, o), Scalar(Get(o, path))
               PROVE  Get(At(f[d], b, o), path) = Get(o, path)
    OBVIOUS
  <2>1. path = <<>>
    BY SequenceParts
  <2>2. Scalar(o)
    BY <2>1, GetEmpty
  <2>3. OverlayNode(f[d - 1], b, o) = o
    BY <2>2, OtherLaid DEF Scalar
  <2> QED
    BY <2>1, <2>3, LaidAt, GetEmpty
<1>2. ASSUME NEW n \in Nat, n \in Good PROVE n + 1 \in Good
  <2> SUFFICES ASSUME NEW path \in Seq(Keys), Len(path) = n + 1, NEW d, NEW b, NEW o,
                      Laid(P, Q, m, f, d, b, o), Scalar(Get(o, path))
               PROVE  Get(At(f[d], b, o), path) = Get(o, path)
    OBVIOUS
  <2> DEFINE key == path[1]
             rest == Tail(path)
             laid == At(f[d], b, o)
  <2>1. path # <<>> /\ rest \in Seq(Keys) /\ Len(rest) = n
    BY FirstKey
  <2>2. Get(o, path) = Get(Child(o, key), rest) /\ Get(laid, path) = Get(Child(laid, key), rest)
    BY <2>1, GetDown
  <2>3. laid = OverlayNode(f[d - 1], b, o)
    BY LaidAt
  <2>4. Tree(b) /\ Tree(o)
    BY DEF Laid, Forest
  <2> HIDE DEF key, rest, laid
  <2>5. Child(o, key) # NullPtr
    BY <2>1, <2>2, GetBelowNull DEF Scalar, NullPtr
  <2>6. CASE b.kind = "object" /\ o.kind = "object"
    <3>1. CASE Child(b, key) = NullPtr
      <4>1. Child(OverlayNode(f[d - 1], b, o), key) = Child(o, key)
        BY <2>5, <2>6, <3>1, ChildLaid DEF ChildOfBoth
      <4> QED
        BY <2>2, <2>3, <4>1 DEF laid
    <3>2. CASE Child(b, key) # NullPtr
      <4>1. /\ Laid(P, Q, m, f, d - 1, Child(b, key), Child(o, key))
            /\ Child(laid, key) = At(f[d - 1], Child(b, key), Child(o, key))
        BY <2>5, <2>6, <3>2, LaidBelow DEF laid
      <4>2. Scalar(Get(Child(o, key), rest))
        BY <2>2
      <4>3. Get(At(f[d - 1], Child(b, key), Child(o, key)), rest) = Get(Child(o, key), rest)
        BY <1>2, <2>1, <4>1, <4>2
      <4> QED
        BY <2>2, <4>1, <4>3 DEF laid
    <3> QED
      BY <3>1, <3>2 DEF laid
  <2>7. CASE b.kind = "array" /\ o.kind = "array"
    <3>1. Child(laid, key) = Child(o, key)
      BY <2>3, <2>4, <2>5, <2>7, ElementLaid
    <3> QED
      BY <2>2, <3>1 DEF laid
  <2>8. CASE ~(b.kind = "object" /\ o.kind = "object") /\ ~(b.kind = "array" /\ o.kind = "array")
    BY <2>3, <2>8, OtherLaid DEF laid
  <2> QED
    BY <2>6, <2>7, <2>8
<1> HIDE DEF Good
<1>3. Nat \subseteq Good
  BY <1>1, <1>2, Induction
<1> QED
  BY <1>3, SequenceParts DEF Good

(* The empty prefix, and a longer one.                                     *)
LEMMA ObjectsMeetFirst ==
  ASSUME NEW b, NEW o, NEW path \in Seq(Keys), NEW n \in Nat \ {0}, ObjectsMeet(b, o, path, n)
  PROVE  b.kind = "object" /\ o.kind = "object"
<1>1. 0 \in 0..(n - 1) /\ SubSeq(path, 1, 0) = <<>>
  OBVIOUS
<1> QED
  BY <1>1, GetEmpty DEF ObjectsMeet

(* Where two objects meet along a path, their children meet below.         *)
LEMMA ObjectsMeetBelow ==
  ASSUME NEW b, NEW o, NEW path \in Seq(Keys), NEW k \in Nat \ {0}, k + 1 \in DOMAIN path,
         ObjectsMeet(b, o, path, k + 1)
  PROVE  ObjectsMeet(Child(b, path[1]), Child(o, path[1]), Tail(path), k)
<1>1. path # <<>> /\ DOMAIN path = 1..Len(path) /\ Len(path) \in Nat
  BY SequenceParts
<1> SUFFICES ASSUME NEW i \in 0..(k - 1)
             PROVE  /\ Get(Child(b, path[1]), SubSeq(Tail(path), 1, i)).kind = "object"
                    /\ Get(Child(o, path[1]), SubSeq(Tail(path), 1, i)).kind = "object"
  BY DEF ObjectsMeet
<1>2. i + 1 \in 0..((k + 1) - 1) /\ i + 1 \in 1..Len(path) /\ i + 1 \in 0..Len(path) /\ (i + 1) - 1 = i
  BY <1>1
<1> DEFINE prefix == SubSeq(path, 1, i + 1)
<1>3. prefix # <<>> /\ prefix[1] = path[1] /\ Tail(prefix) = SubSeq(Tail(path), 1, i) /\ prefix \in Seq(Keys)
  <2>1. prefix \in Seq(Keys)
    BY <1>2, PrefixParts
  <2> DEFINE j == i + 1
  <2>2. j \in 1..Len(path) /\ j - 1 = i
    BY <1>2
  <2> HIDE DEF j
  <2>3. SubSeq(path, 1, j) # <<>> /\ SubSeq(path, 1, j)[1] = path[1] /\ Tail(SubSeq(path, 1, j)) = SubSeq(Tail(path), 1, j - 1)
    BY <1>1, <2>2, PrefixOfTail
  <2> QED
    BY <2>1, <2>2, <2>3 DEF j
<1>4. Get(b, prefix).kind = "object" /\ Get(o, prefix).kind = "object"
  BY <1>2 DEF ObjectsMeet
<1> HIDE DEF prefix
<1> QED
  BY <1>3, <1>4, GetDown

(* Down a path along which only objects meet: a key that the overlay does  *)
(* not mention leads to what the base has, a deleted key nowhere.          *)
Followed(b, o, laid, path, n) ==
  LET over == Get(o, SubSeq(path, 1, n - 1))
  IN  /\ path[n] \notin DOMAIN over.members => Get(laid, path) = Get(b, path)
      /\ path[n] \in DOMAIN over.members /\ Child(over, path[n]) = NullPtr => Get(laid, path) = NullPtr

(* At the first key.                                                       *)
LEMMA FollowedFirst ==
  ASSUME NEW below, NEW b, b.kind = "object", NEW o, o.kind = "object",
         NEW path \in Seq(Keys), path # <<>>
  PROVE  Followed(b, o, OverlayNode(below, b, o), path, 1)
<1> DEFINE laid == OverlayNode(below, b, o)
           key == path[1]
<1>1. SubSeq(path, 1, 1 - 1) = <<>>
  OBVIOUS
<1>2. Get(o, SubSeq(path, 1, 1 - 1)) = o
  BY <1>1, GetEmpty
<1>3. /\ key \notin DOMAIN o.members => Child(laid, key) = Child(b, key)
      /\ key \in DOMAIN o.members /\ Child(o, key) = NullPtr => Child(laid, key) = NullPtr
  <2>1. \A k : /\ k \notin DOMAIN o.members => Child(laid, k) = Child(b, k)
               /\ k \in DOMAIN o.members /\ Child(o, k) = NullPtr => Child(laid, k) = NullPtr
    BY ChildLaid DEF ChildOfBoth
  <2> QED
    BY <2>1
<1>4. Get(laid, path) = Get(Child(laid, key), Tail(path)) /\ Get(b, path) = Get(Child(b, key), Tail(path))
  BY GetDown
<1>5. Get(NullPtr, Tail(path)) = NullPtr
  BY TailParts, GetBelowNull
<1> HIDE DEF laid, key
<1>6. /\ key \notin DOMAIN o.members => Get(laid, path) = Get(b, path)
      /\ key \in DOMAIN o.members /\ Child(o, key) = NullPtr => Get(laid, path) = NullPtr
  BY <1>3, <1>4, <1>5
<1> QED
  BY <1>2, <1>6 DEF Followed, laid, key

(* At a later key, from the children at the first one.                     *)
LEMMA FollowedDown ==
  ASSUME NEW b, NEW o, NEW laid, NEW path \in Seq(Keys), NEW k \in Nat \ {0}, k + 1 \in DOMAIN path,
         Followed(Child(b, path[1]), Child(o, path[1]), Child(laid, path[1]), Tail(path), k)
  PROVE  Followed(b, o, laid, path, k + 1)
<1> DEFINE key == path[1]
           rest == Tail(path)
           n == k + 1
<1>1. path # <<>> /\ DOMAIN path = 1..Len(path) /\ Len(path) \in Nat
  BY SequenceParts
<1>2. k \in 1..(Len(path) - 1) /\ k \in 1..Len(path) /\ k \in 0..Len(path) /\ n - 1 = k
  BY <1>1
<1>3. rest[k] = path[n]
  BY <1>1, <1>2, TailParts
<1>4. /\ SubSeq(path, 1, k) # <<>> /\ SubSeq(path, 1, k)[1] = key
      /\ Tail(SubSeq(path, 1, k)) = SubSeq(rest, 1, k - 1)
  BY <1>1, <1>2, PrefixOfTail
<1>5. SubSeq(path, 1, k) \in Seq(Keys)
  BY <1>2, PrefixParts
<1>6. Get(o, SubSeq(path, 1, k)) = Get(Child(o, key), SubSeq(rest, 1, k - 1))
  BY <1>4, <1>5, GetDown
<1>7. Get(laid, path) = Get(Child(laid, key), rest) /\ Get(b, path) = Get(Child(b, key), rest)
  BY <1>1, GetDown
<1>8. Followed(Child(b, key), Child(o, key), Child(laid, key), rest, k)
  OBVIOUS
<1> HIDE DEF key, rest, n
<1> QED
  BY <1>2, <1>3, <1>6, <1>7, <1>8 DEF Followed, n

(* By induction on the number of the key.                                  *)
LEMMA KeysLaid ==
  ASSUME NEW P, NEW Q, NEW m \in Nat, NEW f
  PROVE  \A n \in Nat \ {0} : \A path \in Seq(Keys) : \A d, b, o :
           Laid(P, Q, m, f, d, b, o) /\ n \in DOMAIN path /\ ObjectsMeet(b, o, path, n)
             => Followed(b, o, At(f[d], b, o), path, n)
<1> DEFINE Good == {k \in Nat : \A path \in Seq(Keys) : \A d, b, o :
                      Laid(P, Q, m, f, d, b, o) /\ k + 1 \in DOMAIN path /\ ObjectsMeet(b, o, path, k + 1)
                        => Followed(b, o, At(f[d], b, o), path, k + 1)}
<1>1. 0 \in Good
  <2> SUFFICES ASSUME NEW path \in Seq(Keys), NEW d, NEW b, NEW o,
                      Laid(P, Q, m, f, d, b, o), 1 \in DOMAIN path, ObjectsMeet(b, o, path, 1)
               PROVE  Followed(b, o, At(f[d], b, o), path, 1)
    OBVIOUS
  <2>1. b.kind = "object" /\ o.kind = "object" /\ path # <<>>
    BY ObjectsMeetFirst
  <2>2. At(f[d], b, o) = OverlayNode(f[d - 1], b, o)
    BY LaidAt
  <2> QED
    BY <2>1, <2>2, FollowedFirst
<1>2. ASSUME NEW n \in Nat, n \in Good PROVE n + 1 \in Good
  <2> DEFINE k == n + 1
  <2>1. k \in Nat \ {0} /\ k \in Nat
    OBVIOUS
  <2> HIDE DEF k
  <2> SUFFICES ASSUME NEW path \in Seq(Keys), NEW d, NEW b, NEW o,
                      Laid(P, Q, m, f, d, b, o), k + 1 \in DOMAIN path, ObjectsMeet(b, o, path, k + 1)
               PROVE  Followed(b, o, At(f[d], b, o), path, k + 1)
    BY <2>1 DEF k
  <2> DEFINE key == path[1]
             rest == Tail(path)
             bb == Child(b, key)
             oo == Child(o, key)
  <2>2. path # <<>> /\ rest \in Seq(Keys) /\ Len(rest) = Len(path) - 1 /\ DOMAIN path = 1..Len(path) /\ Len(path) \in Nat
    BY SequenceParts, TailParts
  <2>3. k \in DOMAIN rest
    BY <2>1, <2>2, SequenceParts
  <2>4. b.kind = "object" /\ o.kind = "object"
    <3>1. k + 1 \in Nat \ {0}
      BY <2>1
    <3> QED
      BY <3>1, ObjectsMeetFirst
  <2>5. ObjectsMeet(bb, oo, rest, k)
    BY <2>1, ObjectsMeetBelow
  <2>6. bb.kind = "object" /\ oo.kind = "object"
    BY <2>1, <2>2, <2>5, ObjectsMeetFirst
  <2>7. bb # NullPtr /\ oo # NullPtr
    BY <2>6 DEF NullPtr
  <2>8. Laid(P, Q, m, f, d - 1, bb, oo) /\ Child(At(f[d], b, o), key) = At(f[d - 1], bb, oo)
    <3>1. ASSUME NEW other, Child(b, other) # NullPtr, Child(o, other) # NullPtr
          PROVE  /\ Laid(P, Q, m, f, d - 1, Child(b, other), Child(o, other))
                 /\ Child(At(f[d], b, o), other) = At(f[d - 1], Child(b, other), Child(o, other))
      BY <2>4, <3>1, LaidBelow
    <3> QED
      BY <2>7, <3>1
  <2>9. Followed(bb, oo, At(f[d - 1], bb, oo), rest, k)
    BY <1>2, <2>2, <2>3, <2>5, <2>8 DEF k
  <2>10. Followed(Child(b, path[1]), Child(o, path[1]), Child(At(f[d], b, o), path[1]), Tail(path), k)
    BY <2>8, <2>9
  <2> HIDE DEF key, rest, bb, oo
  <2> QED
    BY <2>1, <2>10, FollowedDown
<1> HIDE DEF Good
<1>3. Nat \subseteq Good
  BY <1>1, <1>2, Induction
<1>4. \A n \in Nat \ {0} : n - 1 \in Nat /\ (n - 1) + 1 = n
  OBVIOUS
<1> QED
  BY <1>3, <1>4 DEF Good

-----------------------------------------------------------------------------
(* An overlay of nodes without holes has none.                             *)

(* Elements of two solid arrays laid over each other.                      *)
LEMMA ElementsSolid ==
  ASSUME NEW b, Solid(b), b.kind = "array", NEW o, Solid(o), o.kind = "array"
  PROVE  Solid(Array(OverlayElements(b.elems, o.elems)))
<1>1. PICK parts : /\ b \in parts /\ o \in parts /\ NullNode \in parts
                   /\ \A n \in parts : IsSolid(n, parts)
  BY SolidParts
<1> DEFINE few == parts \ {NullPtr}
           m == IF Len(b.elems) < Len(o.elems) THEN Len(o.elems) ELSE Len(b.elems)
           elems == OverlayElements(b.elems, o.elems)
<1>2. b.elems \in Seq(few) /\ o.elems \in Seq(few)
  BY <1>1, SolidArrayParts
<1>3. NullNode \in few
  BY <1>1 DEF NullNode, NullPtr
<1>4. elems = [i \in 1..m |-> IF i \in DOMAIN o.elems /\ o.elems[i] # NullPtr THEN o.elems[i]
                              ELSE IF i \in DOMAIN b.elems THEN b.elems[i] ELSE NullNode]
  BY DEF OverlayElements
<1> HIDE DEF few, elems
<1>5. m \in Nat /\ \A i \in 1..m : elems[i] \in few
  BY <1>2, <1>3, <1>4
<1>6. elems = [i \in 1..m |-> elems[i]]
  BY <1>4
<1> HIDE DEF m
<1>7. elems \in Seq(few)
  BY <1>5, <1>6, SequenceMade
<1> QED
  BY <1>1, <1>7, ArraySolid DEF few, elems

(* What is laid over a node is not nullptr if the overlay is not.          *)
LEMMA LaidNode ==
  ASSUME NEW below, NEW b, NEW o, o # NullPtr
  PROVE  OverlayNode(below, b, o) # NullPtr
<1>1. CASE b.kind = "object" /\ o.kind = "object"
  BY <1>1 DEF OverlayNode, Object, NullPtr
<1>2. CASE b.kind = "array" /\ o.kind = "array"
  BY <1>2 DEF OverlayNode, Array, NullPtr
<1>3. CASE ~(b.kind = "object" /\ o.kind = "object") /\ ~(b.kind = "array" /\ o.kind = "array")
  BY <1>3, OtherLaid
<1> QED
  BY <1>1, <1>2, <1>3

(* By induction on the depth.                                              *)
LEMMA SolidLaid ==
  ASSUME NEW P, NEW Q, NEW m \in Nat, NEW f
  PROVE  \A d \in Nat : \A b, o :
           Laid(P, Q, m, f, d, b, o) /\ Solid(b) /\ Solid(o) => Solid(At(f[d], b, o))
<1> DEFINE Good == {d \in Nat : \A b, o :
                      Laid(P, Q, m, f, d, b, o) /\ Solid(b) /\ Solid(o) => Solid(At(f[d], b, o))}
<1>1. 0 \in Good
  BY DEF Laid
<1>2. ASSUME NEW n \in Nat, n \in Good PROVE n + 1 \in Good
  <2> DEFINE d == n + 1
  <2>1. d - 1 = n /\ d \in Nat
    OBVIOUS
  <2> HIDE DEF d
  <2> SUFFICES ASSUME NEW b, NEW o, Laid(P, Q, m, f, d, b, o), Solid(b), Solid(o)
               PROVE  Solid(At(f[d], b, o))
    BY <2>1 DEF d
  <2>2. At(f[d], b, o) = OverlayNode(f[d - 1], b, o)
    BY LaidAt
  <2>3. CASE b.kind = "object" /\ o.kind = "object"
    <3> DEFINE members == OverlayMembers(f[d - 1], b.members, o.members)
    <3>1. OverlayNode(f[d - 1], b, o) = Object(members)
      BY <2>3 DEF OverlayNode
    <3>2. members = [key \in DOMAIN members |-> members[key]]
      BY DEF OverlayMembers
    <3>3. \A key : OverlaidMember(f[d - 1], b.members, o.members, members, key)
      BY MembersLaid
    <3> HIDE DEF members
    <3>4. ASSUME NEW key \in DOMAIN members PROVE Solid(members[key]) /\ members[key] # NullPtr
      <4>1. CASE key \in DOMAIN b.members /\ key \notin DOMAIN o.members
        <5>1. members[key] = b.members[key]
          BY <3>3, <4>1 DEF OverlaidMember
        <5>2. b.members[key] # NullPtr /\ Child(b, key) = b.members[key]
          BY <2>3, <4>1, SolidMember
        <5> QED
          BY <5>1, <5>2, ChildSolid
      <4>2. CASE key \in DOMAIN o.members /\ key \notin DOMAIN b.members
        <5>1. o.members[key] # NullPtr /\ Child(o, key) = o.members[key]
          BY <2>3, <4>2, SolidMember
        <5>2. members[key] = o.members[key]
          BY <3>3, <4>2, <5>1 DEF OverlaidMember
        <5> QED
          BY <5>1, <5>2, ChildSolid
      <4>3. CASE key \in DOMAIN o.members /\ key \in DOMAIN b.members
        <5>1. o.members[key] # NullPtr /\ Child(o, key) = o.members[key]
          BY <2>3, <4>3, SolidMember
        <5>2. b.members[key] # NullPtr /\ Child(b, key) = b.members[key]
          BY <2>3, <4>3, SolidMember
        <5>3. members[key] = At(f[n], Child(b, key), Child(o, key))
          BY <2>1, <3>3, <4>3, <5>1, <5>2 DEF OverlaidMember
        <5>4. Laid(P, Q, m, f, n, Child(b, key), Child(o, key))
          BY <2>1, <2>3, <5>1, <5>2, LaidBelow
        <5>5. Solid(Child(b, key)) /\ Solid(Child(o, key))
          BY ChildSolid
        <5>6. Solid(At(f[n], Child(b, key), Child(o, key)))
          BY <1>2, <5>4, <5>5
        <5>7. At(f[n], Child(b, key), Child(o, key)) # NullPtr
          BY <5>1, <5>4, LaidAt, LaidNode
        <5> QED
          BY <5>3, <5>6, <5>7
      <4> QED
        BY <3>3, <4>1, <4>2, <4>3 DEF OverlaidMember
    <3>5. Solid(Object(members))
      BY <3>2, <3>4, ObjectSolid
    <3> QED
      BY <2>2, <3>1, <3>5
  <2>4. CASE b.kind = "array" /\ o.kind = "array"
    <3>1. OverlayNode(f[d - 1], b, o) = Array(OverlayElements(b.elems, o.elems))
      BY <2>4 DEF OverlayNode
    <3> QED
      BY <2>2, <2>4, <3>1, ElementsSolid
  <2>5. CASE ~(b.kind = "object" /\ o.kind = "object") /\ ~(b.kind = "array" /\ o.kind = "array")
    BY <2>2, <2>5, OtherLaid
  <2> QED
    BY <2>3, <2>4, <2>5
<1> HIDE DEF Good
<1>3. Nat \subseteq Good
  BY <1>1, <1>2, Induction
<1> QED
  BY <1>3 DEF Good

-----------------------------------------------------------------------------
(* Two documents laid over each other.                                     *)

(* They are laid as the table says.                                        *)
LEMMA OverlayIsLaid ==
  ASSUME NEW base, Tree(base), Shallow(base), NEW ov, Tree(ov), Shallow(ov)
  PROVE  \E P, Q, f : /\ Laid(P, Q, MaxDepth + 1, f, MaxDepth + 1, base, ov)
                      /\ Overlay(base, ov) = At(f[MaxDepth + 1], base, ov)
<1>1. PICK f : /\ IsTable(Descendants(base), Descendants(ov), MaxDepth + 1, f)
               /\ Overlay(base, ov) = At(f[MaxDepth + 1], base, ov)
  BY OverlayMade
<1>2. /\ Forest(Descendants(base)) /\ base \in Descendants(base)
      /\ Forest(Descendants(ov)) /\ ov \in Descendants(ov)
  BY DescendantsAreForest
<1>3. Below(ov, MaxDepth + 1)
  BY ShallowIsBelow
<1>4. MaxDepth + 1 \in 1..(MaxDepth + 1)
  BY MaxDepthAssumption
<1>5. Laid(Descendants(base), Descendants(ov), MaxDepth + 1, f, MaxDepth + 1, base, ov)
  BY <1>1, <1>2, <1>3, <1>4 DEF Laid
<1> QED
  BY <1>1, <1>5

(* Along a path.                                                           *)
LEMMA OverlayPath ==
  ASSUME NEW base, Tree(base), Shallow(base), NEW ov, Tree(ov), Shallow(ov), NEW path \in Seq(Keys)
  PROVE  FollowsPath(base, ov, path)
<1> DEFINE m == MaxDepth + 1
           laid == Overlay(base, ov)
<1>1. PICK P, Q, f : Laid(P, Q, m, f, m, base, ov) /\ laid = At(f[m], base, ov)
  BY OverlayIsLaid
<1>2. m \in Nat
  BY MaxDepthAssumption
<1>3. DOMAIN path \subseteq Nat \ {0}
  BY SequenceParts
<1> HIDE DEF m, laid
<1>4. Scalar(Get(ov, path)) => Get(laid, path) = Get(ov, path)
  BY <1>1, <1>2, ScalarLaid
<1>5. ASSUME NEW n \in DOMAIN path, ObjectsMeet(base, ov, path, n)
      PROVE  Followed(base, ov, laid, path, n)
  <2>1. n \in Nat \ {0}
    BY <1>3
  <2> QED
    BY <1>1, <1>2, <1>5, <2>1, KeysLaid
<1> QED
  BY <1>4, <1>5 DEF FollowsPath, Scalar, Followed, laid

(* Without holes.                                                          *)
LEMMA OverlayHoleFree ==
  ASSUME NEW base, Tree(base), Shallow(base), HoleFree(base), NEW ov, Tree(ov), Shallow(ov), HoleFree(ov)
  PROVE  HoleFree(Overlay(base, ov))
<1> DEFINE m == MaxDepth + 1
           laid == Overlay(base, ov)
<1>1. PICK P, Q, f : Laid(P, Q, m, f, m, base, ov) /\ laid = At(f[m], base, ov)
  BY OverlayIsLaid
<1>2. m \in Nat
  BY MaxDepthAssumption
<1>3. Solid(base) /\ Solid(ov)
  BY HoleFreeSolid
<1> HIDE DEF m, laid
<1>4. Solid(laid)
  BY <1>1, <1>2, <1>3, SolidLaid
<1> QED
  BY <1>4, SolidHoleFree DEF laid

(* The invariant bounds and types the document; others are documents.      *)
LEMMA TreeOverlay ==
  TreeInv => OverlayFollowsPaths
<1> SUFFICES ASSUME TreeInv, NEW pair \in Overlays
             PROVE  /\ \A path \in Paths \ {<<>>} : FollowsPath(pair[1], pair[2], path)
                    /\ HoleFree(pair[1]) /\ HoleFree(pair[2]) => HoleFree(Overlay(pair[1], pair[2]))
  BY DEF OverlayFollowsPaths
<1>1. PICK other \in Others : pair = <<doc, other>> \/ pair = <<other, doc>>
  BY DEF Overlays
<1>2. IsDocument(other)
  BY OthersAssumption DEF Others, TreeInv
<1>3. Tree(other) /\ Shallow(other)
  BY <1>2, DocumentIsTree
<1> DEFINE base == pair[1]
           ov == pair[2]
<1>4. (base = doc /\ ov = other) \/ (base = other /\ ov = doc)
  BY <1>1
<1> HIDE DEF base, ov
<1>5. Tree(base) /\ Shallow(base) /\ Tree(ov) /\ Shallow(ov)
  BY <1>3, <1>4 DEF TreeInv
<1>6. Paths \subseteq Seq(Keys)
  BY PathsAreKeys DEF TreeInv
<1>7. \A path \in Paths : FollowsPath(base, ov, path)
  BY <1>5, <1>6, OverlayPath
<1>8. HoleFree(base) /\ HoleFree(ov) => HoleFree(Overlay(base, ov))
  BY <1>5, OverlayHoleFree
<1> QED
  BY <1>7, <1>8 DEF base, ov

(* An overlay puts its values in place, keeps what it does not mention,    *)
(* deletes what it maps to nullptr, and makes no hole.                     *)
THEOREM OverlaysFollowPaths == Spec => []OverlayFollowsPaths
BY DocumentsAreTrees, TreeOverlay, PTL

=============================================================================
