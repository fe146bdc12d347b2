--------------------------- MODULE NodeOperations ---------------------------
(***************************************************************************)
(* The value operators of node-operations.h, node::transform and           *)
(* node::extract.                                                          *)
(*                                                                         *)
(* An operation is a record: path is the path_slice of the                 *)
(* transform_action, op names the operator, node or delta is its operand.  *)
(***************************************************************************)
EXTENDS Node

SetOp(path, node)     == [path |-> path, op |-> "set", node |-> node]
RemoveOp(path)        == [path |-> path, op |-> "remove"]
IncrementOp(path, delta) == [path |-> path, op |-> "increment", delta |-> delta]
PushOp(path, node)    == [path |-> path, op |-> "push", node |-> node]
PrependOp(path, node) == [path |-> path, op |-> "prepend", node |-> node]
PopOp(path)           == [path |-> path, op |-> "pop"]
ShiftOp(path)         == [path |-> path, op |-> "shift"]
EraseOp(path, node)   == [path |-> path, op |-> "erase", node |-> node]

-----------------------------------------------------------------------------
(* Operators that create a node where there is none: the adapter hands     *)
(* them a null node in place of nullptr.                                   *)
Increment(node, delta) ==
  Number(IF node.kind = "number" THEN node.number + delta ELSE delta)

Push(node, value) ==
  Array(IF node.kind = "array" THEN Append(node.elems, value) ELSE <<value>>)

(* Mutant: prepend at the wrong end.                                       *)
PrependLast(node, value) ==
  Array(IF node.kind = "array" THEN Append(node.elems, value) ELSE <<value>>)

Prepend(node, value) ==
  Array(IF node.kind = "array" THEN <<value>> \o node.elems ELSE <<value>>)

(* Operators restricted to arrays: the adapter returns every other node,   *)
(* and nullptr, as it is.                                                  *)
Pop(ptr) ==
  IF ptr.kind = "array" /\ ptr.elems # <<>> THEN Array(Front(ptr.elems)) ELSE ptr

Shift(ptr) ==
  IF ptr.kind = "array" /\ ptr.elems # <<>> THEN Array(Tail(ptr.elems)) ELSE ptr

Erase(ptr, value) ==
  IF ptr.kind = "array" THEN Array(RemoveFirst(ptr.elems, value)) ELSE ptr

Apply(op, ptr) ==
  CASE op.op = "set"       -> op.node
    [] op.op = "remove"    -> NullPtr
    [] op.op = "increment" -> Increment(NodeOrNull(ptr), op.delta)
    [] op.op = "push"      -> Push(NodeOrNull(ptr), op.node)
    [] op.op = "prepend"   -> Prepend(NodeOrNull(ptr), op.node)
    [] op.op = "pop"       -> Pop(ptr)
    [] op.op = "shift"     -> Shift(ptr)
    [] op.op = "erase"     -> Erase(ptr, op.node)

-----------------------------------------------------------------------------
(* Mutant: operators read the document built so far.                       *)
TransformInPlace(node, ops) ==
  LET after[i \in 0..Len(ops)] ==
        IF i = 0 THEN node
        ELSE Set(after[i - 1], ops[i].path, Apply(ops[i], Get(after[i - 1], ops[i].path)))
  IN  after[Len(ops)]

(***************************************************************************)
(* node::transform: every operator reads its node from the original        *)
(* document, and its result is set in the document built so far.           *)
(***************************************************************************)
Transform(node, ops) ==
  LET after[i \in 0..Len(ops)] ==
        IF i = 0 THEN node
        ELSE Set(after[i - 1], ops[i].path, Apply(ops[i], Get(node, ops[i].path)))
  IN  after[Len(ops)]

(***************************************************************************)
(* *left == *right may reach a nullptr: some pair of nodes it may compare  *)
(* holds one.  Arrays of different sizes are told apart by their sizes,    *)
(* objects are compared member by member while the keys are the same; both *)
(* stop at the first difference, wherever it comes in the order.           *)
(***************************************************************************)
ChildPairs(pair) ==
  LET a == pair[1]
      b == pair[2]
  IN  CASE a.kind = "array" /\ b.kind = "array" /\ Len(a.elems) = Len(b.elems) ->
             {<<a.elems[i], b.elems[i]>> : i \in DOMAIN a.elems}
        [] a.kind = "object" /\ b.kind = "object" ->
             {<<a.members[key], b.members[key]>> : key \in DOMAIN a.members \cap DOMAIN b.members}
        [] OTHER -> {}

CanCompare(left, right) ==
  LET level[d \in 0..MaxDepth] ==
        IF d = 0 THEN {<<left, right>>}
                 ELSE UNION {ChildPairs(pair) : pair \in level[d - 1]}
  IN  \A d \in 0..MaxDepth : \A pair \in level[d] :
        pair[1] # NullPtr /\ pair[2] # NullPtr

(* The search for value stops at the first element equal to it.            *)
CanFind(elems, value) ==
  \A i \in DOMAIN elems :
    (\A j \in 1..(i - 1) : elems[j] # value) => CanCompare(value, elems[i])

CanApply(op, ptr) ==
  op.op = "erase" /\ ptr.kind = "array" => CanFind(ptr.elems, op.node)

(* transform dereferences no nullptr: the document exists at every step.   *)
CanTransform(node, ops) ==
  /\ node # NullPtr
  /\ \A i \in 1..(Len(ops) - 1) : Transform(node, SubSeq(ops, 1, i)) # NullPtr
  /\ \A i \in DOMAIN ops : CanApply(ops[i], Get(node, ops[i].path))

-----------------------------------------------------------------------------
(* Mutant: the list is gone through backwards.                             *)
ExtractBackwards(node, paths) ==
  LET result[i \in 0..Len(paths)] ==
        IF i = 0 THEN EmptyObject
                 ELSE LET path == paths[Len(paths) + 1 - i]
                      IN  Set(result[i - 1], path, Get(node, path))
  IN  result[Len(paths)]

(* node::extract: what the listed paths hold, set into an empty object.    *)
Extract(node, paths) ==
  LET result[i \in 0..Len(paths)] ==
        IF i = 0 THEN EmptyObject
                 ELSE Set(result[i - 1], paths[i], Get(node, paths[i]))
  IN  result[Len(paths)]

=============================================================================
