--------------------------- MODULE NodeConditions ---------------------------
(***************************************************************************)
(* The conditions of node-conditions.h and node::fold over them with       *)
(* std::logical_and, the preconditions of a transaction.                   *)
(***************************************************************************)
EXTENDS NodeOperations

Equal(path, node)    == [path |-> path, condition |-> "equal", node |-> node]
NotEqual(path, node) == [path |-> path, condition |-> "not_equal", node |-> node]
In(path, node)       == [path |-> path, condition |-> "in", node |-> node]
NotIn(path, node)    == [path |-> path, condition |-> "not_in", node |-> node]
IsArray(path)        == [path |-> path, condition |-> "is_array"]
IsEmpty(path, inverted) ==
  [path |-> path, condition |-> "is_empty", inverted |-> inverted]

-----------------------------------------------------------------------------
(* Mutant: the default is not inverted for nodes of other kinds either.    *)
ConditionHelperKeepingDefaults(ptr, applies, verdict, inverted) ==
  ptr # NullPtr /\ applies /\ verdict # inverted

(***************************************************************************)
(* condition_helper: a nullptr gets the default value, a node of a kind    *)
(* the condition is not restricted to gets it too, but on the way through  *)
(* invert_if_required.  Every condition of the file has default false.     *)
(***************************************************************************)
ConditionHelper(ptr, applies, verdict, inverted) ==
  /\ ptr # NullPtr
  /\ (applies /\ verdict) # inverted

ArrayContains(ptr, needle) == needle # NullPtr /\ needle \in Range(ptr.elems)

Eval(cond, ptr) ==
  CASE cond.condition = "equal" ->
         ConditionHelper(ptr, TRUE, cond.node = ptr, FALSE)
    [] cond.condition = "not_equal" ->
         ConditionHelper(ptr, TRUE, cond.node = ptr, TRUE)
    [] cond.condition = "in" ->
         ConditionHelper(ptr, ptr.kind = "array", ArrayContains(ptr, cond.node), FALSE)
    [] cond.condition = "not_in" ->
         ConditionHelper(ptr, ptr.kind = "array", ArrayContains(ptr, cond.node), TRUE)
    [] cond.condition = "is_array" ->
         ConditionHelper(ptr, ptr.kind = "array", TRUE, FALSE)
    [] cond.condition = "is_empty" ->
         (ptr = NullPtr) # cond.inverted

(* fold with logical_and from true: it has no early exit, but evaluating   *)
(* a condition changes nothing.                                            *)
Fold(node, conds) ==
  \A i \in DOMAIN conds : Eval(conds[i], Get(node, conds[i].path))

(* The comparisons a condition makes meet no nullptr.                      *)
CanEval(cond, ptr) ==
  /\ cond.condition \in {"equal", "not_equal"} /\ ptr # NullPtr
       => CanCompare(cond.node, ptr)
  /\ cond.condition \in {"in", "not_in"} /\ ptr.kind = "array"
       => CanFind(ptr.elems, cond.node)

CanFold(node, conds) ==
  /\ node # NullPtr
  /\ \A i \in DOMAIN conds : CanEval(conds[i], Get(node, conds[i].path))

=============================================================================
