----------------------------- MODULE StoreCalls -----------------------------
(***************************************************************************)
(* The calls of store_base and what each does to the document as a whole:  *)
(* the sequential meaning of transact, write, set, read and check.         *)
(*                                                                         *)
(* The document is opaque here.  store.h only folds conditions over it and *)
(* transforms it; FoldOf and TransformOf stand for node::fold and          *)
(* node::transform, and the two Defined operators tell when these          *)
(* dereference no nullptr.                                                 *)
(***************************************************************************)
CONSTANTS
  Calls,                  \* the calls threads make, records with a field op
  NullRoot,               \* the null node_ptr
  FoldOf(_, _),           \* node::fold of a list of conditions: a Boolean
  TransformOf(_, _),      \* node::transform with a list of operations
  FoldDefined(_, _),      \* that fold is defined
  TransformDefined(_, _)  \* that transform is defined

Transact(conds, ops) == [op |-> "transact", conds |-> conds, ops |-> ops]
Write(ops)           == [op |-> "write", ops |-> ops]
SetRoot(node)        == [op |-> "set", node |-> node]
Read                 == [op |-> "read"]
Check(conds)         == [op |-> "check", conds |-> conds]

Modifying == {"transact", "write", "set"}   \* they take root_modify_mutex
Reading   == {"read", "check"}

ASSUME CallsAssumption == \A c \in Calls : c.op \in Modifying \cup Reading

Verdict(b) == [verdict |-> b]   \* a bool result, apart from every node_ptr

(* The call changes the document.                                          *)
Changes(c, root) ==
  \/ c.op \in {"write", "set"}
  \/ c.op = "transact" /\ FoldOf(root, c.conds)

(* The document it leaves where it changes it.                             *)
Result(c, root) == IF c.op = "set" THEN c.node ELSE TransformOf(root, c.ops)

NewRoot(c, root) == IF Changes(c, root) THEN Result(c, root) ELSE root

Answer(c, root) ==
  CASE c.op \in Modifying -> IF Changes(c, root) THEN Result(c, root) ELSE NullRoot
    [] c.op = "read"      -> root
    [] c.op = "check"     -> Verdict(FoldOf(root, c.conds))

=============================================================================
