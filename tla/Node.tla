-------------------------------- MODULE Node --------------------------------
(***************************************************************************)
(* The document tree of node.h and node.cpp: immutable JSON-like nodes,    *)
(* navigation and functional update along a path.                          *)
(*                                                                         *)
(* A node_ptr is a value of this module: NullPtr (nullptr) or a node.      *)
(* Nodes are values, so sharing of subtrees is invisible.  The kinds have  *)
(* differently named fields, which keeps values of different kinds apart.  *)
(*                                                                         *)
(* This module declares no RECURSIVE operator: recursion along a path is a *)
(* recursive function, so that theorems can be stated about its operators. *)
(***************************************************************************)
EXTENDS Integers, Sequences, FiniteSets, SequencesExt

CONSTANT MaxDepth   \* how deep Descendants and CanCompare look into a document

ASSUME MaxDepthAssumption == MaxDepth \in Nat

-----------------------------------------------------------------------------
(***************************************************************************)
(* Path components.  A key is a std::string; what the code tells apart is  *)
(* its text and the number string_to_number makes of it.  Decimal(i) is    *)
(* std::to_string(i); other keys may have the same number ("01", "").      *)
(***************************************************************************)
NoNumber == -1                     \* std::nullopt

Name(text) == [text |-> text, number |-> NoNumber]
Decimal(i) == [text |-> "decimal", number |-> i]
Alias(text, i) == [text |-> text, number |-> i]

Keys == [text : STRING, number : Nat \cup {NoNumber}]

IsNumeric(key) == key.number # NoNumber
IsCanonical(key) == IsNumeric(key) => key = Decimal(key.number)

-----------------------------------------------------------------------------
(* Nodes.                                                                  *)
NullPtr   == [kind |-> "nullptr"]
NullNode  == [kind |-> "null"]
Number(x) == [kind |-> "number", number |-> x]
String(s) == [kind |-> "string", string |-> s]
Bool(b)   == [kind |-> "bool",   bool   |-> b]
Array(elems)    == [kind |-> "array",  elems   |-> elems]
Object(members) == [kind |-> "object", members |-> members]

EmptyArray  == Array(<<>>)
EmptyObject == Object([key \in {} |-> NullPtr])

NodeOrNull(ptr) == IF ptr = NullPtr THEN NullNode ELSE ptr

(* The node_ptrs a container holds, nullptr included.                      *)
Children(node) == CASE node.kind = "array"  -> Range(node.elems)
                    [] node.kind = "object" -> Range(node.members)
                    [] OTHER -> {}

(* A node_ptr, the children of which, if it has any, are among parts.      *)
IsNode(ptr, parts) ==
  /\ ptr.kind = "array"  => ptr = Array(ptr.elems) /\ ptr.elems \in Seq(parts)
  /\ ptr.kind = "object" =>
       ptr = Object(ptr.members) /\ ptr.members \in [DOMAIN ptr.members -> parts]

(* The node, its children, their children and so on.                       *)
Levels(node) ==
  LET level[d \in 0..MaxDepth] ==
        IF d = 0 THEN {node} ELSE UNION {Children(n) : n \in level[d - 1]}
  IN  level

Descendants(node) == UNION {Levels(node)[d] : d \in 0..MaxDepth}

(* MaxDepth bounds how deep the node is: Descendants sees all of it.       *)
Shallow(node) == \A n \in Levels(node)[MaxDepth] : Children(n) = {}

(* A node_ptr that is a node with all its parts.                           *)
IsDocument(ptr) == Shallow(ptr) /\ \A n \in Descendants(ptr) : IsNode(n, Descendants(ptr))

(* A hole is a nullptr stored in a container.  Printing, comparing and     *)
(* indexing code dereferences members without a check.                     *)
HoleFree(node) == \A n \in Descendants(node) : NullPtr \notin Children(n)

-----------------------------------------------------------------------------
(* Navigation: node_container::get and node::get.                          *)
Child(node, key) ==
  CASE node.kind = "array" /\ key.number \in 0..(Len(node.elems) - 1) ->
         node.elems[key.number + 1]
    [] node.kind = "object" /\ key \in DOMAIN node.members ->
         node.members[key]
    [] OTHER -> NullPtr

(* at[i] is the node that the first i keys lead to.                        *)
Get(node, path) ==
  LET at[i \in 0..Len(path)] == IF i = 0 THEN node ELSE Child(at[i - 1], path[i])
  IN  at[Len(path)]

-----------------------------------------------------------------------------
(* Functional update of one container: node_object::set_impl,              *)
(* node_array::set_impl and, for what is not a container,                  *)
(* node_object(key, v), which stores a nullptr as it is.                   *)
With(members, key, ptr) ==
  [k \in DOMAIN members \cup {key} |-> IF k = key THEN ptr ELSE members[k]]

Without(members, key) == Restrict(members, DOMAIN members \ {key})

Singleton(key, ptr) == Object([k \in {key} |-> ptr])

(* Mutant: the last key takes the object with it.                          *)
SetMemberPruning(node, key, ptr) ==
  IF ptr = NullPtr /\ DOMAIN node.members \subseteq {key}
    THEN NullPtr
    ELSE Object(IF ptr = NullPtr THEN Without(node.members, key) ELSE With(node.members, key, ptr))

(* Mutants: nullptr is stored instead of erased; the siblings are lost.    *)
SetMemberKeepingNull(node, key, ptr) == Object(With(node.members, key, ptr))
SetMemberAlone(node, key, ptr) ==
  IF ptr = NullPtr THEN EmptyObject ELSE Singleton(key, ptr)

SetMember(node, key, ptr) ==
  Object(IF ptr = NullPtr THEN Without(node.members, key) ELSE With(node.members, key, ptr))

(* Elements up to and including index i, padded with null nodes.           *)
PadTo(elems, i) ==
  [j \in 1..(IF i < Len(elems) THEN Len(elems) ELSE i + 1) |->
     IF j <= Len(elems) THEN elems[j] ELSE NullNode]

(* Mutant: elements numbered from 1.                                       *)
AsMembersFromOne(elems) ==
  [key \in {Decimal(j) : j \in DOMAIN elems} |-> elems[key.number]]

AsMembers(elems) ==
  [key \in {Decimal(j - 1) : j \in DOMAIN elems} |-> elems[key.number + 1]]

SetElement(node, key, ptr) ==
  IF IsNumeric(key)
    THEN Array([PadTo(node.elems, key.number) EXCEPT ![key.number + 1] = ptr])
    ELSE Object(With(AsMembers(node.elems), key, ptr))

SetChild(node, key, ptr) ==
  CASE node.kind = "object" -> SetMember(node, key, ptr)
    [] node.kind = "array"  -> SetElement(node, key, ptr)
    [] OTHER                -> Singleton(key, ptr)

(***************************************************************************)
(* node::set with node_set_visitor and node_at_path: the containers along  *)
(* the path are rebuilt from the innermost outwards; a missing or          *)
(* non-container node on the path becomes a one-member object.  rebuilt[i] *)
(* is what replaces the node i keys above the end of the path.             *)
(***************************************************************************)
Set(node, path, ptr) ==
  LET rebuilt[i \in 0..Len(path)] ==
        IF i = 0 THEN ptr
        ELSE LET n == Len(path) - i
             IN  SetChild(Get(node, SubSeq(path, 1, n)), path[n + 1], rebuilt[i - 1])
  IN  rebuilt[Len(path)]

=============================================================================
