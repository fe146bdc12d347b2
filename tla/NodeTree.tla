------------------------------ MODULE NodeTree ------------------------------
(***************************************************************************)
(* One client evolving one document with the operators of node-operations, *)
(* the way agency-node-test.cpp and store_base::write use node::transform. *)
(* Its states are the documents the program can build; its invariants say  *)
(* what every next call on such a document does.                           *)
(***************************************************************************)
EXTENDS NodeOverlay

CONSTANTS
  Uses,         \* ways to use documents: their paths and other documents
  Values,       \* the nodes clients set, push, prepend and erase
  InitialDoc,   \* the document the store is constructed with
  MaxElements   \* bound: longest array built

(* A path is made of keys.                                                 *)
ASSUME PathsAssumption == \A u \in Uses : u.paths \subseteq Seq(Keys)

(* Values are nodes, and so are all their parts; so is what else is there. *)
ASSUME ValuesAssumption ==
  /\ NullPtr \notin Values
  /\ \A v \in Values \cup {InitialDoc} : IsDocument(v)

ASSUME OthersAssumption == \A u \in Uses : \A other \in u.others : IsDocument(other)

VARIABLES doc, use

vars == <<doc, use>>

Paths     == use.paths      \* the path_slices in use
Others    == use.others     \* what doc is laid over, and laid over it
MaxNumber == use.maxNumber  \* bound: largest number counted to

Pointers == Values \cup {NullPtr}

(* The bounds on how deep, how wide and how big a document becomes.        *)
Bounded(node) ==
  /\ Shallow(node)
  /\ \A n \in Descendants(node) :
       /\ n.kind = "array"  => Len(n.elems) <= MaxElements
       /\ n.kind = "number" => n.number <= MaxNumber

(* The operations on one path.                                             *)
OpsAt(path) ==
  {RemoveOp(path), IncrementOp(path, 1), PopOp(path), ShiftOp(path)}
    \cup UNION {{SetOp(path, v), PushOp(path, v), PrependOp(path, v), EraseOp(path, v)}
                  : v \in Values}

-----------------------------------------------------------------------------
Init == doc = InitialDoc /\ use \in Uses

(* One transform; the document is a node_ptr the client dereferences.      *)
Perform(ops) ==
  /\ CanTransform(doc, ops)
  /\ Bounded(Transform(doc, ops))
  /\ doc' = Transform(doc, ops)
  /\ UNCHANGED use

DoSet(path)       == \E v \in Values : Perform(<<SetOp(path, v)>>)
DoRemove(path)    == Perform(<<RemoveOp(path)>>)
DoIncrement(path) == Perform(<<IncrementOp(path, 1)>>)
DoPush(path)      == \E v \in Values : Perform(<<PushOp(path, v)>>)
DoPrepend(path)   == \E v \in Values : Perform(<<PrependOp(path, v)>>)
DoPop(path)       == Perform(<<PopOp(path)>>)
DoShift(path)     == Perform(<<ShiftOp(path)>>)
DoErase(path)     == \E v \in Values : Perform(<<EraseOp(path, v)>>)

Next ==
  \E path \in Paths :
    \/ DoSet(path)
    \/ DoRemove(path)
    \/ DoIncrement(path)
    \/ DoPush(path)
    \/ DoPrepend(path)
    \/ DoPop(path)
    \/ DoShift(path)
    \/ DoErase(path)

Spec == Init /\ [][Next]_vars

-----------------------------------------------------------------------------
(* The document is nullptr or a node with all its parts.                   *)
TypeOK == use \in Uses /\ IsDocument(doc)

Incomparable(p, q) == ~IsPrefix(p, q) /\ ~IsPrefix(q, p)

CanonicalPath(path) == \A i \in DOMAIN path : IsCanonical(path[i])

(* Paths that do not meet, and that name every array index in one way      *)
(* only, and the transforms of an operation on each.                       *)
ApartPaths ==
  {pair \in Paths \X Paths :
     /\ Incomparable(pair[1], pair[2])
     /\ CanonicalPath(pair[1]) /\ CanonicalPath(pair[2])}

DisjointPairs == UNION {OpsAt(pair[1]) \X OpsAt(pair[2]) : pair \in ApartPaths}

Result(op) == Apply(op, Get(doc, op.path))

Exists == doc # NullPtr

(***************************************************************************)
(* node::set and node::get agree on a path, through objects, array         *)
(* padding, array-to-object conversion and values replaced by objects: the *)
(* pointer set, nullptr included, is the one read back.  And node::set     *)
(* loses nothing: a node on a path that does not meet the one set is still *)
(* there, even when the array that held it has been padded or has become   *)
(* an object (node_array::set_impl).                                       *)
(***************************************************************************)
SetChangesOnePath ==
  Exists =>
    \A p \in Paths, ptr \in Pointers :
      LET after == Set(doc, p, ptr)
      IN  /\ Get(after, p) = ptr
          /\ \A q \in Paths :
               Incomparable(p, q) /\ CanonicalPath(p) /\ CanonicalPath(q) /\ Get(doc, q) # NullPtr
                 => Get(after, q) = Get(doc, q)

(***************************************************************************)
(* node::transform acts on the paths at once: each operation's path holds  *)
(* its result on the original document, whatever the other one did.        *)
(***************************************************************************)
EveryOperationTakesEffect ==
  \A ops \in DisjointPairs :
    CanTransform(doc, ops) =>
      LET after == Transform(doc, ops)
      IN  \A i \in 1..2 : Get(after, ops[i].path) = Result(ops[i])

(***************************************************************************)
(* The order of the operations of node::transform does not matter as long  *)
(* as none goes into an array (padding and conversion depend on what is    *)
(* there already) and none stores nullptr below a node that is missing.    *)
(***************************************************************************)
IntoArray(path) ==
  \E i \in 0..(Len(path) - 1) : Get(doc, SubSeq(path, 1, i)).kind = "array"

OrderDoesNotMatter ==
  Exists =>
    \A ops \in DisjointPairs :
      (\A i \in 1..2 : /\ ~IntoArray(ops[i].path)
                       /\ Result(ops[i]) = NullPtr => Get(doc, ops[i].path) # NullPtr)
      => Transform(doc, ops) = Transform(doc, Reverse(ops))

(* Neither the document nor what clients bring has a hole.                 *)
NoHoles == \A node \in Values \cup {doc} : HoleFree(node)

(***************************************************************************)
(* No transform makes the first hole: it stores no nullptr in a container  *)
(* when each of its operations leaves a node, or deletes a member of an    *)
(* object that is there (node_object::set_impl erases the key).            *)
(***************************************************************************)
StoresNoHole(op) ==
  \/ Result(op) # NullPtr
  \/ op.path # <<>> /\ Get(doc, Front(op.path)).kind = "object"

SafeOperationsMakeNoHole ==
  Exists /\ NoHoles =>
    \A ops \in DisjointPairs :
      (\A i \in 1..2 : StoresNoHole(ops[i])) => HoleFree(Transform(doc, ops))

(***************************************************************************)
(* transform (curNode->set) and erase (its operator==) dereference no      *)
(* nullptr where there are no holes, whatever is set or deleted below the  *)
(* root.                                                                   *)
(***************************************************************************)
NoNullDereference ==
  Exists /\ NoHoles =>
    \A p, q \in Paths \ {<<>>} :
      \A ops \in OpsAt(p) \X OpsAt(q) : CanTransform(doc, ops)

(***************************************************************************)
(* The array operators undo each other: pop a push, shift a prepend, and   *)
(* erase a prepend, for the first occurrence is the one erased.  What was  *)
(* pushed is found by in_condition.                                        *)
(***************************************************************************)
ArrayOperatorsUndo ==
  Exists =>
    \A path \in Paths, v \in Values :
      LET old == Get(doc, path)
          after(op) == Transform(doc, <<op>>)
          undone(op, undo) == Get(Transform(after(op), <<undo>>), path)
      IN  /\ Fold(after(PushOp(path, v)), <<In(path, v)>>)
          /\ Fold(after(PrependOp(path, v)), <<In(path, v)>>)
          /\ old.kind = "array" =>
               /\ undone(PushOp(path, v), PopOp(path)) = old
               /\ undone(PrependOp(path, v), ShiftOp(path)) = old
               /\ undone(PrependOp(path, v), EraseOp(path, v)) = old

(***************************************************************************)
(* A condition and its not_condition_adapter partner: of a missing node    *)
(* neither holds, of a node that is there exactly one.  in_condition is    *)
(* restricted to arrays; a node of another kind is NotIn, for the default  *)
(* passes through invert_if_required (node-conditions.h:46, 77), although  *)
(* the comment at node-conditions.h:34 exempts the default action.         *)
(***************************************************************************)
NegationPartitions ==
  Exists =>
    \A path \in Paths, v \in Values :
      LET holds(cond) == Fold(doc, <<cond>>)
          ptr == Get(doc, path)
      IN  /\ ptr = NullPtr =>
               ~(\/ holds(Equal(path, v)) \/ holds(NotEqual(path, v))
                 \/ holds(In(path, v))    \/ holds(NotIn(path, v)))
          /\ ptr # NullPtr =>
               /\ holds(Equal(path, v)) = ~holds(NotEqual(path, v))
               /\ holds(In(path, v)) = ~holds(NotIn(path, v))
               /\ ptr.kind # "array" => holds(NotIn(path, v))

(***************************************************************************)
(* node::extract holds at the paths that are listed what the document      *)
(* holds there, also when one path leads below another: but for a path     *)
(* that is listed after one above it and leads to nothing, which deletes   *)
(* from, or builds upon, what the one above has put there.                 *)
(***************************************************************************)
ExtractHoldsThePaths ==
  Exists =>
    \A p, q \in Paths :
      (IsStrictPrefix(p, q) => Get(doc, q) # NullPtr) =>
        LET extract == Extract(doc, <<p, q>>)
        IN  Get(extract, p) = Get(doc, p) /\ Get(extract, q) = Get(doc, q)

Overlays == {<<doc, other>> : other \in Others} \cup {<<other, doc>> : other \in Others}

ObjectsMeet(base, ov, path, n) ==
  \A i \in 0..(n - 1) :
    LET prefix == SubSeq(path, 1, i)
    IN  Get(base, prefix).kind = "object" /\ Get(ov, prefix).kind = "object"

FollowsPath(base, ov, path) ==
  LET there == Get(Overlay(base, ov), path)
  IN  /\ Get(ov, path).kind \notin {"nullptr", "array", "object"} => there = Get(ov, path)
      /\ \A n \in DOMAIN path :
           LET over == Get(ov, SubSeq(path, 1, n - 1))
           IN  ObjectsMeet(base, ov, path, n) =>
                 /\ path[n] \notin DOMAIN over.members => there = Get(base, path)
                 /\ path[n] \in DOMAIN over.members /\ Child(over, path[n]) = NullPtr =>
                      there = NullPtr

(***************************************************************************)
(* node::overlay(base, ov) along a path: a value of the overlay is there   *)
(* whatever the base has on the way; what an object of the base holds      *)
(* under a key that the overlay's object does not mention is still there,  *)
(* and under a key that it maps to nullptr is not.  And an overlay of      *)
(* documents without a nullptr in a container has none.                    *)
(***************************************************************************)
OverlayFollowsPaths ==
  Exists =>
    \A pair \in Overlays :
      /\ \A path \in Paths \ {<<>>} : FollowsPath(pair[1], pair[2], path)
      /\ HoleFree(pair[1]) /\ HoleFree(pair[2]) => HoleFree(Overlay(pair[1], pair[2]))

-----------------------------------------------------------------------------
(***************************************************************************)
(* A statement the code makes about itself that a document can break.      *)
(*                                                                         *)
(* node.cpp:156: every element of an array is a node,                      *)
(* assert(member != nullptr).                                              *)
(***************************************************************************)
ArrayElementsAreNodes ==
  \A n \in Descendants(doc) : n.kind = "array" => NullPtr \notin Range(n.elems)

=============================================================================
