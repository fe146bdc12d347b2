------------------------------- MODULE Arrays -------------------------------
(***************************************************************************)
(* The arrays of the agency, node_array in node.cpp, on immer::flex_vector *)
(* (flex_vector.hpp): every array that push, prepend, pop, shift, erase    *)
(* and set can lead to, by the shapes of its tree.                         *)
(***************************************************************************)
EXTENDS RrbConcat

CONSTANTS
  MaxSize   \* bound: elements of an array

VARIABLES
  vector,   \* the array, with its elements numbered in the order they should have
  length,   \* how many it should have
  sound     \* no assertion has failed, no array was read out of bounds

vars == <<vector, length, sound>>

New == 0

(* The elements are what an array never looks at: after each operation     *)
(* they are numbered again, in the order that the operation promises.      *)
Number(x, promised) == SelectInSeq(promised, LAMBDA y : y = x)

RECURSIVE Renumbered(_, _)
Renumbered(node, promised) ==
  IF node.kind = "leaf"
    THEN Leaf([i \in DOMAIN node.elements |-> Number(node.elements[i], promised)])
    ELSE [node EXCEPT !.children = [i \in DOMAIN @ |-> Renumbered(@[i], promised)]]

Become(made, promised) ==
  /\ vector' = [made.vector EXCEPT
                  !.root = Renumbered(@, promised),
                  !.tail = [i \in DOMAIN @ |-> Number(@[i], promised)]]
  /\ length' = Len(promised)
  /\ sound' = (sound /\ made.sound)

Numbers == [i \in 1..length |-> i]

(* What a request reads an array of n elements into: from_slice.           *)
RECURSIVE FromSlice(_)
FromSlice(n) == IF n = 0 THEN Empty ELSE PushBack(FromSlice(n - 1), n)

Init ==
  /\ length \in 0..MaxSize
  /\ vector = FromSlice(length)
  /\ sound = TRUE

Push ==
  /\ length < MaxSize
  /\ Become(Made(PushBack(vector, New), TRUE), Append(Numbers, New))

(* prepend: push_front is a vector of one element + this one, concat_mut_l *)
(* as the first one is a temporary.                                        *)
Prepend ==
  /\ length < MaxSize
  /\ \E made \in {Concat(PushBack(Empty, New), vector)} : Become(made, <<New>> \o Numbers)

Pop ==
  /\ length > 0
  /\ \E made \in {Made(Take(vector, vector.size - 1), TRUE)} : Become(made, Front(Numbers))

Shift ==
  /\ length > 0
  /\ \E made \in {Made(Drop(vector, 1), TRUE)} : Become(made, Tail(Numbers))

(* erase: take(pos) + drop(pos + 1), by concat_mut_lr_l.                   *)
Erase(pos) ==
  \E made \in {Concat(Take(vector, pos), Drop(vector, pos + 1))} :
    Become(made, RemoveAt(Numbers, pos + 1))

Set(pos) ==
  \E made \in {Made(Assoc(vector, pos, New), TRUE)} :
    Become(made, [Numbers EXCEPT ![pos + 1] = New])

Next ==
  \/ Push \/ Prepend \/ Pop \/ Shift
  \/ \E pos \in 0..length - 1 : Erase(pos) \/ Set(pos)

Spec == Init /\ [][Next]_vars

-----------------------------------------------------------------------------
(***************************************************************************)
(* Type correctness, as node::check and rrbtree::check_tree have it:       *)
(* leaves at one level, regular nodes with full children but the last,     *)
(* relaxed nodes with the sizes of their children, and none empty.         *)
(***************************************************************************)
RECURSIVE Check(_, _, _)
Check(node, shift, size) ==
  LET p == SubPos(node, shift, size)
  IN  IF shift < BL THEN node.kind = "leaf" /\ Len(node.elements) = size /\ size \in 1..LeafBranches
      ELSE /\ node.kind = "inner"
           /\ Count(p) \in 1..Branches /\ Len(node.children) = Count(p)
           /\ Size(p) = size
           /\ \A i \in 1..Count(p) :
                /\ SizeOf(p, i) \in 1..2 ^ shift
                /\ ~p.relaxed /\ shift > BL => ~IsRelaxed(node.children[i])
                /\ Check(node.children[i], shift - B, SizeOf(p, i))

TypeOK ==
  /\ vector.size \in Nat
  /\ vector.shift >= BL /\ (vector.shift - BL) % B = 0
  /\ IF TailOffset(vector) = 0 THEN vector.root = EmptyRoot
     ELSE Check(vector.root, vector.shift, TailOffset(vector))
  /\ TailSize(vector) = Len(vector.tail) /\ TailSize(vector) \in 0..LeafBranches

(***************************************************************************)
(* flex_vector.hpp: an array is a sequence.  Whatever has been pushed,     *)
(* prepended, popped, shifted, erased and set before, an operation leaves  *)
(* exactly the elements it should, in order: slicing and concatenation     *)
(* lose, repeat and misplace none, whatever shape the trees have.  get     *)
(* finds by index what a traversal meets there; its search in              *)
(* relaxed_pos::index starts at a guess that must not be too far right.    *)
(***************************************************************************)
ArraysAreSequences ==
  /\ Contents(vector) = Numbers
  /\ \A i \in 1..vector.size : Get(vector, i - 1) = i

(***************************************************************************)
(* The assertions of concat_center_pos, concat_rebalance_plan and realize  *)
(* hold, and shuffle always finds a short node and stays within counts.    *)
(***************************************************************************)
AssertionsHold == sound

(***************************************************************************)
(* position.hpp:1822 descends six levels and no more: trees must not grow  *)
(* taller than their size calls for, however long arrays are edited.  They *)
(* never have more than one level beyond what MaxSize elements need.       *)
(***************************************************************************)
Depth == (vector.shift - BL) \div B

TreesStayShallow ==
  \A depth \in 0..Depth - 2 : Branches ^ (depth + 1) * LeafBranches < MaxSize

=============================================================================
