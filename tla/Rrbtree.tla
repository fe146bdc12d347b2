------------------------------ MODULE Rrbtree ------------------------------
(***************************************************************************)
(* The sequences that hold the elements of a node_array: immer's relaxed   *)
(* radix balanced trees, immer/immer/detail/rbts/.  A tree has leaves of   *)
(* up to 2^BL elements and inner nodes of up to 2^B children; a relaxed    *)
(* node keeps the sizes of its children, a regular one has full children   *)
(* and finds them by the bits of an index.  The last leaf, the tail, is    *)
(* kept beside the tree.                                                   *)
(*                                                                         *)
(* This module is about values: which nodes an operation makes of which.   *)
(* The variants that work in place (push_back_mut, push_tail_mut, get_mut, *)
(* concat_mut_l, concat_mut_lr_l), for transients and for vectors about to *)
(* be destroyed, write to a node only if nobody shares it and else make    *)
(* the same nodes as the others.                                           *)
(***************************************************************************)
EXTENDS Integers, Sequences, FiniteSets, SequencesExt

CONSTANTS
  B,   \* bits: an inner node has up to 2^B children
  BL   \* bits_leaf: a leaf has up to 2^BL elements

ASSUME BitsAssumption == B \in Nat /\ B >= 2 /\ BL \in Nat

Branches     == 2 ^ B
LeafBranches == 2 ^ BL

Leaf(elements) == [kind |-> "leaf", elements |-> elements]
Regular(children) == [kind |-> "inner", children |-> children, sizes |-> <<>>]
Relaxed(children, sizes) == [kind |-> "inner", children |-> children, sizes |-> sizes]

IsRelaxed(node) == node.sizes # <<>>
None == [kind |-> "none"]

First(n, seq) == SubSeq(seq, 1, n)
Sums(sizes) == [i \in DOMAIN sizes |-> FoldLeft(+, 0, First(i, sizes))]

-----------------------------------------------------------------------------
(* Positions: an inner node, its level and where its children end.         *)
RegularPos(node, shift, size) ==
  LET count == (size - 1) \div 2 ^ shift + 1
  IN  [node |-> node, shift |-> shift, relaxed |-> FALSE,
       ends |-> [i \in 1..count |-> IF i < count THEN i * 2 ^ shift ELSE size]]

RelaxedPos(node, shift) ==
  [node |-> node, shift |-> shift, relaxed |-> TRUE, ends |-> node.sizes]

SubPos(node, shift, size) ==
  IF IsRelaxed(node) THEN RelaxedPos(node, shift) ELSE RegularPos(node, shift, size)

Count(p) == Len(p.ends)
SizeBefore(p, i) == IF i = 1 THEN 0 ELSE p.ends[i - 1]
SizeOf(p, i) == p.ends[i] - SizeBefore(p, i)
Size(p) == Last(p.ends)

(* The child that holds the element idx, counted from 0.                   *)
Index(p, idx) ==
  Min({i \in (idx \div 2 ^ p.shift) + 1 .. Count(p) : p.ends[i] > idx})

Child(p, i) ==
  IF p.relaxed THEN SubPos(p.node.children[i], p.shift - B, SizeOf(p, i))
  ELSE RegularPos(p.node.children[i], p.shift - B, SizeOf(p, i))

LeafElements(p, i) == First(SizeOf(p, i), p.node.children[i].elements)

-----------------------------------------------------------------------------
(* Vectors.                                                                *)
EmptyRoot == Regular(<<>>)
Empty == [size |-> 0, shift |-> BL, root |-> EmptyRoot, tail |-> <<>>]

TailOffset(v) ==
  IF IsRelaxed(v.root) THEN Last(v.root.sizes)
  ELSE IF v.size > 0 THEN ((v.size - 1) \div LeafBranches) * LeafBranches ELSE 0

TailSize(v) == v.size - TailOffset(v)

RootPos(v) == SubPos(v.root, v.shift, TailOffset(v))

RECURSIVE ElementAt(_, _)

(* get: down to a leaf by the index.                                       *)
ElementAt(p, idx) ==
  LET i == Index(p, idx)
      rest == idx - SizeBefore(p, i)
  IN  IF p.shift = BL THEN LeafElements(p, i)[rest + 1] ELSE ElementAt(Child(p, i), rest)

Get(v, idx) ==
  IF idx >= TailOffset(v) THEN v.tail[idx - TailOffset(v) + 1] ELSE ElementAt(RootPos(v), idx)

(* traverse: the leaves from left to right.                                *)
RECURSIVE Leaves(_)
Leaves(p) ==
  FlattenSeq([i \in DOMAIN p.ends |->
    IF p.shift = BL THEN <<LeafElements(p, i)>> ELSE Leaves(Child(p, i))])

Contents(v) ==
  (IF TailOffset(v) > 0 THEN FlattenSeq(Leaves(RootPos(v))) ELSE <<>>) \o First(TailSize(v), v.tail)

-----------------------------------------------------------------------------
(* push_tail_visitor: None if the node is full.                            *)
RECURSIVE MakePath(_, _)
MakePath(shift, leaf) ==
  IF shift < BL THEN leaf ELSE Regular(<<MakePath(shift - B, leaf)>>)

RECURSIVE PushTail(_, _)

(* Mutant: no new child for a tail that the last one cannot take.          *)
PushTailRelaxedInLast(p, tail) ==
  LET last   == Count(p)
      full   == SizeOf(p, last) = 2 ^ p.shift \/ p.shift = BL
      pushed == IF full THEN None ELSE PushTail(Child(p, last), tail)
      at     == IF full THEN last + 1 ELSE last
      child  == IF full THEN MakePath(p.shift - B, Leaf(tail)) ELSE pushed
  IN  IF at > Branches \/ child = None THEN None
      ELSE Relaxed(Append(First(at - 1, p.node.children), child),
                   Append(First(at - 1, p.ends), Size(p) + Len(tail)))

PushTailRelaxed(p, tail) ==
  LET last   == Count(p)
      full   == SizeOf(p, last) = 2 ^ p.shift \/ p.shift = BL
      pushed == IF full THEN None ELSE PushTail(Child(p, last), tail)
      at     == IF pushed = None THEN last + 1 ELSE last
      child  == IF pushed = None THEN MakePath(p.shift - B, Leaf(tail)) ELSE pushed
  IN  IF at > Branches THEN None
      ELSE Relaxed(Append(First(at - 1, p.node.children), child),
                   Append(First(at - 1, p.ends), Size(p) + Len(tail)))

PushTailRegular(p, tail) ==
  LET at == (((Size(p) + LeafBranches - 1) \div 2 ^ p.shift) % Branches) + 1
      child == IF at = Count(p) THEN PushTail(Child(p, at), tail)
               ELSE MakePath(p.shift - B, Leaf(tail))
  IN  Regular(Append(First(at - 1, p.node.children), child))

PushTail(p, tail) == IF p.relaxed THEN PushTailRelaxed(p, tail) ELSE PushTailRegular(p, tail)

(* push_tail: the new shift and root.                                      *)
Pushed(root, shift, size, tail) ==
  LET path == MakePath(shift, Leaf(tail))
      pushed == PushTail(SubPos(root, shift, size), tail)
      taller(node) == [shift |-> shift + B, root |-> node]
      same(node) == [shift |-> shift, root |-> node]
  IN  CASE IsRelaxed(root) /\ pushed = None ->
             taller(Relaxed(<<root, path>>, <<size, size + Len(tail)>>))
        [] ~IsRelaxed(root) /\ size = Branches * 2 ^ shift -> taller(Regular(<<root, path>>))
        [] ~IsRelaxed(root) /\ size = 0 -> same(path)
        [] OTHER -> same(pushed)

Vector(size, top, tail) == [size |-> size, shift |-> top.shift, root |-> top.root, tail |-> tail]

PushBack(v, x) ==
  IF TailSize(v) < LeafBranches
    THEN [v EXCEPT !.size = @ + 1, !.tail = Append(First(TailSize(v), @), x)]
  ELSE Vector(v.size + 1, Pushed(v.root, v.shift, TailOffset(v), v.tail), <<x>>)

-----------------------------------------------------------------------------
(* get_mut_visitor, update_visitor.                                        *)
RECURSIVE Update(_, _, _)
Update(p, idx, x) ==
  LET i == Index(p, idx)
      rest == idx - SizeBefore(p, i)
      child == IF p.shift = BL THEN Leaf([LeafElements(p, i) EXCEPT ![rest + 1] = x])
               ELSE Update(Child(p, i), rest, x)
  IN  [p.node EXCEPT !.children = [First(Count(p), @) EXCEPT ![i] = child]]

Assoc(v, idx, x) ==
  IF idx >= TailOffset(v) THEN [v EXCEPT !.tail[idx - TailOffset(v) + 1] = x]
  ELSE [v EXCEPT !.root = Update(RootPos(v), idx, x)]

-----------------------------------------------------------------------------
(* slice_right_visitor: what is left of a node up to the element last,     *)
(* without the leaf of that element, which becomes the tail.               *)
Slice(shift, node, tail) == [shift |-> shift, node |-> node, tail |-> tail]

(* Mutant: where the new last child ends is counted with the tail.         *)
CutNodeWithTail(p, i, last, next, tail) ==
  LET children == Append(First(i - 1, p.node.children), next)
  IN  IF p.relaxed THEN Relaxed(children, Append(First(i - 1, p.ends), last + 1))
      ELSE Regular(children)

CutNode(p, i, last, next, tail) ==
  LET children == Append(First(i - 1, p.node.children), next)
  IN  IF p.relaxed THEN Relaxed(children, Append(First(i - 1, p.ends), last + 1 - Len(tail)))
      ELSE Regular(children)

RECURSIVE SliceRight(_, _, _)
SliceRight(p, last, collapse) ==
  LET i     == Index(p, last)
      rest  == last - SizeBefore(p, i)
      below(c) == IF p.shift = BL THEN Slice(0, None, First(rest + 1, LeafElements(p, i)))
                  ELSE SliceRight(Child(p, i), rest, c)
      sub   == below(FALSE)
      left  == First(i - 1, p.node.children)
  IN  CASE collapse /\ i = 1 -> below(TRUE)
        [] ~(collapse /\ i = 1) /\ sub.node # None ->
             Slice(p.shift, CutNode(p, i, last, sub.node, sub.tail), sub.tail)
        [] ~collapse /\ i = 1 /\ sub.node = None -> Slice(p.shift, None, sub.tail)
        [] collapse /\ i = 2 /\ p.shift > BL /\ sub.node = None -> Slice(p.shift - B, left[1], sub.tail)
        [] OTHER ->
             Slice(p.shift,
                   IF p.relaxed THEN Relaxed(left, First(i - 1, p.ends)) ELSE Regular(left),
                   sub.tail)

Take(v, size) ==
  LET slice == SliceRight(RootPos(v), size - 1, TRUE)
  IN  CASE size = 0 -> Empty
        [] size >= v.size -> v
        [] 0 < size /\ size < v.size /\ size > TailOffset(v) ->
             [v EXCEPT !.size = size, !.tail = First(size - TailOffset(v), @)]
        [] OTHER ->
             IF slice.node = None THEN [Empty EXCEPT !.size = size, !.tail = slice.tail]
             ELSE [size |-> size, shift |-> slice.shift, root |-> slice.node, tail |-> slice.tail]

-----------------------------------------------------------------------------
(* slice_left_visitor: what is left of a node from the element first on.   *)
RECURSIVE SliceLeft(_, _, _)

SliceLeft(p, first, collapse) ==
  LET i     == Index(p, first)
      rest  == first - SizeBefore(p, i)
      child == IF p.shift = BL THEN Leaf(SubSeq(LeafElements(p, i), rest + 1, SizeOf(p, i)))
               ELSE SliceLeft(Child(p, i), rest, FALSE).node
  IN  IF collapse /\ p.shift > BL /\ i = Count(p) THEN SliceLeft(Child(p, i), rest, TRUE)
      ELSE [shift |-> p.shift,
            node |-> Relaxed(<<child>> \o SubSeq(p.node.children, i + 1, Count(p)),
                             [j \in 1..Count(p) - i + 1 |-> p.ends[i + j - 1] - first])]

Drop(v, elems) ==
  LET slice == SliceLeft(RootPos(v), elems, TRUE)
      size  == v.size - elems
  IN  CASE elems = 0 -> v
        [] elems >= v.size -> Empty
        [] 0 < elems /\ elems < v.size /\ elems >= TailOffset(v) ->
             [Empty EXCEPT !.size = size,
                           !.tail = SubSeq(v.tail, elems - TailOffset(v) + 1, TailSize(v))]
        [] OTHER -> [size |-> size, shift |-> slice.shift, root |-> slice.node, tail |-> v.tail]

=============================================================================
