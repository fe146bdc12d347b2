----------------------------- MODULE RrbConcat -----------------------------
(***************************************************************************)
(* Concatenation of relaxed radix balanced trees, operations.hpp: along    *)
(* the right edge of the left tree and the left edge of the right one,     *)
(* nodes are merged and redistributed, level by level from the leaves.     *)
(*                                                                         *)
(* A center (concat_center_pos) is what replaces the two edges: up to      *)
(* three nodes, where they end, the level of their parent, and whether     *)
(* every assertion has held and every array has been read within bounds.   *)
(***************************************************************************)
EXTENDS Rrbtree

Center(shift, nodes, ends, sound) ==
  [shift |-> shift, nodes |-> nodes, ends |-> ends, sound |-> sound]

MaxChildren == 3                        \* concat_center_pos::max_children
MaxCounts   == 2 * Branches + 1         \* concat_rebalance_plan::max_children

-----------------------------------------------------------------------------
(* What is merged at a level: nodes with the items they hold, elements or  *)
(* children, and the sizes of these.                                       *)
Sub(node, items, sizes) == [node |-> node, items |-> items, sizes |-> sizes]

LeafSub(elements) == Sub(Leaf(elements), elements, [i \in DOMAIN elements |-> 1])
InnerSub(p) ==
  Sub(p.node, First(Count(p), p.node.children), [i \in DOMAIN p.ends |-> SizeOf(p, i)])

ChildSub(p, i) == IF p.shift = BL THEN LeafSub(LeafElements(p, i)) ELSE InnerSub(Child(p, i))

ChildSubs(p, from, to) == [i \in 1..to - from + 1 |-> ChildSub(p, from + i - 1)]

CenterSub(c, i) ==
  IF c.shift = BL THEN LeafSub(c.nodes[i].elements) ELSE InnerSub(RelaxedPos(c.nodes[i], c.shift - B))

CenterSubs(c) == [i \in DOMAIN c.nodes |-> CenterSub(c, i)]

-----------------------------------------------------------------------------
(* concat_rebalance_plan::shuffle.                                         *)
Plan(counts, sound) == [counts |-> counts, sound |-> sound]

(* From the short node i on, remaining items move to the left.             *)
RECURSIVE Redistribute(_, _, _, _)
Redistribute(counts, i, remaining, branches) ==
  LET both  == remaining + counts[i + 1]
      count == IF both < branches THEN both ELSE branches
      next  == [counts EXCEPT ![i] = count]
  IN  IF i = Len(counts) THEN Plan(counts, FALSE)
      ELSE IF both = count THEN Plan(RemoveAt(next, i + 1), TRUE)
      ELSE Redistribute(next, i + 1, both - count, branches)

(* Mutant: one more node than is needed is not accepted.                   *)
RECURSIVE Shuffle(_, _, _)
ShuffleAll(counts, branches, optimal) ==
  LET short == {i \in DOMAIN counts : counts[i] < branches}
      plan  == Redistribute(counts, Min(short), counts[Min(short)], branches)
  IN  IF Len(counts) < optimal THEN Plan(counts, TRUE)
      ELSE IF short = {} \/ ~plan.sound THEN Plan(counts, FALSE)
      ELSE Shuffle(plan.counts, branches, optimal)

Shuffle(counts, branches, optimal) ==
  LET short == {i \in DOMAIN counts : counts[i] < branches}
      plan  == Redistribute(counts, Min(short), counts[Min(short)], branches)
  IN  IF Len(counts) < optimal + 2 THEN Plan(counts, TRUE)
      ELSE IF short = {} \/ ~plan.sound THEN Plan(counts, FALSE)
      ELSE Shuffle(plan.counts, branches, optimal)

Planned(counts, shift) ==
  LET branches == IF shift = BL THEN LeafBranches ELSE Branches
      total    == FoldLeft(+, 0, counts)
  IN  Shuffle(counts, branches, ((total - 1) \div branches) + 1)

-----------------------------------------------------------------------------
(* concat_merger: the items in groups of the planned counts; a node that   *)
(* already holds such a group is used again.                               *)
Slices(seq, counts) ==
  LET ends == Sums(counts)
  IN  [i \in DOMAIN counts |-> SubSeq(seq, ends[i] - counts[i] + 1, ends[i])]

Starts(counts) == LET ends == Sums(counts) IN [i \in DOMAIN counts |-> ends[i] - counts[i]]

(* Mutant: a node of the right length is used again, whatever it holds.    *)
GroupsByLength(subs, plan, shift) ==
  LET items   == Slices(FlattenSeq([i \in DOMAIN subs |-> subs[i].items]), plan)
      sizes   == Slices(FlattenSeq([i \in DOMAIN subs |-> subs[i].sizes]), plan)
      counts  == [i \in DOMAIN subs |-> Len(subs[i].items)]
      same(g) == {i \in DOMAIN subs : counts[i] = plan[g] /\ i >= g}
      node(g) == IF same(g) # {} THEN subs[Min(same(g))].node
                 ELSE IF shift = BL THEN Leaf(items[g]) ELSE Relaxed(items[g], Sums(sizes[g]))
  IN  [g \in DOMAIN plan |-> [node |-> node(g), size |-> FoldLeft(+, 0, sizes[g])]]

Groups(subs, plan, shift) ==
  LET items   == Slices(FlattenSeq([i \in DOMAIN subs |-> subs[i].items]), plan)
      sizes   == Slices(FlattenSeq([i \in DOMAIN subs |-> subs[i].sizes]), plan)
      counts  == [i \in DOMAIN subs |-> Len(subs[i].items)]
      same(g) == {i \in DOMAIN subs : counts[i] = plan[g] /\ Starts(counts)[i] = Starts(plan)[g]}
      node(g) == IF same(g) # {} THEN subs[Min(same(g))].node
                 ELSE IF shift = BL THEN Leaf(items[g]) ELSE Relaxed(items[g], Sums(sizes[g]))
  IN  [g \in DOMAIN plan |-> [node |-> node(g), size |-> FoldLeft(+, 0, sizes[g])]]

Parent(groups, first, last) ==
  LET below == SubSeq(groups, first, last)
  IN  Relaxed([i \in DOMAIN below |-> below[i].node], Sums([i \in DOMAIN below |-> below[i].size]))

Merged(subs, plan, c) ==
  LET groups == Groups(subs, plan.counts, c.shift)
      sums   == Sums([g \in DOMAIN groups |-> groups[g].size])
      count  == (Len(groups) - 1) \div Branches + 1
      last(i) == IF i < count THEN i * Branches ELSE Len(groups)
  IN  Center(c.shift + B,
             [i \in 1..count |-> Parent(groups, (i - 1) * Branches + 1, last(i))],
             [i \in 1..count |-> sums[last(i)]],
             c.sound /\ plan.sound /\ Len(subs) <= MaxCounts /\ count <= MaxChildren)

Rebalance(subs, c) ==
  Merged(subs, Planned([i \in DOMAIN subs |-> Len(subs[i].items)], c.shift), c)

-----------------------------------------------------------------------------
ConcatLeafs(l, t, r) ==
  LET leaves == IF t = <<>> THEN <<l, r>> ELSE <<l, t, r>>
  IN  Center(BL, [i \in DOMAIN leaves |-> Leaf(leaves[i])],
             [i \in DOMAIN leaves |-> Len(leaves[i])], TRUE)

RECURSIVE ConcatInners(_, _, _)
ConcatInners(l, t, r) ==
  LET leftSubs  == ChildSubs(l, 1, Count(l) - 1)
      rightSubs == ChildSubs(r, 2, Count(r))
      c == CASE l.shift > r.shift -> ConcatInners(Child(l, Count(l)), t, r)
             [] l.shift < r.shift -> ConcatInners(l, t, Child(r, 1))
             [] l.shift = r.shift /\ l.shift = BL ->
                  ConcatLeafs(LeafElements(l, Count(l)), t, LeafElements(r, 1))
             [] OTHER -> ConcatInners(Child(l, Count(l)), t, Child(r, 1))
  IN  Rebalance((IF l.shift >= r.shift THEN leftSubs ELSE <<>>)
                \o CenterSubs(c)
                \o (IF l.shift <= r.shift THEN rightSubs ELSE <<>>), c)

(* concat_center_pos::realize.                                             *)
Realize(c) ==
  IF Len(c.nodes) > 1 THEN [shift |-> c.shift, root |-> Relaxed(c.nodes, c.ends), sound |-> c.sound]
  ELSE [shift |-> c.shift - B, root |-> c.nodes[1], sound |-> c.sound /\ c.shift >= B + BL]

(* concat_trees; a tail alone is the only leaf of a tree.                  *)
ConcatTrees(v, r) ==
  LET alone == RegularPos(Regular(<<Leaf(v.tail)>>), BL, v.size)
      l == IF TailOffset(v) = 0 THEN alone ELSE RootPos(v)
      t == IF TailOffset(v) = 0 THEN <<>> ELSE First(TailSize(v), v.tail)
  IN  Realize(ConcatInners(l, t, RootPos(r)))

(* concat_mut_lr_l: the vector, and whether it was made soundly.  edit_t   *)
(* has no members, so trees are concatenated as rrbtree::concat does.      *)
Made(v, sound) == [vector |-> v, sound |-> sound]

(* The right vector is but a tail.                                         *)
ConcatTail(v, r) ==
  LET elements == First(TailSize(v), v.tail) \o First(r.size, r.tail)
      full == Pushed(v.root, v.shift, TailOffset(v), First(LeafBranches, elements))
  IN  IF Len(elements) <= LeafBranches
        THEN [v EXCEPT !.size = @ + r.size, !.tail = elements]
      ELSE Vector(v.size + r.size, full, SubSeq(elements, LeafBranches + 1, Len(elements)))

Concat(v, r) ==
  LET trees == ConcatTrees(v, r)
  IN  IF v.size = 0 THEN Made(r, TRUE)
      ELSE IF r.size = 0 THEN Made(v, TRUE)
      ELSE IF TailOffset(r) = 0 THEN Made(ConcatTail(v, r), TRUE)
      ELSE Made(Vector(v.size + r.size, trees, r.tail), trees.sound)

=============================================================================
