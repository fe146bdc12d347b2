------------------------------ MODULE ChampMap ------------------------------
(***************************************************************************)
(* Reading the maps of Champ: find, operator== and the iterator that       *)
(* node.cpp compares, lays over and prints objects with; and what the maps *)
(* promise.                                                                *)
(***************************************************************************)
EXTENDS Champ

-----------------------------------------------------------------------------
(* champ::get.  Absent stands for the default.                             *)
Absent == 0

ASSUME ValuesAssumption == \A k \in Keys : Absent \notin ValuesOf[k]

RECURSIVE Find(_, _, _)
Find(id, k, shift) ==
  LET node == blocks[id]
      i == Index(k, shift)
      entries == EntriesOf(blocks, id)
      found(e) == IF e.key = k THEN e.value ELSE Absent
  IN  CASE shift = MaxShift ->
             IF At(entries, k) = {} THEN Absent ELSE entries[Min(At(entries, k))].value
        [] shift < MaxShift /\ i \in node.nodemap ->
             Find(node.children[Offset(node.nodemap, i)], k, shift + Bits)
        [] shift < MaxShift /\ i \in node.datamap \ node.nodemap ->
             found(entries[Offset(node.datamap, i)])
        [] OTHER -> Absent

Get(h, k) == Find(maps[h].root, k, 0)

(* champ::equals with equal_value.                                         *)
RECURSIVE EqualsTree(_, _, _)
EqualsTree(a, b, depth) ==
  LET x == blocks[a]
      y == blocks[b]
  IN  \/ a = b
      \/ /\ depth = MaxDepth
         /\ Len(x.entries) = Len(y.entries)
         /\ \A e \in Range(x.entries) : e \in Range(y.entries)
      \/ /\ depth < MaxDepth
         /\ x.nodemap = y.nodemap /\ x.datamap = y.datamap
         /\ \A i \in DOMAIN x.children : EqualsTree(x.children[i], y.children[i], depth + 1)
         /\ EntriesOf(blocks, a) = EntriesOf(blocks, b)

Equals(g, h) == maps[g].size = maps[h].size /\ EqualsTree(maps[g].root, maps[h].root, 0)

-----------------------------------------------------------------------------
(* champ_iterator: the node it is at, as child positions on the way down   *)
(* from the root, and the entries of that node that are still to come.     *)
RECURSIVE NodeAt(_, _)
NodeAt(root, path) == IF path = <<>> THEN root ELSE NodeAt(blocks[root].children[Head(path)], Tail(path))

(* A node without entries leaves cur_ and end_ as they are.                *)
MoveTo(root, cursor, path) ==
  LET entries == EntriesOf(blocks, NodeAt(root, path))
  IN  [path |-> path, left |-> IF entries = <<>> THEN cursor.left ELSE entries]

CanStepDown(root, cursor) ==
  Len(cursor.path) < MaxDepth /\ blocks[NodeAt(root, cursor.path)].children # <<>>

(* Where step_right goes up to, and right from there.                      *)
RECURSIVE StepRightPath(_, _)
StepRightPath(root, path) ==
  IF path = <<>> THEN <<>>
  ELSE IF Last(path) < Len(blocks[NodeAt(root, Front(path))].children)
    THEN [path EXCEPT ![Len(path)] = @ + 1]
  ELSE StepRightPath(root, Front(path))

RECURSIVE EnsureValid(_, _)

EnsureValid(root, cursor) ==
  LET right == StepRightPath(root, cursor.path)
  IN  CASE cursor.left # <<>> -> cursor
        [] cursor.left = <<>> /\ CanStepDown(root, cursor) ->
             EnsureValid(root, MoveTo(root, cursor, Append(cursor.path, 1)))
        [] OTHER ->
             IF right = <<>> THEN [path |-> <<>>, left |-> <<>>]
             ELSE EnsureValid(root, MoveTo(root, cursor, right))

(* The entries from begin() to end(), by operator++.                       *)
RECURSIVE EntriesFrom(_, _)
EntriesFrom(root, cursor) ==
  IF cursor.left = <<>> THEN <<>>
  ELSE <<Head(cursor.left)>> \o EntriesFrom(root, EnsureValid(root, [cursor EXCEPT !.left = Tail(@)]))

Iterate(h) ==
  LET root == maps[h].root
  IN  EntriesFrom(root, EnsureValid(root, [path |-> <<>>, left |-> EntriesOf(blocks, root)]))

-----------------------------------------------------------------------------
Contents(h) ==
  LET got == [k \in Keys |-> Get(h, k)]
  IN  Restrict(got, {k \in Keys : got[k] # Absent})

(***************************************************************************)
(* map.hpp: every map behaves as a value, whatever is done to the maps it  *)
(* shares its nodes with and whatever hashes collide, and an allocation or *)
(* a copy that throws in set or erase leaves all maps as they were, but    *)
(* for the copies of colliding entries (see ThrowsChangeNothing).          *)
(***************************************************************************)
MapsAreValues == lost = {} => \A h \in Handles : Contents(h) = contents[h]

(***************************************************************************)
(* The count of a block is the number of nodes and maps that refer to it,  *)
(* and no block without a reference remains: no block is freed too early,  *)
(* and none leaks, not even from a call that threw.  Entries in blocks are *)
(* destroyed with them, and too often only where hashes collide.           *)
(***************************************************************************)
References(id) ==
  LET from(b) == IF b.kind # "inner" THEN 0
                 ELSE Cardinality({i \in DOMAIN b.children : b.children[i] = id})
                      + (IF b.values = id THEN 1 ELSE 0)
  IN  FoldFunction(LAMBDA b, n : from(b) + n, 0, blocks)
      + Cardinality({h \in Handles : maps[h].root = id}) + (IF id = EmptyRoot THEN 1 ELSE 0)

CountsAreExact ==
  /\ \A id \in DOMAIN blocks : blocks[id].refs = References(id) /\ blocks[id].refs > 0
  /\ \A b \in Range(blocks) :
       b.kind = "inner" => Range(b.children) \cup ({b.values} \ {Nowhere}) \subseteq DOMAIN blocks
  /\ \A e \in lost \ {NoEntry} : \E k \in Keys \ {e.key} : hash[k] = hash[e.key]

(***************************************************************************)
(* operator== compares trees, yet tells maps apart by what they contain:   *)
(* whatever calls have led to two maps with the same entries, their trees  *)
(* have the same shape (do_sub takes back the nodes do_add has made).      *)
(***************************************************************************)
EqualsComparesContents == \A g, h \in Handles : Equals(g, h) <=> Contents(g) = Contents(h)

(***************************************************************************)
(* An iterator meets every entry once, size counts them, and the order in  *)
(* which they are met does not depend on how a map was built, as long as   *)
(* no two keys have the same hash: node.cpp:147 compares objects by        *)
(* std::equal over their iterators.                                        *)
(***************************************************************************)
Collide(h) == \E k, l \in DOMAIN Contents(h) : k # l /\ hash[k] = hash[l]

IterationFollowsContents ==
  /\ \A h \in Handles :
       LET entries == Iterate(h)
       IN  /\ Len(entries) = maps[h].size
           /\ maps[h].size = Cardinality(DOMAIN Contents(h))
           /\ Range(entries) = {Entry(k, Contents(h)[k]) : k \in DOMAIN Contents(h)}
  /\ \A g, h \in Handles :
       Contents(g) = Contents(h) /\ ~Collide(h) => Iterate(g) = Iterate(h)

(***************************************************************************)
(* The assertions of node.hpp and champ.hpp hold, and erase never meets    *)
(* IMMER_UNREACHABLE: no single entry is ever left at the root.  That is   *)
(* as long as no more keys have the same hash than a node has branches:    *)
(* node.hpp:272 asserts that of a collision node, and nothing ensures it.  *)
(***************************************************************************)
Crowded == \E k \in Keys : Cardinality({l \in Keys : hash[l] = hash[k]}) > Branches

AssertionsHold == ~Crowded => sound

-----------------------------------------------------------------------------
(***************************************************************************)
(* A statement the tests of immer make about map.hpp that colliding hashes *)
(* break.                                                                  *)
(*                                                                         *)
(* immer/test/map/generic.ipp:268-272, "exception safety": after a call    *)
(* that threw, every key of a map still has its value.                     *)
(***************************************************************************)
ThrowsChangeNothing ==
  \A h \in Handles : \A k \in DOMAIN contents[h] : Entry(k, contents[h][k]) \notin lost

=============================================================================
