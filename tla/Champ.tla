------------------------------- MODULE Champ -------------------------------
(***************************************************************************)
(* The maps that hold the members of a node_object: immer's hash array     *)
(* mapped prefix trees, immer/immer/detail/hamts/champ.hpp and node.hpp,   *)
(* with the blocks they allocate, the reference counts the blocks are      *)
(* shared by, and allocations and copies that throw.                       *)
(*                                                                         *)
(* A bitmap is the set of its indices; popcounts are cardinalities.  A     *)
(* computation is a record: the blocks, how many more allocations or       *)
(* copies will succeed (budget), whether an exception is on its way        *)
(* (thrown), whether every assertion has held (sound), which entries were  *)
(* destroyed too often (lost), and what has been returned.                 *)
(*                                                                         *)
(* Every call is made in step with what MapContract promises of it.        *)
(***************************************************************************)
EXTENDS Integers, Sequences, FiniteSets, SequencesExt

CONSTANTS
  Handles,    \* the maps the program holds
  Keys,
  ValuesOf,   \* the nodes that clients set a key to, the same one again included
  Hashings,   \* hash functions, from Keys to 0..(2^HashBits - 1)
  Bits,       \* B: bits of the hash that a level of the tree uses
  HashBits,   \* bits of a hash_t
  MaxBlocks,  \* bound: addresses of blocks
  Budgets     \* bound: how many allocations and copies of a call succeed

VARIABLES
  hash,       \* the hash function
  blocks,     \* the allocated blocks, by address
  maps,       \* champ: root and size of each map
  sound,      \* no assertion has failed
  lost,       \* entries that were destroyed more often than made
  contents    \* what the maps promise to contain

vars == <<hash, blocks, maps, sound, lost, contents>>

Promised == INSTANCE MapContract

MaxDepth == (HashBits + Bits - 1) \div Bits
MaxShift == MaxDepth * Bits
Branches == 2 ^ Bits

Nowhere   == 0      \* a null pointer to values
EmptyRoot == 1      \* the root of champ::empty()

Index(key, shift) == (hash[key] \div 2 ^ shift) % Branches

(* Where the child or the value of an index is among those of a bitmap.    *)
Offset(bitmap, i) == Cardinality({j \in bitmap : j < i}) + 1

Entry(k, v) == [key |-> k, value |-> v]
NoEntry     == Entry(Nowhere, Nowhere)
At(entries, key) == {i \in DOMAIN entries : entries[i].key = key}

-----------------------------------------------------------------------------
(* Blocks.                                                                 *)
Inner(nodemap, datamap, children) ==
  [kind |-> "inner", refs |-> 1, nodemap |-> nodemap, datamap |-> datamap,
   children |-> children, values |-> Nowhere]
ValuesBlock(entries) == [kind |-> "values", refs |-> 1, entries |-> entries]
Collision(entries)   == [kind |-> "collision", refs |-> 1, entries |-> entries]

(* The values of an inner node, or the entries of a collision node.        *)
EntriesOf(heap, id) ==
  CASE heap[id].kind = "collision" -> heap[id].entries
    [] heap[id].kind = "inner" /\ heap[id].values # Nowhere -> heap[heap[id].values].entries
    [] OTHER -> <<>>

-----------------------------------------------------------------------------
(* Computations.                                                           *)
Begin(budget) ==
  [blocks |-> blocks, budget |-> budget, thrown |-> FALSE, sound |-> sound,
   lost |-> lost, node |-> Nowhere, added |-> FALSE, kind |-> "nothing", entry |-> Nowhere]

Checked(c, assertion) == [c EXCEPT !.sound = @ /\ assertion]

(* A copy of entries, which may throw.                                     *)
Spend(c) == IF c.budget = 0 THEN [c EXCEPT !.thrown = TRUE] ELSE [c EXCEPT !.budget = @ - 1]

Allocate(c, block) ==
  LET id == Min(1..MaxBlocks \ DOMAIN c.blocks)
      spent == Spend(c)
  IN  IF spent.thrown THEN spent
      ELSE [spent EXCEPT !.blocks = (id :> block) @@ @, !.node = id]

Free(c, id) == [c EXCEPT !.blocks = Restrict(@, DOMAIN @ \ {id})]

Inc(c, id)       == [c EXCEPT !.blocks[id].refs = @ + 1]
Dec(c, id)       == [c EXCEPT !.blocks[id].refs = @ - 1]
DecUnsafe(c, id) == Dec(Checked(c, c.blocks[id].refs > 1), id)
IncNodes(c, ids) == FoldLeft(Inc, c, ids)

(* delete_deep: the node, the values and the children nobody else uses.    *)
RECURSIVE DeleteDeep(_, _, _)

Release(c, id, shift) ==
  LET released == Dec(c, id)
  IN  IF released.blocks[id].refs = 0 THEN DeleteDeep(released, id, shift) ELSE released

DeleteDeep(c, id, shift) ==
  LET node == c.blocks[id]
      drop(d, child) == Release(d, child, shift + Bits)
      childless == FoldLeft(drop, c, node.children)
      valueless ==
        IF node.values = Nowhere THEN childless
        ELSE IF childless.blocks[node.values].refs = 1 THEN Free(childless, node.values)
        ELSE Dec(childless, node.values)
  IN  IF shift = MaxShift THEN Free(c, id) ELSE Free(valueless, id)

-----------------------------------------------------------------------------
(* node.hpp: new nodes.                                                    *)
MakeInner(c, nodemap, datamap, children, entries) ==
  LET made   == Allocate(c, Inner(nodemap, datamap, children))
      full   == Allocate(made, ValuesBlock(entries))
      copied == Spend(full)
  IN  CASE made.thrown \/ entries = <<>> -> made
        [] ~made.thrown /\ entries # <<>> /\ full.thrown -> Free(full, made.node)
        [] ~made.thrown /\ entries # <<>> /\ ~full.thrown /\ copied.thrown ->
             Free(Free(copied, full.node), made.node)
        [] OTHER -> [copied EXCEPT !.blocks[made.node].values = full.node, !.node = made.node]

(* Two entries: the old one was copied on the way here, both move in.      *)
MakeCollision(c, e1, e2) ==
  LET copied == Spend(c)
  IN  IF copied.thrown THEN copied ELSE Allocate(copied, Collision(<<e1, e2>>))

(***************************************************************************)
(* copy_collision_insert, _replace and _remove: the new entry, if any,     *)
(* moves in, the others are copied one after the other.  When a copy       *)
(* throws, the entries made so far are destroyed by uninitialized_copy and *)
(* the inner catch, and once more by deallocate_collision, which destroys  *)
(* as many entries as the node was to have: the counts of their values     *)
(* drop twice.  NoEntry is what it finds where none was made.              *)
(***************************************************************************)
CopyCollision(c, moved, copied) ==
  LET entries == moved \o copied
      node    == Allocate(Checked(c, Len(entries) <= Branches), Collision(entries))
      made    == moved \o SubSeq(copied, 1, node.budget)
  IN  CASE node.thrown -> node
        [] ~node.thrown /\ Len(copied) <= node.budget -> [node EXCEPT !.budget = @ - Len(copied)]
        [] OTHER -> [Free(node, node.node) EXCEPT !.thrown = TRUE, !.budget = 0,
                                                  !.lost = @ \cup Range(made) \cup {NoEntry}]

(* The copy of a node uses the children of the original as well.           *)
Sharing(made, children) == IF made.thrown THEN made ELSE IncNodes(made, children)

CopyInnerReplace(c, id, offset, child) ==
  LET src    == c.blocks[id]
      made   == Allocate(c, [src EXCEPT !.refs = 1, !.children[offset] = child])
      shared == IF src.values = Nowhere THEN made ELSE Inc(made, src.values)
  IN  IF made.thrown THEN made
      ELSE DecUnsafe(IncNodes(shared, src.children), src.children[offset])

CopyInnerReplaceValue(c, id, offset, e) ==
  LET src == c.blocks[id]
  IN  Sharing(MakeInner(c, src.nodemap, src.datamap, src.children,
                        [EntriesOf(c.blocks, id) EXCEPT ![offset] = e]), src.children)

CopyInnerReplaceMerged(c, id, i, offset, child) ==
  LET src == c.blocks[id]
  IN  Sharing(MakeInner(Checked(c, i \in src.datamap \ src.nodemap),
                        src.nodemap \cup {i}, src.datamap \ {i},
                        InsertAt(src.children, Offset(src.nodemap, i), child),
                        RemoveAt(EntriesOf(c.blocks, id), offset)), src.children)

CopyInnerReplaceInline(c, id, i, offset, e) ==
  LET src  == c.blocks[id]
      made == Sharing(MakeInner(Checked(c, i \in src.nodemap \ src.datamap),
                                src.nodemap \ {i}, src.datamap \cup {i},
                                RemoveAt(src.children, offset),
                                InsertAt(EntriesOf(c.blocks, id), Offset(src.datamap, i), e)),
                      src.children)
  IN  IF made.thrown THEN made ELSE DecUnsafe(made, src.children[offset])

CopyInnerRemoveValue(c, id, i, offset) ==
  LET src == c.blocks[id]
  IN  Sharing(MakeInner(Checked(c, i \in src.datamap \ src.nodemap),
                        src.nodemap, src.datamap \ {i}, src.children,
                        RemoveAt(EntriesOf(c.blocks, id), offset)), src.children)

(* Mutant: the new value comes after all others.                           *)
CopyInnerInsertValueLast(c, id, i, e) ==
  LET src == c.blocks[id]
  IN  Sharing(MakeInner(c, src.nodemap, src.datamap \cup {i}, src.children,
                        Append(EntriesOf(c.blocks, id), e)), src.children)

CopyInnerInsertValue(c, id, i, e) ==
  LET src == c.blocks[id]
  IN  Sharing(MakeInner(c, src.nodemap, src.datamap \cup {i}, src.children,
                        InsertAt(EntriesOf(c.blocks, id), Offset(src.datamap, i), e)), src.children)

RECURSIVE MakeMerged(_, _, _, _)

(* Mutant: the two entries come in the order they were given in.           *)
MakeMergedUnsorted(c, shift, e1, e2) ==
  LET i1 == Index(e1.key, shift)
      i2 == Index(e2.key, shift)
      merged == MakeMerged(c, shift + Bits, e1, e2)
      made   == Allocate(merged, Inner({i1}, {}, <<merged.node>>))
  IN  IF shift >= MaxShift THEN MakeCollision(c, e1, e2)
      ELSE IF i1 # i2 THEN MakeInner(c, {}, {i1, i2}, <<>>, <<e1, e2>>)
      ELSE IF merged.thrown THEN merged
      ELSE IF made.thrown THEN DeleteDeep(made, merged.node, shift + Bits) ELSE made

(* Two entries that share the index of the levels above.                   *)
MakeMerged(c, shift, e1, e2) ==
  LET i1 == Index(e1.key, shift)
      i2 == Index(e2.key, shift)
      merged == MakeMerged(c, shift + Bits, e1, e2)
      made   == Allocate(merged, Inner({i1}, {}, <<merged.node>>))
  IN  IF shift >= MaxShift THEN MakeCollision(c, e1, e2)
      ELSE IF i1 # i2
        THEN MakeInner(c, {}, {i1, i2}, <<>>, IF i1 < i2 THEN <<e1, e2>> ELSE <<e2, e1>>)
      ELSE IF merged.thrown THEN merged
      ELSE IF made.thrown THEN DeleteDeep(made, merged.node, shift + Bits) ELSE made

-----------------------------------------------------------------------------
(* champ.hpp: do_add.                                                      *)
Added(c, isNew) == [c EXCEPT !.added = isNew]

AddToCollision(c, id, e) ==
  LET entries == c.blocks[id].entries
      at == At(entries, e.key)
  IN  IF at = {} THEN Added(CopyCollision(c, <<e>>, entries), TRUE)
      ELSE Added(CopyCollision(c, <<e>>, RemoveAt(entries, Min(at))), FALSE)

AddToValue(c, id, i, e, shift) ==
  LET offset == Offset(c.blocks[id].datamap, i)
      old    == EntriesOf(c.blocks, id)[offset]
      child  == MakeMerged(c, shift + Bits, e, old)
      copy   == CopyInnerReplaceMerged(child, id, i, offset, child.node)
  IN  IF old.key = e.key THEN Added(CopyInnerReplaceValue(c, id, offset, e), FALSE)
      ELSE IF child.thrown THEN child
      ELSE IF copy.thrown THEN DeleteDeep(copy, child.node, shift + Bits)
      ELSE Added(copy, TRUE)

RECURSIVE DoAdd(_, _, _, _)

(* Mutant: the new child is forgotten if its parent cannot be copied.      *)
AddToChildLeaking(c, id, i, e, shift) ==
  LET offset == Offset(c.blocks[id].nodemap, i)
      child  == DoAdd(c, c.blocks[id].children[offset], e, shift + Bits)
  IN  IF child.thrown THEN child ELSE CopyInnerReplace(child, id, offset, child.node)

AddToChild(c, id, i, e, shift) ==
  LET offset == Offset(c.blocks[id].nodemap, i)
      child  == DoAdd(c, c.blocks[id].children[offset], e, shift + Bits)
      copy   == CopyInnerReplace(child, id, offset, child.node)
  IN  IF child.thrown THEN child
      ELSE IF copy.thrown THEN DeleteDeep(copy, child.node, shift + Bits)
      ELSE copy

DoAdd(c, id, e, shift) ==
  LET node == c.blocks[id]
      i == Index(e.key, shift)
  IN  CASE shift = MaxShift -> AddToCollision(c, id, e)
        [] shift < MaxShift /\ i \in node.nodemap -> AddToChild(c, id, i, e, shift)
        [] shift < MaxShift /\ i \in node.datamap -> AddToValue(c, id, i, e, shift)
        [] OTHER -> Added(CopyInnerInsertValue(c, id, i, e), TRUE)

(* do_sub: nothing, the one entry that is left, or a tree.                 *)
Nothing(c)      == [c EXCEPT !.kind = "nothing"]
Single(c, e)    == [c EXCEPT !.kind = "singleton", !.entry = e]
Tree(c)         == [c EXCEPT !.kind = "tree"]

SubFromCollision(c, id, key) ==
  LET entries == c.blocks[id].entries
      at == At(entries, key)
      rest == RemoveAt(entries, Min(at))
  IN  IF at = {} THEN Nothing(c)
      ELSE IF Len(entries) > 2 THEN Tree(CopyCollision(c, <<>>, rest)) ELSE Single(c, rest[1])

(* Mutant: the last but one entry of the root is handled like any other.   *)
SubFromValueAnywhere(c, id, i, key, shift) ==
  LET node   == c.blocks[id]
      offset == Offset(node.datamap, i)
      old    == EntriesOf(c.blocks, id)
      rest   == RemoveAt(old, offset)
  IN  CASE old[offset].key # key -> Nothing(c)
        [] old[offset].key = key /\ (node.nodemap # {} \/ Len(old) > 2) ->
             Tree(CopyInnerRemoveValue(c, id, i, offset))
        [] old[offset].key = key /\ node.nodemap = {} /\ Len(old) = 2 -> Single(c, rest[1])
        [] OTHER -> Tree([Inc(Checked(c, shift = 0), EmptyRoot) EXCEPT !.node = EmptyRoot])

SubFromValue(c, id, i, key, shift) ==
  LET node   == c.blocks[id]
      offset == Offset(node.datamap, i)
      old    == EntriesOf(c.blocks, id)
      rest   == RemoveAt(old, offset)
  IN  CASE old[offset].key # key -> Nothing(c)
        [] old[offset].key = key /\ (node.nodemap # {} \/ Len(old) > 2) ->
             Tree(CopyInnerRemoveValue(c, id, i, offset))
        [] old[offset].key = key /\ node.nodemap = {} /\ Len(old) = 2 ->
             IF shift > 0 THEN Single(c, rest[1])
                          ELSE Tree(MakeInner(c, {}, node.datamap \ {i}, <<>>, rest))
        [] OTHER -> Tree([Inc(Checked(c, shift = 0), EmptyRoot) EXCEPT !.node = EmptyRoot])

RECURSIVE DoSub(_, _, _, _)

(* Mutant: a node is kept for the one entry that is left below it.         *)
SubFromChildKeeping(c, id, i, key, shift) ==
  LET node   == c.blocks[id]
      offset == Offset(node.nodemap, i)
      child  == DoSub(c, node.children[offset], key, shift + Bits)
      copy   == CopyInnerReplace(child, id, offset, child.node)
  IN  CASE child.thrown \/ child.kind = "nothing" -> child
        [] ~child.thrown /\ child.kind = "singleton" ->
             Tree(CopyInnerReplaceInline(child, id, i, offset, child.entry))
        [] ~child.thrown /\ child.kind = "tree" ->
             IF copy.thrown THEN DeleteDeep(copy, child.node, shift + Bits) ELSE copy

SubFromChild(c, id, i, key, shift) ==
  LET node   == c.blocks[id]
      offset == Offset(node.nodemap, i)
      child  == DoSub(c, node.children[offset], key, shift + Bits)
      copy   == CopyInnerReplace(child, id, offset, child.node)
  IN  CASE child.thrown \/ child.kind = "nothing" -> child
        [] ~child.thrown /\ child.kind = "singleton" ->
             IF node.datamap = {} /\ Cardinality(node.nodemap) = 1 /\ shift > 0 THEN child
             ELSE Tree(CopyInnerReplaceInline(child, id, i, offset, child.entry))
        [] ~child.thrown /\ child.kind = "tree" ->
             IF copy.thrown THEN DeleteDeep(copy, child.node, shift + Bits) ELSE copy

DoSub(c, id, key, shift) ==
  LET node == c.blocks[id]
      i == Index(key, shift)
  IN  CASE shift = MaxShift -> SubFromCollision(c, id, key)
        [] shift < MaxShift /\ i \in node.nodemap -> SubFromChild(c, id, i, key, shift)
        [] shift < MaxShift /\ i \in node.datamap -> SubFromValue(c, id, i, key, shift)
        [] OTHER -> Nothing(c)

-----------------------------------------------------------------------------
(* The calls.                                                              *)
Init ==
  /\ hash \in Hashings
  /\ blocks = EmptyRoot :> [Inner({}, {}, <<>>) EXCEPT !.refs = 1 + Cardinality(Handles)]
  /\ maps = [h \in Handles |-> [root |-> EmptyRoot, size |-> 0]]
  /\ sound = TRUE
  /\ lost = {}
  /\ Promised!Init

(* Where blocks lie does not matter: after each call they are numbered in  *)
(* the order in which they are found from the maps, the lost ones last.    *)
Pointers(block) == IF block.kind = "inner" THEN Append(block.children, block.values) ELSE <<>>

RECURSIVE Visit(_, _, _)
Visit(heap, order, id) ==
  LET go(o, i) == Visit(heap, o, i)
  IN  IF id = Nowhere \/ Contains(order, id) THEN order
      ELSE FoldLeft(go, Append(order, id), Pointers(heap[id]))

Layout(heap, roots) ==
  LET visit(o, i) == Visit(heap, o, i)
      found == FoldLeft(visit, <<>>, <<EmptyRoot>> \o roots)
  IN  found \o SetToSeq(DOMAIN heap \ Range(found))

Renumbered(heap, held) ==
  LET hs     == SetToSeq(Handles)
      layout == Layout(heap, [i \in DOMAIN hs |-> held[hs[i]].root])
      places == [id \in Range(layout) |-> CHOOSE i \in DOMAIN layout : layout[i] = id]
      address(id) == IF id = Nowhere THEN Nowhere ELSE places[id]
      moved(b) == IF b.kind # "inner" THEN b
                  ELSE [b EXCEPT !.children = [i \in DOMAIN @ |-> address(@[i])], !.values = address(@)]
  IN  [blocks |-> [i \in DOMAIN layout |-> moved(heap[layout[i]])],
       maps   |-> [h \in Handles |-> [held[h] EXCEPT !.root = address(@)]]]

Finish(c, newMaps) ==
  \E after \in {Renumbered(c.blocks, newMaps)} :
    /\ blocks' = after.blocks
    /\ maps' = after.maps
    /\ sound' = c.sound
    /\ lost' = c.lost
    /\ UNCHANGED hash

(* The map that was there before is destroyed.                             *)
Assign(c, to, root, size) ==
  \E released \in {Release(c, maps[to].root, 0)} :
    Finish(released, [maps EXCEPT ![to] = [root |-> root, size |-> size]])

(* The budget is what a call needs, or what it has used before it threw.   *)
Complete(c) == c.budget = 0

(* result = result.set(k, v), as in node.cpp.                              *)
Set(h, k, v, budget) ==
  \E c \in {DoAdd(Begin(budget), maps[h].root, Entry(k, v), 0)} :
    /\ Complete(c)
    /\ \/ c.thrown /\ Finish(c, maps) /\ Promised!Fail
       \/ /\ ~c.thrown
          /\ Assign(c, h, c.node, maps[h].size + (IF c.added THEN 1 ELSE 0))
          /\ Promised!Set(h, k, v)

(* result = result.erase(k).                                               *)
Erase(h, k, budget) ==
  \E c \in {DoSub(Begin(budget), maps[h].root, k, 0)} :
    /\ Complete(c)
    /\ \/ c.thrown /\ Finish(c, maps) /\ Promised!Fail
       \/ /\ ~c.thrown /\ c.kind = "nothing"
          /\ Assign(Inc(c, maps[h].root), h, maps[h].root, maps[h].size)
          /\ Promised!Erase(h, k)
       \/ /\ ~c.thrown /\ c.kind # "nothing"
          /\ Assign(Checked(c, c.kind = "tree"), h, c.node, maps[h].size - 1)
          /\ Promised!Erase(h, k)

Copy(from, to) ==
  /\ Assign(Inc(Begin(0), maps[from].root), to, maps[from].root, maps[from].size)
  /\ Promised!Copy(from, to)

Construct(h) ==
  /\ Assign(Inc(Begin(0), EmptyRoot), h, EmptyRoot, 0)
  /\ Promised!Construct(h)

(* What a program does whose entries were destroyed twice is undefined.    *)
Undefined == lost # {} /\ UNCHANGED vars

Next ==
  \/ Undefined
  \/ /\ lost = {}
     /\ \/ \E h \in Handles, k \in Keys, budget \in Budgets :
             \/ \E v \in ValuesOf[k] : Set(h, k, v, budget)
             \/ Erase(h, k, budget)
        \/ \E from, to \in Handles : Copy(from, to)
        \/ \E h \in Handles : Construct(h)

Spec == Init /\ [][Next]_vars

=============================================================================
