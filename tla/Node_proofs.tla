----------------------------- MODULE Node_proofs -----------------------------
(***************************************************************************)
(* Proofs about Node, for all nodes and paths: node::get and node::set     *)
(* agree, an update leaves alone what is not on its path, updates commute  *)
(* where no array is met, and updates of solid nodes make no hole.         *)
(*                                                                         *)
(* Induction over the length of a path is an argument about the set of the *)
(* lengths for which a fact holds (Induction, from the well-foundedness of *)
(* < on Nat).  The recursive functions of Node are first shown to exist    *)
(* and to be unique, so that Get and Set satisfy the equations they are    *)
(* meant to; after that every proof goes from the root down.               *)
(***************************************************************************)
EXTENDS Node, WellFoundedInduction, TLAPS

-----------------------------------------------------------------------------
(* Induction, as a fact about a set of numbers.                            *)
LEMMA Induction ==
  ASSUME NEW S, 0 \in S, \A n \in Nat : n \in S => n + 1 \in S
  PROVE  Nat \subseteq S
<1> SUFFICES ASSUME Nat \ S # {} PROVE FALSE
  OBVIOUS
<1> DEFINE R == OpToRel(<, Nat)
<1>1. IsWellFoundedOn(R, Nat)
  BY NatLessThanWellFounded
<1>2. \A x, y \in Nat : <<y, x>> \in R <=> y < x
  BY DEF OpToRel
<1> HIDE DEF R
<1>3. PICK n \in Nat \ S : \A m \in Nat \ S : ~(<<m, n>> \in R)
  <2>1. Nat \ S \subseteq Nat
    OBVIOUS
  <2> QED
    BY <1>1, <2>1, WFMin
<1>4. n # 0 /\ n - 1 \in Nat /\ n - 1 < n
  BY <1>3
<1>5. n - 1 \in S
  BY <1>2, <1>3, <1>4
<1>6. (n - 1) + 1 \in S
  BY <1>4, <1>5
<1> QED
  BY <1>3, <1>6

(* A set of numbers has a least one.                                       *)
LEMMA LeastExists ==
  ASSUME NEW S, S \subseteq Nat, S # {}
  PROVE  Min(S) \in S /\ \A n \in S : Min(S) <= n
<1> DEFINE R == OpToRel(<, Nat)
<1>1. IsWellFoundedOn(R, Nat)
  BY NatLessThanWellFounded
<1>2. \A x, y \in Nat : <<y, x>> \in R <=> y < x
  BY DEF OpToRel
<1> HIDE DEF R
<1>3. PICK n \in S : \A m \in S : ~(<<m, n>> \in R)
  BY <1>1, WFMin
<1>4. ASSUME NEW m \in S PROVE n <= m
  <2>1. m \in Nat /\ n \in Nat
    OBVIOUS
  <2>2. ~(m < n)
    BY <1>2, <1>3, <2>1
  <2> QED
    BY <2>1, <2>2
<1> QED
  BY <1>3, <1>4 DEF Min

-----------------------------------------------------------------------------
(* Sequences.                                                              *)
LEMMA SequenceParts ==
  ASSUME NEW S, NEW s \in Seq(S)
  PROVE  /\ Len(s) \in Nat
         /\ DOMAIN s = 1..Len(s)
         /\ \A i \in 1..Len(s) : s[i] \in S
         /\ Len(s) = 0 <=> s = <<>>
OBVIOUS

(* A function on 1..m with values in S is a sequence.                      *)
LEMMA SequenceMade ==
  ASSUME NEW S, NEW m \in Nat, NEW t, t = [j \in 1..m |-> t[j]], \A j \in 1..m : t[j] \in S
  PROVE  t \in Seq(S) /\ Len(t) = m
<1>1. t \in [1..m -> S]
  OBVIOUS
<1> QED
  BY <1>1

(* The tail, and the first element, of a sequence that is not empty.       *)
LEMMA TailParts ==
  ASSUME NEW S, NEW s \in Seq(S), s # <<>>
  PROVE  /\ Tail(s) \in Seq(S)
         /\ Len(Tail(s)) = Len(s) - 1
         /\ Len(s) \in Nat \ {0}
         /\ \A i \in 1..(Len(s) - 1) : Tail(s)[i] = s[i + 1]
         /\ s[1] \in S
OBVIOUS

(* A prefix of a sequence.                                                 *)
LEMMA PrefixParts ==
  ASSUME NEW S, NEW s \in Seq(S), NEW n \in 0..Len(s)
  PROVE  /\ SubSeq(s, 1, n) \in Seq(S)
         /\ Len(SubSeq(s, 1, n)) = n
         /\ \A i \in 1..n : SubSeq(s, 1, n)[i] = s[i]
OBVIOUS

(* The tail of a prefix is a prefix of the tail.                           *)
LEMMA PrefixOfTail ==
  ASSUME NEW S, NEW s \in Seq(S), s # <<>>, NEW n \in 1..Len(s)
  PROVE  /\ SubSeq(s, 1, n) # <<>>
         /\ SubSeq(s, 1, n)[1] = s[1]
         /\ Tail(SubSeq(s, 1, n)) = SubSeq(Tail(s), 1, n - 1)
OBVIOUS

-----------------------------------------------------------------------------
(***************************************************************************)
(* Navigation.  The recursive function in Get exists and is unique, so     *)
(* that Get satisfies the equations it is meant to.                        *)
(***************************************************************************)
IsWalk(node, path, at) ==
  at = [i \in 0..Len(path) |-> IF i = 0 THEN node ELSE Child(at[i - 1], path[i])]

(* By induction on the length: Get's recursive function exists.            *)
LEMMA WalkExists ==
  ASSUME NEW S
  PROVE  \A node : \A path \in Seq(S) : \E at : IsWalk(node, path, at)
<1> DEFINE Walkable == {n \in Nat : \A node : \A path \in Seq(S) : Len(path) = n => \E at : IsWalk(node, path, at)}
<1>1. 0 \in Walkable
  <2> SUFFICES ASSUME NEW node, NEW path \in Seq(S), Len(path) = 0 PROVE \E at : IsWalk(node, path, at)
    OBVIOUS
  <2>1. IsWalk(node, path, [i \in 0..Len(path) |-> node])
    BY DEF IsWalk
  <2> QED
    BY <2>1
<1>2. ASSUME NEW n \in Nat, n \in Walkable PROVE n + 1 \in Walkable
  <2> SUFFICES ASSUME NEW node, NEW path \in Seq(S), Len(path) = n + 1 PROVE \E at : IsWalk(node, path, at)
    OBVIOUS
  <2> DEFINE short == SubSeq(path, 1, n)
  <2>1. short \in Seq(S) /\ Len(short) = n /\ \A i \in 1..n : short[i] = path[i]
    BY PrefixParts
  <2>2. PICK f : IsWalk(node, short, f)
    BY <1>2, <2>1
  <2> DEFINE at == [i \in 0..(n + 1) |-> IF i = n + 1 THEN Child(f[n], path[n + 1]) ELSE f[i]]
  <2>3. \A i \in 0..n : f[i] = IF i = 0 THEN node ELSE Child(f[i - 1], path[i])
    BY <2>1, <2>2 DEF IsWalk
  <2>4. \A i \in 0..(n + 1) : at[i] = IF i = 0 THEN node ELSE Child(at[i - 1], path[i])
    BY <2>3
  <2>5. IsWalk(node, path, at)
    BY <2>4 DEF IsWalk
  <2> QED
    BY <2>5
<1> HIDE DEF Walkable
<1>3. Nat \subseteq Walkable
  BY <1>1, <1>2, Induction
<1> QED
  BY <1>3, SequenceParts DEF Walkable

(* It is unique: Get is what any such function ends with.                  *)
LEMMA GetByWalk ==
  ASSUME NEW S, NEW node, NEW path \in Seq(S), NEW at, IsWalk(node, path, at)
  PROVE  Get(node, path) = at[Len(path)]
<1> DEFINE f == CHOOSE g : IsWalk(node, path, g)
<1>1. Get(node, path) = f[Len(path)]
  BY DEF Get, IsWalk
<1>2. IsWalk(node, path, f)
  BY WalkExists
<1> HIDE DEF f
<1> DEFINE Same == {n \in Nat : n <= Len(path) => f[n] = at[n]}
<1>3. 0 \in Same
  BY <1>2 DEF IsWalk
<1>4. ASSUME NEW n \in Nat, n \in Same PROVE n + 1 \in Same
  <2> SUFFICES ASSUME n + 1 <= Len(path) PROVE f[n + 1] = at[n + 1]
    OBVIOUS
  <2>1. n + 1 \in 0..Len(path) /\ n + 1 # 0 /\ (n + 1) - 1 = n /\ n <= Len(path)
    BY SequenceParts
  <2>2. f[n] = at[n]
    BY <1>4, <2>1
  <2> QED
    BY <1>2, <2>1, <2>2 DEF IsWalk
<1> HIDE DEF Same
<1>5. Len(path) \in Same
  BY <1>3, <1>4, Induction, SequenceParts
<1> QED
  BY <1>1, <1>5, SequenceParts DEF Same

(* The empty path leads to the node itself.                                *)
LEMMA GetEmpty ==
  ASSUME NEW node
  PROVE  Get(node, <<>>) = node
<1> DEFINE at == [i \in 0..0 |-> node]
<1>1. IsWalk(node, <<>>, at)
  BY DEF IsWalk
<1> QED
  BY <1>1, GetByWalk

(* From the root down: the first key is followed first.                    *)
LEMMA GetDown ==
  ASSUME NEW S, NEW node, NEW path \in Seq(S), path # <<>>
  PROVE  Get(node, path) = Get(Child(node, path[1]), Tail(path))
<1>1. /\ Tail(path) \in Seq(S) /\ Len(Tail(path)) = Len(path) - 1 /\ Len(path) \in Nat \ {0}
      /\ \A i \in 1..(Len(path) - 1) : Tail(path)[i] = path[i + 1]
  BY TailParts
<1>2. PICK f : IsWalk(Child(node, path[1]), Tail(path), f)
  BY <1>1, WalkExists
<1> DEFINE at == [i \in 0..Len(path) |-> IF i = 0 THEN node ELSE f[i - 1]]
<1>3. \A i \in 0..(Len(path) - 1) :
        f[i] = IF i = 0 THEN Child(node, path[1]) ELSE Child(f[i - 1], path[i + 1])
  BY <1>1, <1>2 DEF IsWalk
<1>4. \A i \in 0..Len(path) : at[i] = IF i = 0 THEN node ELSE Child(at[i - 1], path[i])
  BY <1>1, <1>3
<1>5. IsWalk(node, path, at)
  BY <1>4 DEF IsWalk
<1>6. at[Len(path)] = f[Len(path) - 1]
  BY <1>1
<1> HIDE DEF at
<1>7. Get(node, path) = at[Len(path)]
  BY <1>5, GetByWalk
<1>8. Get(Child(node, path[1]), Tail(path)) = f[Len(Tail(path))]
  BY <1>1, <1>2, GetByWalk
<1> QED
  BY <1>1, <1>6, <1>7, <1>8

(* Nothing is found below nullptr.                                         *)
LEMMA GetBelowNull ==
  ASSUME NEW S
  PROVE  \A path \in Seq(S) : Get(NullPtr, path) = NullPtr
<1> DEFINE Good == {n \in Nat : \A path \in Seq(S) : Len(path) = n => Get(NullPtr, path) = NullPtr}
<1>1. 0 \in Good
  BY GetEmpty, SequenceParts
<1>2. ASSUME NEW n \in Nat, n \in Good PROVE n + 1 \in Good
  <2> SUFFICES ASSUME NEW path \in Seq(S), Len(path) = n + 1 PROVE Get(NullPtr, path) = NullPtr
    OBVIOUS
  <2>1. path # <<>> /\ Tail(path) \in Seq(S) /\ Len(Tail(path)) = n
    BY TailParts, SequenceParts
  <2>2. Child(NullPtr, path[1]) = NullPtr
    BY DEF Child, NullPtr
  <2>3. Get(NullPtr, path) = Get(Child(NullPtr, path[1]), Tail(path))
    BY <2>1, GetDown
  <2>4. Get(NullPtr, Tail(path)) = NullPtr
    BY <1>2, <2>1
  <2> QED
    BY <2>2, <2>3, <2>4
<1> HIDE DEF Good
<1>3. Nat \subseteq Good
  BY <1>1, <1>2, Induction
<1> QED
  BY <1>3, SequenceParts DEF Good

-----------------------------------------------------------------------------
(* Update: likewise.                                                       *)
IsRebuild(node, path, ptr, rebuilt) ==
  rebuilt = [i \in 0..Len(path) |->
               IF i = 0 THEN ptr
               ELSE LET n == Len(path) - i
                    IN  SetChild(Get(node, SubSeq(path, 1, n)), path[n + 1], rebuilt[i - 1])]

(* rebuilt on the path without its first key: the upper end is missing.    *)
LEMMA RebuildDown ==
  ASSUME NEW S, NEW node, NEW path \in Seq(S), path # <<>>, NEW ptr, NEW f,
         IsRebuild(Child(node, path[1]), Tail(path), ptr, f)
  PROVE  \E g : /\ IsRebuild(node, path, ptr, g)
                /\ g[Len(path)] = SetChild(node, path[1], f[Len(path) - 1])
<1>1. /\ Tail(path) \in Seq(S) /\ Len(Tail(path)) = Len(path) - 1 /\ Len(path) \in Nat \ {0}
      /\ \A i \in 1..(Len(path) - 1) : Tail(path)[i] = path[i + 1]
  BY TailParts
<1> DEFINE N == Len(path)
           g == [i \in 0..N |-> IF i = N THEN SetChild(node, path[1], f[N - 1]) ELSE f[i]]
<1> HIDE DEF N
<1>2. ASSUME NEW i \in 1..(N - 1)
      PROVE  Get(Child(node, path[1]), SubSeq(Tail(path), 1, (N - 1) - i)) = Get(node, SubSeq(path, 1, N - i))
  <2>1. N - i \in 1..N /\ (N - i) - 1 = (N - 1) - i
    BY <1>1 DEF N
  <2> DEFINE up == SubSeq(path, 1, N - i)
  <2>2. up \in Seq(S)
    BY <2>1, PrefixParts DEF N
  <2>3. up # <<>> /\ up[1] = path[1] /\ Tail(up) = SubSeq(Tail(path), 1, (N - i) - 1)
    BY <2>1, PrefixOfTail DEF N
  <2> HIDE DEF up
  <2>4. Get(node, up) = Get(Child(node, up[1]), Tail(up))
    BY <2>2, <2>3, GetDown
  <2> QED
    BY <2>1, <2>3, <2>4 DEF up
<1>3. ASSUME NEW i \in 1..(N - 1)
      PROVE  f[i] = SetChild(Get(node, SubSeq(path, 1, N - i)), path[(N - i) + 1], f[i - 1])
  <2>1. i \in 0..Len(Tail(path)) /\ i # 0 /\ Len(Tail(path)) - i = (N - 1) - i
    BY <1>1 DEF N
  <2>2. f[i] = SetChild(Get(Child(node, path[1]), SubSeq(Tail(path), 1, (N - 1) - i)), Tail(path)[((N - 1) - i) + 1], f[i - 1])
    BY <2>1 DEF IsRebuild
  <2>3. Tail(path)[((N - 1) - i) + 1] = path[(N - i) + 1]
    BY <1>1 DEF N
  <2> QED
    BY <1>2, <2>2, <2>3
<1>4. f[0] = ptr
  BY <1>1 DEF IsRebuild
<1>5. Get(node, SubSeq(path, 1, 0)) = node
  <2>1. SubSeq(path, 1, 0) = <<>>
    OBVIOUS
  <2> QED
    BY <2>1, GetEmpty
<1>6. ASSUME NEW i \in 0..N
      PROVE  g[i] = IF i = 0 THEN ptr
                    ELSE SetChild(Get(node, SubSeq(path, 1, N - i)), path[(N - i) + 1], g[i - 1])
  <2>1. N \in Nat \ {0}
    BY <1>1 DEF N
  <2>2. CASE i = 0
    BY <1>4, <2>1, <2>2
  <2>3. CASE i \in 1..(N - 1)
    <3>1. i # N /\ i - 1 # N /\ i - 1 \in 0..N /\ i # 0
      BY <2>1, <2>3
    <3> QED
      BY <1>3, <2>3, <3>1
  <2>4. CASE i = N
    <3>1. N - 1 \in 0..N /\ N - 1 # N /\ N - i = 0 /\ i # 0
      BY <2>1, <2>4
    <3>2. g[i] = SetChild(node, path[1], f[N - 1]) /\ g[i - 1] = f[N - 1]
      BY <2>4, <3>1
    <3> QED
      BY <1>5, <3>1, <3>2
  <2> QED
    BY <2>1, <2>2, <2>3, <2>4
<1> DEFINE h == g
<1>7. g = [i \in 0..N |-> g[i]] /\ g[N] = SetChild(node, path[1], f[N - 1])
  BY <1>1 DEF N
<1> HIDE DEF g
<1>8. IsRebuild(node, path, ptr, g)
  BY <1>6, <1>7 DEF IsRebuild, N
<1> QED
  BY <1>7, <1>8 DEF N

(* By induction on the length: Set's recursive function exists.            *)
LEMMA RebuildExists ==
  ASSUME NEW S, NEW ptr
  PROVE  \A node : \A path \in Seq(S) : \E rebuilt : IsRebuild(node, path, ptr, rebuilt)
<1> DEFINE Done == {n \in Nat : \A node : \A path \in Seq(S) : Len(path) = n => \E f : IsRebuild(node, path, ptr, f)}
<1>1. 0 \in Done
  <2> SUFFICES ASSUME NEW node, NEW path \in Seq(S), Len(path) = 0 PROVE \E f : IsRebuild(node, path, ptr, f)
    OBVIOUS
  <2>1. IsRebuild(node, path, ptr, [i \in 0..Len(path) |-> ptr])
    BY DEF IsRebuild
  <2> QED
    BY <2>1
<1>2. ASSUME NEW n \in Nat, n \in Done PROVE n + 1 \in Done
  <2> SUFFICES ASSUME NEW node, NEW path \in Seq(S), Len(path) = n + 1 PROVE \E f : IsRebuild(node, path, ptr, f)
    OBVIOUS
  <2>1. path # <<>> /\ Tail(path) \in Seq(S) /\ Len(Tail(path)) = n
    BY TailParts, SequenceParts
  <2>2. PICK f : IsRebuild(Child(node, path[1]), Tail(path), ptr, f)
    BY <1>2, <2>1
  <2> QED
    BY <2>1, <2>2, RebuildDown
<1> HIDE DEF Done
<1>3. Nat \subseteq Done
  BY <1>1, <1>2, Induction
<1> QED
  BY <1>3, SequenceParts DEF Done

(* It is unique: Set is what any such function ends with.                  *)
LEMMA SetByRebuild ==
  ASSUME NEW S, NEW node, NEW path \in Seq(S), NEW ptr, NEW rebuilt, IsRebuild(node, path, ptr, rebuilt)
  PROVE  Set(node, path, ptr) = rebuilt[Len(path)]
<1> DEFINE f == CHOOSE g : IsRebuild(node, path, ptr, g)
<1>1. Set(node, path, ptr) = f[Len(path)]
  BY DEF Set, IsRebuild
<1>2. IsRebuild(node, path, ptr, f)
  BY RebuildExists
<1> HIDE DEF f
<1> DEFINE Same == {n \in Nat : n <= Len(path) => f[n] = rebuilt[n]}
<1>3. 0 \in Same
  BY <1>2 DEF IsRebuild
<1>4. ASSUME NEW n \in Nat, n \in Same PROVE n + 1 \in Same
  <2> SUFFICES ASSUME n + 1 <= Len(path) PROVE f[n + 1] = rebuilt[n + 1]
    OBVIOUS
  <2>1. n + 1 \in 0..Len(path) /\ n + 1 # 0 /\ (n + 1) - 1 = n /\ n <= Len(path)
    BY SequenceParts
  <2>2. f[n] = rebuilt[n]
    BY <1>4, <2>1
  <2> QED
    BY <1>2, <2>1, <2>2 DEF IsRebuild
<1> HIDE DEF Same
<1>5. Len(path) \in Same
  BY <1>3, <1>4, Induction, SequenceParts
<1> QED
  BY <1>1, <1>5, SequenceParts DEF Same

(* Setting at the empty path replaces the node.                            *)
LEMMA SetEmpty ==
  ASSUME NEW node, NEW ptr
  PROVE  Set(node, <<>>, ptr) = ptr
<1> DEFINE f == [i \in 0..0 |-> ptr]
<1>1. IsRebuild(node, <<>>, ptr, f)
  BY DEF IsRebuild
<1> QED
  BY <1>1, SetByRebuild

(* From the root down: one child is replaced, by its own update.           *)
LEMMA SetDown ==
  ASSUME NEW S, NEW node, NEW path \in Seq(S), path # <<>>, NEW ptr
  PROVE  Set(node, path, ptr) = SetChild(node, path[1], Set(Child(node, path[1]), Tail(path), ptr))
<1>1. Tail(path) \in Seq(S) /\ Len(Tail(path)) = Len(path) - 1
  BY TailParts
<1>2. PICK f : IsRebuild(Child(node, path[1]), Tail(path), ptr, f)
  BY <1>1, RebuildExists
<1>3. Set(Child(node, path[1]), Tail(path), ptr) = f[Len(path) - 1]
  BY <1>1, <1>2, SetByRebuild
<1>4. PICK g : /\ IsRebuild(node, path, ptr, g)
               /\ g[Len(path)] = SetChild(node, path[1], f[Len(path) - 1])
  BY <1>2, RebuildDown
<1>5. Set(node, path, ptr) = g[Len(path)]
  BY <1>4, SetByRebuild
<1> QED
  BY <1>3, <1>4, <1>5

-----------------------------------------------------------------------------
(***************************************************************************)
(* Documents.  A node is the root of a tree when some set holds it and all *)
(* that is below it: its arrays are sequences and its objects functions.   *)
(***************************************************************************)
Tree(node) == \E parts : node \in parts /\ \A n \in parts : IsNode(n, parts)

(* A key has a number or none.                                             *)
LEMMA KeyParts ==
  ASSUME NEW key \in Keys
  PROVE  /\ IsNumeric(key) => key.number \in Nat
         /\ ~IsNumeric(key) => key.number = NoNumber /\ \A n \in Nat : key.number # n
BY DEF Keys, IsNumeric, NoNumber

(* A node stays one when more parts are allowed.                           *)
LEMMA MorePartsAllowed ==
  ASSUME NEW n, NEW parts, NEW more, parts \subseteq more, IsNode(n, parts)
  PROVE  IsNode(n, more)
<1>1. n.kind = "array" => n = Array(n.elems) /\ n.elems \in Seq(more)
  BY DEF IsNode
<1>2. n.kind = "object" => n = Object(n.members) /\ n.members \in [DOMAIN n.members -> more]
  BY DEF IsNode
<1> QED
  BY <1>1, <1>2 DEF IsNode

(* nullptr has no parts.                                                   *)
LEMMA NullIsTree == Tree(NullPtr)
<1>1. IsNode(NullPtr, {NullPtr})
  BY DEF IsNode, NullPtr
<1> QED
  BY <1>1 DEF Tree

(* What get finds below a tree is a tree.                                  *)
LEMMA ChildIsTree ==
  ASSUME NEW node, Tree(node), NEW key
  PROVE  Tree(Child(node, key))
<1>1. PICK parts : node \in parts /\ \A n \in parts : IsNode(n, parts)
  BY DEF Tree
<1>2. Child(node, key) \in parts \/ Child(node, key) = NullPtr
  <2>1. CASE node.kind = "array" /\ key.number \in 0..(Len(node.elems) - 1)
    <3>1. node.elems \in Seq(parts)
      BY <1>1, <2>1 DEF IsNode
    <3>2. key.number + 1 \in 1..Len(node.elems)
      BY <2>1, <3>1
    <3>3. Child(node, key) = node.elems[key.number + 1]
      BY <2>1 DEF Child
    <3> QED
      BY <3>1, <3>2, <3>3
  <2>2. CASE node.kind = "object" /\ key \in DOMAIN node.members
    <3>1. node.members \in [DOMAIN node.members -> parts]
      BY <1>1, <2>2 DEF IsNode
    <3>2. Child(node, key) = node.members[key]
      BY <2>2 DEF Child
    <3> QED
      BY <2>2, <3>1, <3>2
  <2>3. CASE ~(node.kind = "array" /\ key.number \in 0..(Len(node.elems) - 1))
             /\ ~(node.kind = "object" /\ key \in DOMAIN node.members)
    BY <2>3 DEF Child
  <2> QED
    BY <2>1, <2>2, <2>3
<1> QED
  BY <1>1, <1>2, NullIsTree DEF Tree

(* What an array of a tree is.                                             *)
LEMMA ArrayParts ==
  ASSUME NEW node, Tree(node), node.kind = "array"
  PROVE  \E parts :
           /\ node = Array(node.elems)
           /\ node.elems \in Seq(parts)
           /\ \A n \in parts : IsNode(n, parts)
BY DEF Tree, IsNode

(* What an object of a tree is.                                            *)
LEMMA ObjectParts ==
  ASSUME NEW node, Tree(node), node.kind = "object"
  PROVE  \E parts :
           /\ node = Object(node.members)
           /\ node.members \in [DOMAIN node.members -> parts]
           /\ \A n \in parts : IsNode(n, parts)
BY DEF Tree, IsNode

-----------------------------------------------------------------------------
(* Update of one container.                                                *)
Elements(elems, n, ptr) == [PadTo(elems, n) EXCEPT ![n + 1] = ptr]

(* An array padded to index n and set there, element by element.           *)
LEMMA ElementsAt ==
  ASSUME NEW e, Len(e) \in Nat, NEW n \in Nat, NEW ptr
  PROVE  LET m == IF n < Len(e) THEN Len(e) ELSE n + 1
         IN  /\ m \in Nat /\ n + 1 \in 1..m /\ 1..Len(e) \subseteq 1..m
             /\ Elements(e, n, ptr) =
                  [j \in 1..m |-> IF j = n + 1 THEN ptr ELSE IF j <= Len(e) THEN e[j] ELSE NullNode]
             /\ Len(Elements(e, n, ptr)) = m
<1> DEFINE m == IF n < Len(e) THEN Len(e) ELSE n + 1
<1>1. m \in Nat /\ n + 1 \in 1..m /\ 1..Len(e) \subseteq 1..m
  OBVIOUS
<1>2. PadTo(e, n) = [j \in 1..m |-> IF j <= Len(e) THEN e[j] ELSE NullNode]
  BY DEF PadTo
<1> HIDE DEF m
<1>3. Elements(e, n, ptr) =
        [j \in 1..m |-> IF j = n + 1 THEN ptr ELSE IF j <= Len(e) THEN e[j] ELSE NullNode]
  BY <1>1, <1>2 DEF Elements
<1>4. Len(Elements(e, n, ptr)) = m
  BY <1>1, <1>3
<1> QED
  BY <1>1, <1>3, <1>4 DEF m

(* The element that was set.                                               *)
LEMMA ElementSet ==
  ASSUME NEW e, Len(e) \in Nat, NEW n \in Nat, NEW ptr
  PROVE  /\ n \in 0..(Len(Elements(e, n, ptr)) - 1)
         /\ Elements(e, n, ptr)[n + 1] = ptr
<1> DEFINE m == IF n < Len(e) THEN Len(e) ELSE n + 1
<1>1. m \in Nat /\ n + 1 \in 1..m
  OBVIOUS
<1>2. Elements(e, n, ptr) =
        [j \in 1..m |-> IF j = n + 1 THEN ptr ELSE IF j <= Len(e) THEN e[j] ELSE NullNode]
  BY ElementsAt
<1>3. Len(Elements(e, n, ptr)) = m
  BY ElementsAt
<1> HIDE DEF m
<1> QED
  BY <1>1, <1>2, <1>3

(* Every other element is the old one.                                     *)
LEMMA OtherElement ==
  ASSUME NEW e, Len(e) \in Nat, NEW n \in Nat, NEW ptr, NEW k \in 0..(Len(e) - 1), k # n
  PROVE  /\ k \in 0..(Len(Elements(e, n, ptr)) - 1)
         /\ Elements(e, n, ptr)[k + 1] = e[k + 1]
<1> DEFINE m == IF n < Len(e) THEN Len(e) ELSE n + 1
<1>1. m \in Nat /\ k + 1 \in 1..m /\ k + 1 # n + 1 /\ k + 1 <= Len(e)
  OBVIOUS
<1>2. Elements(e, n, ptr) =
        [j \in 1..m |-> IF j = n + 1 THEN ptr ELSE IF j <= Len(e) THEN e[j] ELSE NullNode]
  BY ElementsAt
<1>3. Len(Elements(e, n, ptr)) = m
  BY ElementsAt
<1> HIDE DEF m
<1> QED
  BY <1>1, <1>2, <1>3

(* Nothing is in it but old elements, padding and what was set.            *)
LEMMA ElementsTyped ==
  ASSUME NEW P, NEW e \in Seq(P), NEW n \in Nat, NEW ptr
  PROVE  Elements(e, n, ptr) \in Seq(P \cup {NullNode, ptr})
<1> DEFINE m == IF n < Len(e) THEN Len(e) ELSE n + 1
           t == Elements(e, n, ptr)
           Q == P \cup {NullNode, ptr}
<1>1. Len(e) \in Nat /\ m \in Nat
  OBVIOUS
<1>2. t = [j \in 1..m |-> IF j = n + 1 THEN ptr ELSE IF j <= Len(e) THEN e[j] ELSE NullNode]
  BY <1>1, ElementsAt
<1> HIDE DEF m, t
<1>3. \A j \in 1..m : t[j] \in Q
  <2> SUFFICES ASSUME NEW j \in 1..m PROVE t[j] \in Q
    OBVIOUS
  <2>1. j <= Len(e) => e[j] \in P
    BY <1>1, SequenceParts
  <2> QED
    BY <1>2, <2>1
<1>4. t = [j \in 1..m |-> t[j]]
  BY <1>2
<1> HIDE DEF Q
<1>5. t \in Seq(Q)
  BY <1>1, <1>3, <1>4, SequenceMade
<1> QED
  BY <1>5 DEF Q, t

(* The four cases of SetChild: an array and a number,                      *)
LEMMA ArraySetNumeric ==
  ASSUME NEW node, node.kind = "array", NEW key, IsNumeric(key), NEW ptr
  PROVE  SetChild(node, key, ptr) = Array(Elements(node.elems, key.number, ptr))
BY DEF SetChild, SetElement, Elements

(* an array and a name,                                                    *)
LEMMA ArraySetNamed ==
  ASSUME NEW node, node.kind = "array", NEW key, ~IsNumeric(key), NEW ptr
  PROVE  SetChild(node, key, ptr) = Object(With(AsMembers(node.elems), key, ptr))
BY DEF SetChild, SetElement

(* an object,                                                              *)
LEMMA ObjectSet ==
  ASSUME NEW node, node.kind = "object", NEW key, NEW ptr
  PROVE  SetChild(node, key, ptr) =
           Object(IF ptr = NullPtr THEN Without(node.members, key) ELSE With(node.members, key, ptr))
BY DEF SetChild, SetMember

(* and what is no container.                                               *)
LEMMA LeafSet ==
  ASSUME NEW node, node.kind \notin {"array", "object"}, NEW key, NEW ptr
  PROVE  SetChild(node, key, ptr) = Singleton(key, ptr)
BY DEF SetChild

(* Navigation into what an update makes.                                   *)
LEMMA ChildOfArray ==
  ASSUME NEW elems, NEW key
  PROVE  Child(Array(elems), key) =
           IF key.number \in 0..(Len(elems) - 1) THEN elems[key.number + 1] ELSE NullPtr
BY DEF Child, Array

(* In an object, the member.                                               *)
LEMMA ChildOfObject ==
  ASSUME NEW members, NEW key
  PROVE  Child(Object(members), key) = IF key \in DOMAIN members THEN members[key] ELSE NullPtr
BY DEF Child, Object

(* In a new object, its one member.                                        *)
LEMMA ChildOfSingleton ==
  ASSUME NEW ptr, NEW other, NEW key
  PROVE  Child(Singleton(other, ptr), key) = IF key = other THEN ptr ELSE NullPtr
<1> DEFINE members == [k \in {other} |-> ptr]
<1>1. Singleton(other, ptr) = Object(members)
  BY DEF Singleton
<1>2. (key \in DOMAIN members <=> key = other) /\ (key = other => members[key] = ptr)
  OBVIOUS
<1> HIDE DEF members
<1> QED
  BY <1>1, <1>2, ChildOfObject

(* In a value, nothing.                                                    *)
LEMMA ChildOfLeaf ==
  ASSUME NEW node, node.kind \notin {"array", "object"}, NEW key
  PROVE  Child(node, key) = NullPtr
BY DEF Child

(* The updated child is there.                                             *)
LEMMA ChildOfSet ==
  ASSUME NEW node, Tree(node), NEW key \in Keys, NEW ptr
  PROVE  Child(SetChild(node, key, ptr), key) = ptr
<1>1. CASE node.kind = "object"
  <2>1. CASE ptr = NullPtr
    <3>1. key \notin DOMAIN Without(node.members, key)
      BY DEF Without, Restrict
    <3> QED
      BY <1>1, <2>1, <3>1, ObjectSet, ChildOfObject
  <2>2. CASE ptr # NullPtr
    <3>1. key \in DOMAIN With(node.members, key, ptr) /\ With(node.members, key, ptr)[key] = ptr
      BY DEF With
    <3> QED
      BY <1>1, <2>2, <3>1, ObjectSet, ChildOfObject
  <2> QED
    BY <2>1, <2>2
<1>2. CASE node.kind = "array" /\ IsNumeric(key)
  <2> DEFINE e == node.elems
             n == key.number
  <2>1. Len(e) \in Nat
    BY <1>2, ArrayParts, SequenceParts
  <2>2. n \in Nat
    BY <1>2, KeyParts
  <2>3. SetChild(node, key, ptr) = Array(Elements(e, n, ptr))
    BY <1>2, ArraySetNumeric
  <2> HIDE DEF e, n
  <2>4. n \in 0..(Len(Elements(e, n, ptr)) - 1) /\ Elements(e, n, ptr)[n + 1] = ptr
    BY <2>1, <2>2, ElementSet
  <2> QED
    BY <2>3, <2>4, ChildOfArray DEF n
<1>3. CASE node.kind = "array" /\ ~IsNumeric(key)
  <2> DEFINE members == With(AsMembers(node.elems), key, ptr)
  <2>1. key \in DOMAIN members /\ members[key] = ptr
    BY DEF With
  <2> HIDE DEF members
  <2>2. SetChild(node, key, ptr) = Object(members)
    BY <1>3, ArraySetNamed DEF members
  <2> QED
    BY <2>1, <2>2, ChildOfObject
<1>4. CASE node.kind \notin {"array", "object"}
  BY <1>4, LeafSet, ChildOfSingleton
<1> QED
  BY <1>1, <1>2, <1>3, <1>4

(***************************************************************************)
(* Another child stays, unless the container is an array and the update    *)
(* may pad it to that child, or names the child in another way.            *)
(***************************************************************************)
Settled(node, key, other) ==
  node.kind = "array" =>
    /\ IsCanonical(key) /\ IsCanonical(other)
    /\ IsNumeric(key) => key.number < Len(node.elems)

(* So the child at another key is the old one.                             *)
LEMMA OtherChild ==
  ASSUME NEW node, Tree(node), NEW key \in Keys, NEW other \in Keys, key # other,
         Settled(node, key, other), NEW ptr
  PROVE  Child(SetChild(node, other, ptr), key) = Child(node, key)
<1>1. CASE node.kind = "object"
  <2>1. node = Object(node.members)
    BY <1>1, ObjectParts
  <2>2. Child(node, key) = IF key \in DOMAIN node.members THEN node.members[key] ELSE NullPtr
    BY <2>1, ChildOfObject
  <2>3. CASE ptr = NullPtr
    <3> DEFINE members == Without(node.members, other)
    <3>1. key \in DOMAIN members <=> key \in DOMAIN node.members
      BY DEF Without, Restrict
    <3>2. key \in DOMAIN members => members[key] = node.members[key]
      BY DEF Without, Restrict
    <3>3. SetChild(node, other, ptr) = Object(members)
      BY <1>1, <2>3, ObjectSet
    <3> HIDE DEF members
    <3> QED
      BY <2>2, <3>1, <3>2, <3>3, ChildOfObject
  <2>4. CASE ptr # NullPtr
    <3> DEFINE members == With(node.members, other, ptr)
    <3>1. key \in DOMAIN members <=> key \in DOMAIN node.members
      BY DEF With
    <3>2. key \in DOMAIN members => members[key] = node.members[key]
      BY DEF With
    <3>3. SetChild(node, other, ptr) = Object(members)
      BY <1>1, <2>4, ObjectSet
    <3> HIDE DEF members
    <3> QED
      BY <2>2, <3>1, <3>2, <3>3, ChildOfObject
  <2> QED
    BY <2>3, <2>4
<1>2. CASE node.kind = "array"
  <2>1. PICK parts : node = Array(node.elems) /\ node.elems \in Seq(parts)
    BY <1>2, ArrayParts
  <2>2. Len(node.elems) \in Nat /\ DOMAIN node.elems = 1..Len(node.elems)
    BY <2>1, SequenceParts
  <2>3. Child(node, key) = IF key.number \in 0..(Len(node.elems) - 1) THEN node.elems[key.number + 1] ELSE NullPtr
    BY <2>1, ChildOfArray
  <2>4. IsCanonical(key) /\ IsCanonical(other) /\ (IsNumeric(key) => key.number < Len(node.elems))
    BY <1>2 DEF Settled
  <2>5. CASE IsNumeric(other)
    <3> DEFINE e == node.elems
               n == other.number
               k == key.number
               t == Elements(e, n, ptr)
    <3>1. n \in Nat /\ Len(e) \in Nat
      BY <2>2, <2>5, KeyParts
    <3>2. Child(SetChild(node, other, ptr), key) = IF k \in 0..(Len(t) - 1) THEN t[k + 1] ELSE NullPtr
      BY <1>2, <2>5, ArraySetNumeric, ChildOfArray
    <3>3. Child(node, key) = IF k \in 0..(Len(e) - 1) THEN e[k + 1] ELSE NullPtr
      BY <2>3
    <3>4. CASE IsNumeric(key)
      <4>1. k \in Nat /\ k < Len(e)
        BY <2>4, <3>4, KeyParts
      <4>2. k # n
        BY <2>4, <2>5, <3>4 DEF IsCanonical
      <4> HIDE DEF e, n, k
      <4>3. k \in 0..(Len(e) - 1)
        BY <3>1, <4>1
      <4>4. k \in 0..(Len(t) - 1) /\ t[k + 1] = e[k + 1]
        BY <3>1, <4>2, <4>3, OtherElement
      <4> QED
        BY <3>2, <3>3, <4>3, <4>4
    <3>5. CASE ~IsNumeric(key)
      <4>1. k \notin 0..(Len(t) - 1) /\ k \notin 0..(Len(e) - 1)
        BY <3>5, KeyParts
      <4> QED
        BY <3>2, <3>3, <4>1
    <3> QED
      BY <3>4, <3>5
  <2>6. CASE ~IsNumeric(other)
    <3> DEFINE old == AsMembers(node.elems)
               members == With(old, other, ptr)
    <3>1. SetChild(node, other, ptr) = Object(members)
      BY <1>2, <2>6, ArraySetNamed
    <3>2. key \in DOMAIN members <=> key \in DOMAIN old
      BY DEF With
    <3>3. key \in DOMAIN members => members[key] = old[key]
      BY DEF With
    <3>4. key \in DOMAIN old <=> key.number \in 0..(Len(node.elems) - 1)
      <4>1. key \in DOMAIN old <=> \E j \in 1..Len(node.elems) : key = Decimal(j - 1)
        BY <2>2 DEF AsMembers
      <4>2. ASSUME NEW j \in 1..Len(node.elems), key = Decimal(j - 1) PROVE key.number \in 0..(Len(node.elems) - 1)
        <5>1. key.number = j - 1
          BY <4>2 DEF Decimal
        <5> QED
          BY <2>2, <5>1
      <4>3. ASSUME key.number \in 0..(Len(node.elems) - 1) PROVE \E j \in 1..Len(node.elems) : key = Decimal(j - 1)
        <5>1. IsNumeric(key)
          BY <2>2, <4>3, KeyParts
        <5>2. key = Decimal(key.number)
          BY <2>4, <5>1 DEF IsCanonical
        <5>3. key.number + 1 \in 1..Len(node.elems) /\ (key.number + 1) - 1 = key.number
          BY <2>2, <4>3
        <5> QED
          BY <5>2, <5>3
      <4> QED
        BY <4>1, <4>2, <4>3
    <3>5. key \in DOMAIN old => old[key] = node.elems[key.number + 1]
      BY DEF AsMembers
    <3> HIDE DEF members, old
    <3> QED
      BY <2>3, <3>1, <3>2, <3>3, <3>4, <3>5, ChildOfObject
  <2> QED
    BY <2>5, <2>6
<1>3. CASE node.kind \notin {"array", "object"}
  BY <1>3, LeafSet, ChildOfSingleton, ChildOfLeaf
<1> QED
  BY <1>1, <1>2, <1>3

-----------------------------------------------------------------------------
(* Trees are made of trees.                                                *)
LEMMA CommonParts ==
  ASSUME NEW node, Tree(node), NEW ptr, Tree(ptr)
  PROVE  \E parts : /\ node \in parts /\ ptr \in parts /\ NullNode \in parts
                    /\ \A n \in parts : IsNode(n, parts)
<1>1. PICK P : node \in P /\ \A n \in P : IsNode(n, P)
  BY DEF Tree
<1>2. PICK Q : ptr \in Q /\ \A n \in Q : IsNode(n, Q)
  BY DEF Tree
<1> DEFINE parts == P \cup Q \cup {NullNode}
<1>3. P \subseteq parts /\ Q \subseteq parts
  OBVIOUS
<1>4. IsNode(NullNode, parts)
  BY DEF IsNode, NullNode
<1>5. node \in parts /\ ptr \in parts /\ NullNode \in parts
  BY <1>1, <1>2
<1>6. ASSUME NEW n \in parts PROVE IsNode(n, parts)
  <2>1. n \in P \/ n \in Q \/ n = NullNode
    OBVIOUS
  <2> HIDE DEF parts
  <2> QED
    BY <1>1, <1>2, <1>3, <1>4, <2>1, MorePartsAllowed
<1> HIDE DEF parts
<1> QED
  BY <1>5, <1>6

(* A new root over parts of trees is a tree.                               *)
LEMMA NewRoot ==
  ASSUME NEW parts, \A n \in parts : IsNode(n, parts), NEW root, IsNode(root, parts)
  PROVE  Tree(root)
<1> DEFINE more == parts \cup {root}
<1>1. parts \subseteq more /\ root \in more /\ \A n \in more : n \in parts \/ n = root
  OBVIOUS
<1> HIDE DEF more
<1>2. \A n \in more : IsNode(n, more)
  BY <1>1, MorePartsAllowed
<1> QED
  BY <1>1, <1>2 DEF Tree

(* An array of parts.                                                      *)
LEMMA ArrayIsNode ==
  ASSUME NEW parts, NEW elems \in Seq(parts)
  PROVE  IsNode(Array(elems), parts)
BY DEF IsNode, Array

(* An object of parts.                                                     *)
LEMMA ObjectIsNode ==
  ASSUME NEW parts, NEW members, members \in [DOMAIN members -> parts]
  PROVE  IsNode(Object(members), parts)
BY DEF IsNode, Object

(* An array turned into an object keeps its elements.                      *)
LEMMA MembersAreElements ==
  ASSUME NEW P, NEW elems \in Seq(P), NEW k \in DOMAIN AsMembers(elems)
  PROVE  AsMembers(elems)[k] \in P
<1>1. PICK j \in DOMAIN elems : k = Decimal(j - 1)
  BY DEF AsMembers
<1>2. AsMembers(elems)[k] = elems[k.number + 1]
  BY DEF AsMembers
<1>3. k.number + 1 = j
  BY <1>1 DEF Decimal
<1> QED
  BY <1>2, <1>3

(* A tree with one child replaced by a tree is a tree.                     *)
LEMMA SetChildIsTree ==
  ASSUME NEW node, Tree(node), NEW key \in Keys, NEW ptr, Tree(ptr)
  PROVE  Tree(SetChild(node, key, ptr))
<1>1. PICK parts : /\ node \in parts /\ ptr \in parts /\ NullNode \in parts
                   /\ \A n \in parts : IsNode(n, parts)
  BY CommonParts
<1>2. SUFFICES IsNode(SetChild(node, key, ptr), parts)
  BY <1>1, NewRoot
<1>3. CASE node.kind = "object"
  <2> DEFINE members == IF ptr = NullPtr THEN Without(node.members, key) ELSE With(node.members, key, ptr)
  <2>1. node.members \in [DOMAIN node.members -> parts]
    BY <1>1, <1>3 DEF IsNode
  <2>2. members \in [DOMAIN members -> parts]
    BY <1>1, <2>1 DEF Without, Restrict, With
  <2>3. SetChild(node, key, ptr) = Object(members)
    BY <1>3, ObjectSet
  <2> HIDE DEF members
  <2> QED
    BY <2>2, <2>3, ObjectIsNode
<1>4. CASE node.kind = "array"
  <2>1. node.elems \in Seq(parts)
    BY <1>1, <1>4 DEF IsNode
  <2>2. CASE IsNumeric(key)
    <3> DEFINE elems == Elements(node.elems, key.number, ptr)
    <3>1. elems \in Seq(parts \cup {NullNode, ptr})
      BY <2>1, <2>2, KeyParts, ElementsTyped
    <3>2. parts \cup {NullNode, ptr} = parts
      BY <1>1
    <3>3. SetChild(node, key, ptr) = Array(elems)
      BY <1>4, <2>2, ArraySetNumeric
    <3> HIDE DEF elems
    <3> QED
      BY <3>1, <3>2, <3>3, ArrayIsNode
  <2>3. CASE ~IsNumeric(key)
    <3> DEFINE old == AsMembers(node.elems)
               members == With(old, key, ptr)
    <3>1. \A k \in DOMAIN old : old[k] \in parts
      BY <2>1, MembersAreElements
    <3>2. SetChild(node, key, ptr) = Object(members)
      BY <1>4, <2>3, ArraySetNamed
    <3> HIDE DEF old
    <3>3. members \in [DOMAIN members -> parts]
      BY <1>1, <3>1 DEF With
    <3> HIDE DEF members
    <3> QED
      BY <3>2, <3>3, ObjectIsNode
  <2> QED
    BY <2>2, <2>3
<1>5. CASE node.kind \notin {"array", "object"}
  <2> DEFINE members == [k \in {key} |-> ptr]
  <2>1. members \in [DOMAIN members -> parts]
    BY <1>1
  <2>2. SetChild(node, key, ptr) = Object(members)
    <3>1. Singleton(key, ptr) = Object(members)
      BY DEF Singleton
    <3> QED
      BY <1>5, <3>1, LeafSet
  <2> HIDE DEF members
  <2> QED
    BY <2>1, <2>2, ObjectIsNode
<1> QED
  BY <1>3, <1>4, <1>5

-----------------------------------------------------------------------------
(***************************************************************************)
(* Facts about all paths, by induction on their length: for every proper   *)
(* induction, what holds of the child at the first key and of the rest of  *)
(* the path is carried over to the node.                                   *)
(***************************************************************************)
LEMMA FirstKey ==
  ASSUME NEW n \in Nat, NEW path \in Seq(Keys), Len(path) = n + 1
  PROVE  path # <<>> /\ path[1] \in Keys /\ Tail(path) \in Seq(Keys) /\ Len(Tail(path)) = n
BY TailParts, SequenceParts

(* What is found in a tree is a tree.                                      *)
LEMMA GetIsTree ==
  \A node : \A path \in Seq(Keys) : Tree(node) => Tree(Get(node, path))
<1> DEFINE Good == {n \in Nat : \A node : \A path \in Seq(Keys) :
                                  Len(path) = n /\ Tree(node) => Tree(Get(node, path))}
<1>1. 0 \in Good
  BY GetEmpty, SequenceParts
<1>2. ASSUME NEW n \in Nat, n \in Good PROVE n + 1 \in Good
  <2> SUFFICES ASSUME NEW node, NEW path \in Seq(Keys), Len(path) = n + 1, Tree(node)
               PROVE  Tree(Get(node, path))
    OBVIOUS
  <2>1. path # <<>> /\ Tail(path) \in Seq(Keys) /\ Len(Tail(path)) = n
    BY FirstKey
  <2>2. Tree(Get(Child(node, path[1]), Tail(path)))
    BY <1>2, <2>1, ChildIsTree
  <2> QED
    BY <2>1, <2>2, GetDown
<1> HIDE DEF Good
<1>3. Nat \subseteq Good
  BY <1>1, <1>2, Induction
<1> QED
  BY <1>3, SequenceParts DEF Good

(* A tree with a tree set in it is a tree.                                 *)
LEMMA SetIsTree ==
  ASSUME NEW ptr, Tree(ptr)
  PROVE  \A node : \A path \in Seq(Keys) : Tree(node) => Tree(Set(node, path, ptr))
<1> DEFINE Good == {n \in Nat : \A node : \A path \in Seq(Keys) :
                                  Len(path) = n /\ Tree(node) => Tree(Set(node, path, ptr))}
<1>1. 0 \in Good
  BY SetEmpty, SequenceParts
<1>2. ASSUME NEW n \in Nat, n \in Good PROVE n + 1 \in Good
  <2> SUFFICES ASSUME NEW node, NEW path \in Seq(Keys), Len(path) = n + 1, Tree(node)
               PROVE  Tree(Set(node, path, ptr))
    OBVIOUS
  <2>1. path # <<>> /\ path[1] \in Keys /\ Tail(path) \in Seq(Keys) /\ Len(Tail(path)) = n
    BY FirstKey
  <2>2. Tree(Set(Child(node, path[1]), Tail(path), ptr))
    BY <1>2, <2>1, ChildIsTree
  <2> QED
    BY <2>1, <2>2, SetDown, SetChildIsTree
<1> HIDE DEF Good
<1>3. Nat \subseteq Good
  BY <1>1, <1>2, Induction
<1> QED
  BY <1>3, SequenceParts DEF Good

(* What is set at a path is read back at it.                               *)
LEMMA ReadBack ==
  ASSUME NEW ptr
  PROVE  \A node : \A path \in Seq(Keys) : Tree(node) => Get(Set(node, path, ptr), path) = ptr
<1> DEFINE Good == {n \in Nat : \A node : \A path \in Seq(Keys) :
                                  Len(path) = n /\ Tree(node) => Get(Set(node, path, ptr), path) = ptr}
<1>1. 0 \in Good
  BY GetEmpty, SetEmpty, SequenceParts
<1>2. ASSUME NEW n \in Nat, n \in Good PROVE n + 1 \in Good
  <2> SUFFICES ASSUME NEW node, NEW path \in Seq(Keys), Len(path) = n + 1, Tree(node)
               PROVE  Get(Set(node, path, ptr), path) = ptr
    OBVIOUS
  <2>1. path # <<>> /\ path[1] \in Keys /\ Tail(path) \in Seq(Keys) /\ Len(Tail(path)) = n
    BY FirstKey
  <2> DEFINE child == Set(Child(node, path[1]), Tail(path), ptr)
             after == Set(node, path, ptr)
  <2>2. Get(child, Tail(path)) = ptr
    BY <1>2, <2>1, ChildIsTree
  <2>3. after = SetChild(node, path[1], child)
    BY <2>1, SetDown
  <2>4. Child(after, path[1]) = child
    BY <2>1, <2>3, ChildOfSet
  <2>5. Get(after, path) = Get(Child(after, path[1]), Tail(path))
    BY <2>1, GetDown
  <2> QED
    BY <2>2, <2>4, <2>5
<1> HIDE DEF Good
<1>3. Nat \subseteq Good
  BY <1>1, <1>2, Induction
<1> QED
  BY <1>3, SequenceParts DEF Good

(* One path begins with another.                                           *)
Begins(p, q) == Len(p) <= Len(q) /\ \A i \in 1..Len(p) : p[i] = q[i]

(* So do their tails.                                                      *)
LEMMA BeginsDown ==
  ASSUME NEW p \in Seq(Keys), NEW q \in Seq(Keys), p # <<>>, Begins(p, q)
  PROVE  q # <<>> /\ p[1] = q[1] /\ Begins(Tail(p), Tail(q))
<1>1. /\ Len(p) \in Nat \ {0} /\ Len(Tail(p)) = Len(p) - 1
      /\ \A i \in 1..(Len(p) - 1) : Tail(p)[i] = p[i + 1]
  BY TailParts
<1>2. Len(q) \in Nat /\ q # <<>> /\ p[1] = q[1]
  BY <1>1, SequenceParts DEF Begins
<1>3. Len(Tail(q)) = Len(q) - 1 /\ \A i \in 1..(Len(q) - 1) : Tail(q)[i] = q[i + 1]
  BY <1>2, TailParts
<1>4. \A i \in 1..(Len(p) - 1) : i \in 1..(Len(q) - 1) /\ p[i + 1] = q[i + 1]
  BY <1>1, <1>2 DEF Begins
<1> QED
  BY <1>1, <1>2, <1>3, <1>4 DEF Begins

(* What is found at a path decides what is found at another.               *)
Decides(p, q) == \A x, y : Get(x, p) = Get(y, p) => Get(x, q) = Get(y, q)

(* Those that begin with it.                                               *)
LEMMA AgreeBelow ==
  \A p \in Seq(Keys) : \A q \in Seq(Keys) : Begins(p, q) => Decides(p, q)
<1> DEFINE Good == {n \in Nat : \A p \in Seq(Keys) : \A q \in Seq(Keys) :
                                  Len(p) = n /\ Begins(p, q) => Decides(p, q)}
<1>1. 0 \in Good
  <2> SUFFICES ASSUME NEW p \in Seq(Keys), NEW q \in Seq(Keys), Len(p) = 0
               PROVE  Decides(p, q)
    OBVIOUS
  <2>1. p = <<>>
    BY SequenceParts
  <2> QED
    BY <2>1, GetEmpty DEF Decides
<1>2. ASSUME NEW n \in Nat, n \in Good PROVE n + 1 \in Good
  <2> SUFFICES ASSUME NEW p \in Seq(Keys), NEW q \in Seq(Keys), Len(p) = n + 1, Begins(p, q)
               PROVE  Decides(p, q)
    OBVIOUS
  <2>1. p # <<>> /\ p[1] \in Keys /\ Tail(p) \in Seq(Keys) /\ Len(Tail(p)) = n
    BY FirstKey
  <2>2. q # <<>> /\ p[1] = q[1] /\ Begins(Tail(p), Tail(q))
    BY <2>1, BeginsDown
  <2>3. Tail(q) \in Seq(Keys)
    BY <2>2, TailParts
  <2>4. Decides(Tail(p), Tail(q))
    BY <1>2, <2>1, <2>2, <2>3
  <2>5. ASSUME NEW x, NEW y, Get(x, p) = Get(y, p) PROVE Get(x, q) = Get(y, q)
    <3>1. Get(Child(x, p[1]), Tail(p)) = Get(Child(y, p[1]), Tail(p))
      BY <2>1, <2>5, GetDown
    <3>2. Get(Child(x, p[1]), Tail(q)) = Get(Child(y, p[1]), Tail(q))
      BY <2>4, <3>1 DEF Decides
    <3>3. /\ Get(x, q) = Get(Child(x, p[1]), Tail(q))
          /\ Get(y, q) = Get(Child(y, p[1]), Tail(q))
      BY <2>2, GetDown
    <3> QED
      BY <3>2, <3>3
  <2> QED
    BY <2>5 DEF Decides
<1> HIDE DEF Good
<1>3. Nat \subseteq Good
  BY <1>1, <1>2, Induction
<1> QED
  BY <1>3, SequenceParts DEF Good

(* A container does not change when a child is set to what it is.          *)
LEMMA ChildSetAgain ==
  ASSUME NEW node, Tree(node), NEW key \in Keys, Child(node, key) # NullPtr
  PROVE  SetChild(node, key, Child(node, key)) = node
<1> DEFINE ptr == Child(node, key)
<1>1. PICK parts : node \in parts /\ \A n \in parts : IsNode(n, parts)
  BY DEF Tree
<1>2. CASE node.kind = "object"
  <2> DEFINE members == node.members
  <2>1. node = Object(members) /\ members \in [DOMAIN members -> parts]
    BY <1>1, <1>2 DEF IsNode
  <2>2. key \in DOMAIN members /\ ptr = members[key]
    BY <1>2 DEF Child
  <2>3. SetChild(node, key, ptr) = Object(With(members, key, ptr))
    BY <1>2, ObjectSet
  <2> HIDE DEF members, ptr
  <2>4. With(members, key, ptr) = members
    BY <2>1, <2>2 DEF With
  <2> QED
    BY <2>1, <2>3, <2>4 DEF ptr
<1>3. CASE node.kind = "array"
  <2> DEFINE e == node.elems
             n == key.number
             t == Elements(e, n, ptr)
  <2>1. node = Array(e) /\ e \in Seq(parts)
    BY <1>1, <1>3 DEF IsNode
  <2>2. n \in 0..(Len(e) - 1) /\ ptr = e[n + 1]
    BY <1>3 DEF Child
  <2>3. Len(e) \in Nat /\ n \in Nat
    BY <2>1, <2>2, SequenceParts
  <2>4. IsNumeric(key)
    BY <2>3 DEF IsNumeric, NoNumber
  <2>5. SetChild(node, key, ptr) = Array(t)
    BY <1>3, <2>4, ArraySetNumeric
  <2> HIDE DEF e, n, ptr
  <2>6. t = e
    BY <2>1, <2>2, <2>3, SequenceParts DEF Elements, PadTo
  <2> QED
    BY <2>1, <2>5, <2>6 DEF ptr
<1>4. CASE node.kind \notin {"array", "object"}
  BY <1>4, ChildOfLeaf
<1> QED
  BY <1>2, <1>3, <1>4

(* Nor does a document when what is at a path is set there again.          *)
LEMMA SetAgain ==
  \A node : \A path \in Seq(Keys) :
    Tree(node) /\ Get(node, path) # NullPtr => Set(node, path, Get(node, path)) = node
<1> DEFINE Good == {n \in Nat : \A node : \A path \in Seq(Keys) :
                                  Len(path) = n /\ Tree(node) /\ Get(node, path) # NullPtr
                                    => Set(node, path, Get(node, path)) = node}
<1>1. 0 \in Good
  BY GetEmpty, SetEmpty, SequenceParts
<1>2. ASSUME NEW n \in Nat, n \in Good PROVE n + 1 \in Good
  <2> SUFFICES ASSUME NEW node, NEW path \in Seq(Keys), Len(path) = n + 1, Tree(node),
                      Get(node, path) # NullPtr
               PROVE  Set(node, path, Get(node, path)) = node
    OBVIOUS
  <2> DEFINE child == Child(node, path[1])
             ptr == Get(node, path)
  <2>1. path # <<>> /\ path[1] \in Keys /\ Tail(path) \in Seq(Keys) /\ Len(Tail(path)) = n
    BY FirstKey
  <2>2. Get(child, Tail(path)) = ptr
    BY <2>1, GetDown
  <2>3. child # NullPtr
    BY <2>1, <2>2, GetBelowNull
  <2>4. Set(child, Tail(path), ptr) = child
    <3>1. Tree(child)
      BY ChildIsTree
    <3>2. Get(child, Tail(path)) # NullPtr
      BY <2>2
    <3> HIDE DEF child, ptr
    <3>3. Set(child, Tail(path), Get(child, Tail(path))) = child
      BY <1>2, <2>1, <3>1, <3>2
    <3> QED
      BY <2>2, <3>3
  <2>5. Set(node, path, ptr) = SetChild(node, path[1], Set(child, Tail(path), ptr))
    BY <2>1, SetDown
  <2>6. SetChild(node, path[1], child) = node
    BY <2>1, <2>3, ChildSetAgain
  <2> QED
    BY <2>4, <2>5, <2>6
<1> HIDE DEF Good
<1>3. Nat \subseteq Good
  BY <1>1, <1>2, Induction
<1> QED
  BY <1>3, SequenceParts DEF Good

-----------------------------------------------------------------------------
(***************************************************************************)
(* Another path.  Two paths diverge when they differ at a place that both  *)
(* have.  What is at the end of the one is unmoved by an update at the end *)
(* of the other when every array on the way is settled.                    *)
(***************************************************************************)
Diverge(p, q) == \E i \in DOMAIN p \cap DOMAIN q : p[i] # q[i]

Visited(node, path, i) == Get(node, SubSeq(path, 1, i - 1))

Steady(node, p, q) ==
  \A i \in DOMAIN p \cap DOMAIN q : Settled(Visited(node, p, i), p[i], q[i])

(* The first node visited is the root,                                     *)
LEMMA VisitFirst ==
  ASSUME NEW node, NEW path \in Seq(Keys)
  PROVE  Visited(node, path, 1) = node
<1>1. SubSeq(path, 1, 1 - 1) = <<>>
  OBVIOUS
<1> QED
  BY <1>1, GetEmpty DEF Visited

(* the next ones are those visited from the child.                         *)
LEMMA VisitNext ==
  ASSUME NEW node, NEW path \in Seq(Keys), path # <<>>, NEW i \in DOMAIN Tail(path)
  PROVE  /\ Visited(node, path, i + 1) = Visited(Child(node, path[1]), Tail(path), i)
         /\ i + 1 \in DOMAIN path
         /\ path[i + 1] = Tail(path)[i]
<1>1. Tail(path) \in Seq(Keys) /\ Len(Tail(path)) = Len(path) - 1 /\ Len(path) \in Nat
  BY TailParts, SequenceParts
<1>2. i \in 1..(Len(path) - 1) /\ i \in 1..Len(path)
  BY <1>1, SequenceParts
<1> DEFINE up == SubSeq(path, 1, i)
<1>3. up \in Seq(Keys)
  BY <1>1, <1>2, PrefixParts
<1>4. up # <<>> /\ up[1] = path[1] /\ Tail(up) = SubSeq(Tail(path), 1, i - 1)
  BY <1>2, PrefixOfTail
<1> HIDE DEF up
<1>5. Get(node, up) = Get(Child(node, up[1]), Tail(up))
  BY <1>3, <1>4, GetDown
<1>6. Visited(node, path, i + 1) = Get(node, up)
  <2>1. (i + 1) - 1 = i
    BY <1>2
  <2> QED
    BY <2>1 DEF Visited, up
<1>7. i + 1 \in DOMAIN path /\ path[i + 1] = Tail(path)[i]
  BY <1>1, <1>2, TailParts, SequenceParts
<1> QED
  BY <1>4, <1>5, <1>6, <1>7 DEF Visited

(* Paths that diverge and share their first key diverge below it.          *)
LEMMA DivergeDown ==
  ASSUME NEW p \in Seq(Keys), NEW q \in Seq(Keys), Diverge(p, q)
  PROVE  /\ p # <<>> /\ q # <<>>
         /\ p[1] = q[1] => Diverge(Tail(p), Tail(q))
<1>1. PICK i \in DOMAIN p \cap DOMAIN q : p[i] # q[i]
  BY DEF Diverge
<1>2. p # <<>> /\ q # <<>> /\ i \in 1..Len(p) /\ i \in 1..Len(q)
  BY <1>1, SequenceParts
<1>3. ASSUME p[1] = q[1] PROVE Diverge(Tail(p), Tail(q))
  <2>1. i # 1
    BY <1>1, <1>3
  <2>2. i - 1 \in 1..(Len(p) - 1) /\ i - 1 \in 1..(Len(q) - 1) /\ (i - 1) + 1 = i
    BY <1>2, <2>1, SequenceParts
  <2>3. i - 1 \in DOMAIN Tail(p) /\ Tail(p)[i - 1] = p[i]
    BY <1>2, <2>2, TailParts, SequenceParts
  <2>4. i - 1 \in DOMAIN Tail(q) /\ Tail(q)[i - 1] = q[i]
    BY <1>2, <2>2, TailParts, SequenceParts
  <2> QED
    BY <1>1, <2>3, <2>4 DEF Diverge
<1> QED
  BY <1>2, <1>3

(* A steady path is settled here and steady below.                         *)
LEMMA SteadyDown ==
  ASSUME NEW node, NEW p \in Seq(Keys), NEW q \in Seq(Keys), p # <<>>, q # <<>>, Steady(node, p, q)
  PROVE  /\ Settled(node, p[1], q[1])
         /\ Steady(Child(node, p[1]), Tail(p), Tail(q))
<1>1. 1 \in DOMAIN p \cap DOMAIN q
  BY SequenceParts
<1>2. Settled(node, p[1], q[1])
  BY <1>1, VisitFirst DEF Steady
<1>3. ASSUME NEW i \in DOMAIN Tail(p) \cap DOMAIN Tail(q)
      PROVE  Settled(Visited(Child(node, p[1]), Tail(p), i), Tail(p)[i], Tail(q)[i])
  <2>1. /\ Visited(node, p, i + 1) = Visited(Child(node, p[1]), Tail(p), i)
        /\ i + 1 \in DOMAIN p /\ p[i + 1] = Tail(p)[i]
    BY VisitNext
  <2>2. i + 1 \in DOMAIN q /\ q[i + 1] = Tail(q)[i]
    BY VisitNext
  <2>3. Settled(Visited(node, p, i + 1), p[i + 1], q[i + 1])
    BY <2>1, <2>2 DEF Steady
  <2> QED
    BY <2>1, <2>2, <2>3
<1> QED
  BY <1>2, <1>3 DEF Steady

(* By induction on p: what is at a steady path is not moved.               *)
LEMMA Unmoved ==
  ASSUME NEW ptr
  PROVE  \A node : \A p, q \in Seq(Keys) :
           Tree(node) /\ Diverge(p, q) /\ Steady(node, p, q) => Get(Set(node, q, ptr), p) = Get(node, p)
<1> DEFINE Good == {n \in Nat : \A node : \A p, q \in Seq(Keys) :
                      Len(p) = n /\ Tree(node) /\ Diverge(p, q) /\ Steady(node, p, q)
                        => Get(Set(node, q, ptr), p) = Get(node, p)}
<1>1. 0 \in Good
  BY DivergeDown, SequenceParts
<1>2. ASSUME NEW n \in Nat, n \in Good PROVE n + 1 \in Good
  <2> SUFFICES ASSUME NEW node, NEW p \in Seq(Keys), NEW q \in Seq(Keys),
                      Len(p) = n + 1, Tree(node), Diverge(p, q), Steady(node, p, q)
               PROVE  Get(Set(node, q, ptr), p) = Get(node, p)
    OBVIOUS
  <2> DEFINE child == Set(Child(node, q[1]), Tail(q), ptr)
             after == Set(node, q, ptr)
  <2>1. p # <<>> /\ p[1] \in Keys /\ Tail(p) \in Seq(Keys) /\ Len(Tail(p)) = n
    BY FirstKey
  <2>2. q # <<>> /\ q[1] \in Keys /\ Tail(q) \in Seq(Keys)
    BY DivergeDown, TailParts
  <2>3. after = SetChild(node, q[1], child)
    BY <2>2, SetDown
  <2>4. Get(after, p) = Get(Child(after, p[1]), Tail(p)) /\ Get(node, p) = Get(Child(node, p[1]), Tail(p))
    BY <2>1, GetDown
  <2>5. CASE p[1] = q[1]
    <3>1. Child(after, p[1]) = child
      BY <2>2, <2>3, <2>5, ChildOfSet
    <3>2. Diverge(Tail(p), Tail(q)) /\ Steady(Child(node, p[1]), Tail(p), Tail(q)) /\ Tree(Child(node, p[1]))
      BY <2>1, <2>2, <2>5, DivergeDown, SteadyDown, ChildIsTree
    <3>3. Get(child, Tail(p)) = Get(Child(node, p[1]), Tail(p))
      <4> DEFINE below == Child(node, p[1])
                 rest == Tail(p)
                 other == Tail(q)
      <4>1. child = Set(below, other, ptr)
        BY <2>5
      <4>2. /\ rest \in Seq(Keys) /\ other \in Seq(Keys) /\ Len(rest) = n
            /\ Tree(below) /\ Diverge(rest, other) /\ Steady(below, rest, other)
        BY <2>1, <2>2, <3>2
      <4> HIDE DEF below, rest, other, child
      <4>3. Get(Set(below, other, ptr), rest) = Get(below, rest)
        BY <1>2, <4>2
      <4> QED
        BY <4>1, <4>3 DEF below, rest
    <3> QED
      BY <2>4, <3>1, <3>3
  <2>6. CASE p[1] # q[1]
    <3>1. Settled(node, p[1], q[1])
      BY <2>1, <2>2, SteadyDown
    <3>2. Child(after, p[1]) = Child(node, p[1])
      BY <2>1, <2>2, <2>3, <2>6, <3>1, OtherChild
    <3> QED
      BY <2>4, <3>2
  <2> QED
    BY <2>5, <2>6
<1> HIDE DEF Good
<1>3. Nat \subseteq Good
  BY <1>1, <1>2, Induction
<1>4. ASSUME NEW node, NEW p \in Seq(Keys), NEW q \in Seq(Keys), Tree(node), Diverge(p, q), Steady(node, p, q)
      PROVE  Get(Set(node, q, ptr), p) = Get(node, p)
  <2>1. Len(p) \in Good
    BY <1>3, SequenceParts
  <2> QED
    BY <1>4, <2>1 DEF Good
<1> QED
  BY <1>4

(* Where nodes are found, an index is in range; so it is after an update.  *)
InRange(node, key) == node.kind = "array" /\ IsNumeric(key) => key.number < Len(node.elems)

Firm(node, path) == \A i \in DOMAIN path : InRange(Visited(node, path, i), path[i])

(* From the child to the node.                                             *)
LEMMA FirmUp ==
  ASSUME NEW node, NEW path \in Seq(Keys), path # <<>>,
         InRange(node, path[1]), Firm(Child(node, path[1]), Tail(path))
  PROVE  Firm(node, path)
<1> SUFFICES ASSUME NEW i \in DOMAIN path PROVE InRange(Visited(node, path, i), path[i])
  BY DEF Firm
<1>1. CASE i = 1
  BY <1>1, VisitFirst
<1>2. CASE i # 1
  <2>1. i - 1 \in DOMAIN Tail(path) /\ (i - 1) + 1 = i
    BY <1>2, TailParts, SequenceParts
  <2>2. /\ Visited(node, path, i) = Visited(Child(node, path[1]), Tail(path), i - 1)
        /\ path[i] = Tail(path)[i - 1]
    BY <2>1, VisitNext
  <2>3. InRange(Visited(Child(node, path[1]), Tail(path), i - 1), Tail(path)[i - 1])
    BY <2>1 DEF Firm
  <2> QED
    BY <2>2, <2>3
<1> QED
  BY <1>1, <1>2

(* The empty path asks for nothing.                                        *)
LEMMA FirmEmpty ==
  ASSUME NEW node
  PROVE  Firm(node, <<>>)
BY DEF Firm

(* A key that finds a node is in range,                                    *)
LEMMA ChildInRange ==
  ASSUME NEW node, Tree(node), NEW key \in Keys, Child(node, key) # NullPtr
  PROVE  InRange(node, key)
<1> SUFFICES ASSUME node.kind = "array" PROVE key.number < Len(node.elems)
  BY DEF InRange
<1>1. PICK parts : node = Array(node.elems) /\ node.elems \in Seq(parts)
  BY ArrayParts
<1>2. key.number \in 0..(Len(node.elems) - 1)
  BY <1>1, ChildOfArray
<1> QED
  BY <1>1, <1>2, SequenceParts

(* and so is a key that was set.                                           *)
LEMMA SetInRange ==
  ASSUME NEW node, Tree(node), NEW key \in Keys, NEW ptr
  PROVE  InRange(SetChild(node, key, ptr), key)
<1>1. CASE node.kind = "array" /\ IsNumeric(key)
  <2> DEFINE e == node.elems
             n == key.number
             t == Elements(e, n, ptr)
  <2>1. Len(e) \in Nat /\ n \in Nat
    BY <1>1, ArrayParts, SequenceParts, KeyParts
  <2>2. SetChild(node, key, ptr) = Array(t)
    BY <1>1, ArraySetNumeric
  <2>3. n < Len(t)
    <3> HIDE DEF e, n
    <3>1. Len(t) = IF n < Len(e) THEN Len(e) ELSE n + 1
      BY <2>1, ElementsAt
    <3> QED
      BY <2>1, <3>1
  <2>4. Array(t).elems = t
    BY DEF Array
  <2> HIDE DEF t
  <2> QED
    BY <2>2, <2>3, <2>4 DEF InRange
<1>2. CASE ~(node.kind = "array" /\ IsNumeric(key))
  <2>1. SetChild(node, key, ptr).kind # "array" \/ ~IsNumeric(key)
    BY <1>2 DEF SetChild, SetMember, SetElement, Singleton, Object
  <2> QED
    BY <2>1 DEF InRange
<1> QED
  BY <1>1, <1>2

(* A path that finds a node is in range all the way,                       *)
LEMMA FirmFound ==
  \A node : \A path \in Seq(Keys) : Tree(node) /\ Get(node, path) # NullPtr => Firm(node, path)
<1> DEFINE Good == {n \in Nat : \A node : \A path \in Seq(Keys) :
                      Len(path) = n /\ Tree(node) /\ Get(node, path) # NullPtr => Firm(node, path)}
<1>1. 0 \in Good
  BY FirmEmpty, SequenceParts
<1>2. ASSUME NEW n \in Nat, n \in Good PROVE n + 1 \in Good
  <2> SUFFICES ASSUME NEW node, NEW path \in Seq(Keys), Len(path) = n + 1, Tree(node),
                      Get(node, path) # NullPtr
               PROVE  Firm(node, path)
    OBVIOUS
  <2>1. path # <<>> /\ path[1] \in Keys /\ Tail(path) \in Seq(Keys) /\ Len(Tail(path)) = n
    BY FirstKey
  <2>2. Get(Child(node, path[1]), Tail(path)) # NullPtr
    BY <2>1, GetDown
  <2>3. Firm(Child(node, path[1]), Tail(path))
    BY <1>2, <2>1, <2>2, ChildIsTree
  <2>4. Child(node, path[1]) # NullPtr
    BY <2>1, <2>2, GetBelowNull
  <2> QED
    BY <2>1, <2>3, <2>4, ChildInRange, FirmUp
<1> HIDE DEF Good
<1>3. Nat \subseteq Good
  BY <1>1, <1>2, Induction
<1> QED
  BY <1>3, SequenceParts DEF Good

(* and so is a path that was set.                                          *)
LEMMA FirmSet ==
  ASSUME NEW ptr
  PROVE  \A node : \A path \in Seq(Keys) : Tree(node) => Firm(Set(node, path, ptr), path)
<1> DEFINE Good == {n \in Nat : \A node : \A path \in Seq(Keys) :
                      Len(path) = n /\ Tree(node) => Firm(Set(node, path, ptr), path)}
<1>1. 0 \in Good
  BY FirmEmpty, SequenceParts
<1>2. ASSUME NEW n \in Nat, n \in Good PROVE n + 1 \in Good
  <2> SUFFICES ASSUME NEW node, NEW path \in Seq(Keys), Len(path) = n + 1, Tree(node)
               PROVE  Firm(Set(node, path, ptr), path)
    OBVIOUS
  <2>1. path # <<>> /\ path[1] \in Keys /\ Tail(path) \in Seq(Keys) /\ Len(Tail(path)) = n
    BY FirstKey
  <2> DEFINE child == Set(Child(node, path[1]), Tail(path), ptr)
             after == Set(node, path, ptr)
  <2>2. Firm(child, Tail(path))
    BY <1>2, <2>1, ChildIsTree
  <2>3. after = SetChild(node, path[1], child)
    BY <2>1, SetDown
  <2>4. Child(after, path[1]) = child /\ InRange(after, path[1])
    BY <2>1, <2>3, ChildOfSet, SetInRange
  <2> QED
    BY <2>1, <2>2, <2>4, FirmUp
<1> HIDE DEF Good
<1>3. Nat \subseteq Good
  BY <1>1, <1>2, Induction
<1> QED
  BY <1>3, SequenceParts DEF Good

CanonicalKeys(path) == \A i \in DOMAIN path : IsCanonical(path[i])

(* In range and named in one way only, a path is steady.                   *)
LEMMA FirmIsSteady ==
  ASSUME NEW node, NEW p, NEW q, Firm(node, p), CanonicalKeys(p), CanonicalKeys(q)
  PROVE  Steady(node, p, q)
BY DEF Firm, CanonicalKeys, Steady, Settled, InRange

(* What is found at p is still there after an update at a path that does   *)
(* not meet it.                                                            *)
LEMMA FoundIsKept ==
  ASSUME NEW node, Tree(node), NEW p \in Seq(Keys), NEW q \in Seq(Keys), Diverge(p, q),
         CanonicalKeys(p), CanonicalKeys(q), Get(node, p) # NullPtr, NEW ptr
  PROVE  Get(Set(node, q, ptr), p) = Get(node, p)
BY FirmFound, FirmIsSteady, Unmoved

(* What was set at p, nullptr included, is still there.                    *)
LEMMA SetIsKept ==
  ASSUME NEW node, Tree(node), NEW p \in Seq(Keys), NEW q \in Seq(Keys), Diverge(p, q),
         CanonicalKeys(p), CanonicalKeys(q), NEW a, Tree(a), NEW b
  PROVE  Get(Set(Set(node, p, a), q, b), p) = a
<1> DEFINE after == Set(node, p, a)
<1>1. Tree(after) /\ Firm(after, p) /\ Get(after, p) = a
  BY SetIsTree, FirmSet, ReadBack
<1>2. Steady(after, p, q)
  BY <1>1, FirmIsSteady
<1> HIDE DEF after
<1>3. Get(Set(after, q, b), p) = Get(after, p)
  BY <1>1, <1>2, Unmoved
<1> QED
  BY <1>1, <1>3 DEF after

-----------------------------------------------------------------------------
(* A path on which no array is met: nothing on it is ever padded or        *)
(* converted.                                                              *)

Bare(node, path) == \A i \in DOMAIN path : Visited(node, path, i).kind # "array"

(* Without arrays every path is steady.                                    *)
LEMMA BareIsSteady ==
  ASSUME NEW node, NEW p, NEW q, Bare(node, p)
  PROVE  Steady(node, p, q)
BY DEF Bare, Steady, Settled

(* From the child to the node, and back.                                   *)
LEMMA BareUp ==
  ASSUME NEW node, NEW path \in Seq(Keys), path # <<>>,
         node.kind # "array", Bare(Child(node, path[1]), Tail(path))
  PROVE  Bare(node, path)
<1> SUFFICES ASSUME NEW i \in DOMAIN path PROVE Visited(node, path, i).kind # "array"
  BY DEF Bare
<1>1. CASE i = 1
  BY <1>1, VisitFirst
<1>2. CASE i # 1
  <2>1. i - 1 \in DOMAIN Tail(path) /\ (i - 1) + 1 = i
    BY <1>2, TailParts, SequenceParts
  <2>2. Visited(node, path, i) = Visited(Child(node, path[1]), Tail(path), i - 1)
    BY <2>1, VisitNext
  <2> QED
    BY <2>1, <2>2 DEF Bare
<1> QED
  BY <1>1, <1>2

(* From the node to the child.                                             *)
LEMMA BareDown ==
  ASSUME NEW node, NEW path \in Seq(Keys), path # <<>>, Bare(node, path)
  PROVE  node.kind # "array" /\ Bare(Child(node, path[1]), Tail(path))
<1>1. 1 \in DOMAIN path
  BY SequenceParts
<1>2. node.kind # "array"
  BY <1>1, VisitFirst DEF Bare
<1>3. ASSUME NEW i \in DOMAIN Tail(path) PROVE Visited(Child(node, path[1]), Tail(path), i).kind # "array"
  BY VisitNext DEF Bare
<1> QED
  BY <1>2, <1>3 DEF Bare

(* Below nullptr there is no array.                                        *)
LEMMA BareNull ==
  ASSUME NEW path \in Seq(Keys)
  PROVE  Bare(NullPtr, path)
<1> SUFFICES ASSUME NEW i \in DOMAIN path PROVE Visited(NullPtr, path, i).kind # "array"
  BY DEF Bare
<1>1. i - 1 \in 0..Len(path)
  BY SequenceParts
<1>2. SubSeq(path, 1, i - 1) \in Seq(Keys)
  BY <1>1, PrefixParts
<1>3. Visited(NullPtr, path, i) = NullPtr
  BY <1>2, GetBelowNull DEF Visited
<1> QED
  BY <1>3 DEF NullPtr

(* What is set in a container other than an array is in an object.         *)
LEMMA SetChildBare ==
  ASSUME NEW node, node.kind # "array", NEW key, NEW ptr
  PROVE  SetChild(node, key, ptr).kind = "object"
BY DEF SetChild, SetMember, Singleton, Object

(* An update meets no array where there was none.                          *)
LEMMA BareSet ==
  ASSUME NEW ptr
  PROVE  \A node : \A path \in Seq(Keys) : Tree(node) /\ Bare(node, path) => Bare(Set(node, path, ptr), path)
<1> DEFINE Good == {n \in Nat : \A node : \A path \in Seq(Keys) :
                      Len(path) = n /\ Tree(node) /\ Bare(node, path) => Bare(Set(node, path, ptr), path)}
<1>1. 0 \in Good
  BY SequenceParts DEF Bare
<1>2. ASSUME NEW n \in Nat, n \in Good PROVE n + 1 \in Good
  <2> SUFFICES ASSUME NEW node, NEW path \in Seq(Keys), Len(path) = n + 1, Tree(node), Bare(node, path)
               PROVE  Bare(Set(node, path, ptr), path)
    OBVIOUS
  <2>1. path # <<>> /\ path[1] \in Keys /\ Tail(path) \in Seq(Keys) /\ Len(Tail(path)) = n
    BY FirstKey
  <2> DEFINE child == Set(Child(node, path[1]), Tail(path), ptr)
             after == Set(node, path, ptr)
  <2>2. node.kind # "array" /\ Bare(child, Tail(path))
    BY <1>2, <2>1, ChildIsTree, BareDown
  <2>3. after = SetChild(node, path[1], child)
    BY <2>1, SetDown
  <2>4. Child(after, path[1]) = child /\ after.kind = "object"
    BY <2>1, <2>2, <2>3, ChildOfSet, SetChildBare
  <2> QED
    BY <2>1, <2>2, <2>4, BareUp
<1> HIDE DEF Good
<1>3. Nat \subseteq Good
  BY <1>1, <1>2, Induction
<1> QED
  BY <1>3, SequenceParts DEF Good

-----------------------------------------------------------------------------
(* The order of two updates. Where no array is updated, a container is a   *)
(* function of its keys, and nullptr is erased from an object only.        *)

(* An update below the root leaves a node.                                 *)
LEMMA SetChildIsNode ==
  ASSUME NEW node, NEW key, NEW ptr
  PROVE  SetChild(node, key, ptr) # NullPtr
<1>1. SetChild(node, key, ptr).kind = "object" \/ SetChild(node, key, ptr).kind = "array"
  BY DEF SetChild, SetMember, SetElement, Singleton, Object, Array
<1> QED
  BY <1>1 DEF NullPtr

(* Neither does an update at a path.                                       *)
LEMMA SetIsNode ==
  ASSUME NEW S, NEW node, NEW path \in Seq(S), path # <<>>, NEW ptr
  PROVE  Set(node, path, ptr) # NullPtr
BY SetDown, SetChildIsNode

(* The members after an update of an object, and of what is no container.  *)
LEMMA MembersOfSet ==
  ASSUME NEW node, node.kind = "object", NEW key, NEW ptr
  PROVE  /\ SetChild(node, key, ptr).kind = "object"
         /\ SetChild(node, key, ptr).members =
              IF ptr = NullPtr THEN Without(node.members, key) ELSE With(node.members, key, ptr)
BY ObjectSet DEF Object

Only(key, ptr) == [k \in {key} |-> ptr]

(* The same of what is no container.                                       *)
LEMMA MembersOfSingleton ==
  ASSUME NEW node, node.kind \notin {"array", "object"}, NEW key, NEW ptr
  PROVE  /\ SetChild(node, key, ptr) = Object(Only(key, ptr))
         /\ SetChild(node, key, ptr).kind = "object"
         /\ SetChild(node, key, ptr).members = Only(key, ptr)
<1>1. SetChild(node, key, ptr) = Object(Only(key, ptr))
  <2>1. SetChild(node, key, ptr) = Singleton(key, ptr)
    BY LeafSet
  <2>2. Singleton(key, ptr) = Object(Only(key, ptr))
    BY DEF Singleton, Only
  <2> QED
    BY <2>1, <2>2
<1> QED
  BY <1>1 DEF Object

(* Updates of one key, and of two.                                         *)
LEMMA WithOverwritten ==
  ASSUME NEW members, NEW key, NEW a, NEW b
  PROVE  /\ With(With(members, key, a), key, b) = With(members, key, b)
         /\ With(Without(members, key), key, b) = With(members, key, b)
BY DEF With, Without, Restrict

(* Two keys: both stored,                                                  *)
LEMMA WithWith ==
  ASSUME NEW members, NEW k, NEW l, k # l, NEW a, NEW b
  PROVE  With(With(members, k, a), l, b) = With(With(members, l, b), k, a)
<1> DEFINE one == With(With(members, k, a), l, b)
           two == With(With(members, l, b), k, a)
<1>1. one = [x \in DOMAIN members \cup {k, l} |-> IF x = k THEN a ELSE IF x = l THEN b ELSE members[x]]
  BY DEF With
<1>2. two = [x \in DOMAIN members \cup {k, l} |-> IF x = k THEN a ELSE IF x = l THEN b ELSE members[x]]
  BY DEF With
<1> QED
  BY <1>1, <1>2

(* one stored and one erased,                                              *)
LEMMA WithWithout ==
  ASSUME NEW members, NEW k, NEW l, k # l, NEW b
  PROVE  With(Without(members, k), l, b) = Without(With(members, l, b), k)
BY DEF With, Without, Restrict

(* both erased,                                                            *)
LEMMA WithoutWithout ==
  ASSUME NEW members, NEW k, NEW l
  PROVE  Without(Without(members, k), l) = Without(Without(members, l), k)
BY DEF Without, Restrict

(* and both stored where there was no object.                              *)
LEMMA OnlyWith ==
  ASSUME NEW k, NEW l, k # l, NEW a, NEW b
  PROVE  With(Only(k, a), l, b) = With(Only(l, b), k, a)
BY DEF With, Only

(* One key, stored twice where there was no object.                        *)
LEMMA OnlyOverwritten ==
  ASSUME NEW key, NEW a, NEW b
  PROVE  With(Only(key, a), key, b) = Only(key, b)
BY DEF With, Only

(* The later of two updates of a child is the one that counts.             *)
LEMMA ChildOverwritten ==
  ASSUME NEW node, node.kind # "array", NEW key, NEW a, NEW b, b # NullPtr
  PROVE  SetChild(SetChild(node, key, a), key, b) = SetChild(node, key, b)
<1> DEFINE first == SetChild(node, key, a)
<1>1. CASE node.kind = "object"
  <2> DEFINE members == node.members
  <2>1. first.kind = "object" /\ first.members = IF a = NullPtr THEN Without(members, key) ELSE With(members, key, a)
    BY <1>1, MembersOfSet
  <2> HIDE DEF first, members
  <2>2. SetChild(first, key, b) = Object(With(first.members, key, b))
    BY <2>1, ObjectSet
  <2>3. With(first.members, key, b) = With(members, key, b)
    BY <2>1, WithOverwritten
  <2>4. SetChild(node, key, b) = Object(With(members, key, b))
    BY <1>1, ObjectSet DEF members
  <2> QED
    BY <2>2, <2>3, <2>4 DEF first
<1>2. CASE node.kind # "object"
  <2>1. first.kind = "object" /\ first.members = Only(key, a)
    BY <1>2, MembersOfSingleton
  <2> HIDE DEF first
  <2>2. SetChild(first, key, b) = Object(With(first.members, key, b))
    BY <2>1, ObjectSet
  <2>3. SetChild(node, key, b) = Object(Only(key, b))
    BY <1>2, MembersOfSingleton
  <2> QED
    BY <2>1, <2>2, <2>3, OnlyOverwritten DEF first
<1> QED
  BY <1>1, <1>2

(* Updates of two children commute, unless a nullptr is stored in what was *)
(* no object.                                                              *)
LEMMA ChildrenCommute ==
  ASSUME NEW node, node.kind # "array", NEW k, NEW l, k # l, NEW a, NEW b,
         a = NullPtr => node.kind = "object", b = NullPtr => node.kind = "object"
  PROVE  SetChild(SetChild(node, k, a), l, b) = SetChild(SetChild(node, l, b), k, a)
<1> DEFINE one == SetChild(node, k, a)
           two == SetChild(node, l, b)
<1>1. CASE node.kind = "object"
  <2> DEFINE members == node.members
  <2>1. /\ one.kind = "object"
        /\ one.members = IF a = NullPtr THEN Without(members, k) ELSE With(members, k, a)
    BY <1>1, MembersOfSet
  <2>2. /\ two.kind = "object"
        /\ two.members = IF b = NullPtr THEN Without(members, l) ELSE With(members, l, b)
    BY <1>1, MembersOfSet
  <2> HIDE DEF one, two, members
  <2>3. SetChild(one, l, b) = Object(IF b = NullPtr THEN Without(one.members, l) ELSE With(one.members, l, b))
    BY <2>1, ObjectSet
  <2>4. SetChild(two, k, a) = Object(IF a = NullPtr THEN Without(two.members, k) ELSE With(two.members, k, a))
    BY <2>2, ObjectSet
  <2>5. CASE a = NullPtr /\ b = NullPtr
    BY <2>1, <2>2, <2>3, <2>4, <2>5, WithoutWithout DEF one, two
  <2>6. CASE a = NullPtr /\ b # NullPtr
    BY <2>1, <2>2, <2>3, <2>4, <2>6, WithWithout DEF one, two
  <2>7. CASE a # NullPtr /\ b = NullPtr
    BY <2>1, <2>2, <2>3, <2>4, <2>7, WithWithout DEF one, two
  <2>8. CASE a # NullPtr /\ b # NullPtr
    BY <2>1, <2>2, <2>3, <2>4, <2>8, WithWith DEF one, two
  <2> QED
    BY <2>5, <2>6, <2>7, <2>8
<1>2. CASE node.kind # "object"
  <2>1. a # NullPtr /\ b # NullPtr
    BY <1>2
  <2>2. /\ one.kind = "object" /\ one.members = Only(k, a)
        /\ two.kind = "object" /\ two.members = Only(l, b)
    BY <1>2, MembersOfSingleton
  <2> HIDE DEF one, two
  <2>3. /\ SetChild(one, l, b) = Object(With(one.members, l, b))
        /\ SetChild(two, k, a) = Object(With(two.members, k, a))
    BY <2>1, <2>2, ObjectSet
  <2> QED
    BY <2>2, <2>3, OnlyWith DEF one, two
<1> QED
  BY <1>1, <1>2

(* Updates at two paths that diverge commute, by induction on the first:   *)
(* they go to two children, or on below one.                               *)
LEMMA UpdatesCommute ==
  ASSUME NEW a, NEW b
  PROVE  \A node : \A p, q \in Seq(Keys) :
           /\ Tree(node) /\ Diverge(p, q) /\ Diverge(q, p) /\ Bare(node, p) /\ Bare(node, q)
           /\ a = NullPtr => Get(node, p) # NullPtr
           /\ b = NullPtr => Get(node, q) # NullPtr
           => Set(Set(node, p, a), q, b) = Set(Set(node, q, b), p, a)
<1> DEFINE Free(node, p, q) ==
             /\ Tree(node) /\ Diverge(p, q) /\ Diverge(q, p) /\ Bare(node, p) /\ Bare(node, q)
             /\ a = NullPtr => Get(node, p) # NullPtr
             /\ b = NullPtr => Get(node, q) # NullPtr
           Good == {n \in Nat : \A node : \A p, q \in Seq(Keys) :
                      Len(p) = n /\ Free(node, p, q) => Set(Set(node, p, a), q, b) = Set(Set(node, q, b), p, a)}
<1>1. 0 \in Good
  BY DivergeDown, SequenceParts
<1>2. ASSUME NEW n \in Nat, n \in Good PROVE n + 1 \in Good
  <2> SUFFICES ASSUME NEW node, NEW p \in Seq(Keys), NEW q \in Seq(Keys), Len(p) = n + 1, Free(node, p, q)
               PROVE  Set(Set(node, p, a), q, b) = Set(Set(node, q, b), p, a)
    OBVIOUS
  <2> DEFINE k == p[1]
             l == q[1]
             x == Set(Child(node, k), Tail(p), a)
             y == Set(Child(node, l), Tail(q), b)
             one == Set(node, p, a)
             two == Set(node, q, b)
  <2>1. p # <<>> /\ k \in Keys /\ Tail(p) \in Seq(Keys) /\ Len(Tail(p)) = n
    BY FirstKey
  <2>2. q # <<>> /\ l \in Keys /\ Tail(q) \in Seq(Keys)
    BY DivergeDown, TailParts
  <2>3. one = SetChild(node, k, x) /\ two = SetChild(node, l, y)
    BY <2>1, <2>2, SetDown
  <2>4. Set(one, q, b) = SetChild(one, l, Set(Child(one, l), Tail(q), b))
    BY <2>2, SetDown
  <2>5. Set(two, p, a) = SetChild(two, k, Set(Child(two, k), Tail(p), a))
    BY <2>1, SetDown
  <2>6. node.kind # "array" /\ Bare(Child(node, k), Tail(p)) /\ Bare(Child(node, l), Tail(q))
    BY <2>1, <2>2, BareDown
  <2>7. CASE k = l
    <3> DEFINE below == Child(node, k)
               rest == Tail(p)
               other == Tail(q)
    <3>1. Child(one, l) = x /\ Child(two, k) = y
      BY <2>1, <2>2, <2>3, <2>7, ChildOfSet
    <3>2. Diverge(rest, other) /\ Diverge(other, rest) /\ Tree(below)
      BY <2>7, DivergeDown, ChildIsTree
    <3>3. Get(node, p) = Get(below, rest) /\ Get(node, q) = Get(below, other)
      BY <2>1, <2>2, <2>7, GetDown
    <3>4. Free(below, rest, other)
      BY <2>6, <2>7, <3>2, <3>3
    <3>5. x = Set(below, rest, a) /\ y = Set(below, other, b)
      BY <2>7
    <3>6. rest \in Seq(Keys) /\ other \in Seq(Keys) /\ Len(rest) = n
      BY <2>1, <2>2
    <3> HIDE DEF below, rest, other, x, y, Free
    <3>7. Set(x, other, b) = Set(y, rest, a)
      BY <1>2, <3>4, <3>5, <3>6
    <3>8. Set(x, other, b) # NullPtr /\ Set(y, rest, a) # NullPtr
      <4>1. rest # <<>> /\ other # <<>>
        BY <3>2, <3>6, DivergeDown
      <4> QED
        BY <3>6, <4>1, SetIsNode
    <3>9. Set(one, q, b) = SetChild(node, k, Set(x, other, b))
      BY <2>3, <2>4, <2>6, <2>7, <3>1, <3>8, ChildOverwritten DEF other
    <3>10. Set(two, p, a) = SetChild(node, k, Set(y, rest, a))
      BY <2>3, <2>5, <2>6, <2>7, <3>1, <3>8, ChildOverwritten DEF rest
    <3> QED
      BY <3>7, <3>9, <3>10
  <2>8. CASE k # l
    <3>1. Child(one, l) = Child(node, l)
      BY <2>1, <2>2, <2>3, <2>6, <2>8, OtherChild DEF Settled
    <3>2. Child(two, k) = Child(node, k)
      BY <2>1, <2>2, <2>3, <2>6, <2>8, OtherChild DEF Settled
    <3>3. x = NullPtr => node.kind = "object"
      <4> SUFFICES ASSUME x = NullPtr PROVE node.kind = "object"
        OBVIOUS
      <4>1. Tail(p) = <<>>
        BY <2>1, SetIsNode
      <4>2. x = a
        BY <4>1, SetEmpty
      <4>3. Get(node, p) = Child(node, k)
        BY <2>1, <4>1, GetDown, GetEmpty
      <4>4. Child(node, k) # NullPtr
        BY <4>2, <4>3
      <4> QED
        BY <2>6, <4>4, ChildOfLeaf
    <3>4. y = NullPtr => node.kind = "object"
      <4> SUFFICES ASSUME y = NullPtr PROVE node.kind = "object"
        OBVIOUS
      <4>1. Tail(q) = <<>>
        BY <2>2, SetIsNode
      <4>2. y = b
        BY <4>1, SetEmpty
      <4>3. Get(node, q) = Child(node, l)
        BY <2>2, <4>1, GetDown, GetEmpty
      <4>4. Child(node, l) # NullPtr
        BY <4>2, <4>3
      <4> QED
        BY <2>6, <4>4, ChildOfLeaf
    <3>5. Set(one, q, b) = SetChild(one, l, y) /\ Set(two, p, a) = SetChild(two, k, x)
      BY <2>4, <2>5, <3>1, <3>2
    <3> HIDE DEF x, y, k, l, Free
    <3>6. SetChild(SetChild(node, k, x), l, y) = SetChild(SetChild(node, l, y), k, x)
      BY <2>6, <2>8, <3>3, <3>4, ChildrenCommute
    <3> QED
      BY <2>3, <3>5, <3>6
  <2> QED
    BY <2>7, <2>8
<1> HIDE DEF Good
<1>3. Nat \subseteq Good
  BY <1>1, <1>2, Induction
<1>4. ASSUME NEW node, NEW p \in Seq(Keys), NEW q \in Seq(Keys), Free(node, p, q)
      PROVE  Set(Set(node, p, a), q, b) = Set(Set(node, q, b), p, a)
  <2>1. Len(p) \in Good
    BY <1>3, SequenceParts
  <2> HIDE DEF Free
  <2> QED
    BY <1>4, <2>1 DEF Good
<1> QED
  BY <1>4

-----------------------------------------------------------------------------
(* The levels of a document, and its descendants.                          *)

IsLevels(node, m, level) ==
  level = [d \in 0..m |-> IF d = 0 THEN {node} ELSE UNION {Children(n) : n \in level[d - 1]}]

(* By induction on the depth: the levels exist.                            *)
LEMMA LevelsExist ==
  ASSUME NEW node
  PROVE  \A m \in Nat : \E level : IsLevels(node, m, level)
<1> DEFINE Good == {m \in Nat : \E level : IsLevels(node, m, level)}
<1>1. 0 \in Good
  <2>1. IsLevels(node, 0, [d \in 0..0 |-> {node}])
    BY DEF IsLevels
  <2> QED
    BY <2>1
<1>2. ASSUME NEW m \in Nat, m \in Good PROVE m + 1 \in Good
  <2>1. PICK f : IsLevels(node, m, f)
    BY <1>2
  <2> DEFINE last == UNION {Children(n) : n \in f[m]}
  <2>2. last = UNION {Children(n) : n \in f[m]}
    OBVIOUS
  <2> HIDE DEF last
  <2> DEFINE level == [d \in 0..(m + 1) |-> IF d = m + 1 THEN last ELSE f[d]]
  <2>3. \A d \in 0..m : f[d] = IF d = 0 THEN {node} ELSE UNION {Children(n) : n \in f[d - 1]}
    BY <2>1 DEF IsLevels
  <2>4. \A d \in 0..(m + 1) : level[d] = IF d = 0 THEN {node} ELSE UNION {Children(n) : n \in level[d - 1]}
    <3> SUFFICES ASSUME NEW d \in 0..(m + 1)
                 PROVE  level[d] = IF d = 0 THEN {node} ELSE UNION {Children(n) : n \in level[d - 1]}
      OBVIOUS
    <3>1. CASE d = m + 1
      <4>1. level[d] = last /\ level[d - 1] = f[m] /\ d # 0
        BY <3>1
      <4> QED
        BY <2>2, <4>1
    <3>2. CASE d \in 0..m
      <4>1. level[d] = f[d] /\ (d # 0 => level[d - 1] = f[d - 1])
        BY <3>2
      <4> QED
        BY <2>3, <3>2, <4>1
    <3> QED
      BY <3>1, <3>2
  <2>5. IsLevels(node, m + 1, level)
    BY <2>4 DEF IsLevels
  <2> QED
    BY <2>5
<1> HIDE DEF Good
<1>3. Nat \subseteq Good
  BY <1>1, <1>2, Induction
<1> QED
  BY <1>3 DEF Good

(* So Levels are the levels they are meant to be.                          *)
LEMMA LevelsMade ==
  ASSUME NEW node
  PROVE  IsLevels(node, MaxDepth, Levels(node))
<1> DEFINE level == CHOOSE f : IsLevels(node, MaxDepth, f)
<1>1. Levels(node) = level
  BY DEF Levels, IsLevels
<1>2. IsLevels(node, MaxDepth, level)
  BY LevelsExist, MaxDepthAssumption
<1> QED
  BY <1>1, <1>2

(* A node is among its descendants.                                        *)
LEMMA OwnDescendant ==
  ASSUME NEW node
  PROVE  node \in Descendants(node)
<1> DEFINE level == Levels(node)
<1>1. Descendants(node) = UNION {level[d] : d \in 0..MaxDepth}
  BY DEF Descendants
<1>2. IsLevels(node, MaxDepth, level)
  BY LevelsMade
<1> HIDE DEF level
<1>3. 0 \in 0..MaxDepth
  BY MaxDepthAssumption
<1>4. level[0] = {node}
  BY <1>2, <1>3 DEF IsLevels
<1> QED
  BY <1>1, <1>3, <1>4

(* The parts of a tree hold its descendants.                               *)
LEMMA ChildrenAreParts ==
  ASSUME NEW n, NEW parts, IsNode(n, parts)
  PROVE  Children(n) \subseteq parts
<1>1. CASE n.kind = "array"
  <2>1. n.elems \in Seq(parts) /\ Children(n) = Range(n.elems)
    BY <1>1 DEF IsNode, Children
  <2> QED
    BY <2>1, SequenceParts DEF Range
<1>2. CASE n.kind = "object"
  <2>1. n.members \in [DOMAIN n.members -> parts] /\ Children(n) = Range(n.members)
    BY <1>2 DEF IsNode, Children
  <2> QED
    BY <2>1 DEF Range
<1>3. CASE n.kind \notin {"array", "object"}
  BY <1>3 DEF Children
<1> QED
  BY <1>1, <1>2, <1>3

(* Descendants lie in every set that is closed under children.             *)
LEMMA DescendantsInside ==
  ASSUME NEW parts, \A n \in parts : Children(n) \subseteq parts, NEW node \in parts
  PROVE  Descendants(node) \subseteq parts
<1> DEFINE level == Levels(node)
<1>1. Descendants(node) = UNION {level[d] : d \in 0..MaxDepth}
  BY DEF Descendants
<1>2. IsLevels(node, MaxDepth, level)
  BY LevelsMade
<1> HIDE DEF level
<1> DEFINE Good == {d \in Nat : d <= MaxDepth => level[d] \subseteq parts}
<1>3. 0 \in Good
  BY <1>2, MaxDepthAssumption DEF IsLevels
<1>4. ASSUME NEW d \in Nat, d \in Good PROVE d + 1 \in Good
  <2> SUFFICES ASSUME d + 1 <= MaxDepth PROVE level[d + 1] \subseteq parts
    OBVIOUS
  <2>1. d + 1 \in 0..MaxDepth /\ d + 1 # 0 /\ (d + 1) - 1 = d /\ d <= MaxDepth
    BY MaxDepthAssumption
  <2>2. level[d] \subseteq parts
    BY <1>4, <2>1
  <2>3. level[d + 1] = UNION {Children(n) : n \in level[d]}
    BY <1>2, <2>1 DEF IsLevels
  <2> QED
    BY <2>2, <2>3
<1> HIDE DEF Good
<1>5. Nat \subseteq Good
  BY <1>3, <1>4, Induction
<1>6. \A d \in 0..MaxDepth : level[d] \subseteq parts
  BY <1>5, MaxDepthAssumption DEF Good
<1> QED
  BY <1>1, <1>6

(* The parts of a node are no more than its children.                      *)
LEMMA FewerParts ==
  ASSUME NEW n, NEW parts, IsNode(n, parts), NEW few, Children(n) \subseteq few
  PROVE  IsNode(n, few)
<1>1. CASE n.kind = "array"
  <2>1. n = Array(n.elems) /\ n.elems \in Seq(parts)
    BY <1>1 DEF IsNode
  <2>2. \A i \in 1..Len(n.elems) : n.elems[i] \in few
    BY <1>1, <2>1 DEF Children, Range
  <2>3. n.elems \in Seq(few)
    BY <2>1, <2>2
  <2> QED
    BY <1>1, <2>1, <2>3 DEF IsNode
<1>2. CASE n.kind = "object"
  <2>1. n = Object(n.members) /\ n.members \in [DOMAIN n.members -> parts]
    BY <1>2 DEF IsNode
  <2>2. \A key \in DOMAIN n.members : n.members[key] \in few
    BY <1>2 DEF Children, Range
  <2>3. n.members \in [DOMAIN n.members -> few]
    BY <2>1, <2>2
  <2> QED
    BY <1>2, <2>1, <2>3 DEF IsNode
<1>3. CASE n.kind \notin {"array", "object"}
  BY <1>3 DEF IsNode
<1> QED
  BY <1>1, <1>2, <1>3

(* The descendants of a node that MaxDepth bounds hold their children.     *)
LEMMA ShallowHoldsAll ==
  ASSUME NEW node, Shallow(node), NEW n \in Descendants(node)
  PROVE  Children(n) \subseteq Descendants(node)
<1> DEFINE level == Levels(node)
<1>1. Descendants(node) = UNION {level[d] : d \in 0..MaxDepth}
  BY DEF Descendants
<1>2. IsLevels(node, MaxDepth, level)
  BY LevelsMade
<1>3. \A m \in level[MaxDepth] : Children(m) = {}
  BY DEF Shallow
<1> HIDE DEF level
<1>4. PICK d \in 0..MaxDepth : n \in level[d]
  BY <1>1
<1>5. CASE d = MaxDepth
  BY <1>3, <1>4, <1>5
<1>6. CASE d # MaxDepth
  <2>1. d + 1 \in 0..MaxDepth /\ d + 1 # 0 /\ (d + 1) - 1 = d
    BY <1>6, MaxDepthAssumption
  <2>2. level[d + 1] = UNION {Children(m) : m \in level[d]}
    BY <1>2, <2>1 DEF IsLevels
  <2> QED
    BY <1>1, <1>4, <2>1, <2>2
<1> QED
  BY <1>5, <1>6

-----------------------------------------------------------------------------
(* The depth of a node: it is less than d levels deep if level d is empty. *)

Below(node, d) == \E level : IsLevels(node, d, level) /\ level[d] = {}

(* A node is a level of its own.                                           *)
LEMMA BelowNone ==
  ASSUME NEW node
  PROVE  ~Below(node, 0)
BY DEF Below, IsLevels

(* A child is less deep.                                                   *)
LEMMA BelowChild ==
  ASSUME NEW node, NEW d \in Nat, Below(node, d + 1), NEW child \in Children(node)
  PROVE  Below(child, d)
<1>1. PICK f : IsLevels(node, d + 1, f) /\ f[d + 1] = {}
  BY DEF Below
<1>2. PICK g : IsLevels(child, d, g)
  BY LevelsExist
<1> DEFINE Good == {k \in Nat : k <= d => g[k] \subseteq f[k + 1]}
<1>3. 0 \in Good
  <2>1. g[0] = {child}
    BY <1>2 DEF IsLevels
  <2>2. f[0] = {node}
    BY <1>1 DEF IsLevels
  <2>3. f[0 + 1] = UNION {Children(n) : n \in f[0]}
    BY <1>1 DEF IsLevels
  <2> QED
    BY <2>1, <2>2, <2>3
<1>4. ASSUME NEW k \in Nat, k \in Good PROVE k + 1 \in Good
  <2> SUFFICES ASSUME k + 1 <= d PROVE g[k + 1] \subseteq f[(k + 1) + 1]
    OBVIOUS
  <2>1. /\ k + 1 \in 0..d /\ k + 1 # 0 /\ (k + 1) - 1 = k
        /\ (k + 1) + 1 \in 0..(d + 1) /\ (k + 1) + 1 # 0 /\ ((k + 1) + 1) - 1 = k + 1
        /\ k <= d
    OBVIOUS
  <2>2. g[k + 1] = UNION {Children(n) : n \in g[k]}
    BY <1>2, <2>1 DEF IsLevels
  <2>3. f[(k + 1) + 1] = UNION {Children(n) : n \in f[k + 1]}
    BY <1>1, <2>1 DEF IsLevels
  <2>4. g[k] \subseteq f[k + 1]
    BY <1>4, <2>1
  <2> QED
    BY <2>2, <2>3, <2>4
<1> HIDE DEF Good
<1>5. Nat \subseteq Good
  BY <1>3, <1>4, Induction
<1>6. g[d] \subseteq f[d + 1]
  BY <1>5 DEF Good
<1> QED
  BY <1>1, <1>2, <1>6 DEF Below

(* MaxDepth bounds the depth of a shallow node.                            *)
LEMMA ShallowIsBelow ==
  ASSUME NEW node, Shallow(node)
  PROVE  Below(node, MaxDepth + 1)
<1>1. PICK f : IsLevels(node, MaxDepth + 1, f)
  BY LevelsExist, MaxDepthAssumption
<1> DEFINE g == Levels(node)
<1>2. IsLevels(node, MaxDepth, g)
  BY LevelsMade
<1>3. \A n \in g[MaxDepth] : Children(n) = {}
  BY DEF Shallow
<1> HIDE DEF g
<1> DEFINE Good == {k \in Nat : k <= MaxDepth => f[k] = g[k]}
<1>4. 0 \in Good
  BY <1>1, <1>2, MaxDepthAssumption DEF IsLevels
<1>5. ASSUME NEW k \in Nat, k \in Good PROVE k + 1 \in Good
  <2> SUFFICES ASSUME k + 1 <= MaxDepth PROVE f[k + 1] = g[k + 1]
    OBVIOUS
  <2>1. /\ k + 1 \in 0..MaxDepth /\ k + 1 \in 0..(MaxDepth + 1)
        /\ k + 1 # 0 /\ (k + 1) - 1 = k /\ k <= MaxDepth
    BY MaxDepthAssumption
  <2>2. f[k + 1] = UNION {Children(n) : n \in f[k]}
    BY <1>1, <2>1 DEF IsLevels
  <2>3. g[k + 1] = UNION {Children(n) : n \in g[k]}
    BY <1>2, <2>1 DEF IsLevels
  <2>4. f[k] = g[k]
    BY <1>5, <2>1
  <2> QED
    BY <2>2, <2>3, <2>4
<1> HIDE DEF Good
<1>6. Nat \subseteq Good
  BY <1>4, <1>5, Induction
<1>7. f[MaxDepth] = g[MaxDepth]
  BY <1>6, MaxDepthAssumption DEF Good
<1>8. MaxDepth + 1 \in 0..(MaxDepth + 1) /\ MaxDepth + 1 # 0 /\ (MaxDepth + 1) - 1 = MaxDepth
  BY MaxDepthAssumption
<1>9. f[MaxDepth + 1] = UNION {Children(n) : n \in f[MaxDepth]}
  BY <1>1, <1>8 DEF IsLevels
<1> QED
  BY <1>1, <1>3, <1>7, <1>9 DEF Below

(* A set of trees that holds all that is below them.                       *)
Forest(P) == \A n \in P : Tree(n) /\ Children(n) \subseteq P

(* Such a set are the descendants of a tree that MaxDepth bounds.          *)
LEMMA DescendantsAreForest ==
  ASSUME NEW node, Tree(node), Shallow(node)
  PROVE  Forest(Descendants(node)) /\ node \in Descendants(node)
<1>1. PICK parts : node \in parts /\ \A n \in parts : IsNode(n, parts)
  BY DEF Tree
<1>2. Descendants(node) \subseteq parts
  BY <1>1, ChildrenAreParts, DescendantsInside
<1>3. \A n \in Descendants(node) : Tree(n)
  BY <1>1, <1>2 DEF Tree
<1> QED
  BY <1>3, OwnDescendant, ShallowHoldsAll DEF Forest

(* What get finds in an object is one of its members.                      *)
LEMMA MemberIsChild ==
  ASSUME NEW node, node.kind = "object", NEW key, Child(node, key) # NullPtr
  PROVE  /\ key \in DOMAIN node.members
         /\ Child(node, key) = node.members[key]
         /\ Child(node, key) \in Children(node)
<1>1. key \in DOMAIN node.members /\ Child(node, key) = node.members[key]
  BY DEF Child
<1> QED
  BY <1>1 DEF Children, Range

(* Members of a tree in a forest are in the forest.                        *)
LEMMA ForestChild ==
  ASSUME NEW P, Forest(P), NEW node \in P, node.kind = "object", NEW key, Child(node, key) # NullPtr
  PROVE  Child(node, key) \in P
BY MemberIsChild DEF Forest

-----------------------------------------------------------------------------
(*****************************************************************************)
(* Documents without holes: no container at or below the node holds a        *)
(* nullptr, at any depth.                                                    *)
(*****************************************************************************)

IsSolid(n, parts) == IsNode(n, parts \ {NullPtr})

Solid(node) == \E parts : node \in parts /\ \A n \in parts : IsSolid(n, parts)

(* A solid node is a tree.                                                 *)
LEMMA SolidIsTree ==
  ASSUME NEW node, Solid(node)
  PROVE  Tree(node)
<1>1. PICK parts : node \in parts /\ \A n \in parts : IsNode(n, parts \ {NullPtr})
  BY DEF Solid, IsSolid
<1>2. parts \ {NullPtr} \subseteq parts
  OBVIOUS
<1>3. \A n \in parts : IsNode(n, parts)
  BY <1>1, <1>2, MorePartsAllowed
<1> QED
  BY <1>1, <1>3 DEF Tree

(* What is no container is solid.                                          *)
LEMMA LeafSolid ==
  ASSUME NEW node, node.kind \notin {"array", "object"}
  PROVE  Solid(node)
<1>1. IsSolid(node, {node})
  BY DEF IsSolid, IsNode
<1> QED
  BY <1>1 DEF Solid

(* So are nullptr and the null node.                                       *)
LEMMA NullSolid == Solid(NullPtr) /\ Solid(NullNode)
BY LeafSolid DEF NullPtr, NullNode

(* The parts of a solid node, and its children, are solid.                 *)
LEMMA PartSolid ==
  ASSUME NEW parts, \A n \in parts : IsSolid(n, parts), NEW node \in parts
  PROVE  Solid(node)
BY DEF Solid

(* A solid array is a sequence of parts other than nullptr.                *)
LEMMA SolidArrayParts ==
  ASSUME NEW parts, NEW node, IsSolid(node, parts), node.kind = "array"
  PROVE  node = Array(node.elems) /\ node.elems \in Seq(parts \ {NullPtr})
BY DEF IsSolid, IsNode

(* What get finds below a solid node is solid.                             *)
LEMMA ChildSolid ==
  ASSUME NEW node, Solid(node), NEW key
  PROVE  Solid(Child(node, key))
<1>1. PICK parts : node \in parts /\ \A n \in parts : IsSolid(n, parts)
  BY DEF Solid
<1>2. Child(node, key) \in parts \/ Child(node, key) = NullPtr
  <2>1. CASE node.kind = "array" /\ key.number \in 0..(Len(node.elems) - 1)
    <3>1. node.elems \in Seq(parts \ {NullPtr})
      BY <1>1, <2>1, SolidArrayParts
    <3>2. key.number + 1 \in 1..Len(node.elems)
      BY <2>1, <3>1
    <3>3. Child(node, key) = node.elems[key.number + 1]
      BY <2>1 DEF Child
    <3> QED
      BY <3>1, <3>2, <3>3
  <2>2. CASE node.kind = "object" /\ key \in DOMAIN node.members
    <3>1. node.members \in [DOMAIN node.members -> parts \ {NullPtr}]
      BY <1>1, <2>2 DEF IsSolid, IsNode
    <3>2. Child(node, key) = node.members[key]
      BY <2>2 DEF Child
    <3> QED
      BY <2>2, <3>1, <3>2
  <2>3. CASE ~(node.kind = "array" /\ key.number \in 0..(Len(node.elems) - 1))
             /\ ~(node.kind = "object" /\ key \in DOMAIN node.members)
    BY <2>3 DEF Child
  <2> QED
    BY <2>1, <2>2, <2>3
<1> QED
  BY <1>1, <1>2, PartSolid, NullSolid

(* Two solid nodes have their parts in one set.                            *)
LEMMA SolidParts ==
  ASSUME NEW node, Solid(node), NEW ptr, Solid(ptr)
  PROVE  \E parts : /\ node \in parts /\ ptr \in parts /\ NullNode \in parts
                    /\ \A n \in parts : IsSolid(n, parts)
<1>1. PICK P : node \in P /\ \A n \in P : IsSolid(n, P)
  BY DEF Solid
<1>2. PICK Q : ptr \in Q /\ \A n \in Q : IsSolid(n, Q)
  BY DEF Solid
<1> DEFINE parts == P \cup Q \cup {NullNode}
           R == parts \ {NullPtr}
<1>3. P \ {NullPtr} \subseteq R /\ Q \ {NullPtr} \subseteq R
  OBVIOUS
<1>4. IsNode(NullNode, R)
  BY DEF IsNode, NullNode
<1>5. node \in parts /\ ptr \in parts /\ NullNode \in parts
  BY <1>1, <1>2
<1>6. ASSUME NEW n \in parts PROVE IsSolid(n, parts)
  <2>1. n \in P \/ n \in Q \/ n = NullNode
    OBVIOUS
  <2>2. (n \in P => IsNode(n, P \ {NullPtr})) /\ (n \in Q => IsNode(n, Q \ {NullPtr}))
    BY <1>1, <1>2 DEF IsSolid
  <2> HIDE DEF R
  <2>3. IsNode(n, R)
    BY <1>3, <1>4, <2>1, <2>2, MorePartsAllowed
  <2> QED
    BY <2>3 DEF IsSolid, R
<1> HIDE DEF parts
<1> QED
  BY <1>5, <1>6

(* A container of solid nodes is solid.                                    *)
LEMMA NewSolidRoot ==
  ASSUME NEW parts, \A n \in parts : IsSolid(n, parts), NEW root, IsNode(root, parts \ {NullPtr})
  PROVE  Solid(root)
<1> DEFINE more == parts \cup {root}
           few == parts \ {NullPtr}
           many == more \ {NullPtr}
<1>1. few \subseteq many /\ root \in more /\ \A n \in more : n \in parts \/ n = root
  OBVIOUS
<1>2. \A n \in parts : IsNode(n, few)
  BY DEF IsSolid
<1>3. IsNode(root, few)
  OBVIOUS
<1> HIDE DEF few, many
<1>4. \A n \in more : IsNode(n, many)
  BY <1>1, <1>2, <1>3, MorePartsAllowed
<1>5. \A n \in more : IsSolid(n, more)
  BY <1>4 DEF IsSolid, many
<1> HIDE DEF more
<1> QED
  BY <1>1, <1>5 DEF Solid

(* An array of solid nodes is solid,                                       *)
LEMMA ArraySolid ==
  ASSUME NEW parts, \A n \in parts : IsSolid(n, parts), NEW elems \in Seq(parts \ {NullPtr})
  PROVE  Solid(Array(elems))
BY ArrayIsNode, NewSolidRoot

(* and a solid array is one of solid nodes.                                *)
LEMMA SolidArray ==
  ASSUME NEW node, Solid(node), node.kind = "array"
  PROVE  \E parts : node.elems \in Seq(parts \ {NullPtr}) /\ \A n \in parts : IsSolid(n, parts)
BY SolidArrayParts DEF Solid

(* A child is updated with a node, or erased from an object.               *)
LEMMA SetChildSolid ==
  ASSUME NEW node, Solid(node), NEW key \in Keys, NEW ptr, Solid(ptr),
         ptr = NullPtr => node.kind = "object"
  PROVE  Solid(SetChild(node, key, ptr))
<1>1. PICK parts : /\ node \in parts /\ ptr \in parts /\ NullNode \in parts
                   /\ \A n \in parts : IsSolid(n, parts)
  BY SolidParts
<1> DEFINE few == parts \ {NullPtr}
<1>2. NullNode \in few
  BY <1>1 DEF NullNode, NullPtr
<1>3. IsNode(node, few)
  BY <1>1 DEF IsSolid
<1>4. ptr # NullPtr => ptr \in few
  BY <1>1
<1> HIDE DEF few
<1>5. SUFFICES IsNode(SetChild(node, key, ptr), few)
  BY <1>1, NewSolidRoot DEF few
<1>6. CASE node.kind = "object"
  <2> DEFINE members == IF ptr = NullPtr THEN Without(node.members, key) ELSE With(node.members, key, ptr)
  <2>1. node.members \in [DOMAIN node.members -> few]
    BY <1>3, <1>6 DEF IsNode
  <2>2. members \in [DOMAIN members -> few]
    BY <1>4, <2>1 DEF Without, Restrict, With
  <2>3. SetChild(node, key, ptr) = Object(members)
    BY <1>6, ObjectSet
  <2> HIDE DEF members
  <2> QED
    BY <2>2, <2>3, ObjectIsNode
<1>7. CASE node.kind = "array"
  <2>1. node.elems \in Seq(few)
    BY <1>3, <1>7 DEF IsNode
  <2>2. ptr \in few
    BY <1>4, <1>7
  <2>3. CASE IsNumeric(key)
    <3> DEFINE elems == Elements(node.elems, key.number, ptr)
    <3>1. elems \in Seq(few \cup {NullNode, ptr})
      BY <2>1, <2>3, KeyParts, ElementsTyped
    <3>2. few \cup {NullNode, ptr} = few
      BY <1>2, <2>2
    <3>3. SetChild(node, key, ptr) = Array(elems)
      BY <1>7, <2>3, ArraySetNumeric
    <3> HIDE DEF elems
    <3> QED
      BY <3>1, <3>2, <3>3, ArrayIsNode
  <2>4. CASE ~IsNumeric(key)
    <3> DEFINE old == AsMembers(node.elems)
               members == With(old, key, ptr)
    <3>1. \A k \in DOMAIN old : old[k] \in few
      BY <2>1, MembersAreElements
    <3>2. SetChild(node, key, ptr) = Object(members)
      BY <1>7, <2>4, ArraySetNamed
    <3> HIDE DEF old
    <3>3. members \in [DOMAIN members -> few]
      BY <2>2, <3>1 DEF With
    <3> HIDE DEF members
    <3> QED
      BY <3>2, <3>3, ObjectIsNode
  <2> QED
    BY <2>3, <2>4
<1>8. CASE node.kind \notin {"array", "object"}
  <2>1. ptr \in few
    BY <1>4, <1>8
  <2>2. Only(key, ptr) \in [DOMAIN Only(key, ptr) -> few]
    BY <2>1 DEF Only
  <2>3. SetChild(node, key, ptr) = Object(Only(key, ptr))
    BY <1>8, MembersOfSingleton
  <2> QED
    BY <2>2, <2>3, ObjectIsNode
<1> QED
  BY <1>6, <1>7, <1>8

(* What is found in a solid node is solid, by induction on the path.       *)
LEMMA GetSolid ==
  \A node : \A path \in Seq(Keys) : Solid(node) => Solid(Get(node, path))
<1> DEFINE Good == {n \in Nat : \A node : \A path \in Seq(Keys) :
                                  Len(path) = n /\ Solid(node) => Solid(Get(node, path))}
<1>1. 0 \in Good
  BY GetEmpty, SequenceParts
<1>2. ASSUME NEW n \in Nat, n \in Good PROVE n + 1 \in Good
  <2> SUFFICES ASSUME NEW node, NEW path \in Seq(Keys), Len(path) = n + 1, Solid(node)
               PROVE  Solid(Get(node, path))
    OBVIOUS
  <2>1. path # <<>> /\ Tail(path) \in Seq(Keys) /\ Len(Tail(path)) = n
    BY FirstKey
  <2>2. Solid(Get(Child(node, path[1]), Tail(path)))
    BY <1>2, <2>1, ChildSolid
  <2> QED
    BY <2>1, <2>2, GetDown
<1> HIDE DEF Good
<1>3. Nat \subseteq Good
  BY <1>1, <1>2, Induction
<1> QED
  BY <1>3, SequenceParts DEF Good

(* The container of the last key of a path is an object.                   *)
EndsInObject(node, path) == path # <<>> /\ Get(node, Front(path)).kind = "object"

(* All keys but the last, seen from the child.                             *)
LEMMA FrontDown ==
  ASSUME NEW node, NEW path \in Seq(Keys), path # <<>>
  PROVE  /\ Tail(path) = <<>> => Front(path) = <<>>
         /\ Tail(path) # <<>> => Get(node, Front(path)) = Get(Child(node, path[1]), Front(Tail(path)))
<1>1. Len(path) \in Nat \ {0} /\ Tail(path) \in Seq(Keys) /\ Len(Tail(path)) = Len(path) - 1
  BY TailParts
<1>2. CASE Tail(path) = <<>>
  <2>1. Front(path) = <<>>
    BY <1>1, <1>2 DEF Front
  <2> QED
    BY <1>2, <2>1
<1>3. CASE Tail(path) # <<>>
  <2> DEFINE up == SubSeq(path, 1, Len(path) - 1)
  <2>1. Len(path) - 1 \in 1..Len(path)
    BY <1>1, <1>3, SequenceParts
  <2>2. up # <<>> /\ up[1] = path[1] /\ Tail(up) = SubSeq(Tail(path), 1, (Len(path) - 1) - 1)
    BY <2>1, PrefixOfTail
  <2>3. up \in Seq(Keys)
    BY <2>1, PrefixParts
  <2>4. Front(path) = up /\ Front(Tail(path)) = Tail(up)
    BY <1>1, <2>2 DEF Front
  <2> HIDE DEF up
  <2>5. Get(node, up) = Get(Child(node, up[1]), Tail(up))
    BY <2>2, <2>3, GetDown
  <2> QED
    BY <1>3, <2>2, <2>4, <2>5
<1> QED
  BY <1>2, <1>3

(* From the node to the child,                                             *)
LEMMA ObjectDown ==
  ASSUME NEW node, NEW path \in Seq(Keys), EndsInObject(node, path)
  PROVE  /\ Tail(path) = <<>> => node.kind = "object"
         /\ Tail(path) # <<>> => EndsInObject(Child(node, path[1]), Tail(path))
BY FrontDown, GetEmpty DEF EndsInObject

(* and back.                                                               *)
LEMMA ObjectUp ==
  ASSUME NEW node, NEW path \in Seq(Keys), path # <<>>, Tail(path) # <<>>,
         EndsInObject(Child(node, path[1]), Tail(path))
  PROVE  EndsInObject(node, path)
BY FrontDown DEF EndsInObject

(* An update with a node, or one that erases a member of an object, leaves *)
(* a solid node.                                                           *)
LEMMA SetSolid ==
  ASSUME NEW ptr, Solid(ptr)
  PROVE  \A node : \A path \in Seq(Keys) :
           Solid(node) /\ (ptr = NullPtr => EndsInObject(node, path)) => Solid(Set(node, path, ptr))
<1> DEFINE Fits(node, path) == Solid(node) /\ (ptr = NullPtr => EndsInObject(node, path))
           Good == {n \in Nat : \A node : \A path \in Seq(Keys) :
                                  Len(path) = n /\ Fits(node, path) => Solid(Set(node, path, ptr))}
<1>1. 0 \in Good
  BY SetEmpty, SequenceParts
<1>2. ASSUME NEW n \in Nat, n \in Good PROVE n + 1 \in Good
  <2> SUFFICES ASSUME NEW node, NEW path \in Seq(Keys), Len(path) = n + 1, Fits(node, path)
               PROVE  Solid(Set(node, path, ptr))
    OBVIOUS
  <2> DEFINE key == path[1]
             rest == Tail(path)
             below == Child(node, key)
             child == Set(below, rest, ptr)
  <2>1. path # <<>> /\ key \in Keys /\ rest \in Seq(Keys) /\ Len(rest) = n
    BY FirstKey
  <2>2. Solid(below)
    BY ChildSolid
  <2>3. Solid(child) /\ (child = NullPtr => node.kind = "object")
    <3>1. CASE rest = <<>>
      <4>1. child = ptr
        BY <3>1, SetEmpty
      <4>2. ptr = NullPtr => node.kind = "object"
        BY <3>1, ObjectDown
      <4> QED
        BY <4>1, <4>2
    <3>2. CASE rest # <<>>
      <4>1. ptr = NullPtr => EndsInObject(below, rest)
        BY <3>2, ObjectDown
      <4>2. Fits(below, rest)
        BY <2>2, <4>1
      <4> HIDE DEF rest, below, Fits
      <4>3. Solid(child)
        BY <1>2, <2>1, <4>2
      <4>4. child # NullPtr
        BY <2>1, <3>2, SetIsNode
      <4> QED
        BY <4>3, <4>4
    <3> QED
      BY <3>1, <3>2
  <2>4. Set(node, path, ptr) = SetChild(node, key, child)
    BY <2>1, SetDown
  <2> HIDE DEF child, key
  <2>5. Solid(SetChild(node, key, child))
    BY <2>1, <2>3, SetChildSolid
  <2> QED
    BY <2>4, <2>5
<1> HIDE DEF Good
<1>3. Nat \subseteq Good
  BY <1>1, <1>2, Induction
<1>4. ASSUME NEW node, NEW path \in Seq(Keys), Fits(node, path) PROVE Solid(Set(node, path, ptr))
  <2>1. Len(path) \in Good
    BY <1>3, SequenceParts
  <2> HIDE DEF Fits
  <2> QED
    BY <1>4, <2>1 DEF Good
<1> QED
  BY <1>4

(* An object that is there stays an object when another path is updated.   *)
LEMMA CanonicalDown ==
  ASSUME NEW path \in Seq(Keys), path # <<>>, CanonicalKeys(path)
  PROVE  IsCanonical(path[1]) /\ CanonicalKeys(Tail(path))
<1>1. 1 \in DOMAIN path
  BY SequenceParts
<1>2. ASSUME NEW i \in DOMAIN Tail(path) PROVE IsCanonical(Tail(path)[i])
  BY VisitNext DEF CanonicalKeys
<1> QED
  BY <1>1, <1>2 DEF CanonicalKeys

(* By induction on p: the object survives an update elsewhere.             *)
LEMMA ObjectKept ==
  ASSUME NEW ptr
  PROVE  \A node : \A p, q \in Seq(Keys) :
           Tree(node) /\ Diverge(p, q) /\ CanonicalKeys(p) /\ CanonicalKeys(q) /\ EndsInObject(node, q)
             => EndsInObject(Set(node, p, ptr), q)
<1> DEFINE Fits(node, p, q) ==
             Tree(node) /\ Diverge(p, q) /\ CanonicalKeys(p) /\ CanonicalKeys(q) /\ EndsInObject(node, q)
           Good == {n \in Nat : \A node : \A p, q \in Seq(Keys) :
                                  Len(p) = n /\ Fits(node, p, q) => EndsInObject(Set(node, p, ptr), q)}
<1>1. 0 \in Good
  BY DivergeDown, SequenceParts
<1>2. ASSUME NEW n \in Nat, n \in Good PROVE n + 1 \in Good
  <2> SUFFICES ASSUME NEW node, NEW p \in Seq(Keys), NEW q \in Seq(Keys), Len(p) = n + 1, Fits(node, p, q)
               PROVE  EndsInObject(Set(node, p, ptr), q)
    OBVIOUS
  <2> DEFINE k == p[1]
             l == q[1]
             after == Set(node, p, ptr)
             below == Child(node, k)
             rest == Tail(p)
             other == Tail(q)
             child == Set(below, rest, ptr)
  <2>1. p # <<>> /\ k \in Keys /\ rest \in Seq(Keys) /\ Len(rest) = n
    BY FirstKey
  <2>2. q # <<>> /\ l \in Keys /\ other \in Seq(Keys)
    BY DivergeDown, TailParts
  <2>3. after = SetChild(node, k, child)
    BY <2>1, SetDown
  <2>4. CASE other = <<>>
    <3>1. node.kind = "object"
      BY <2>4, ObjectDown
    <3>2. after.kind = "object"
      BY <2>3, <3>1, SetChildBare
    <3>3. Front(q) = <<>>
      BY <2>2, <2>4, TailParts DEF Front
    <3> QED
      BY <2>2, <3>2, <3>3, GetEmpty DEF EndsInObject
  <2>5. CASE other # <<>>
    <3>1. EndsInObject(Child(node, l), other)
      BY <2>5, ObjectDown
    <3>2. EndsInObject(Child(after, l), other)
      <4>1. CASE k = l
        <5>1. Child(after, l) = child
          BY <2>1, <2>3, <4>1, ChildOfSet
        <5>2. Fits(below, rest, other)
          BY <2>1, <2>2, <3>1, <4>1, DivergeDown, CanonicalDown, ChildIsTree
        <5> HIDE DEF below, rest, other, Fits, after
        <5>3. EndsInObject(child, other)
          BY <1>2, <2>1, <2>2, <5>2
        <5> QED
          BY <5>1, <5>3
      <4>2. CASE k # l
        <5>1. Child(node, l) # NullPtr
          <6> SUFFICES ASSUME Child(node, l) = NullPtr PROVE FALSE
            OBVIOUS
          <6>1. Front(other) \in Seq(Keys)
            BY <2>2, <2>5 DEF Front
          <6>2. Get(NullPtr, Front(other)) = NullPtr
            BY <6>1, GetBelowNull
          <6> QED
            BY <3>1, <6>2 DEF EndsInObject, NullPtr
        <5>2. Settled(node, l, k)
          BY <2>1, <2>2, <5>1, ChildInRange, CanonicalDown DEF Settled, InRange
        <5>3. Child(after, l) = Child(node, l)
          BY <2>1, <2>2, <2>3, <4>2, <5>2, OtherChild
        <5> QED
          BY <3>1, <5>3
      <4> QED
        BY <4>1, <4>2
    <3> HIDE DEF after
    <3>3. EndsInObject(after, q)
      BY <2>2, <2>5, <3>2, ObjectUp
    <3> QED
      BY <3>3 DEF after
  <2> QED
    BY <2>4, <2>5
<1> HIDE DEF Good
<1>3. Nat \subseteq Good
  BY <1>1, <1>2, Induction
<1>4. ASSUME NEW node, NEW p \in Seq(Keys), NEW q \in Seq(Keys), Fits(node, p, q)
      PROVE  EndsInObject(Set(node, p, ptr), q)
  <2>1. Len(p) \in Good
    BY <1>3, SequenceParts
  <2> HIDE DEF Fits
  <2> QED
    BY <1>4, <2>1 DEF Good
<1> QED
  BY <1>4

(* Solid nodes have their parts in one set.                                *)
LEMMA SolidTogether ==
  ASSUME NEW S, \A n \in S : Solid(n)
  PROVE  \E parts : S \subseteq parts /\ \A n \in parts : IsSolid(n, parts)
<1> DEFINE Has(n, p) == n \in p /\ \A x \in p : IsNode(x, p \ {NullPtr})
           Parts(n) == CHOOSE p : Has(n, p)
           parts == UNION {Parts(n) : n \in S}
<1>1. ASSUME NEW n \in S PROVE Has(n, Parts(n))
  <2>1. \E p : Has(n, p)
    BY DEF Solid, IsSolid
  <2> QED
    BY <2>1
<1>2. S \subseteq parts
  BY <1>1
<1>3. ASSUME NEW x \in parts PROVE IsNode(x, parts \ {NullPtr})
  <2>1. PICK n \in S : x \in Parts(n)
    OBVIOUS
  <2> DEFINE p == Parts(n)
  <2>2. x \in p /\ Has(n, p)
    BY <1>1, <2>1
  <2>3. p \ {NullPtr} \subseteq parts \ {NullPtr}
    OBVIOUS
  <2> HIDE DEF p, parts
  <2>4. IsNode(x, p \ {NullPtr})
    BY <2>2
  <2> QED
    BY <2>3, <2>4, MorePartsAllowed
<1> HIDE DEF parts
<1> QED
  BY <1>2, <1>3 DEF IsSolid

(* An object of solid nodes is solid.                                      *)
LEMMA ObjectSolid ==
  ASSUME NEW members, members = [key \in DOMAIN members |-> members[key]],
         \A key \in DOMAIN members : Solid(members[key]) /\ members[key] # NullPtr
  PROVE  Solid(Object(members))
<1> DEFINE S == {members[key] : key \in DOMAIN members}
<1>1. \A n \in S : Solid(n)
  OBVIOUS
<1>2. PICK parts : S \subseteq parts /\ \A n \in parts : IsSolid(n, parts)
  BY <1>1, SolidTogether
<1> DEFINE few == parts \ {NullPtr}
<1>3. members \in [DOMAIN members -> few]
  <2>1. \A key \in DOMAIN members : members[key] \in few
    BY <1>2
  <2> HIDE DEF few, S
  <2> QED
    BY <2>1
<1> HIDE DEF few
<1>4. IsNode(Object(members), few)
  BY <1>3, ObjectIsNode
<1> QED
  BY <1>2, <1>4, NewSolidRoot DEF few

(* No member of a solid object is nullptr.                                 *)
LEMMA SolidMember ==
  ASSUME NEW node, Solid(node), node.kind = "object", NEW key \in DOMAIN node.members
  PROVE  node.members[key] # NullPtr /\ Child(node, key) = node.members[key]
<1>1. PICK parts : IsNode(node, parts \ {NullPtr})
  BY DEF Solid, IsSolid
<1>2. node.members \in [DOMAIN node.members -> parts \ {NullPtr}]
  BY <1>1 DEF IsNode
<1> QED
  BY <1>2 DEF Child

(* Descendants finds a hole of a node that MaxDepth bounds.                *)
LEMMA SolidHoleFree ==
  ASSUME NEW node, Solid(node)
  PROVE  HoleFree(node)
<1>1. PICK parts : node \in parts /\ \A n \in parts : IsNode(n, parts \ {NullPtr})
  BY DEF Solid, IsSolid
<1>2. \A n \in parts : Children(n) \subseteq parts \ {NullPtr}
  BY <1>1, ChildrenAreParts
<1>3. Descendants(node) \subseteq parts
  BY <1>1, <1>2, DescendantsInside
<1> QED
  BY <1>2, <1>3 DEF HoleFree

(* A tree in which Descendants finds no hole, and sees all, is solid.      *)
LEMMA HoleFreeSolid ==
  ASSUME NEW node, Tree(node), Shallow(node), HoleFree(node)
  PROVE  Solid(node)
<1> DEFINE found == Descendants(node)
<1>1. PICK parts : node \in parts /\ \A n \in parts : IsNode(n, parts)
  BY DEF Tree
<1>2. found \subseteq parts
  BY <1>1, ChildrenAreParts, DescendantsInside
<1>3. \A n \in found : Children(n) \subseteq found \ {NullPtr}
  BY ShallowHoldsAll DEF HoleFree
<1>4. node \in found
  BY OwnDescendant
<1> HIDE DEF found
<1>5. \A n \in found : IsSolid(n, found)
  BY <1>1, <1>2, <1>3, FewerParts DEF IsSolid
<1> QED
  BY <1>4, <1>5 DEF Solid

=============================================================================
