-------------------------- MODULE FreeList_proofs --------------------------
(***************************************************************************)
(* Proofs about FreeList, for any number of threads and blocks: as long as *)
(* the list is not torn, it is a stack and every block is in one place.    *)
(***************************************************************************)
EXTENDS FreeList, TLAPS

-----------------------------------------------------------------------------
(* Lists.                                                                  *)
Linked(links, list) ==
  \A i \in DOMAIN list : links[list[i]] = IF i = Len(list) THEN Nil ELSE list[i + 1]

(* Removing the first element of a list.                                   *)
LEMMA TailLemma ==
  ASSUME NEW list \in Seq(Blocks), list # <<>>
  PROVE  /\ Head(list) \in Blocks /\ Head(list) \in Elements(list)
         /\ Head(list) = list[1] /\ Len(list) > 0
         /\ Tail(list) \in Seq(Blocks) /\ Len(Tail(list)) = Len(list) - 1
         /\ \A i \in DOMAIN Tail(list) : i + 1 \in DOMAIN list /\ Tail(list)[i] = list[i + 1]
BY DEF Elements

(* A list without repetition loses exactly the element that is removed.    *)
LEMMA TailElements ==
  ASSUME NEW list \in Seq(Blocks), list # <<>>, Distinct(list)
  PROVE  Elements(Tail(list)) = Elements(list) \ {Head(list)} /\ Distinct(Tail(list))
<1> DEFINE tail == Tail(list)
<1>1. DOMAIN list = 1..Len(list) /\ DOMAIN tail = 1..(Len(list) - 1) /\ Len(list) \in Nat \ {0}
  BY TailLemma
<1>2. \A i \in DOMAIN tail : tail[i] = list[i + 1]
  BY TailLemma
<1>3. Distinct(tail)
  BY <1>1, <1>2 DEF Distinct
<1>4. ASSUME NEW b \in Elements(tail) PROVE b \in Elements(list) /\ b # Head(list)
  BY <1>1, <1>2, TailLemma DEF Elements, Distinct
<1>5. ASSUME NEW b \in Elements(list), b # Head(list) PROVE b \in Elements(tail)
  <2>1. PICK i \in DOMAIN list : b = list[i]
    BY DEF Elements
  <2>2. i - 1 \in DOMAIN tail /\ tail[i - 1] = b
    BY <2>1, <1>1, <1>2, <1>5, TailLemma
  <2> QED BY <2>2 DEF Elements
<1> QED BY <1>3, <1>4, <1>5

(* Adding an element in front of a list.                                   *)
LEMMA ConsLemma ==
  ASSUME NEW list \in Seq(Blocks), NEW b \in Blocks
  PROVE  /\ <<b>> \o list \in Seq(Blocks) /\ Len(<<b>> \o list) = Len(list) + 1
         /\ (<<b>> \o list)[1] = b /\ Top(<<b>> \o list) = b
         /\ \A i \in DOMAIN list : (<<b>> \o list)[i + 1] = list[i]
BY DEF Top

(* A list without repetition stays one when the element is new.            *)
LEMMA ConsElements ==
  ASSUME NEW list \in Seq(Blocks), NEW b \in Blocks
  PROVE  /\ Elements(<<b>> \o list) = Elements(list) \cup {b}
         /\ Distinct(list) /\ b \notin Elements(list) => Distinct(<<b>> \o list)
<1> DEFINE cons == <<b>> \o list
<1>1. DOMAIN list = 1..Len(list) /\ DOMAIN cons = 1..(Len(list) + 1) /\ Len(list) \in Nat
  BY ConsLemma
<1>2. cons[1] = b /\ \A i \in DOMAIN cons \ {1} : i - 1 \in DOMAIN list /\ cons[i] = list[i - 1]
  <2>1. ASSUME NEW i \in DOMAIN cons \ {1} PROVE i - 1 \in DOMAIN list /\ cons[(i - 1) + 1] = list[i - 1]
    BY <1>1, ConsLemma
  <2> QED BY <2>1, <1>1, ConsLemma
<1>3. \A i \in DOMAIN list : i + 1 \in DOMAIN cons /\ cons[i + 1] = list[i]
  BY <1>1, ConsLemma
<1>4. Elements(cons) = Elements(list) \cup {b}
  <2>1. 1 \in DOMAIN cons BY <1>1
  <2>2. ASSUME NEW c \in Elements(cons) PROVE c \in Elements(list) \cup {b}
    <3>1. PICK i \in DOMAIN cons : c = cons[i] BY DEF Elements
    <3> QED BY <3>1, <1>2 DEF Elements
  <2>3. ASSUME NEW c \in Elements(list) PROVE c \in Elements(cons)
    <3>1. PICK i \in DOMAIN list : c = list[i] BY DEF Elements
    <3>2. i + 1 \in DOMAIN cons /\ c = cons[i + 1] BY <3>1, <1>3
    <3> QED BY <3>2 DEF Elements
  <2>4. b \in Elements(cons) BY <2>1, <1>2 DEF Elements
  <2> QED BY <2>2, <2>3, <2>4
<1>5. ASSUME Distinct(list), b \notin Elements(list) PROVE Distinct(cons)
  BY <1>1, <1>2, <1>5 DEF Distinct, Elements
<1> QED BY <1>4, <1>5

(* Popping and pushing, for lists whose links are in the blocks.           *)
LEMMA PopLinked ==
  ASSUME NEW list \in Seq(Blocks), list # <<>>, NEW links, Linked(links, list)
  PROVE  Top(Tail(list)) = links[Head(list)] /\ Linked(links, Tail(list))
<1> DEFINE tail == Tail(list)
<1>1. DOMAIN list = 1..Len(list) /\ DOMAIN tail = 1..(Len(list) - 1) /\ Len(list) \in Nat \ {0}
      /\ Len(tail) = Len(list) - 1 /\ tail \in Seq(Blocks)
  BY TailLemma
<1>2. \A i \in DOMAIN tail : tail[i] = list[i + 1]
  BY TailLemma
<1>3. Linked(links, tail)
  <2> SUFFICES ASSUME NEW i \in DOMAIN tail
               PROVE  links[tail[i]] = IF i = Len(tail) THEN Nil ELSE tail[i + 1]
    BY DEF Linked
  <2>1. i + 1 \in DOMAIN list /\ tail[i] = list[i + 1] BY <1>1, <1>2
  <2>2. links[list[i + 1]] = IF i + 1 = Len(list) THEN Nil ELSE list[(i + 1) + 1]
    BY <2>1 DEF Linked
  <2>3. i # Len(tail) => i + 1 \in DOMAIN tail /\ tail[i + 1] = list[(i + 1) + 1]
    BY <1>1, <1>2
  <2> QED BY <2>1, <2>2, <2>3, <1>1
<1>4. Top(tail) = links[Head(list)]
  <2>1. /\ links[list[1]] = IF 1 = Len(list) THEN Nil ELSE list[1 + 1]
        /\ Head(list) = list[1]
    BY <1>1, TailLemma DEF Linked
  <2>2. CASE Len(list) = 1 BY <2>1, <2>2, <1>1 DEF Top
  <2>3. CASE Len(list) # 1
    <3>1. Len(tail) > 0 /\ 1 \in DOMAIN tail BY <2>3, <1>1
    <3> HIDE DEF tail
    <3>a. tail # <<>> BY <3>1
    <3>2. Head(tail) = tail[1] /\ tail[1] = list[1 + 1] BY <3>1, <3>a, <1>1, <1>2
    <3> QED BY <3>a, <3>2, <2>1, <2>3 DEF Top
  <2> QED BY <2>2, <2>3
<1> QED BY <1>3, <1>4

(* deallocate links a block that points to the top of the list.            *)
LEMMA PushLinked ==
  ASSUME NEW list \in Seq(Blocks), NEW b \in Blocks, NEW links,
         Linked(links, list), links[b] = Top(list)
  PROVE  Linked(links, <<b>> \o list)
<1> DEFINE cons == <<b>> \o list
<1>1. DOMAIN list = 1..Len(list) /\ DOMAIN cons = 1..(Len(list) + 1) /\ Len(list) \in Nat
      /\ Len(cons) = Len(list) + 1
  BY ConsLemma
<1> SUFFICES ASSUME NEW i \in DOMAIN cons
             PROVE  links[cons[i]] = IF i = Len(cons) THEN Nil ELSE cons[i + 1]
  BY DEF Linked
<1>2. CASE i = 1
  <2>1. cons[i] = b BY <1>2, ConsLemma
  <2>2. CASE list = <<>> BY <2>1, <2>2, <1>1, <1>2 DEF Top
  <2>3. CASE list # <<>>
    <3>1. 1 \in DOMAIN list /\ Head(list) = list[1] BY <2>3, <1>1, TailLemma
    <3>2. cons[1 + 1] = list[1] BY <3>1, ConsLemma
    <3> QED BY <3>1, <3>2, <2>1, <2>3, <1>1, <1>2 DEF Top
  <2> QED BY <2>2, <2>3
<1>3. CASE i # 1
  <2>1. i - 1 \in DOMAIN list BY <1>1, <1>3
  <2>2. cons[(i - 1) + 1] = list[i - 1] BY <2>1, ConsLemma
  <2>3. links[list[i - 1]] = IF i - 1 = Len(list) THEN Nil ELSE list[(i - 1) + 1]
    BY <2>1 DEF Linked
  <2>4. i # Len(cons) => i \in DOMAIN list BY <1>1, <1>3
  <2>5. i # Len(cons) => cons[i + 1] = list[i] BY <2>4, ConsLemma
  <2> QED BY <2>1, <2>2, <2>3, <2>5, <1>1
<1> QED BY <1>2, <1>3

(* Links that are not among those of the list may change.                  *)
LEMMA LinksElsewhere ==
  ASSUME NEW list \in Seq(Blocks), NEW links, NEW links2, Linked(links, list),
         \A c \in Elements(list) : links2[c] = links[c]
  PROVE  Linked(links2, list)
BY DEF Linked, Elements

-----------------------------------------------------------------------------
(* A block that moves from one place to another.                           *)
Owned(at) ==
  \A b \in Blocks : \E place \in Places : \A other \in Places : b \in at[other] <=> other = place

(* If b goes from p to q and all else stays, every block is in one place.  *)
LEMMA Move ==
  ASSUME NEW at, NEW after, Owned(at), NEW p \in Places, NEW q \in Places, p # q,
         NEW b \in Blocks, b \in at[p],
         after[p] = at[p] \ {b}, after[q] = at[q] \cup {b},
         \A r \in Places \ {p, q} : after[r] = at[r]
  PROVE  Owned(after)
<1> SUFFICES ASSUME NEW c \in Blocks
             PROVE  \E place \in Places : \A other \in Places : c \in after[other] <=> other = place
  BY DEF Owned
<1>1. PICK place \in Places : \A other \in Places : c \in at[other] <=> other = place
  BY DEF Owned
<1>2. CASE c = b
  <2>1. place = p BY <1>1, <1>2
  <2>2. \A other \in Places : c \in after[other] <=> other = q
    <3> TAKE other \in Places
    <3>1. CASE other = p BY <3>1, <1>2
    <3>2. CASE other = q BY <3>2, <1>2
    <3>3. CASE other \notin {p, q} BY <3>3, <1>1, <2>1
    <3> QED BY <3>1, <3>2, <3>3
  <2> QED BY <2>2
<1>3. CASE c # b
  <2>1. \A other \in Places : c \in after[other] <=> c \in at[other]
    <3> TAKE other \in Places
    <3>1. CASE other = p BY <3>1, <1>3
    <3>2. CASE other = q BY <3>2, <1>3
    <3>3. CASE other \notin {p, q} BY <3>3
    <3> QED BY <3>1, <3>2, <3>3
  <2> QED BY <1>1, <2>1
<1> QED BY <1>2, <1>3

(* The places of a state, and of the next one.                             *)
At0 == [place \in Places |-> BlocksAt(place)]

(* The places there are, by name.                                          *)
LEMMA PlacesLemma ==
  /\ <<"program", Nil>> \in Places /\ <<"parent", Nil>> \in Places /\ <<"shared", Nil>> \in Places
  /\ \A t \in Threads : <<"list", t>> \in Places /\ <<"held", t>> \in Places
  /\ \A p \in Places :
       \/ p = <<"program", Nil>> \/ p = <<"parent", Nil>> \/ p = <<"shared", Nil>>
       \/ \E t \in Threads : p = <<"list", t>> \/ p = <<"held", t>>
BY DEF Places

(* What is at the places by name,                                          *)
LEMMA AtLemma ==
  /\ At0[<<"program", Nil>>] = used /\ At0[<<"parent", Nil>>] = parent
  /\ At0[<<"shared", Nil>>] = Elements(stack)
  /\ \A t \in Threads : At0[<<"list", t>>] = Elements(local[t]) /\ At0[<<"held", t>>] = Held(t)
BY PlacesLemma DEF At0, BlocksAt

(* and after a step.                                                       *)
LEMMA AtLemmaPrime ==
  /\ At0'[<<"program", Nil>>] = used' /\ At0'[<<"parent", Nil>>] = parent'
  /\ At0'[<<"shared", Nil>>] = Elements(stack)'
  /\ \A t \in Threads : At0'[<<"list", t>>] = Elements(local[t])' /\ At0'[<<"held", t>>] = Held(t)'
BY PlacesLemma DEF At0, BlocksAt

-----------------------------------------------------------------------------
(* The invariant.  A thread knows the block it is about to take or has.    *)
BlocksKnown ==
  \A t \in Threads : pc[t] \in {"next", "swap"} \cup Holding => block[t] \in Blocks

Whole ==
  ~torn =>
    /\ Owned(At0)
    /\ Distinct(stack) /\ \A t \in Threads : Distinct(local[t])
    /\ head = Top(stack) /\ Linked(next, stack)

Inv == TypeOK /\ BlocksKnown /\ Whole

(* What a step does that takes b from p to q.                              *)
LEMMA MoveStep ==
  ASSUME Owned(At0), NEW p \in Places, NEW q \in Places, p # q, NEW b \in Blocks, b \in At0[p],
         At0'[p] = At0[p] \ {b}, At0'[q] = At0[q] \cup {b},
         <<"program", Nil>> \notin {p, q} => used' = used,
         <<"parent", Nil>> \notin {p, q} => parent' = parent,
         <<"shared", Nil>> \notin {p, q} => Elements(stack)' = Elements(stack),
         \A u \in Threads : <<"list", u>> \notin {p, q} => Elements(local[u])' = Elements(local[u]),
         \A u \in Threads : <<"held", u>> \notin {p, q} => Held(u)' = Held(u)
  PROVE  Owned(At0')
<1>1. ASSUME NEW r \in Places \ {p, q} PROVE At0'[r] = At0[r]
  <2>1. CASE r \in {<<"program", Nil>>, <<"parent", Nil>>, <<"shared", Nil>>}
    BY <2>1, AtLemma, AtLemmaPrime
  <2>2. CASE \E u \in Threads : r = <<"list", u>> \/ r = <<"held", u>>
    <3>1. PICK u \in Threads : r = <<"list", u>> \/ r = <<"held", u>> BY <2>2
    <3> QED BY <3>1, AtLemma, AtLemmaPrime
  <2> QED BY <2>1, <2>2, PlacesLemma
<1> QED BY <1>1, Move

(* What a step leaves alone when it moves no block.                        *)
LEMMA NothingMoves ==
  ASSUME Owned(At0), UNCHANGED <<used, parent, stack, local>>,
         \A t \in Threads : Held(t)' = Held(t)
  PROVE  Owned(At0')
<1>1. /\ Elements(stack)' = Elements(stack)
      /\ \A t \in Threads : Elements(local[t])' = Elements(local[t])
  OBVIOUS
<1>2. ASSUME NEW r \in Places PROVE At0'[r] = At0[r]
  <2>1. CASE r \in {<<"program", Nil>>, <<"parent", Nil>>, <<"shared", Nil>>}
    BY <2>1, <1>1, AtLemma, AtLemmaPrime
  <2>2. CASE \E t \in Threads : r = <<"list", t>> \/ r = <<"held", t>>
    BY <2>2, <1>1, AtLemma, AtLemmaPrime
  <2> QED BY <2>1, <2>2, PlacesLemma
<1> QED BY <1>2 DEF Owned

(* Who is in one place is in no other.                                     *)
LEMMA Apart ==
  ASSUME Owned(At0), NEW b \in Blocks
  PROVE  /\ b \in used => b \notin parent \cup Elements(stack)
         /\ b \in parent => b \notin Elements(stack)
         /\ \A t \in Threads : b \in Elements(local[t]) \cup Held(t) => b \notin used \cup parent \cup Elements(stack)
         /\ \A t \in Threads : b \in Elements(local[t]) => b \notin Held(t)
         /\ \A t, u \in Threads : b \in Held(t) /\ b \in Held(u) => t = u
         /\ \A t, u \in Threads : b \in Elements(local[t]) /\ b \in Elements(local[u]) => t = u
<1>1. PICK place \in Places : \A other \in Places : b \in At0[other] <=> other = place
  BY DEF Owned
<1>2. b \in used => place = <<"program", Nil>>
  BY <1>1, AtLemma, PlacesLemma
<1>3. b \in parent => place = <<"parent", Nil>>
  BY <1>1, AtLemma, PlacesLemma
<1>4. b \in Elements(stack) => place = <<"shared", Nil>>
  BY <1>1, AtLemma, PlacesLemma
<1>5. \A t \in Threads : b \in Elements(local[t]) => place = <<"list", t>>
  BY <1>1, AtLemma, PlacesLemma
<1>6. \A t \in Threads : b \in Held(t) => place = <<"held", t>>
  BY <1>1, AtLemma, PlacesLemma
<1> QED BY <1>2, <1>3, <1>4, <1>5, <1>6

(* All blocks begin at the parent heap.                                    *)
LEMMA InitInv == Init => Inv
<1> SUFFICES ASSUME Init PROVE Inv
  OBVIOUS
<1>1. TypeOK
  <2>1. \A t \in Threads : Len(local[t]) <= Limit
    BY LimitAssumption DEF Init
  <2>2. local \in [Threads -> Seq(Blocks)] /\ stack \in Seq(Blocks)
    BY DEF Init
  <2>3. /\ pc \in [Threads -> Labels] /\ exiting \in [Threads -> BOOLEAN]
        /\ block \in [Threads -> Pointers] /\ link \in [Threads -> Pointers]
        /\ next \in [Blocks -> Pointers]
    BY DEF Init, Pointers, Labels
  <2>4. head \in Pointers /\ used \subseteq Blocks /\ parent \subseteq Blocks
    BY DEF Init, Pointers
  <2>5. count \in Int BY DEF Init
  <2>6. torn \in BOOLEAN BY DEF Init
  <2> QED BY <2>1, <2>2, <2>3, <2>4, <2>5, <2>6 DEF TypeOK
<1>2. BlocksKnown
  BY DEF Init, BlocksKnown, Holding
<1>3. Owned(At0)
  <2>1. used = {} /\ parent = Blocks /\ Elements(stack) = {}
    BY DEF Init, Elements
  <2>2. \A t \in Threads : Elements(local[t]) = {} /\ Held(t) = {}
    BY DEF Init, Elements, Held, Holding
  <2>3. \A b \in Blocks : \A other \in Places : b \in At0[other] <=> other = <<"parent", Nil>>
    BY <2>1, <2>2, AtLemma, PlacesLemma
  <2> QED BY <2>3, PlacesLemma DEF Owned
<1>4. Distinct(stack) /\ (\A t \in Threads : Distinct(local[t])) /\ head = Top(stack) /\ Linked(next, stack)
  BY DEF Init, Distinct, Top, Linked
<1> QED BY <1>1, <1>2, <1>3, <1>4 DEF Inv, Whole

-----------------------------------------------------------------------------
(* Type correctness, one step per action.                                  *)
LEMMA TypeStep ==
  ASSUME Inv, [Next]_vars
  PROVE  TypeOK' /\ BlocksKnown'
<1> USE DEF Inv, TypeOK, BlocksKnown, Pointers, Labels, Holding, At, Go, Leave, Return, GiveOut, threadVars
<1>1. ASSUME NEW t \in Threads, AllocateLocal(t) PROVE TypeOK' /\ BlocksKnown'
  <2>1. Tail(local[t]) \in Seq(Blocks) /\ Len(Tail(local[t])) = Len(local[t]) - 1 /\ Head(local[t]) \in Blocks
    BY <1>1, TailLemma DEF AllocateLocal
  <2>2. local' \in [Threads -> Seq(Blocks)] /\ \A u \in Threads : Len(local'[u]) <= Limit
    BY <1>1, <2>1, LimitAssumption DEF AllocateLocal
  <2> QED BY <1>1, <2>1, <2>2 DEF AllocateLocal
<1>2. ASSUME NEW t \in Threads, Allocate(t) PROVE TypeOK' /\ BlocksKnown'
  BY <1>2 DEF Allocate
<1>3. ASSUME NEW t \in Threads, LoadHead(t) PROVE TypeOK' /\ BlocksKnown'
  BY <1>3 DEF LoadHead
<1>4. ASSUME NEW t \in Threads, AllocateFromParent(t) PROVE TypeOK' /\ BlocksKnown'
  BY <1>4 DEF AllocateFromParent
<1>5. ASSUME NEW t \in Threads, ReadNext(t) PROVE TypeOK' /\ BlocksKnown'
  <2>1. link' \in [Threads -> Pointers] BY <1>5 DEF ReadNext
  <2> QED BY <1>5, <2>1 DEF ReadNext
<1>6. ASSUME NEW t \in Threads, Retry(t) PROVE TypeOK' /\ BlocksKnown'
  BY <1>6 DEF Retry
<1>7. ASSUME NEW t \in Threads, Swap(t) PROVE TypeOK' /\ BlocksKnown'
  <2>1. torn' \in BOOLEAN BY <1>7 DEF Swap
  <2>2. stack' \in Seq(Blocks)
    <3>1. CASE torn' BY <1>7, <3>1 DEF Swap
    <3>2. CASE ~torn'
      <4>1. ~torn /\ stack' = Tail(stack) BY <1>7, <3>2 DEF Swap
      <4>2. stack # <<>> BY <4>1, <1>7, NilAssumption DEF Swap, Whole, Top
      <4> QED BY <4>1, <4>2, TailLemma
    <3> QED BY <3>1, <3>2
  <2> QED BY <1>7, <2>1, <2>2 DEF Swap
<1>8. ASSUME NEW t \in Threads, Subtract(t) PROVE TypeOK' /\ BlocksKnown'
  BY <1>8 DEF Subtract
<1>9. ASSUME NEW t \in Threads, NEW b \in used, Deallocate(t, b) PROVE TypeOK' /\ BlocksKnown'
  <2>1. Top(local[t]) \in Pointers
    BY TailLemma DEF Top
  <2>2. <<b>> \o local[t] \in Seq(Blocks) /\ Len(<<b>> \o local[t]) = Len(local[t]) + 1
    BY ConsLemma
  <2>3. Len(local[t]) \in Nat OBVIOUS
  <2>4. local' \in [Threads -> Seq(Blocks)] /\ \A u \in Threads : Len(local'[u]) <= Limit
    <3>1. CASE local' = local BY <3>1
    <3>2. CASE Len(local[t]) < Limit /\ local' = [local EXCEPT ![t] = <<b>> \o @]
      <4>1. Len(<<b>> \o local[t]) <= Limit BY <3>2, <2>2, <2>3, LimitAssumption
      <4> QED BY <3>2, <4>1, <2>2
    <3> QED BY <3>1, <3>2, <1>9 DEF Deallocate
  <2>5. used' \subseteq Blocks /\ UNCHANGED <<link, exiting, head, count, parent, stack, torn>>
    BY <1>9 DEF Deallocate
  <2>6. CASE Len(local[t]) >= Limit
    <3>1. /\ block' = [block EXCEPT ![t] = b] /\ b \in Blocks
          /\ pc' = [pc EXCEPT ![t] = "room"] /\ next' = next
      BY <1>9, <2>6, <2>3, LimitAssumption DEF Deallocate
    <3> QED BY <2>4, <2>5, <3>1
  <2>7. CASE Len(local[t]) < Limit
    <3>1. /\ next' = [next EXCEPT ![b] = Top(local[t])]
          /\ pc' = pc /\ block' = block
      BY <1>9, <2>7, <2>3, LimitAssumption DEF Deallocate
    <3>2. next' \in [Blocks -> Pointers]
      BY <2>1, <3>1
    <3> QED BY <2>4, <2>5, <3>1, <3>2
  <2>8. Len(local[t]) >= Limit \/ Len(local[t]) < Limit
    BY <2>3, LimitAssumption
  <2> HIDE DEF TypeOK, BlocksKnown
  <2> QED BY <2>6, <2>7, <2>8
<1>10. ASSUME NEW t \in Threads, CheckRoom(t) PROVE TypeOK' /\ BlocksKnown'
  <2>1. parent' \subseteq Blocks /\ UNCHANGED <<exiting, head, count, next, local, used, stack, torn>>
    BY <1>10 DEF CheckRoom
  <2>2. CASE Full(count)
    <3>1. Return(t) BY <1>10, <2>2 DEF CheckRoom
    <3> QED BY <2>1, <3>1
  <2>3. CASE ~Full(count)
    <3>1. pc[t] = "room" /\ Go(t, "push") /\ UNCHANGED <<block, link>>
      BY <1>10, <2>3 DEF CheckRoom
    <3> QED BY <2>1, <3>1
  <2> QED BY <2>2, <2>3
<1>11. ASSUME NEW t \in Threads, LoadForPush(t) PROVE TypeOK' /\ BlocksKnown'
  BY <1>11 DEF LoadForPush
<1>12. ASSUME NEW t \in Threads, Relink(t) PROVE TypeOK' /\ BlocksKnown'
  BY <1>12 DEF Relink
<1>13. ASSUME NEW t \in Threads, Link(t) PROVE TypeOK' /\ BlocksKnown'
  <2>1. <<block[t]>> \o stack \in Seq(Blocks) BY <1>13, ConsLemma DEF Link
  <2> QED BY <1>13, <2>1 DEF Link
<1>14. ASSUME NEW t \in Threads, Add(t) PROVE TypeOK' /\ BlocksKnown'
  BY <1>14 DEF Add
<1>15. ASSUME NEW t \in Threads, Exit(t) PROVE TypeOK' /\ BlocksKnown'
  BY <1>15 DEF Exit
<1>16. ASSUME NEW t \in Threads, Clear(t) PROVE TypeOK' /\ BlocksKnown'
  <2>1. local[t] # <<>> =>
          /\ Tail(local[t]) \in Seq(Blocks) /\ Len(Tail(local[t])) = Len(local[t]) - 1
          /\ Head(local[t]) \in Blocks
    BY TailLemma
  <2>2. local' \in [Threads -> Seq(Blocks)] /\ \A u \in Threads : Len(local'[u]) <= Limit
    <3>1. CASE local' = local BY <3>1
    <3>2. CASE local[t] # <<>> /\ local' = [local EXCEPT ![t] = Tail(@)]
      <4>1. Len(Tail(local[t])) <= Limit BY <3>2, <2>1, LimitAssumption
      <4> QED BY <3>2, <4>1, <2>1
    <3> QED BY <3>1, <3>2, <1>16 DEF Clear
  <2>3. CASE local[t] = <<>>
    <3>1. pc' = [pc EXCEPT ![t] = "idle"] /\ block' = block /\ exiting' \in [Threads -> BOOLEAN]
      BY <1>16, <2>3 DEF Clear
    <3>2. UNCHANGED <<link, head, count, next, used, parent, stack, torn>>
      BY <1>16 DEF Clear
    <3> QED BY <2>2, <3>1, <3>2
  <2>4. CASE local[t] # <<>>
    <3>1. pc' = [pc EXCEPT ![t] = "room"] /\ exiting' = exiting
      BY <1>16, <2>4 DEF Clear
    <3>2. block' = [block EXCEPT ![t] = Head(local[t])] /\ Head(local[t]) \in Blocks
      BY <1>16, <2>1, <2>4 DEF Clear
    <3>3. UNCHANGED <<link, head, count, next, used, parent, stack, torn>>
      BY <1>16 DEF Clear
    <3> QED BY <2>2, <3>1, <3>2, <3>3
  <2> QED BY <2>3, <2>4
<1>17. CASE UNCHANGED vars
  BY <1>17 DEF vars
<1> QED
  BY <1>1, <1>2, <1>3, <1>4, <1>5, <1>6, <1>7, <1>8, <1>9, <1>10, <1>11, <1>12, <1>13, <1>14,
     <1>15, <1>16, <1>17 DEF Next

-----------------------------------------------------------------------------
(* The list stays a stack and every block in one place.                    *)
Intact(at, list, links, first, own) ==
  /\ Owned(at)
  /\ Distinct(list) /\ \A t \in Threads : Distinct(own[t])
  /\ first = Top(list) /\ Linked(links, list)

(* Steps that move no block, and write to no block of the shared list.     *)
LEMMA QuietStep ==
  ASSUME Inv, ~torn, UNCHANGED <<used, parent, stack, local, head>>,
         \A t \in Threads : Held(t)' = Held(t),
         \A c \in Elements(stack) : next'[c] = next[c]
  PROVE  Intact(At0', stack', next', head', local')
<1>1. Owned(At0')
  BY NothingMoves DEF Inv, Whole
<1>2. Linked(next', stack')
  BY LinksElsewhere DEF Inv, TypeOK, Whole
<1> QED BY <1>1, <1>2 DEF Inv, Whole, Intact

(* One step per action: what it moves, and what it links.                  *)
LEMMA WholeStep ==
  ASSUME Inv, [Next]_vars, ~torn'
  PROVE  Intact(At0', stack', next', head', local')
<1>1. ~torn
  BY DEF Next, vars, threadVars, AllocateLocal, Allocate, LoadHead, AllocateFromParent, ReadNext,
         Retry, Swap, Subtract, Deallocate, CheckRoom, LoadForPush, Relink, Link, Add, Exit, Clear
<1>2. /\ Owned(At0) /\ Distinct(stack) /\ \A t \in Threads : Distinct(local[t])
      /\ head = Top(stack) /\ Linked(next, stack)
      /\ TypeOK /\ BlocksKnown
  BY <1>1 DEF Inv, Whole
<1>3. ASSUME NEW t \in Threads, AllocateLocal(t) PROVE Intact(At0', stack', next', head', local')
  <2> DEFINE b == Head(local[t])
  <2>1. local[t] \in Seq(Blocks) /\ local[t] # <<>> /\ b \in Blocks /\ b \in Elements(local[t])
    BY <1>3, <1>2, TailLemma DEF AllocateLocal, TypeOK
  <2>2. Elements(Tail(local[t])) = Elements(local[t]) \ {b} /\ Distinct(Tail(local[t]))
    BY <1>2, <2>1, TailElements
  <2> HIDE DEF b
  <2>3. /\ used' = used \cup {b} /\ UNCHANGED <<parent, stack, head>>
        /\ local'[t] = Tail(local[t]) /\ \A u \in Threads \ {t} : local'[u] = local[u]
        /\ next' = [next EXCEPT ![b] = Nil]
        /\ \A u \in Threads : Held(u)' = Held(u)
    BY <1>3, <1>2 DEF AllocateLocal, GiveOut, TypeOK, Held, threadVars, b
  <2>4. Owned(At0')
    <3>1. At0'[<<"list", t>>] = At0[<<"list", t>>] \ {b}
      BY <2>2, <2>3, AtLemma, AtLemmaPrime
    <3>2. At0'[<<"program", Nil>>] = At0[<<"program", Nil>>] \cup {b}
      BY <2>3, AtLemma, AtLemmaPrime
    <3>3. \A u \in Threads : <<"list", u>> # <<"list", t>> => Elements(local[u])' = Elements(local[u])
      BY <2>3
    <3>5. <<"list", t>> # <<"program", Nil>> OBVIOUS
    <3>4. b \in At0[<<"list", t>>] BY <2>1, AtLemma
    <3>6. <<"list", t>> \in Places /\ <<"program", Nil>> \in Places BY PlacesLemma
    <3>7. parent' = parent /\ Elements(stack)' = Elements(stack) /\ \A u \in Threads : Held(u)' = Held(u)
      BY <2>3
    <3> QED BY <3>1, <3>2, <3>3, <3>4, <3>5, <3>6, <3>7, <1>2, <2>1, MoveStep
  <2>5. Linked(next', stack')
    <3>1. \A c \in Elements(stack) : next'[c] = next[c]
      BY <2>1, <2>3, <1>2, Apart DEF TypeOK
    <3> QED BY <3>1, <2>3, <1>2, LinksElsewhere DEF TypeOK
  <2> QED BY <2>2, <2>3, <2>4, <2>5, <1>2 DEF Intact
<1>4. ASSUME NEW t \in Threads, Allocate(t) PROVE Intact(At0', stack', next', head', local')
  <2>1. \A u \in Threads : Held(u)' = Held(u)
    BY <1>4, <1>2 DEF Allocate, TypeOK, Held, Holding, At, Go, Leave, Return
  <2>2. UNCHANGED <<used, parent, stack, local, head, next>>
    BY <1>4 DEF Allocate
  <2> QED BY <1>1, <2>1, <2>2, QuietStep
<1>5. ASSUME NEW t \in Threads, LoadHead(t) PROVE Intact(At0', stack', next', head', local')
  <2>1. \A u \in Threads : Held(u)' = Held(u)
    BY <1>5, <1>2 DEF LoadHead, TypeOK, Held, Holding, At, Go, Leave, Return
  <2>2. UNCHANGED <<used, parent, stack, local, head, next>>
    BY <1>5 DEF LoadHead
  <2> QED BY <1>1, <2>1, <2>2, QuietStep
<1>6. ASSUME NEW t \in Threads, ReadNext(t) PROVE Intact(At0', stack', next', head', local')
  <2>1. \A u \in Threads : Held(u)' = Held(u)
    BY <1>6, <1>2 DEF ReadNext, TypeOK, Held, Holding, At, Go, Leave, Return
  <2>2. UNCHANGED <<used, parent, stack, local, head, next>>
    BY <1>6 DEF ReadNext
  <2> QED BY <1>1, <2>1, <2>2, QuietStep
<1>7. ASSUME NEW t \in Threads, Retry(t) PROVE Intact(At0', stack', next', head', local')
  <2>1. \A u \in Threads : Held(u)' = Held(u)
    BY <1>7, <1>2 DEF Retry, TypeOK, Held, Holding, At, Go, Leave, Return
  <2>2. UNCHANGED <<used, parent, stack, local, head, next>>
    BY <1>7 DEF Retry
  <2> QED BY <1>1, <2>1, <2>2, QuietStep
<1>8. ASSUME NEW t \in Threads, Add(t) PROVE Intact(At0', stack', next', head', local')
  <2>1. \A u \in Threads : Held(u)' = Held(u)
    BY <1>8, <1>2 DEF Add, TypeOK, Held, Holding, At, Go, Leave, Return
  <2>2. UNCHANGED <<used, parent, stack, local, head, next>>
    BY <1>8 DEF Add
  <2> QED BY <1>1, <2>1, <2>2, QuietStep
<1>9. ASSUME NEW t \in Threads, Exit(t) PROVE Intact(At0', stack', next', head', local')
  <2>1. \A u \in Threads : Held(u)' = Held(u)
    BY <1>9, <1>2 DEF Exit, TypeOK, Held, Holding, At, Go, Leave, Return
  <2>2. UNCHANGED <<used, parent, stack, local, head, next>>
    BY <1>9 DEF Exit
  <2> QED BY <1>1, <2>1, <2>2, QuietStep
<1>10. ASSUME NEW t \in Threads, AllocateFromParent(t) PROVE Intact(At0', stack', next', head', local')
  <2>1. /\ \A u \in Threads : Held(u)' = Held(u)
        /\ UNCHANGED <<head, local, stack>>
    BY <1>10, <1>2 DEF AllocateFromParent, TypeOK, Held, Holding, At, Go
  <2>2. CASE UNCHANGED <<used, next, parent>>
    BY <1>1, <2>1, <2>2, QuietStep
  <2>3. CASE \E b \in parent : GiveOut(b) /\ parent' = parent \ {b}
    <3>1. PICK b \in parent : GiveOut(b) /\ parent' = parent \ {b}
      BY <2>3
    <3>2. /\ b \in Blocks /\ b \in parent /\ used' = used \cup {b} /\ parent' = parent \ {b}
          /\ next' = [next EXCEPT ![b] = Nil] /\ UNCHANGED <<head, local, stack>>
          /\ \A u \in Threads : Held(u)' = Held(u)
      BY <2>1, <3>1, <1>2 DEF GiveOut, TypeOK
    <3>3. Owned(At0')
      <4>1. At0'[<<"parent", Nil>>] = At0[<<"parent", Nil>>] \ {b} /\ b \in At0[<<"parent", Nil>>]
        BY <3>2, AtLemma, AtLemmaPrime
      <4>2. At0'[<<"program", Nil>>] = At0[<<"program", Nil>>] \cup {b}
        BY <3>2, AtLemma, AtLemmaPrime
      <4>3. <<"parent", Nil>> # <<"program", Nil>> /\ <<"parent", Nil>> \in Places /\ <<"program", Nil>> \in Places
        BY PlacesLemma
      <4>4. /\ Elements(stack)' = Elements(stack)
            /\ \A u \in Threads : Elements(local[u])' = Elements(local[u])
            /\ \A u \in Threads : Held(u)' = Held(u)
        BY <3>2
      <4> QED BY <4>1, <4>2, <4>3, <4>4, <3>2, <1>2, MoveStep
    <3>4. Linked(next', stack')
      <4>1. \A c \in Elements(stack) : next'[c] = next[c]
        BY <3>2, <1>2, Apart DEF TypeOK
      <4> QED BY <4>1, <3>2, <1>2, LinksElsewhere DEF TypeOK
    <3> QED BY <3>2, <3>3, <3>4, <1>2 DEF Intact
  <2> QED BY <2>2, <2>3, <1>10 DEF AllocateFromParent
<1>11. ASSUME NEW t \in Threads, Swap(t) PROVE Intact(At0', stack', next', head', local')
  <2> DEFINE b == block[t]
  <2>1. b \in Blocks /\ head = b /\ link[t] = next[b] /\ stack' = Tail(stack)
    BY <1>11, <1>2 DEF Swap, At, BlocksKnown
  <2>2. stack \in Seq(Blocks) /\ stack # <<>> /\ b = Head(stack)
    BY <2>1, <1>2, NilAssumption DEF Top, TypeOK
  <2>3. /\ Elements(Tail(stack)) = Elements(stack) \ {b} /\ Distinct(Tail(stack)) /\ b \in Elements(stack)
        /\ Top(Tail(stack)) = next[b] /\ Linked(next, Tail(stack))
    BY <2>2, <1>2, TailLemma, TailElements, PopLinked
  <2>4. /\ Held(t) = {} /\ Held(t)' = {b} /\ \A u \in Threads \ {t} : Held(u)' = Held(u)
        /\ UNCHANGED <<used, parent, local, next>> /\ head' = link[t]
    BY <1>11, <1>2 DEF Swap, TypeOK, Held, Holding, At, Go
  <2> HIDE DEF b
  <2>5. /\ b \in Blocks /\ b \in Elements(stack) /\ Elements(stack)' = Elements(stack) \ {b}
        /\ Held(t)' = Held(t) \cup {b} /\ \A u \in Threads \ {t} : Held(u)' = Held(u)
        /\ UNCHANGED <<used, parent, local>>
    BY <2>1, <2>3, <2>4
  <2>6. Owned(At0')
    <3>1. At0'[<<"shared", Nil>>] = At0[<<"shared", Nil>>] \ {b} /\ b \in At0[<<"shared", Nil>>]
      BY <2>5, AtLemma, AtLemmaPrime
    <3>2. At0'[<<"held", t>>] = At0[<<"held", t>>] \cup {b}
      BY <2>5, AtLemma, AtLemmaPrime
    <3>3. <<"shared", Nil>> # <<"held", t>> /\ <<"shared", Nil>> \in Places /\ <<"held", t>> \in Places
      BY PlacesLemma
    <3>4. /\ used' = used
          /\ parent' = parent
          /\ \A u \in Threads : Elements(local[u])' = Elements(local[u])
          /\ \A u \in Threads : <<"held", u>> # <<"held", t>> => Held(u)' = Held(u)
      BY <2>5
    <3> QED BY <3>1, <3>2, <3>3, <3>4, <2>5, <1>2, MoveStep
  <2> QED BY <2>1, <2>3, <2>4, <2>6, <1>2 DEF Intact
<1>12. ASSUME NEW t \in Threads, Subtract(t) PROVE Intact(At0', stack', next', head', local')
  <2> DEFINE b == block[t]
  <2>1. /\ b \in Blocks /\ Held(t) = {b} /\ Held(t)' = {}
        /\ \A u \in Threads \ {t} : Held(u)' = Held(u)
        /\ used' = used \cup {b} /\ UNCHANGED <<parent, local, stack, head>>
        /\ next' = [next EXCEPT ![b] = Nil]
    BY <1>12, <1>2 DEF Subtract, GiveOut, TypeOK, BlocksKnown, Held, Holding, At, Go, Leave
  <2> HIDE DEF b
  <2>2. Owned(At0')
    <3>1. At0'[<<"held", t>>] = At0[<<"held", t>>] \ {b} /\ b \in At0[<<"held", t>>]
      BY <2>1, AtLemma, AtLemmaPrime
    <3>2. At0'[<<"program", Nil>>] = At0[<<"program", Nil>>] \cup {b}
      BY <2>1, AtLemma, AtLemmaPrime
    <3>3. <<"held", t>> # <<"program", Nil>> /\ <<"held", t>> \in Places /\ <<"program", Nil>> \in Places
      BY PlacesLemma
    <3>4. /\ parent' = parent
          /\ Elements(stack)' = Elements(stack)
          /\ \A u \in Threads : Elements(local[u])' = Elements(local[u])
          /\ \A u \in Threads : <<"held", u>> # <<"held", t>> => Held(u)' = Held(u)
      BY <2>1
    <3> QED BY <3>1, <3>2, <3>3, <3>4, <2>1, <1>2, MoveStep
  <2>3. Linked(next', stack')
    <3>1. \A c \in Elements(stack) : next'[c] = next[c]
      BY <2>1, <1>2, Apart DEF TypeOK
    <3> QED BY <3>1, <2>1, <1>2, LinksElsewhere DEF TypeOK
  <2> QED BY <2>1, <2>2, <2>3, <1>2 DEF Intact
<1>13. ASSUME NEW t \in Threads, NEW b \in used, Deallocate(t, b) PROVE Intact(At0', stack', next', head', local')
  <2>1. /\ b \in Blocks /\ b \in used /\ used' = used \ {b} /\ UNCHANGED <<head, parent, stack>>
        /\ At(t, "idle")
    BY <1>13, <1>2 DEF Deallocate, TypeOK
  <2>2. CASE UNCHANGED <<next, local>> /\ block' = [block EXCEPT ![t] = b] /\ Go(t, "room")
    <3>1. /\ Held(t) = {} /\ Held(t)' = {b} /\ \A u \in Threads \ {t} : Held(u)' = Held(u)
      BY <2>1, <2>2, <1>2 DEF TypeOK, Held, Holding, At, Go
    <3>2. /\ b \in Blocks /\ b \in used /\ used' = used \ {b}
          /\ Held(t)' = Held(t) \cup {b} /\ \A u \in Threads \ {t} : Held(u)' = Held(u)
          /\ UNCHANGED <<local, parent, stack>>
      BY <2>1, <2>2, <3>1
    <3>3. Owned(At0')
      <4>1. At0'[<<"program", Nil>>] = At0[<<"program", Nil>>] \ {b} /\ b \in At0[<<"program", Nil>>]
        BY <3>2, AtLemma, AtLemmaPrime
      <4>2. At0'[<<"held", t>>] = At0[<<"held", t>>] \cup {b}
        BY <3>2, AtLemma, AtLemmaPrime
      <4>3. <<"program", Nil>> # <<"held", t>> /\ <<"program", Nil>> \in Places /\ <<"held", t>> \in Places
        BY PlacesLemma
      <4>4. /\ parent' = parent
            /\ Elements(stack)' = Elements(stack)
            /\ \A u \in Threads : Elements(local[u])' = Elements(local[u])
            /\ \A u \in Threads : <<"held", u>> # <<"held", t>> => Held(u)' = Held(u)
        BY <3>2
      <4> QED BY <4>1, <4>2, <4>3, <4>4, <3>2, <1>2, MoveStep
    <3> QED BY <2>1, <2>2, <3>3, <1>2 DEF Intact
  <2>3. CASE /\ next' = [next EXCEPT ![b] = Top(local[t])]
             /\ local' = [local EXCEPT ![t] = <<b>> \o @]
             /\ UNCHANGED <<pc, block>>
    <3>1. b \notin Elements(local[t]) /\ b \notin Elements(stack)
      BY <2>1, <1>2, Apart
    <3>2. Elements(<<b>> \o local[t]) = Elements(local[t]) \cup {b} /\ Distinct(<<b>> \o local[t])
      BY <2>1, <3>1, <1>2, ConsElements DEF TypeOK
    <3>3. /\ local'[t] = <<b>> \o local[t] /\ \A u \in Threads \ {t} : local'[u] = local[u]
      BY <2>3, <1>2 DEF TypeOK
    <3>4. /\ b \in Blocks /\ b \in used /\ used' = used \ {b} /\ UNCHANGED <<parent, stack>>
          /\ Elements(local[t])' = Elements(local[t]) \cup {b}
          /\ \A u \in Threads \ {t} : Elements(local[u])' = Elements(local[u])
          /\ \A u \in Threads : Held(u)' = Held(u)
      BY <2>1, <2>3, <3>2, <3>3 DEF Held
    <3>5. Owned(At0')
      <4>1. At0'[<<"program", Nil>>] = At0[<<"program", Nil>>] \ {b} /\ b \in At0[<<"program", Nil>>]
        BY <3>4, AtLemma, AtLemmaPrime
      <4>2. At0'[<<"list", t>>] = At0[<<"list", t>>] \cup {b}
        BY <3>4, AtLemma, AtLemmaPrime
      <4>3. <<"program", Nil>> # <<"list", t>> /\ <<"program", Nil>> \in Places /\ <<"list", t>> \in Places
        BY PlacesLemma
      <4>4. /\ parent' = parent
            /\ Elements(stack)' = Elements(stack)
            /\ \A u \in Threads : <<"list", u>> # <<"list", t>> => Elements(local[u])' = Elements(local[u])
            /\ \A u \in Threads : Held(u)' = Held(u)
        BY <3>4
      <4> QED BY <4>1, <4>2, <4>3, <4>4, <3>4, <1>2, MoveStep
    <3>6. Linked(next', stack')
      <4>1. \A c \in Elements(stack) : next'[c] = next[c]
        BY <2>3, <3>1, <1>2 DEF TypeOK
      <4> QED BY <4>1, <2>1, <1>2, LinksElsewhere DEF TypeOK
    <3>7. \A u \in Threads : Distinct(local'[u])
      BY <3>2, <3>3, <1>2
    <3> QED BY <2>1, <3>5, <3>6, <3>7, <1>2 DEF Intact
  <2> QED BY <2>2, <2>3, <1>13 DEF Deallocate
<1>14. ASSUME NEW t \in Threads, CheckRoom(t) PROVE Intact(At0', stack', next', head', local')
  <2> DEFINE b == block[t]
  <2>1. b \in Blocks /\ Held(t) = {b} /\ UNCHANGED <<head, next, local, used, stack>>
    BY <1>14, <1>2 DEF CheckRoom, At, BlocksKnown, Held, Holding
  <2>2. CASE Go(t, "push") /\ UNCHANGED <<block, link, parent>>
    <3>1. \A u \in Threads : Held(u)' = Held(u)
      BY <2>2, <1>14, <1>2 DEF CheckRoom, TypeOK, Held, Holding, At, Go
    <3> QED BY <3>1, <2>1, <2>2, <1>1, QuietStep
  <2>3. CASE parent' = parent \cup {b} /\ Return(t)
    <3>1. Held(t)' = {} /\ \A u \in Threads \ {t} : Held(u)' = Held(u)
      BY <2>3, <1>2 DEF TypeOK, Held, Holding, Go, Leave, Return
    <3> HIDE DEF b
    <3>2. /\ b \in Blocks /\ Held(t) = {b} /\ Held(t)' = {} /\ \A u \in Threads \ {t} : Held(u)' = Held(u)
          /\ parent' = parent \cup {b} /\ UNCHANGED <<used, local, stack>>
      BY <2>1, <2>3, <3>1
    <3>3. Owned(At0')
      <4>1. At0'[<<"held", t>>] = At0[<<"held", t>>] \ {b} /\ b \in At0[<<"held", t>>]
        BY <3>2, AtLemma, AtLemmaPrime
      <4>2. At0'[<<"parent", Nil>>] = At0[<<"parent", Nil>>] \cup {b}
        BY <3>2, AtLemma, AtLemmaPrime
      <4>3. <<"held", t>> # <<"parent", Nil>> /\ <<"held", t>> \in Places /\ <<"parent", Nil>> \in Places
        BY PlacesLemma
      <4>4. /\ used' = used
            /\ Elements(stack)' = Elements(stack)
            /\ \A u \in Threads : Elements(local[u])' = Elements(local[u])
            /\ \A u \in Threads : <<"held", u>> # <<"held", t>> => Held(u)' = Held(u)
        BY <3>2
      <4> QED BY <4>1, <4>2, <4>3, <4>4, <3>2, <1>2, MoveStep
    <3> QED BY <2>1, <3>3, <1>2 DEF Intact
  <2> QED BY <2>2, <2>3, <1>14 DEF CheckRoom
<1>15. ASSUME NEW t \in Threads, LoadForPush(t) PROVE Intact(At0', stack', next', head', local')
  <2>1. block[t] \in Blocks /\ block[t] \in Held(t) /\ \A u \in Threads : Held(u)' = Held(u)
    BY <1>15, <1>2 DEF LoadForPush, TypeOK, BlocksKnown, Held, Holding, At, Go
  <2>2. /\ UNCHANGED <<used, parent, stack, local, head>>
        /\ \A c \in Elements(stack) : next'[c] = next[c]
    BY <1>15, <2>1, <1>2, Apart DEF LoadForPush, TypeOK
  <2> QED BY <1>1, <2>1, <2>2, QuietStep
<1>16. ASSUME NEW t \in Threads, Relink(t) PROVE Intact(At0', stack', next', head', local')
  <2>1. block[t] \in Blocks /\ block[t] \in Held(t) /\ \A u \in Threads : Held(u)' = Held(u)
    BY <1>16, <1>2 DEF Relink, TypeOK, BlocksKnown, Held, Holding, At, Go
  <2>2. /\ UNCHANGED <<used, parent, stack, local, head>>
        /\ \A c \in Elements(stack) : next'[c] = next[c]
    BY <1>16, <2>1, <1>2, Apart DEF Relink, TypeOK
  <2> QED BY <1>1, <2>1, <2>2, QuietStep
<1>17. ASSUME NEW t \in Threads, Link(t) PROVE Intact(At0', stack', next', head', local')
  <2> DEFINE b == block[t]
  <2>1. /\ b \in Blocks /\ Held(t) = {b} /\ Held(t)' = {}
        /\ \A u \in Threads \ {t} : Held(u)' = Held(u)
        /\ next[b] = head /\ head' = b /\ stack' = <<b>> \o stack /\ UNCHANGED <<next, local, used, parent>>
    <3>1. /\ pc[t] = "link" /\ pc' = [pc EXCEPT ![t] = "add"] /\ head' = b /\ stack' = <<b>> \o stack
          /\ UNCHANGED <<block, next, local, used, parent>>
      BY <1>17, <1>1 DEF Link, At, Go
    <3>2. next[b] = head
      BY <1>17, <1>1 DEF Link
    <3>3. b \in Blocks
      BY <3>1, <1>2 DEF BlocksKnown, Holding
    <3>4. pc \in [Threads -> Labels]
      BY <1>2 DEF TypeOK
    <3>5. /\ Held(t) = {b} /\ Held(t)' = {}
          /\ \A u \in Threads \ {t} : Held(u)' = Held(u)
      BY <3>1, <3>4 DEF Held, Holding
    <3> QED BY <3>1, <3>2, <3>3, <3>5
  <2> HIDE DEF b
  <2>2. b \notin Elements(stack)
    BY <2>1, <1>2, Apart
  <2>3. /\ Elements(<<b>> \o stack) = Elements(stack) \cup {b} /\ Distinct(<<b>> \o stack)
        /\ Top(<<b>> \o stack) = b
    BY <2>1, <2>2, <1>2, ConsElements, ConsLemma DEF TypeOK
  <2>4. Linked(next, <<b>> \o stack)
    BY <2>1, <1>2, PushLinked DEF TypeOK
  <2>5. /\ b \in Blocks /\ Held(t) = {b} /\ Held(t)' = {} /\ \A u \in Threads \ {t} : Held(u)' = Held(u)
        /\ Elements(stack)' = Elements(stack) \cup {b} /\ UNCHANGED <<used, parent, local>>
    BY <2>1, <2>3
  <2>6. Owned(At0')
    <3>1. At0'[<<"held", t>>] = At0[<<"held", t>>] \ {b} /\ b \in At0[<<"held", t>>]
      <4>1. At0[<<"held", t>>] = Held(t) BY AtLemma
      <4>2. At0'[<<"held", t>>] = Held(t)' BY AtLemmaPrime
      <4> QED BY <2>5, <4>1, <4>2
    <3>2. At0'[<<"shared", Nil>>] = At0[<<"shared", Nil>>] \cup {b}
      BY <2>5, AtLemma, AtLemmaPrime
    <3>3. <<"held", t>> # <<"shared", Nil>> /\ <<"held", t>> \in Places /\ <<"shared", Nil>> \in Places
      BY PlacesLemma
    <3>4. /\ used' = used
          /\ parent' = parent
          /\ \A u \in Threads : Elements(local[u])' = Elements(local[u])
          /\ \A u \in Threads : <<"held", u>> # <<"held", t>> => Held(u)' = Held(u)
      BY <2>5
    <3> QED BY <3>1, <3>2, <3>3, <3>4, <2>5, <1>2, MoveStep
  <2> QED BY <2>1, <2>3, <2>4, <2>6, <1>2 DEF Intact
<1>18. ASSUME NEW t \in Threads, Clear(t) PROVE Intact(At0', stack', next', head', local')
  <2>1. UNCHANGED <<head, next, used, parent, stack>> /\ At(t, "clear")
    BY <1>18 DEF Clear
  <2>2. CASE UNCHANGED <<block, local>> /\ Go(t, "idle")
    <3>1. \A u \in Threads : Held(u)' = Held(u)
      BY <2>1, <2>2, <1>2 DEF TypeOK, Held, Holding, At, Go
    <3> QED BY <3>1, <2>1, <2>2, <1>1, QuietStep
  <2>3. CASE /\ local[t] # <<>> /\ block' = [block EXCEPT ![t] = Head(local[t])]
             /\ local' = [local EXCEPT ![t] = Tail(@)] /\ Go(t, "room")
    <3> DEFINE b == Head(local[t])
    <3>1. b \in Blocks /\ b \in Elements(local[t])
      BY <2>3, <1>2, TailLemma DEF TypeOK
    <3>2. Elements(Tail(local[t])) = Elements(local[t]) \ {b} /\ Distinct(Tail(local[t]))
      BY <2>3, <1>2, TailElements DEF TypeOK
    <3>3. /\ Held(t) = {} /\ Held(t)' = {b} /\ \A u \in Threads \ {t} : Held(u)' = Held(u)
          /\ local'[t] = Tail(local[t]) /\ \A u \in Threads \ {t} : local'[u] = local[u]
      BY <2>1, <2>3, <1>2 DEF TypeOK, Held, Holding, At, Go
    <3> HIDE DEF b
    <3>4. /\ b \in Blocks /\ b \in Elements(local[t]) /\ Elements(local[t])' = Elements(local[t]) \ {b}
          /\ \A u \in Threads \ {t} : Elements(local[u])' = Elements(local[u])
          /\ Held(t)' = Held(t) \cup {b} /\ \A u \in Threads \ {t} : Held(u)' = Held(u)
          /\ UNCHANGED <<used, parent, stack>>
      BY <2>1, <3>1, <3>2, <3>3
    <3>5. Owned(At0')
      <4>1. At0'[<<"list", t>>] = At0[<<"list", t>>] \ {b} /\ b \in At0[<<"list", t>>]
        BY <3>4, AtLemma, AtLemmaPrime
      <4>2. At0'[<<"held", t>>] = At0[<<"held", t>>] \cup {b}
        BY <3>4, AtLemma, AtLemmaPrime
      <4>3. <<"list", t>> # <<"held", t>> /\ <<"list", t>> \in Places /\ <<"held", t>> \in Places
        BY PlacesLemma
      <4>4. /\ used' = used
            /\ parent' = parent
            /\ Elements(stack)' = Elements(stack)
            /\ \A u \in Threads : <<"list", u>> # <<"list", t>> => Elements(local[u])' = Elements(local[u])
            /\ \A u \in Threads : <<"held", u>> # <<"held", t>> => Held(u)' = Held(u)
        BY <3>4
      <4> QED BY <4>1, <4>2, <4>3, <4>4, <3>4, <1>2, MoveStep
    <3>6. \A u \in Threads : Distinct(local'[u])
      BY <3>2, <3>3, <1>2
    <3> QED BY <2>1, <3>5, <3>6, <1>2 DEF Intact
  <2> QED BY <2>2, <2>3, <1>18 DEF Clear
<1>19. CASE UNCHANGED vars
  BY <1>19, <1>1, QuietStep DEF vars, threadVars, Held
<1> QED
  BY <1>3, <1>4, <1>5, <1>6, <1>7, <1>8, <1>9, <1>10, <1>11, <1>12, <1>13, <1>14, <1>15, <1>16,
     <1>17, <1>18, <1>19 DEF Next

-----------------------------------------------------------------------------
(* Theorems.                                                               *)

(* The shared list is a stack and every block is in one place, until an    *)
(* allocate has put into head what was no longer next.                     *)
THEOREM InvCorrect == Spec => []Inv
<1>1. Init => Inv
  BY InitInv
<1>2. Inv /\ [Next]_vars => Inv'
  <2> SUFFICES ASSUME Inv, [Next]_vars PROVE Inv'
    OBVIOUS
  <2>1. TypeOK' /\ BlocksKnown'
    BY TypeStep
  <2>2. ~torn' => Intact(At0', stack', next', head', local')
    BY WholeStep
  <2>3. Whole'
    BY <2>2 DEF Whole, Intact, Owned
  <2> QED BY <2>1, <2>3 DEF Inv
<1> QED BY <1>1, <1>2, PTL DEF Spec

(* Every thread is at a step of allocate, deallocate or clear, and no list *)
(* of a thread outgrows the limit of its heap.                             *)
THEOREM TypeCorrect == Spec => []TypeOK
<1>1. Inv => TypeOK
  BY DEF Inv
<1> QED BY <1>1, InvCorrect, PTL

(* allocate gives no block to two callers, deallocate and clear lose none. *)
THEOREM BlocksHaveOneOwner == Spec => []OneOwner
<1>1. Inv => OneOwner
  <2> SUFFICES ASSUME Inv, ~torn PROVE OneOwner
    BY DEF OneOwner
  <2>1. Owned(At0) /\ Distinct(stack) /\ \A t \in Threads : Distinct(local[t])
    BY DEF Inv, Whole
  <2>2. \A place \in Places : At0[place] = BlocksAt(place)
    BY DEF At0
  <2>3. \A b \in Blocks :
          \E place \in Places : \A other \in Places : b \in BlocksAt(other) <=> other = place
    BY <2>1, <2>2 DEF Owned
  <2> QED BY <2>1, <2>3 DEF OneOwner
<1> QED BY <1>1, InvCorrect, PTL

(* What allocate follows from head is what deallocate has linked there.    *)
THEOREM ListIsAStack == Spec => []ListIsIntact
<1>1. Inv => ListIsIntact
  BY DEF Inv, Whole, ListIsIntact, Linked
<1> QED BY <1>1, InvCorrect, PTL

=============================================================================
