------------------------------ MODULE FreeList ------------------------------
(***************************************************************************)
(* Where the nodes of immer's vectors come from: free_list_heap_policy,    *)
(* immer/immer/heap/.  Every thread keeps the blocks it frees in a list of *)
(* its own (thread_local_free_list_heap); what does not fit there goes to  *)
(* a list that all threads share, linked through the blocks and changed by *)
(* compare_exchange (free_list_heap), and from there to the parent heap.   *)
(*                                                                         *)
(* A thread is at most between two accesses to what others see.  The list  *)
(* of a thread is a sequence: nobody else looks at it, but its links are   *)
(* in the blocks, where others may read them.  A count is an integer; as   *)
(* it wraps, one below 0 is above every limit.                             *)
(***************************************************************************)
EXTENDS Integers, Sequences, FiniteSets

CONSTANTS
  Threads,
  Blocks,   \* the blocks of memory there are
  Limit,    \* how many blocks a list is to keep
  Nil       \* nullptr

ASSUME NilAssumption     == Nil \notin Blocks
ASSUME LimitAssumption   == Limit \in Nat \ {0}
ASSUME ThreadsAssumption == IsFiniteSet(Threads)

VARIABLES
  pc,       \* where a thread is in allocate, deallocate or clear
  block,    \* n of that call
  link,     \* n->next as allocate has read it
  exiting,  \* the thread is in ~head_t
  head,     \* free_list_heap: head().data
  count,    \* free_list_heap: head().count
  next,     \* free_list_node::next of each block
  local,    \* the list of each thread
  used,     \* the blocks that the program has allocated
  parent,   \* the blocks that the parent heap may give out
  stack,    \* history: the shared list as its calls have promised it
  torn      \* history: an allocate has put into head what was no longer next

threadVars == <<pc, block, link, exiting>>
vars == <<threadVars, head, count, next, local, used, parent, stack, torn>>

Pointers == Blocks \cup {Nil}

Top(list) == IF list = <<>> THEN Nil ELSE Head(list)
Elements(list) == {list[i] : i \in DOMAIN list}

Full(n) == n < 0 \/ n >= Limit

Init ==
  /\ pc = [t \in Threads |-> "idle"]
  /\ block = [t \in Threads |-> Nil]
  /\ link = [t \in Threads |-> Nil]
  /\ exiting = [t \in Threads |-> FALSE]
  /\ head = Nil /\ count = 0
  /\ next \in [Blocks -> {Nil}]
  /\ local = [t \in Threads |-> <<>>]
  /\ used = {} /\ parent = Blocks
  /\ stack = <<>> /\ torn = FALSE

At(t, label) == pc[t] = label
Go(t, label) == pc' = [pc EXCEPT ![t] = label]

(* The variables of the call go out of scope.                              *)
Leave(t, label) ==
  /\ Go(t, label)
  /\ block' = [block EXCEPT ![t] = Nil]
  /\ link' = [link EXCEPT ![t] = Nil]

Return(t) == Leave(t, IF exiting[t] THEN "clear" ELSE "idle")

-----------------------------------------------------------------------------
(* allocate.  with_data puts a new header in front of what is returned.    *)
GiveOut(b) ==
  /\ used' = used \cup {b}
  /\ next' = [next EXCEPT ![b] = Nil]

(* Mutant: the list still begins with the block that is given out.         *)
AllocateLocalKeeping(t) ==
  /\ At(t, "idle") /\ local[t] # <<>>
  /\ GiveOut(Head(local[t]))
  /\ UNCHANGED <<threadVars, head, count, local, parent, stack, torn>>

AllocateLocal(t) ==
  /\ At(t, "idle") /\ local[t] # <<>>
  /\ local' = [local EXCEPT ![t] = Tail(@)]
  /\ GiveOut(Head(local[t]))
  /\ UNCHANGED <<threadVars, head, count, parent, stack, torn>>

Allocate(t) ==
  /\ At(t, "idle") /\ local[t] = <<>>
  /\ Go(t, "load")
  /\ UNCHANGED <<block, link, exiting, head, count, next, local, used, parent, stack, torn>>

LoadHead(t) ==
  /\ At(t, "load")
  /\ block' = [block EXCEPT ![t] = head]
  /\ Go(t, IF head = Nil THEN "parent" ELSE "next")
  /\ UNCHANGED <<link, exiting, head, count, next, local, used, parent, stack, torn>>

(* std::bad_alloc if there is none.                                        *)
AllocateFromParent(t) ==
  /\ At(t, "parent")
  /\ \/ \E b \in parent : GiveOut(b) /\ parent' = parent \ {b}
     \/ parent = {} /\ UNCHANGED <<used, next, parent>>
  /\ Go(t, "idle")
  /\ UNCHANGED <<block, link, exiting, head, count, local, stack, torn>>

(* n->next, which is anything if n has gone to the parent heap.            *)
ReadNext(t) ==
  /\ At(t, "next")
  /\ \E p \in IF block[t] \in parent THEN Pointers ELSE {next[block[t]]} :
       link' = [link EXCEPT ![t] = p]
  /\ Go(t, "swap")
  /\ UNCHANGED <<block, exiting, head, count, next, local, used, parent, stack, torn>>

(* compare_exchange_weak, which may fail without a reason.                 *)
Retry(t) ==
  /\ At(t, "swap")
  /\ Leave(t, "load")
  /\ UNCHANGED <<exiting, head, count, next, local, used, parent, stack, torn>>

(* Mutant: the head is replaced whatever it is by now.                     *)
SwapUnchecked(t) ==
  /\ At(t, "swap") /\ head # Nil
  /\ head' = link[t]
  /\ Go(t, "sub")
  /\ torn' = (torn \/ link[t] # next[block[t]])
  /\ stack' = IF torn' THEN stack ELSE Tail(stack)
  /\ UNCHANGED <<block, link, exiting, count, next, local, used, parent>>

Swap(t) ==
  /\ At(t, "swap") /\ head = block[t]
  /\ head' = link[t]
  /\ Go(t, "sub")
  /\ torn' = (torn \/ link[t] # next[block[t]])
  /\ stack' = IF torn' THEN stack ELSE Tail(stack)
  /\ UNCHANGED <<block, link, exiting, count, next, local, used, parent>>

Subtract(t) ==
  /\ At(t, "sub")
  /\ count' = count - 1
  /\ GiveOut(block[t])
  /\ Leave(t, "idle")
  /\ UNCHANGED <<exiting, head, local, parent, stack, torn>>

-----------------------------------------------------------------------------
(* deallocate.                                                             *)
Deallocate(t, b) ==
  /\ At(t, "idle")
  /\ used' = used \ {b}
  /\ \/ /\ Len(local[t]) >= Limit
        /\ block' = [block EXCEPT ![t] = b]
        /\ Go(t, "room")
        /\ UNCHANGED <<next, local>>
     \/ /\ Len(local[t]) < Limit
        /\ next' = [next EXCEPT ![b] = Top(local[t])]
        /\ local' = [local EXCEPT ![t] = <<b>> \o @]
        /\ UNCHANGED <<pc, block>>
  /\ UNCHANGED <<link, exiting, head, count, parent, stack, torn>>

(* Mutant: the limit itself still leaves room.                             *)
CheckRoomForOneMore(t) ==
  /\ At(t, "room")
  /\ \/ /\ Full(count) /\ count # Limit
        /\ parent' = parent \cup {block[t]}
        /\ Return(t)
     \/ /\ ~Full(count) \/ count = Limit
        /\ Go(t, "push")
        /\ UNCHANGED <<block, link, parent>>
  /\ UNCHANGED <<exiting, head, count, next, local, used, stack, torn>>

CheckRoom(t) ==
  /\ At(t, "room")
  /\ \/ /\ Full(count)
        /\ parent' = parent \cup {block[t]}
        /\ Return(t)
     \/ /\ ~Full(count)
        /\ Go(t, "push")
        /\ UNCHANGED <<block, link, parent>>
  /\ UNCHANGED <<exiting, head, count, next, local, used, stack, torn>>

LoadForPush(t) ==
  /\ At(t, "push")
  /\ next' = [next EXCEPT ![block[t]] = head]
  /\ Go(t, "link")
  /\ UNCHANGED <<block, link, exiting, head, count, local, used, parent, stack, torn>>

(* A compare_exchange that fails stores what it has found in n->next.      *)
Relink(t) ==
  /\ At(t, "link")
  /\ next' = [next EXCEPT ![block[t]] = head]
  /\ Go(t, "push")
  /\ UNCHANGED <<block, link, exiting, head, count, local, used, parent, stack, torn>>

Link(t) ==
  /\ At(t, "link") /\ head = next[block[t]]
  /\ head' = block[t]
  /\ stack' = IF torn THEN stack ELSE <<block[t]>> \o stack
  /\ Go(t, "add")
  /\ UNCHANGED <<block, link, exiting, count, next, local, used, parent, torn>>

Add(t) ==
  /\ At(t, "add")
  /\ count' = count + 1
  /\ Return(t)
  /\ UNCHANGED <<exiting, head, next, local, used, parent, stack, torn>>

-----------------------------------------------------------------------------
(* A thread ends; another one may start in its place.                      *)
Exit(t) ==
  /\ At(t, "idle")
  /\ exiting' = [exiting EXCEPT ![t] = TRUE]
  /\ Go(t, "clear")
  /\ UNCHANGED <<block, link, head, count, next, local, used, parent, stack, torn>>

Clear(t) ==
  /\ At(t, "clear")
  /\ \/ /\ local[t] = <<>>
        /\ exiting' = [exiting EXCEPT ![t] = FALSE]
        /\ Go(t, "idle")
        /\ UNCHANGED <<block, local>>
     \/ /\ local[t] # <<>>
        /\ block' = [block EXCEPT ![t] = Head(local[t])]
        /\ local' = [local EXCEPT ![t] = Tail(@)]
        /\ Go(t, "room")
        /\ UNCHANGED exiting
  /\ UNCHANGED <<link, head, count, next, used, parent, stack, torn>>

Next ==
  \E t \in Threads :
    \/ AllocateLocal(t) \/ Allocate(t) \/ LoadHead(t) \/ AllocateFromParent(t)
    \/ ReadNext(t) \/ Retry(t) \/ Swap(t) \/ Subtract(t)
    \/ \E b \in used : Deallocate(t, b)
    \/ CheckRoom(t) \/ LoadForPush(t) \/ Relink(t) \/ Link(t) \/ Add(t)
    \/ Exit(t) \/ Clear(t)

Spec == Init /\ [][Next]_vars

-----------------------------------------------------------------------------
Labels == {"idle", "load", "parent", "next", "swap", "sub", "room", "push", "link", "add", "clear"}

TypeOK ==
  /\ pc \in [Threads -> Labels]
  /\ block \in [Threads -> Pointers] /\ link \in [Threads -> Pointers]
  /\ exiting \in [Threads -> BOOLEAN]
  /\ head \in Pointers /\ count \in Int
  /\ next \in [Blocks -> Pointers]
  /\ local \in [Threads -> Seq(Blocks)] /\ \A t \in Threads : Len(local[t]) <= Limit
  /\ used \subseteq Blocks /\ parent \subseteq Blocks
  /\ stack \in Seq(Blocks) /\ torn \in BOOLEAN

(* The blocks that only t has: on their way to the program or to a list.   *)
Holding == {"sub", "room", "push", "link"}
Held(t) == IF pc[t] \in Holding THEN {block[t]} ELSE {}

(* Where a block can be, and the blocks that are there.                    *)
Places == ({"program", "parent", "shared"} \X {Nil}) \cup ({"list", "held"} \X Threads)

BlocksAt(place) ==
  CASE place[1] = "program" -> used
    [] place[1] = "parent"  -> parent
    [] place[1] = "shared"  -> Elements(stack)
    [] place[1] = "list"    -> Elements(local[place[2]])
    [] place[1] = "held"    -> Held(place[2])

(***************************************************************************)
(* A block is in one place, once: given out to one caller, freed once and  *)
(* never lost, whatever threads allocate, free, pass on and end at the     *)
(* same time, as long as no compare_exchange of allocate has met a head    *)
(* that went away and came back with another next.                         *)
(***************************************************************************)
Distinct(list) == \A i, j \in DOMAIN list : list[i] = list[j] => i = j

OneOwner ==
  ~torn =>
    /\ \A b \in Blocks :
         \E place \in Places : \A other \in Places : b \in BlocksAt(other) <=> other = place
    /\ Distinct(stack) /\ \A t \in Threads : Distinct(local[t])

(***************************************************************************)
(* Following next from head() meets what has been pushed and not popped.   *)
(***************************************************************************)
ListIsIntact ==
  ~torn =>
    /\ head = Top(stack)
    /\ \A i \in DOMAIN stack : next[stack[i]] = IF i = Len(stack) THEN Nil ELSE stack[i + 1]

(***************************************************************************)
(* free_list_heap.hpp:56: "temporarily having a few more/less buffers in   *)
(* free list".  The count is off by the calls that are about to change it, *)
(* and the list outgrows its limit by less than one block per thread.      *)
(***************************************************************************)
ListIsBounded ==
  ~torn =>
    /\ count = Len(stack) - Cardinality({t \in Threads : At(t, "add")})
                         + Cardinality({t \in Threads : At(t, "sub")})
    /\ Len(stack) < Limit + Cardinality(Threads)

(***************************************************************************)
(* free_list_heap.hpp:20: "a thread-safe global free list".  The block     *)
(* that the next allocate takes belongs to nobody.                         *)
(***************************************************************************)
HeadHasNoOwner ==
  head \notin used /\ \A t \in Threads : head \notin Elements(local[t]) \cup (Held(t) \ {Nil})

=============================================================================
