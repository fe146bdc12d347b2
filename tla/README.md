# agency-node in TLA+

agency-node is a prototype of the key-value store of an agency (a replicated
configuration service): an immutable JSON-like document tree, operators and
conditions on its nodes, a store that lets several threads transact on one
document, a sweeper that expires keys, futures, and a deserializer that turns
JSON requests into operations and conditions. The nodes rest on the persistent
maps and vectors of immer, which the repository carries along. There is no
prose documentation of the agency; comments, assertions and test programs say
what the code is meant to do.

This directory holds TLA+ modules of that code, TLC configurations that check
them on small instances, and proofs that TLAPS checks for every instance.
`PROJECT.json` lists the components, the runs, a mutant for every property, the
source lines behind every definition, the findings, the hazards and the theorems.

## The system: inventory

| Component | Source | State | Operations |
|---|---|---|---|
| document tree | `node.h`, `node.cpp` | none: nodes are immutable and shared by `node_ptr` | `get`, `set`, `remove`, `has`, `node_at_path`, `transform`, `fold`, `extract`, `overlay`, `from_slice`, `into_builder`, `==` |
| value operators | `node-operations.h` | their operand | set, remove, increment, push, prepend, pop, shift, erase; `value_operator_adapter` decides what happens on a missing node and on one of another type |
| conditions | `node-conditions.h` | their operand | equal, not_equal, in, not_in, is_array, is_empty; `condition_helper` supplies defaults and inversion |
| store | `store.h`, `store_base` | `root`, `root_modify_mutex`, `root_mutex` | `transact`, `write`, `set`, `read`, `check`, all callable from any thread |
| expiry | `store.h`, `store_ttl` | `ttl_list`, `ttl_queue_guard`, `stopped`, a condition variable | `set_ttl`, `remove_ttl`, `stop`, the sweeper thread `run_queue_thread`, which writes to the store |
| futures | `futures.h` | `shared_state`: an atomic state, a callback, a value | `setValue`, `setCallback`, `promise::set`, three `then`, `reschedule` |
| requests | `operation-deserializer.h` | none | envelope → transactions of operations and preconditions |
| deserializer combinators | `deserialize/` | none | plans (parameter list, fixed order, map, array, field dependent, conditional, ...) executed on a slice, with hints passed between them |
| objects | `immer/immer/map.hpp`, `detail/hamts/` | a trie of counted blocks | `set`, `erase`, `find`, `==`, iteration, copying, destruction |
| arrays | `immer/immer/flex_vector.hpp`, `detail/rbts/` | a relaxed radix balanced tree and a tail | `push_back`, `push_front`, `take`, `drop`, `erase`, `set`, `+`, `[]` |
| memory | `immer/immer/heap/` | a free list per thread, one for all, the parent heap | `allocate`, `deallocate`, the end of a thread |
| key numbers | `helper-strings.h` | none | `string_to_number` |
| agent | `agent.h` | declarations only | no bodies |

How they interact. A client deserializes a request into operations (path and
operator) and conditions, and calls `store_base` with them. The store evaluates
the conditions with `node::fold` and applies the operators with
`node::transform`, both on its current root, and swaps the root. A new version
of the document shares the nodes that did not change with the old one; readers
hold on to old versions, and the last holder frees them, on whatever thread. The
sweeper calls the store with `remove` operators while it holds its own queue
lock. Nothing in the repository connects requests with a ttl to `set_ttl` yet,
and nothing uses the futures but `agent.h`.

What is hard here:

* **Concurrency.** `transact` checks, computes and assigns in separate steps
  under one mutex, while readers and the assignment use another; modifying calls
  read `root` without the mutex the readers use. The sweeper adds a third lock.
  The futures race a value against a callback on one atomic word. The free list
  is changed by compare-and-swap alone.
* **Null pointers as values.** `nullptr` means "no node" for `get`, "delete" for
  `set` and in the objects of an overlay, "keep" in its arrays, and is stored in
  containers on some paths through the code. What follows depends on sequences
  of legal calls.
* **Arrays.** Setting a number pads, setting a name turns the array into an
  object, and different keys spell the same index. Below, every slice and
  concatenation leaves a tree of another shape.
* **`transform`** reads the original document and writes into the one it is
  building.
* **Failure halfway.** An allocation or a copy may throw in the middle of an
  update of a trie; what was made must go, what is shared must stay.
* **Deserializers** count fields, skip checks that a hint makes unnecessary and
  share one iterator among the elements of a tuple.

The hazards, each at its line, are in `PROJECT.json` with the properties that
would catch them going wrong.

## Modules

### Document tree: `Node`, `NodeOperations`, `NodeConditions`, `NodeTree`, `NodeOverlay`; `Node_proofs`, `NodeTree_proofs`

`Node` has the values and the navigation. A `node_ptr` is `NullPtr` or a
record with a `kind`; numbers are integers, the text of strings is opaque.
`Child` is `get_impl` of both containers, `SetChild` is `set_impl`. `Get` folds
`Child` over the path; `Set` folds `SetChild` over it from the last key to the
first, which covers `node::set`, its visitor and `node_at_path` at once, because
a `SetChild` on anything but a container is the one-member object
`node_at_path` builds, nullptr and all. `Get`, `Set`, `Transform`, `Extract`,
`Descendants` and `Overlay` (and `Deserialize`, `Conforms`, `Within` and
`FromSlice` below) recurse by recursive functions over a bounded domain, not by
`RECURSIVE` operators, so that theorems can be stated about them:
`Levels` of a document are its nodes by their depth, and `Overlay` is a table
over the depth and the nodes of both documents.

A key is a record of a text and the number `string_to_number` makes of it, which
is all the code looks at: `Name("a")` is not numeric, `Decimal(1)` is what
`std::to_string(1)` prints, `Alias("01", 1)` another spelling. `string_to_number`
itself accepts any text without a non-digit, so the empty text is the number 0,
and computes at the width of `size_t`: twenty digits and more wrap, and such a
key is one more alias of a small index. The digits are not modelled; aliases are.

`NodeOperations` has the eight operators (`Apply`), `Transform` and `Extract`;
`NodeConditions` the conditions (`Eval`) and `Fold`; `NodeOverlay` lays one
document over another. `CanTransform` and `CanFold` say when the code
dereferences no nullptr: the document exists at every step and no comparison
reaches a nullptr stored in a container. They look `MaxDepth` levels deep, more
than any document of the runs has. A comparison is taken to be undefined when it
may reach such a hole: arrays of one size are compared element by element,
objects member by member as long as their keys agree. The code stops at the first
difference, and may be lucky to find one before the hole.

`NodeTree` is a client that performs one operation after the other on one
document, starting from the empty object as `store_test` does. Its reachable
states are the documents the program can build; its invariants are laws of the
next call, quantified over all calls on such a document. `Bounded` cuts off
documents with a long array, a big number, or more levels than `MaxDepth`, so
that `Descendants` and the comparisons see all of a document:

* `SetChangesOnePath`: what is set is read back, and every node on a path that
  does not meet it stays, through padding and conversion;
* `EveryOperationTakesEffect`: after a `transform` of two operations on
  disjoint paths each path holds the result of its operator on the original;
* `OrderDoesNotMatter`: their order is irrelevant unless one goes into an array
  or stores nullptr below a missing node (with arrays it does matter: setting
  `"1"` and then `"a"` in an empty array leaves `{"0":null,"1":..,"a":..}`, the
  other order leaves no `"0"`);
* `SafeOperationsMakeNoHole`, `NoNullDereference`: which operations keep a
  document free of stored nullptrs, and that without them nothing but a removed
  root can crash `transform`. Both speak of documents and values of clients that
  have no hole (`NoHoles`); `array_hole` shows that there are others;
* `ArrayOperatorsUndo`: pop undoes push, shift and erase undo prepend, and a
  condition finds what was added;
* `NegationPartitions`: of a condition and its negation exactly one holds of a
  node that is there, and neither of a missing one. A node that is no array is
  `not_in`: the default for other kinds passes through the inversion, against the
  comment at `node-conditions.h:34`;
* `ExtractHoldsThePaths`: an extract of two paths holds both, also when one leads
  below the other. The exception is a path listed after one above it that leads
  to nothing: setting nullptr there changes what the one above has put there;
* `OverlayFollowsPaths`: what an overlay sets, keeps and deletes along a path,
  and that it makes no hole, of the document and others either way round.

`TypeOK` (proved only) says that every part of the document is a node.

Two paths are disjoint when neither is a prefix of the other (the comment of
`node::transform` leaves the rest undefined), and the laws about two paths
speak of canonical keys: `"1"` and `"01"` in an array are one element.

### Store: `StoreCalls`, `LinearizableStore`, `StoreBase`, `StoreBase_proofs`

`StoreCalls` states the sequential meaning of the five calls over an opaque
document: `FoldOf` and `TransformOf` are constants, given those of `Node` in
`MCStoreBase`. `LinearizableStore` is the abstract specification: each call
takes effect in one step between its invocation and its return.

`StoreBase` is `store_base`, one action per lock, unlock and access of `root`:

| Action | Code |
|---|---|
| `LockModify`, `UnlockModify` | `unique_lock modify_guard(root_modify_mutex)` and its destructor |
| `FoldRoot` | `root->fold(...)`, with the early `return nullptr` |
| `TransformRoot` | `root->transform(operations)` into `new_root` |
| `LockRoot`, `Assign`, `CopyRoot`, `UnlockRoot` | `set_internal`: exclusive lock, `root = std::move(new_root)`, copy into the return value, unlock |
| `LockShared`, `CopyShared`, `UnlockShared` | `read` |
| `Evaluate` | the fold of `check`, on the copy, with no lock held |
| `Crash` | one of these dereferences a nullptr: the process stops |

The tree under `root` is immutable, so folding or transforming it is one step
that reads the pointer; what the step's result is used for later is kept in
`local`, per thread. Mutexes are sets of holders, so that holding one twice or
letting go of somebody else's would show.

Properties: `NoRootRace` (no assignment while another thread is at a step that
uses `root`), `PendingRootIsFresh` (no lost update between check, computation
and assignment), `Linearizable` (refinement of `LinearizableStore`),
`AllCallsReturn`; proved only: `TypeOK` and `LockDiscipline`. In the refinement a modifying call takes
effect when it assigns or when its preconditions fail, a reading call when it
copies `root`; `check` has its answer settled from then on, though it computes
it later. `transact` answers nullptr both when preconditions fail and when it
has removed the root; the abstract store specifies that ambiguity as it is.

### Expiry: `StoreTTL`, `StoreTTL_proofs`

`StoreTTL` extends `StoreBase`: every step of the store is a step here, and the
sweeper is one of the store's threads, whose only call is the removal of what
it has collected. The clock is a variable that `Tick` advances. `LockGuard`,
`SetTtl`, `RemoveTtl`, `Stop` and `Notify` are the clients' calls (`stopped` is
read without the guard, so the assignment and the notification are two steps);
`TestStopped` … `Relock` are the loop of `run_queue_thread`, with the timed wait
as `Wait`, a notification, `TimeOut` or a wakeup for no reason, and `Relock`.
`IsExpired` is the comparison as it is written.

The template is instantiated nowhere and would not compile: it calls
`std::find` with a predicate, for which `find_if` is taken, and
`self().modification`, which does not exist and for which `write` is taken, as
it has the argument's type.

Properties: `SweepIsNotOvertaken` (while the document is being changed no path
under removal is listed again, so a renewal is either seen or comes after the
removal), `MutexesNest` (three mutexes in one order), `StopIsHeard`,
`AllTtlCallsReturn`; proved only: `TypeOKTTL` (a path has one entry),
`GuardDiscipline` and `StoreUnchanged` (the composition is a behaviour of
`StoreBase`). `OnlyExpiredAreCollected` is violated.

### Futures: `PromiseContract`, `Futures`, `Futures_proofs`

`Futures` has a cell per `shared_state`, the two compare-and-swaps of `transit`
as steps, `_value` and `_callback` as plain fields, and the three forms of
`future::then` and `reschedule` as what the callback of a cell does: calls of
`set` and `then` on further cells, made on the stack of the call that runs it. A
program (a constant) says what each thread and each callback calls. A value is
the set of cells it came through, which is enough to see a value that skipped a
stage: `Composed` compares it with `CameThrough`, the cells from which a chain
of callbacks leads to this one. `PromiseContract` is the abstract specification: one delivery, of the
value given. Properties: `NeverAborts`, `NoFieldRace`, `NoLostCallback`,
`AtMostOnce`, `Composed`, `KeepsContract` (refinement), `ChainsComplete`
(liveness). All but `AtMostOnce` are about linear programs, which set no promise
and await no future twice: `promise` can be copied, and the second `set` ends in
`assert(false)`.

### Requests: `Deserializer`, `Requests`, `AgencyRequests`; `Requests_proofs`

`Deserializer` is the semantics of the combinators: `Deserialize(d, hints, s)`
for a deserializer given as data, with errors and their traces, exceptions of
velocypack and hints. The calls of `deserialize` nest, so it is a recursive
function of a call: each `Unpack...` takes the table of the nested calls' results
as its first argument. `MaxNesting` bounds the nesting and `MaxDepth` that of
slices. `Slices` are those whose objects repeat no key: velocypack can make
others, unless `checkAttributeUniqueness` is set, and the count of fields does not
tell them apart; they are left out.

`Deserializers` are the deserializers of a program. `IsDeserializer` says what the
C++ types say of their parts, and four things more that the code leaves to whoever
writes them: the parameters of a list have different names; the alternatives of a
`field_value_dependent` have different values; the members of a map use no hints,
since `map_deserializer` hands them those about the map itself; what
`not_empty_validator` is asked about is a string or an array. All deserializers of the
agency and of the tests modelled here are like that (`DeserializersAssumption` of the
`requests` run).

`Requests` is a server that gets requests a few edits (a part replaced, left out
or added) away from a valid one; `Conforms` is an independent definition of what a
deserializer describes, against which
`AcceptsWhatConforms`, `FirstFaultReported` and `HintsChangeNothing` compare.
`AgencyRequests` has the deserializers and factories of
`operation-deserializer.h`; `NothingLost` compares the transaction with the
request, but for the ttl, which the code reads and drops, and an absent delta,
which it takes for 0. `oldEmpty` goes to `is_empty_condition` as `inverted`, so
that `oldEmpty: true` holds where there *is* a node; no comment or test says
what it should mean, so it is modelled as it is and no property is held against it.

### Objects: `Champ`, `ChampMap`, `MapContract`

`Champ` is the trie of `champ.hpp` and `node.hpp` on an explicit heap: blocks
with reference counts, a separate block for the entries of a node, and a budget
of allocations and copies after which the next one throws. `Set` and `Erase` are
`do_add` and `do_sub` with the `try`s, `catch`es and assertions on the way;
releases go down to the last holder.

One of these `catch`es is wrong. When a copy throws in `copy_collision_insert`,
`_remove` or `_replace` (`node.hpp:306-378`), the entries made so far are
destroyed, and then `deallocate_collision` destroys as many entries as the node
was to have: those a second time, and memory that holds none. The counts of
their nodes, which maps may still hold, drop twice. `CopyCollision` puts the
entries destroyed twice into `lost`, and `NoEntry` for the memory without one;
what the program does from then on is undefined, and the model stops there
(`Undefined`). `make_collision` does the same to the pairs it has moved from,
where it cannot happen: moving a string and a pointer does not throw.

Each call is one step, as maps are not
shared between threads without their own counts; hash functions are a choice of
the initial state and cover keys that differ at the first level, at the second,
or collide. `ChampMap` adds `find`, `equals` and the iterator. `MapContract` is
the abstract specification: maps are values, and a call that fails changes none.

Properties: `CountsAreExact` (every block is referenced exactly as often as it
counts, no block without references is left, also after an exception, and only
entries whose hash another key has are ever destroyed twice),
`MapsAreValues` (each map contains what `MapContract` says it does, as long as
none was),
`EqualsComparesContents` (the shape of a trie does not depend on its history),
`IterationFollowsContents` (complete, and in the order that `node_object`'s
`std::equal` relies on), `AssertionsHold`. The last one excepts hash functions
that give more keys one hash than a node has branches: `node.hpp:272` asserts
that there are none, and nothing ensures it (with the code's own constants, 33
keys that agree in all 64 bits). `ThrowsChangeNothing`, that no entry of a map is
destroyed twice, is violated.

### Arrays: `Rrbtree`, `RrbConcat`, `Arrays`

`Rrbtree` has positions in regular, relaxed and leaf nodes, reading, pushing,
updating, and slicing from both sides; `RrbConcat` has concatenation with its
rebalancing plan. They are about values: which tree an operation makes. `Arrays`
is the client: `node_array` as the operators of `node-operations.h` use it. The
elements are numbered in the order they should have and renumbered after each
operation, so that a state is a shape. `Arrays` keeps no reference counts and
no heap: the rvalue overloads, which write in place, end in the same trees, and
since `edit_t` has no members, `supports_transient_concat` is false and
concatenation takes the path that copies.

Properties: `TypeOK` (the checks of `node::check` and `rrbtree::check_tree`),
`ArraysAreSequences` (traversal and indexing find the right elements in order),
`AssertionsHold` (no assertion fails and `shuffle` stays within its counts),
`TreesStayShallow`.

### Memory: `FreeList`, `FreeList_proofs`, `FreeListCount_proofs`

`FreeList` is the heap of `free_list_heap_policy` that the nodes of vectors come
from (`rbts/node.hpp:153`): the list of the thread, the list that all threads
share, the parent heap, and the end of a thread, which empties its list. The
nodes of maps come straight from the parent heap (`hamts/node.hpp:32`,
`heap_policy.hpp:106`); the nodes of the document are made by
`std::make_shared`. Accesses of the shared head, its count
and of `next` in blocks that others may see are steps of their own;
`compare_exchange_weak` may fail without reason; a block in the hands of the
parent heap may read as anything. `stack` (what the calls' exchanges have
promised) and `torn` are history variables. An `allocate` whose exchange
succeeds although the head went away and came back *tears* the list: it installs
a stale successor (finding `aba`). Nothing can be promised afterwards, so the
properties read `~torn => …`, and say that this is the only way things go wrong:
`OneOwner`, `ListIsIntact`, `ListIsBounded` (by a count that is off by the calls
under way); proved only: `TypeOK`.

## Runs

| Run | Instance | Shows |
|---|---|---|
| `tree` | either the paths `[]`, `a`, `0`, `1`, `01`, or the chain `a`, `a/b`, `a/1`, `a/1/b` with five other documents for overlays; one value; arrays of up to 2 | the laws of set, transform, extract, operators, conditions and overlay on each of 7,106 documents |
| `array_hole` | as `tree` | a stored nullptr violates the assertion of `node_array::into_builder` |
| `store` | 3 threads, one of which makes two calls; 6 kinds of call; with and without an initial document | safety, refinement, no deadlock, every call returns |
| `futures` | 5 programs over 5 cells and 3 threads: a pipeline, a handover, ready-made futures, a broken promise, copies of a promise | one delivery in every interleaving, chains complete |
| `ttl` | 2 clients with a call of each kind, the sweeper with two sweeps, one path, a clock of two instants | locks, order of removal and renewal, refinement, `stop` |
| `ttl_expired` | as `ttl` | the sweeper removes what is alive |
| `requests` | envelopes and the four deserializers of `deserialize/test/test.cpp`, up to two edits from a valid request | exactly what conforms is accepted, nothing is lost, the first fault is named |
| `map` | 2 maps, 4 keys, three hash functions, nodes of 4 branches, every allocation or copy of a call may fail | exact counts, values, equality, order, 132,534 states |
| `map_throws` | as `map` | a `set` that throws destroys an entry that a map holds once too often |
| `arrays` | leaves of 2 elements, nodes of 4 children, arrays of up to 12 | every reachable shape, 13,561 of them, holds the right sequence |
| `freelist` | 3 threads, 4 blocks, lists limited to 1 | one owner per block, bounded lists, 61,663 states up to symmetry |
| `aba` | 2 threads, 3 blocks, lists limited to 1 | the head may be a block in use |

Bounds, and why they are enough:

* `MaxElements`, `MaxNumber`, paths of `tree`. No behaviour of the tree depends
  on more than a container, its parent and its child, so three levels with a
  sibling show every case of `SetChild` at every position; an array of two
  elements has an index below, at and beyond its size. Deadlock is not checked:
  a client that removed the root has a null pointer and no call left.
* `MaxCalls` of `store`. Three threads put a writer behind a reader and another
  writer, one second call comes after a first. The calls are a guarded
  transaction, an unguarded write, a replacement, the removal of the root, a
  read and a check. Without an initial document, and after the removal, the
  process crashes at the next call; that is part of the model.
* `MaxTtlCalls`, `MaxClock`. The sweeper meets an entry that is new, renewed,
  taken away, alive or expired; each pair of calls meets each of its steps.
* Programs of `futures` have up to five cells. Cells interact only through the
  callbacks that link two of them; the programs contain every kind of link, and
  a link to a cell that is empty, has its value, or never gets one.
* `MaxEdits` is two: one fault, or two that compete for the error message; also
  every way in which one edit makes up for another in what is counted.
* `MaxDepth` and `MaxNesting` of `requests` are beyond what two edits of the
  valid requests can reach: no call ends because of them.
* `MaxBlocks`, `Budgets`, `HashBits` of `map`. Hashes of three bits are two
  levels of 2 bits and 1 bit and a collision node. No call takes more than six
  allocations and copies, so each of them is the one that throws.
* `B`, `BL`, `MaxSize` of `arrays` are the smallest values at which a tree has
  three levels, relaxed nodes on all of them and nodes to redistribute in a
  rebalancing plan; the code's own values are 5 and a size of leaf that depends on
  the element type.
* `freelist` starts with all blocks at the parent heap; with `Limit` 1 a second
  `deallocate` already goes to the shared list and a third one to the parent. Its
  `CONSTRAINT Intact` cuts off the states after a torn exchange, of which every
  property is silent (`~torn => …`). The `aba` run has no such constraint.

Fairness. All of it says that a thread that can take its next step eventually
does, as the operating system schedules it: weak fairness of `Step` per thread
(`FairSpec` of `StoreBase`), per call (`Futures`), of the sweeper and of the
clients (`FairSpecTTL`). Clients need not call, and time need not pass. Calls of
the store return because each thread makes finitely many; with unboundedly many
readers a writer may wait for ever, as `std::shared_mutex` allows. Strong
fairness is assumed in one place, `LockGuard` of `store_ttl`: the sweeper takes
`ttl_queue_guard` again and again, but `wait_for` leaves it free for a second
each time, long enough for a client that waits for it. `StopIsHeard` rests on
the end of that wait: a notification that comes between the sweeper's test and
its wait is lost, as the test is made without `ttl_queue_guard`.

## Proofs

`Node_proofs` and `NodeTree_proofs` prove every law of `NodeTree`, for all
documents, keys, paths, values and bounds. In the order of the argument:

* `Get` and `Set` are what the recursive functions in them end with. `GetDown`
  and `SetDown` show that these functions exist, are unique and can be unfolded
  from the root: `Set(node, path, ptr)` is `node` with its child at the first
  key replaced by the child's own update. What holds for all paths then follows
  by induction on their length. The induction is an argument about the set of
  the lengths for which a fact holds (`Induction`, from the well-foundedness of
  `<` on `Nat`), since the induction theorems of the library take an operator
  as a parameter, which the provers cannot instantiate.
* `Tree(node)` says that some set holds the node and all that is below it, with
  sequences for arrays and functions for objects. `TreeInv` (the document is a
  tree that `MaxDepth` bounds) is inductive (`DocumentsAreTrees`), because every
  operator makes a tree of trees (`ApplyIsTree`) and so does an update
  (`SetIsTree`). None of the laws is inductive: each follows from `TreeInv` and
  a fact about updates of any tree. `TypeCorrect` is the type invariant.
* `ReadBack` (what is set is read back), `Unmoved` and `FoundIsKept`: an update
  at `q` leaves what is at `p` when the paths diverge and `p` is *steady*, that
  is, no array on the way is padded up to the next key of `p` or has another
  name for it. A path that finds something is steady if its keys are canonical.
  From these, `SetAndGetAgree` and `OperationsTakeEffect`.
* `UpdatesCommute`: updates at two paths that diverge commute where neither
  meets an array, unless a nullptr goes below a missing node. From it,
  `OperationsCommute`. An extract starts from an object and makes no array, so
  paths that diverge do not disturb each other. When one leads below the other:
  what is found at a path decides what is found below it (`AgreeBelow`), and
  setting again what is already there changes nothing (`SetAgain`). From these,
  `ExtractsHoldThePaths`.
* `OperatorsUndo` and `ConditionsPartition` are about one operator or condition
  and arrays of any length.
* `Solid(node)` is a tree without holes at any depth; `HoleFree`, which looks
  `MaxDepth` levels down, says the same of a document that `MaxDepth` bounds
  (`SolidHoleFree`, `HoleFreeSolid`). Updates of solid nodes are solid
  (`SetSolid`), and a comparison of two solid nodes reaches no nullptr
  (`SolidCompare`). From these, `SafeOperationsAreSafe` and
  `NoNullIsDereferenced`.
* `Below(node, d)` (the node is less than `d` levels deep) and `Forest` (a set of
  trees with all that is below them) carry an induction over two documents at
  once: each level down both, the overlay is less deep (`LaidBelow`), so that the
  table in `Overlay` is never asked beyond its last row. `ScalarLaid`, by induction
  on the path, is what an overlay sets; `KeysLaid`, on the number of the key, what
  it keeps and deletes; `SolidLaid`, on the depth, that it makes no hole. From
  these, `OverlaysFollowPaths`.

The negation of the conditions holds of every document whatsoever; the other
laws need `TreeInv`. `SafeOperationsAreSafe` and `NoNullIsDereferenced` assume
`NoHoles` of the document at hand, as the properties do.

`StoreBase_proofs` proves for any number of threads, any calls, any documents
and any meaning of `FoldOf` and `TransformOf`:

* `TypeCorrect`: `Spec => []TypeOK`. `TypeOK` includes `StepFits`, which ties a
  thread's step to the kind of its call; without it the branches of
  `LockModify` and `UnlockShared` are not known to be complete.
* `LocksCorrect`: `LockDiscipline`, inductive together with `TypeOK`. It
  describes the holders of each mutex by the program counters.
* `RootNeverRaced`: `NoRootRace` follows from the two.
* `NoLostUpdate`: `PendingRootIsFresh` is not inductive, since it says nothing
  of a transaction between its preconditions and its transformation. `FreshInv`
  adds `PreconditionsHold` for that interval; it is preserved because only a
  thread in the write section changes `root` and it excludes all others from
  the modify section.
* `StoreIsLinearizable`: `Spec => Linearizable`. `OthersUnseen` shows that a
  step changes the abstract state of its own thread only; `Stutter`,
  `InvokeRefines` and `LinearizeRefines` reduce each action to what it does to
  `root` and to `ClientOf` of its thread.

`StoreTTL_proofs`, for any number of clients, paths and lifetimes:

* `TtlIsAClient`: every step of `StoreTTL` is a step of `StoreBase` or leaves
  its variables alone; so `StoreWithTtlIsLinearizable` comes for free.
* `TtlInv` is `TypeOKTTL`, `GuardDiscipline` and `SweepInv`, which strengthens
  `SweepIsNotOvertaken`: the sweeper is in a call of the store exactly at
  `sweeping`, and what it is about to remove is not listed from `Collect` on, not
  only while the call runs. From it: `TtlTypeCorrect`, `GuardCorrect`,
  `SweepNotOvertaken`, and with the lock discipline of the store, `MutexOrder`.

`Futures_proofs`, for every set of programs:

* `TypeCorrect`, and `CallbackRunsOnce` from `OnceInv`, which needs no
  assumption about the program: whoever has made the exchange to `DONE` is the
  only call that runs the callback.
* for linear programs, `ChainsCompose` from `ChainInv`: every value stored, and
  every argument a callback was run with, is `CameThrough` of its cell. A cell
  has one setter at most (`OutcomeContinues`), so `CameThrough` of a cell is that
  of its setter and the cell itself (`ChainContinues`).
* for linear programs, `Protocol` relates the state of a cell to the steps of
  the two calls on it. It gives `NoAssertionFails`, `FieldsNeverRaced`,
  `NoCallbackLost`, and `ContractKept`: if all programs are linear, each step is
  one of `PromiseContract` or a stutter.

`FreeList_proofs`, for any number of threads and blocks and any limit:

* `InvCorrect` and from it `TypeCorrect`, `BlocksHaveOneOwner`, `ListIsAStack`.
  `Inv` adds to the two properties that a thread knows the block it is about to
  take or has. `Owned` says that each block is at exactly one of the places
  (program, parent heap, shared list, a thread's list, a thread's hands); the
  lemma `Move` is one block going from one place to another, and each action is
  an instance of it or moves nothing. The link of the block that a `deallocate`
  is about to push may be anything; it belongs to no list, so `LinksElsewhere`.

`FreeListCount_proofs`, for any finite number of threads:

* `ListStaysBounded`: `ListIsBounded` is not inductive, since it says nothing of
  the threads that have found room and not linked their block yet. `Balanced`
  bounds the list together with these. A thread that finds room has read a count
  below the limit; the list is longer than that count by the threads about to
  add to it, and `OneIsElsewhere` says that these and the ones that are linking
  are fewer than all threads, because the one that has found room is neither.
  `Counted` is what a step of one thread does to the number of threads at a step.

`Requests_proofs`, for any deserializers, slices and edits:

* `Deserialize` and `Conforms` are what recursive functions end with, so the first
  thing to show is that these functions exist (`ResultsExist`, `VerdictsExist`),
  by induction on the nesting. `SameCall` and `SameConforms` are the reason: what
  a plan makes of a slice depends only on the entries of the table for the calls
  it makes, and these are nested deeper. That a plan hands on only deserializers,
  hints and slices in the domain is `DeserializerParts`, `FieldParts`,
  `GetFieldParts` and `HintsMade`.
* `OutcomeIsCurrent` is the invariant: the outcome is that of the request at hand.
  The three properties hold of every slice and follow from it.
* `HintsIdle`: true hints change nothing. A hint about a slice is true of that
  slice only; a map hands it to its members all the same, so the induction has to
  be about deserializers that ignore hints whatsoever (`HintsIgnored`) first.
  From it, `HintsAreOnlyHints`, at every depth of the request (`WithinSlices`).
* `CallAccepts`: what is accepted is what conforms, with a lemma for each plan. In
  `ParametersAccept` the code's count of visited parameters is the number of fields
  iff no field is left over: `VisitedCounted` maps parameters to the fields they
  are read from, injectively because names differ. `TupleAccepts` is where the
  iterator stops. `EmptyKnown`: a value is the empty one iff the slice is.
  From these, `RequestsAreChecked`.
* `DeserializeFaults`: `AllOf` is the error of the first result that is none, so
  the trace begins with its index. From it, `FaultsAreLocated`.
* `RequestsAreKept` compares transactions with the nodes of what was sent, so the
  function of `FromSlice` has to exist as well (`NodesExist`), level by level. One
  lemma per plan says what an accepted call returns in terms of the calls it makes
  (`ElementsReturn`, `MembersReturn`, `TupleReturns`, `ByNameReturns`,
  `ByValueReturns`, `ObjectReturns`). With them, and since an object accepted has no
  fields but those of its parameters (`AllAccepts`), `OperationKept` and
  `PreconditionKept` look at each kind of operation and precondition, `MapKept`
  lifts them to all paths of a map, `TransactionKept` and `EnvelopeKept` to the
  rest. Its hypothesis is that `Build`, a constant of `Deserializer`, is
  `AgencyBuild`, as it is in the `requests` run.

The assumptions are those of the modules, by name: `CallsAssumption` (a call is
one of the five), `MaxCallsAssumption`, `TtlAssumption`, `ProgramsAssumption`,
`NilAssumption`, `LimitAssumption`, `ThreadsAssumption` (finitely many threads),
`OwnersAssumption` (no thread is a cell),
`DeserializersAssumption` (as above), `NestingAssumption`, `SchemasAssumption` (a
schema is made of deserializers and its valid request is a slice),
`MaxDepthAssumption`, `PathsAssumption` (a path is made of keys),
`ValuesAssumption` and `OthersAssumption` (what clients set, and what a document is
laid over or under, is a node or nullptr, so is every part of it, and it is no deeper than
`MaxDepth`; what is set is not nullptr, for that is what `remove` does).

Only model-checked:

* `Champ`, `ChampMap`, `Rrbtree`, `RrbConcat` and `Arrays`: they compute by
  `RECURSIVE` operators on tries and trees, in whose modules the provers have no
  SMT solver;
* liveness (`AllCallsReturn`, `ChainsComplete`, `StopIsHeard`,
  `AllTtlCallsReturn`) and absence of deadlock: fairness and `ENABLED` are out
  of their reach.

## Disagreements found

Four violation runs refute what a comment, an assertion or a message says; see
`findings` in `PROJECT.json`:

* `array_hole`: `remove` on an array element stores a nullptr, which
  `into_builder` asserts does not occur;
* `ttl_expired`: `isExpired` is the wrong way round, so that the sweeper removes
  what is alive and keeps what has expired;
* `map_throws`: a copy of colliding entries that throws destroys some of them
  twice, so that a map which should be as it was holds a node that is freed too
  early;
* `aba`: the free list called thread-safe gives a block to two callers after a
  head went away and came back.

Met while modelling, part of the modules as the code has them, without a run:
`field_value_dependent` tests the object for None instead of its field
(`field-value-dependent.h:95`), so that an operation without `op` ends in an
exception where the message "field `op` not found" is written; `pop` and `shift`
of a missing element create nodes, as padding does; the default of `not_in`
passes through the inversion, so that it is true of a node that is no array;
`extract` of a path and of a missing path below it changes what it had collected;
nothing keeps 33 keys from having one hash, although `node.hpp:272` asserts it;
`heap_policy.hpp:84-93` says that maps allocate from the free list, which only
vectors do; an array that is too short for a tuple is reported as too
long when an element fails at its end; an increment without `delta` adds 0,
while the operator's own default is 1.

## Not modelled

* `agent.h`: no member function that changes state has a body.
* `agency-test.cpp`, `agency-test-tree.cpp` (early drafts of the tree),
  `immutable-list.h` (no one includes it), the test drivers.
* Printing and formatting (`into_builder`, `operator<<`, the wording of errors),
  and the digits of `string_to_number`.
* `enum_deserializer`, `context` and `try_alternatives` of `deserialize/`: the
  agency uses none of them, and the last does not compile.
* The lifetime of a `shared_state` and of list cells, counted by `shared_ptr`.
* Of immer: sets, boxes, atoms, plain arrays and vectors, transients held by a
  client, other heaps and memory policies, and for `flex_vector` the sharing of
  nodes, in-place writes and exceptions. The maps are modelled with all of these,
  as `node_object` needs them; the vectors only as values.
* `velocypack`: a vendored JSON library; a slice is a value here.
* Memory freed by the parent heap and read by a slow `allocate`: undefined in
  the code, in `FreeList` a read of any value.
