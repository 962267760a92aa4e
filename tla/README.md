# tiny-pointer-trees in TLA+

A TLA+ development kept beside the C++ code of tiny-pointer-trees: tiny
pointers (one or a few bytes that name a slot in a hash table), the concurrent
dereference table they lead into, and the tries built on them. This document
lists the parts of the system, says which module models which part and how, what
each model-checking run and each proof shows, and what is left to do.

Source paths below are relative to the repository (`src/tiny_ptr/...`,
`test/...`).

## 1. Inventory

| Component | State | Operations | What is hard | What makes it correct |
|---|---|---|---|---|
| Sequence lock, `src/tiny_ptr/sequence_lock.h` | an 8-bit version, odd while locked | `lock_optimistically`, `validate`, `try_upgrade_to_exclusive`, `lock_exclusive`, `unlock` | the version wraps; retries; a destructor that unlocks during an exception | exclusive sections do not overlap, none is left locked; what was read under an unchanged version is consistent |
| Dereference table, `src/tiny_ptr/deref_table.h` | per bucket a lock, a count, the head of a free list threaded through the storage of the free slots | `allocate`, `free`, `dereference`, `size`, `max_reached_size`, `Create` | optimistic reads of two buckets, one validated, the other upgraded; both hashes may give the same bucket; links are read from memory that clients write | a slot has one owner; none is lost; the power of two choices is made on one snapshot; overflow only when full; counters agree; a table has room for what was asked for |
| Tiny pointer, `src/tiny_ptr/tiny_ptr.h` | one word | pack, `index`, `special`, `hash_fn`, `null`, `tagged` | fields share a word with two reserved values | what was packed is read back; reserved words are never produced |
| ART, `src/art/tiny_art*` (three copies) | nodes in dereference tables, a version word per node, a prefix, children | `lookup`, `insert` (grow, relocate, split prefix, split leaf) | optimistic lock coupling; nodes move between tables under readers; locks held across allocations that may throw | each call takes effect at one instant; nothing read under another's lock is used; locks are released; replaced nodes are retired once |
| ART node classes, `N4`, `N16`, `N64`, `N256` | sorted arrays of three sizes, a table | `insert`, `change`, `remove`, `getChild`, `getChildren`, `copyTo` | signed comparison of bytes, removal while shrinking, an 8-bit count | every class reads as the same map |
| Epochs, `src/art/*/Epoche.*` | a global epoch, per thread an announced epoch and a list of deletion labels | `enterEpoche`, `markNodeForDeletion`, `exitEpocheAndCleanup`, `~Epoche` | announce and clean-up race; store buffers; guards that never withdraw; labels are reused | no slot is freed that a reader can still reach; each marked node is freed once |
| Tiny tries, `src/trie/tiny_trie*`, `tiny_value_trie.h` | nodes in a dereference table, a count | `insert`, `set`, `remove`, `contains`, `get` | tagged pointers become nodes and back; children are hashed by the address of their parent; allocations throw | the trie is the set (map) of the words in it; removal leaves no empty node |
| Reference trie, node counts, `src/trie/value_trie.h`, `trie_util.h` | ordinary pointers | the same; `compute_node_counts` | sizes of the tiny tries come from here | counts equal the nodes of the trie |
| Aho-Corasick, `src/aho_corasick/automaton.cpp` | a trie with suffix and terminal links | `Create`, `Search` | links depend on links of shallower nodes | a search reports every occurrence of every word |

How they interact: the tries and the ART call `allocate`, `free` and
`dereference` with hashes derived from a parent (its address or id) or a path,
and the key byte, and keep the returned tiny pointer in the parent. The ART frees
a slot only through an epoch's clean-up. The tables and the ART are the state
that threads share; everything else belongs to one caller.

`PROJECT.json` lists every component with its status, and the hazards with the
line at which each bites.

## 2. Plan

1. `DerefTable` with its proofs, its statistics and its abstract specification
   `SlotPool`; `TinyPtr`. **Done.**
2. `EpochGC` and its abstract specification `GracePeriod`, with the proof that
   the one implements the other. **Done.**
3. `ArtTree` against `ArtMap`, its copies, and the node classes. **Done.**
4. The tries against `WordMap`, node counts, sizing, Aho-Corasick. **Done.**
5. The proofs: of the table `DerefTableProofs`, its statistics and the refinement of
   `SlotPool` included; of the epochs `EpochGCProofs`; of the ART `ArtTreeProofs` (what
   calls read, what locks protect and who still holds a replaced node), `ArtMapProofs`
   (the refinement of `ArtMap`) and `ArtAccountProofs` (the numbers of children, and
   what becomes of every slot); `NodeProofs` of the node classes; `TrieProofs` of the
   three tries, the refinement of `WordMap` included; `AlgorithmProofs` (the word of a
   pointer, the size of a table, links and matches of Aho-Corasick). **Done.**

## 3. The modules

| Module | Models |
|---|---|
| `DerefTable` | `allocate()`, `free()` and the client that writes to its objects, every access to shared memory a step of its own |
| `DerefTableProofs` | the inductive invariant of `DerefTable` and the theorems that follow; that every step maps to a step of `SlotPool` or a stutter; sums over finite sets, and the statistics |
| `SlotPool` | what the table promises: a pool of slots, calls that take effect at one instant |
| `DerefTableRefines` | the refinement mapping from `DerefTable` to `SlotPool` |
| `DerefTableStats` | `size()`, `max_reached_size()` and a history variable for the number of objects really in use |
| `Sizing` | `Create()`, the bucket indexers, `load_factor()` and the binary search for a prime, a round a step, in words of bounded width |
| `TinyPtr` | the encoding of a pointer in a word, and `dereference()` |
| `EpochGC` | `Epoche.h`, `Epoche.cpp` of `tiny_art`: guards, marks, labels, clean-up, destructor |
| `Epoche64`, `Epoche256` | the same of the two other copies, mapped to their lines; the files differ in a namespace, an include and the type of the tiny pointer |
| `GracePeriod` | what the epochs promise to the trees |
| `EpochGCProofs` | the inductive invariants of `EpochGC`, its five invariants and the refinement |
| `ArtTree` | `lookup` and `insert` of `tiny_art`, every access to a version word and every unprotected read a step |
| `ArtTreeProofs` | the inductive invariants of `ArtTree`, one about what calls read and one about version words, owners and replaced nodes, and the theorems that follow |
| `ArtMapProofs` | where keys lead in the tree, the invariant about it, and that every step maps to a step of `ArtMap` or a stutter |
| `ArtAccountProofs` | how many children nodes have, and that every slot is in the tree or handed over once |
| `TinyArt64`, `TinyArt256` | the same of the two other copies, mapped to their lines; the last one never grows a node |
| `ArtMap` | what the tree promises: a map, one instant per call |
| `ArtN4`, `ArtN16`, `ArtN64`, `ArtN256` | the node classes, each by its own algorithm on its own arrays |
| `NodeLife` | `insertGrow`, `change`, `removeAndShrink` of `N.cpp`, for whatever classes |
| `ArtNodes`, `ArtNodes64`, `ArtNodes256` | the dispatch by node type of the three copies, and their ladders of classes |
| `NodeCopies` | a node of one of the three copies, and what it has to be |
| `NodeProofs` | that a node of any class holds the children that were inserted, in all three copies |
| `TrieNodes` | the memory that the tries share, hashes included |
| `TinyTrie`, `TinyTrie2`, `ValueTrie` | the three tries, a call a step |
| `TinyValueTrie` | the trie whose nodes are not constructed |
| `WordMap` | what a trie promises |
| `TrieProofs` | where words lead, the inductive invariant of the three tries, and that every call maps to a call of `WordMap` |
| `BulkCreate` | `compute_node_counts`, and the constructors of `TinyTrie` and `TinyTrie2` that count nodes, create the table and insert a sorted list |
| `Automaton` | the Aho-Corasick automaton: words, links, search, a round of each loop over links a step |
| `AlgorithmProofs` | that the parts of the word of a pointer read back, at every width; the invariant of the search for a prime, and that a table has the room it was made for; the inductive invariant of `Automaton`: breadth-first order, nearest suffixes, matches |
| `MC*` | instances for TLC |

### DerefTable and the code

The variables `version`, `freeCount`, `freeIndex` and `nextFree` are the memory
of the table: the lock, `free_slot_count` and `free_slot_index` of a
`MetaTableEntry`, and the bytes at the start of each slot, which hold a link
while the slot is free and the model value `Object` once its owner has written
to it. `pc` and the variables after it are the locals of each thread;
`objectIndex`, `nextIndex`, `hBit` and `h1Count` carry the names of the code.

| Code | Actions |
|---|---|
| `allocate_impl` 408-409 | `LockFirst`, `LockSecond` wait for an even version and remember it |
| 411-420 | `CountFirst`, `CountSecond` read the counts and choose |
| 422-426 | `ReadHead`, `ReadNext` read the head and its link; the link of a slot in use may be any index |
| 430-433 | `Validate` / `ValidateFails`, `Upgrade` / `UpgradeFails` |
| 435-437 | `Overflow`, then `ReadCounter` for each counter that `size()` sums, then `Throw`, which unwinds and unlocks |
| 442-448 | `Take`, `Store`, `UnlockAllocated`, `IncrementSize` |
| `free` 461-477 | `BeginFree`, `LockExclusive`, `Link`, `Push`, `Count`, `UnlockFreed`, `DecrementSize` |

`IncrementSize` and `DecrementSize` touch thread-local counters only, so that
counting and returning are one step. `held` counts the pointers to a slot that
clients own; a client frees only a pointer that it owns, and gives it up when it
calls `free()`. `WriteObject` overwrites the link in an owned slot; the
`memset()` of a zeroing allocation is the same step.

Two history variables state properties and influence nothing: `snapshot` holds
the two counts at the instant of the validation, and `wrapped` the threads under
whose optimistic lock the version of a bucket has come back to the remembered
value.

**Memory order.** The steps interleave (sequential consistency). The target is
x86 (`xmmintrin.h`). There every compare-and-swap and fetch-and-add that takes or
releases a lock is a locked instruction, which orders all accesses, loads are not
reordered with loads, and stores not with stores. The compiler is kept from
moving the plain read of a link past the validation by the acquire fence in
`validate()`. When both hashes select the chosen bucket's lock, the
compare-and-swap orders the reads.

**What is abstracted.** Hash values appear only as the pair of buckets they
select, and every pair occurs, equal ones included. A slot's contents are a link
or `Object`. A tiny pointer is the bucket and slot it leads to; `TinyPtr` models
how the word encodes it. `try_lock_*` and moves are not used by the table while
threads share it.

### EpochGC and the code

`localEpoche`, `thresholdCounter`, `head`, `spare`, `count` are the fields of a
thread's `DeletionList`, `label` the `LabelDelete` objects, with the nodes of a
label as a set. `markNodeForDeletion` is `Mark` with `AddToHead` or `AddLabel`;
`exitEpocheAndCleanup` is `ExitEpoche`, `DecideCleanup`, `Withdraw`, one
`ScanLocal` for each list, `BeginWalk`, and per label `SkipLabel` or `OpenLabel`,
`FreeNode`, `RemoveLabel`. `LinkNode`, `ClaimNode`, `UnclaimNode` and
`UnlinkNode` are the steps of a tree that matter here: a node is claimed when its
parent is locked, and marked before (a leaf) or after (an inner node) it is
unlinked, as the ART does both.

The announcement of `enterEpoche` is a store with release order, which on x86 may
stay in the store buffer while the reads that follow are done. `unflushed` is that
buffer: it drains at any time, and has drained at a locked instruction. This is
the one place where the models go beyond sequential consistency, because it is
the one place where the code has no locked instruction between a store and the
loads it protects.

`inside`, `phase`, `waiting` and `overlooked` are history. `waiting[n]` holds the
operations that ran when the parent of `n` was locked; they are the ones that can
have come by a pointer to `n`. A thread is *overlooked* when a scan reads its
`localEpoche` while its announcement is in the buffer and the value seen is newer
than the announcement, which happens when a clean-up of its own last stored the
maximum there. The scan gives such a thread no protection, on paper and on x86,
so that the promise of `GracePeriod` is stated without it: all results about
grace are about operations whose announcement the scans could see.

### ArtTree and the code

`mem` is the memory of all dereference tables, one record per node; `loc[t]` holds
the program location and the local variables of `t`, with the names of the code
(`v`, `pv` for `parentVersion`, `byte` for `nodeKey`, `pbyte` for `parentKey`).
`lookup` is split at every load of a version word: `LookupRoot`, `Search`,
`LookupMiss`, `LookupHit`, `LookupLeaf`, `LeafReadLock`, `LeafRead`, `Descend`,
`Couple`. `insert` goes down with `Visit`, `PrefixStep` (`AnyLock`, `AnyChild`,
`AnyCheck` for `getAnyChildTid`), `ReadChild`, `ChildCheck`, `Further`, and ends in
one of `insertAndUnlock` (with or without growth), `splitPrefix`, `splitLeaf`,
whose steps are the locks, the building of new nodes, the store into the parent,
and the order of unlocking and marking of the code. What is built before it is
linked is one step, as no other thread can see it.

A child read while another thread holds the lock of its node is `Garbage`; the
bytes of a prefix are read under a version that is checked later, and inserting
threads change a node's prefix only in a copy that is not linked yet. A tiny
pointer is a slot together with the hashes it was made with, kept in the slot, so
that `HashesAgree` can say that the owner recomputes them. Version words count
without bound (62 bits in the code). A slot is not used twice: `retired` records
for a replaced node which calls ran when its parent was locked, and
`GraceSuffices` says that nobody else holds it, which with `EpochGC` (where those
calls are `waiting`) is the composition of the two: what the tree needs of the
epochs is what the epochs give.

Keys are sequences of bytes none of which is a prefix of another, as those of the
benchmarks are (fixed size), and no two insertions have the same key: the loop at
`Tree.cpp:655` has no end for equal keys. `KeysAssumption` says so of every scenario.
The TID of a key is the key itself, and that of a miss, 0 in the code, is `NoTid`.

### Tries, nodes and algorithms

A call of a trie is a step, since it has one caller. `room` is how many
allocations succeed before the table throws. The memory of a node carries the
hashes it was allocated with; slots that were freed are used again, lowest first.
In `TinyValueTrie` a slot is read as whatever the memory holds.

The node classes are records of the arrays of the code; `NodeLife` runs one node
through insertions, changes and removals and compares it with a function. `remove`
and `removeAndShrink` have only one caller, `Tree::remove`, which is commented
out; they are checked because they are compiled.

In `Automaton` a node is named by the characters on the way to it, which the code
keeps nowhere; characters are counted from one, so that `<<0>>` can be `nullptr`; `pc` says which loop runs. `NextChild` takes the children of a node in
order, `FallBack` and `Follow` are a round each of the loops that go up suffix links
while the automaton is linked and while a text is searched, `Report` a round of the one
that goes along terminal links.

An operator whose comment begins with "Faulty:" is never part of a
specification: it is the definition after it with a plausible bug, used to see
that the properties notice that bug (`PROJECT.json`, `mutants`).

## 4. What the runs show

| Run | Instance | Result |
|---|---|---|
| `table` | 3 threads, 2 buckets of 2 slots, 3 allocations, 2 frees, 256 versions | 1,055,875 states; all properties hold |
| `table_pool` | 2 threads, the same table | 237,516 states; `ImplementsPool`, `TableInv` and the statistics hold |
| `table_live` | 2 threads, 2 buckets of 1 slot | 250,288 states; `CallsReturn` holds |
| `table_size` | 2 threads, 1 bucket of 1 slot | `SizeAssertion` is violated |
| `table_wrap` | 2 threads, 1 bucket of 3 slots, 256 versions, 66 allocations, 64 frees | `NoDoubleAllocation` is violated |
| `epochs` | 2 threads, 3 nodes, 2 labels of 1 node (in one copy 2 nodes), epochs up to 2; the three copies | 1,663,814 states; all properties hold |
| `epochs_live` | 1 thread that writes, 1 that only reads, 3 nodes, 3 labels of 1 node, epochs up to 2 | 2,117,775 states; `CleanupEnds` holds |
| `art` | 3 threads, 5 scenarios, nodes of 2 and 3 children and larger, 1 stored byte of a prefix | 117,848 states; all properties hold |
| `art_copies` | 2 threads, 4 scenarios, the copy with 64 children with room, that with 256 with allocations that throw | 44,703 states; `CallsReturn` and `ImplementsMap` hold |
| `tries` | 6 words of up to 3 letters, every sequence of calls, every point of failure | 2,683 states; all properties hold |
| `algorithms` | bytes of 6 values, 8-bit pointers, every capacity of 11 bits, lists of 5 words (4 in bulk creation), 3 words of up to 3 characters (one of 4) and 4 characters of text | 148,052 states; all properties hold |
| `value_trie` | words of at most one letter, 2 slots | `SizeCounts` is violated |

The properties of the table:

* `NoDoubleAllocation`: no slot is handed out while anyone owns it.
* `FreeListIntact`: between any two steps, half-done critical sections included,
  the links from the head thread exactly the slots without an owner, in a list of
  the length the count says.
* `LockDiscipline`: a version is odd exactly while one call is in the critical
  section of that bucket.
* `ChoiceConsistent`: when an upgrade succeeds, the chosen bucket was the emptier
  of the two at one instant, though the counts were read at different times; an
  overflow means that both were full at that instant.
* `ObjectsUntouched`: the table never writes into an object that a client owns.
* `CallsReturn`: every call returns or throws.
* `ImplementsPool`: refinement of `SlotPool`. An allocation takes effect when it
  stores the new head, a free when it stores the old one.
* `CountersAgree`, `MaxBoundsPeak`: the statistics.

Of the epochs:

* `GraceRespected`: a node about to be freed is unlinked, and no operation that a
  scan could see may hold it.
* `ListIntact`: a label is in the list or among the spare labels of the thread that
  made it, and the count of nodes is exact.
* `NoneForgotten`: every node taken out of the tree waits in exactly one place.
* `DestructorAsserts`: the assertion of `~Epoche` holds when it is evaluated.
* `ImplementsGracePeriod`: refinement of `GracePeriod`.
* `CleanupEnds`: a clean-up ends, through labels that were taken out behind one that
  stays, relinked and used again.

Of the tree:

* `GarbageUnused`: no pointer read under another's lock survives its check.
* `HashesAgree`: the owner of a child recomputes its hashes, through growth and
  relocation, and a retired node is freed with the hashes it was allocated with.
* `GraceSuffices`: only calls that ran when a node's parent was locked still hold
  the node after it was marked.
* `LeafLockFree`: the restart at `Tree.cpp:644`, which would leave a node locked for
  ever, is never taken.
* `Accounted`: when no call runs, every slot is linked and unlocked, or was retired
  once.
* `ImplementsMap`: refinement of `ArtMap`. An insertion takes effect with the store
  that links its leaf. A lookup that misses was right when it began.
* `CallsReturn`: every call returns, no matter how often it begins anew.

Of the tries: `ImplementsMap` (refinement of `WordMap`, answers and sizes included),
`HashesAgree`, and `Tiny2NoEmptyNode`: removals leave no node that stores nothing.

Of the algorithms: `ReadsBack` and `ReservedWords` (the word of a pointer), `EnoughRoom`
(a table has room for the objects it was made for), `ReadsAsMap` and `StaysInside` (node classes), `CountsRight` (node
counts), `SizedByCounts` (a trie built in bulk never needs more slots than were counted,
and ends with the number of nodes that the tests expect), `LinksRight` and
`MatchesRight` (Aho-Corasick).

**Bounds.** In the table `MaxAllocs` and `MaxFrees` bound the calls. Two buckets
give all shapes of a pair (equal, different, shared with another thread in either
order). Two slots give lists that are empty, of one element and longer; three
allocations reach overflow in one bucket while the other has room, and two frees
let a slot be reused while an old head is still remembered. One lock period more
than a call can observe is enough to fail its upgrade, so more calls repeat the
same conflicts, except for the wrap, which has its own run.

In `epochs` three nodes and two labels of one node let a list run out of labels, and
let a label be removed at the head of a list or at its end, behind one that stays;
`MaxEpoch = 2` lets a label be older than, as old as and younger than an
announcement; the code's period 64 and threshold 256 become 2 and 1, so that
clean-ups are frequent. The copy of `tiny_art_64` runs with period 3 and threshold 0,
so that stamps repeat and every guard that marked a node cleans up; that of
`tiny_art_256` with labels of two nodes, which are filled and freed in two steps, and
with threshold 2, so that three nodes wait in two labels when a clean-up begins.
Three labels in one list occur in `epochs_live`: labels are removed behind one that
stays, in the middle and at the end, and a removed one comes back at the head. If the
one that stays still pointed at it, the list would be a circle: the faulty
`RemoveLabelUnlinked` makes the run fail that way. Lists are those of one thread each,
so there one thread uses the guards of writers and the other those of readers; nodes
and labels get their addresses in a fixed order, on which no step depends. That lists
of any length, of labels of any size, stay intact is the theorem `ListIntactHolds`.

The scenarios of the tree are each chosen for a conflict: two splits of one prefix
of which only a part is stored (so that `getAnyChildTid` is used), a node that
grows while another insertion and a lookup pass through it, a leaf split twice,
and an empty place taken twice. Four bytes per key make room for a prefix, its
split and a leaf below. Nodes of two and three children stand for those of 4, 16
and 64, so that growth happens after one insertion.

Bytes of six values with classes full at two and four children let each class be
empty, full, grow, shrink and grow again, and let the sign bit be set. Over two
characters and words of three, the links of Aho-Corasick fall back over every distance;
a word of four has a link that is found in two rounds.

Tables are asked for every capacity that a word of 2048 values can say, with the primes
of the table up to the first that does not fit; the product of buckets and slots wraps
for the larger ones. A pointer is a byte with two special bits, and takes every index.

**Fairness.** `FairSpec` of the table, `Spec` of the trees and `Fairness` of the
epochs ask that a thread inside a call keeps running (weak fairness of its
steps), which the scheduler of the operating system provides; the table's
`sched_yield()` in its spin loops rules out that a waiting thread keeps the owner
of a lock from running. Calls are bounded, so that every lock is eventually free
for good. The code promises no fairness between callers, so that nothing is
claimed for a thread that competes with infinitely many calls of others. The
store buffer is not asked to drain.

**Deadlock** is checked in the runs of the table: `Stop` is enabled only when no
call is in progress, so a call that can never go on is reported. The other
systems really stop, their calls or their epochs used up; there `CallsReturn`
and `CleanupEnds` report a call that cannot go on.

### Three places where code and documentation differ

* `table_wrap`. `deref_table.h:133` makes the version a `uint8_t`. A call that has
  read the head and its link and is then not scheduled during 128 lock periods of
  the bucket upgrades on a version that has come back (`sequence_lock.h:126`); it
  hands out a slot that is in use by now. The documentation of `allocate()` calls
  it thread-safe (`deref_table.h:290`), and the stress test at
  `test/test_tinyptr.cpp:528` means to surface wrap-around; its fill-and-drain
  rounds can do so only if a thread is suspended that long. The counterexample is
  found in the corner of the state space that `StalledAttempt` describes. All
  other results about ownership carry the hypothesis `wrapped = {}`.
* `table_size`. `allocate_impl` evaluates `size()` for its overflow message
  (`deref_table.h:436`) while other calls are between the update of their bucket
  and that of their counter, against the documentation of `size()`
  (`deref_table.h:257`); its assertion (265) can fail, so that a debug build
  aborts where the exception was meant.
* `value_trie`. `TinyValueTrie::create_node` (`tiny_value_trie.h:114`) and its
  constructor use what `allocate()` returns without constructing a node there.
  The constructor of a table entry does nothing (`deref_table.h:194`), so a node
  starts with what its memory held. On fresh pages that is zero, which is what
  the test at `test/test_trie.cpp:139` sees; on memory that was in use before, a
  new word may count as known and a pointer may lead anywhere.

Where a table runs full, the ART's insertion is left by the exception with nodes
locked (`Tree.cpp:580`, `N.cpp:112`): `art_copies` shows that no key is lost or
answered wrongly, and claims no progress there, since calls that need a locked
node then begin anew for ever.

## 5. What is proved

### The table

`DerefTableProofs` proves, for every number of threads, buckets, slots, versions
(an even number) and calls, from `DerefTableAssumption` alone:

| Theorem | Statement |
|---|---|
| `TypeCorrect` | `Spec => []TypeOK` |
| `TableInvariant` | `Spec => []TableInv` |
| `MutualExclusion` | `Spec => []LockDiscipline` |
| `NoDoubleAllocationHolds` | `Spec => [](wrapped = {} => NoDoubleAllocation)` |
| `FreeListIntactHolds` | `Spec => [](wrapped = {} => FreeListIntact)` |
| `ChoiceConsistentHolds` | `Spec => [](wrapped = {} => ChoiceConsistent)` |
| `ObjectsUntouchedHolds` | `Spec /\ [](wrapped = {}) => ObjectsUntouched` |

The hypothesis `wrapped = {}` is exactly what the run `table_wrap` refutes for
unlimited calls; it holds of every behaviour in which no call is overtaken by 128
lock periods of one bucket. With it the result says that the wrap is the only way
in which the table can go wrong.

The argument. No property above is inductive. `TableInv` adds:

* `OptimisticUnlocked`: a remembered version is even. So a bucket whose version
  is the remembered one is unlocked, and nobody is in its critical section.
* `ReadsConsistent`: while the version is the remembered one, what was read from
  the bucket is what it contains. The lemma `StableRead` carries it: a step of
  another thread that leaves the version at the remembered value has neither
  locked the bucket (the version would be odd), nor unlocked it (it would be a
  lap, recorded in `wrapped`), nor written to it (`ContentGuarded`).
* `CriticalConsistent`: the same from step to step under the exclusive lock. The
  upgrade turns the one into the other.

The free list is the other half. `FreeListOK` asks for a numbering of the slots
that counts down along the links and is 0 exactly at owned slots, so that the
list is finite, has no cycle and leaks nothing, without any recursive definition.
`ListPop` and `ListPush` construct the numbering after the two steps that change
a list, and `ListFrame` covers all others, whose work is then only to show that
head, length, links of free slots and owners are untouched.

In the same module the refinement:

| Theorem | Statement |
|---|---|
| `PoolImplemented` | `Spec /\ [](wrapped = {}) => ImplementsPool` |

A call is mapped by the stage it has reached (`Stages`). The pool's instants are
the call of `allocate()`, `Store`, which advances the head of the list and so
grants the slot, `Overflow`, `IncrementSize`, which delivers the pointer, the call
of `free()`, `Push`, which puts the slot back, and the end of `free()`. Every other
step is a stutter (`InternalSteps`). That `Store` grants a slot which is free in
the pool is `FreeListIntact`: the head of a list has no owner; that `Overflow`
refuses only when nothing is free is the same with an empty list (`EmptyList`).

Of the statistics, with `StatsAssumption`, that there are finitely many threads and
buckets:

| Theorem | Statement |
|---|---|
| `CountersAgreeHolds` | `StatSpec => [](wrapped = {} => CountersAgree)` |
| `MaxBoundsPeakHolds` | `StatSpec => [](wrapped = {} => MaxBoundsPeak)` |

Both are about sums, which `SumOf` folds from a set in an arbitrary order. `AllNumbers`
is an induction over the numbers, as a statement about a *set* of numbers, from
`WFMin`, which takes no operator. From it follow that the recursive function
behind the fold exists (`SumExists`), that the order does not matter (`SumAny`),
that sums grow with what is summed (`SumOrder`) and change with one summand by
as much (`SumOfChange`). The inductive invariant `StatsInv` says by how much the
counters differ in the middle of calls: `size` lags by the calls that have been given
an object back and have not counted it yet (`Freeing`), the free counts by the
calls between taking or being given a slot and accounting for it (`Between`). The
peak of all threads is bounded because `size` never exceeds `maxSize`
in any thread, and the objects in use never exceed the sum of `size`.

### The word of a pointer and the size of a table

| Theorem | Statement |
|---|---|
| `EncodesInvariant` | `PointerSpec => []Encodes` |
| `ReadsBackHolds` | `PointerSpec => []ReadsBack` |
| `ReservedWordsHold` | `PointerSpec => []ReservedWords` |
| `SizingInvariant` | `SizingSpec => []SizingInv` |
| `EnoughRoomHolds` | `SizingSpec => []EnoughRoom` |

All are in `AlgorithmProofs`. The first three hold for any number of special bits that
leaves one for the index.
`TinyPtr` gives a number of bits by the number of values they take, so that a shift is a
product and a mask a remainder; `WordAssumption` says of the machine's `|` only what
it does with a number whose last bits are zero and one that fits into them, which TLC
evaluates for the bitwise operator. `PackIs` shows that the constructor's two uses of
it are such and that nothing is truncated, up to the last index; `Unpack` that each part
comes back, `Encodes` that a field always holds the encoding of what was stored.

The other two hold for every bin of seven slots or more, which `load_factor()` demands,
every width of a word and every increasing table of primes one of which has as many bits
as a capacity (4025374307 in the code's table); a request is at most what a capacity can
say, since the `uint32_t` that is returned could not hold more. `Request` shows that
rounding up, dividing by the load factor and rounding down leave at least the buckets
that hold the request and at most half of what a word can say, so that neither cast
loses anything. `SizingInv` is the invariant of the binary search: the primes before its
range are too small, the last one in it is not. It may not be narrowed further: the
faulty `SearchPrimePast` goes on below the middle and misses the prime. That the search
ends is liveness, and not claimed.

### The epochs

`EpochGCProofs` proves, for every number of threads, nodes (finitely many) and
labels, every size of a label, period, threshold and bound of the epoch, from
`EpochAssumption` alone:

| Theorem | Statement |
|---|---|
| `TypeCorrect` | `Spec => []TypeOK` |
| `GraceSafe` | `Spec => []GraceRespected` |
| `DestructorSafe` | `Spec => []DestructorAsserts` |
| `Refines` | `Spec => ImplementsGracePeriod` |
| `NoneForgottenHolds` | `Spec => []NoneForgotten` |
| `ListIntactHolds` | `Spec => []ListIntact` |

The inductive invariant `IInv` has three layers.

* The lists: `Apart` (a label belongs to one thread, and to its list or its spare
  labels, with one pointer to it), `Acyclic` (a numbering that falls along the
  links, so that no walk goes in circles) and `Walks` (`prev` is the label before
  `cur`, and an opened label is older than all that the scan saw).
* Who removes what: `Guards`, `Holders`, `Queued` and `Entered`. A node that
  waits in a label is out of the tree, or marked and held by the thread that is
  about to unlink it, and waits in one place only; a node out of the tree waits
  somewhere.
* Time: `Stamped`. A thread that a waiting node still waits for has announced an
  epoch no younger than the stamp of the label, because it was inside when the
  parent was locked and the stamp was taken later (epochs only grow); and a scan
  that has passed the thread has seen that announcement or an older one, or the
  thread was overlooked and the node no longer waits for it. An opened label is
  younger than none of what the scan saw, so none of its nodes waits for anyone.

`Waits` describes an entry, and `AddCases`, `WaitsAfter` and `WaitsBefore` what a
mark, a removal and a free do to the entries; the preservation lemmas are then one
step per action. `DestructorSafe` needs that threads that are gone announce the
maximum. `StepMaps` maps each action to one of `GracePeriod` or a stutter; the
scan of a buffered announcement is `Overlook`.

`NoneForgotten` follows from `IInv`: a node waits in at most one place and is held
by at most one thread on its way there, so the two cardinalities are 0 or 1
(`EntriesWait`, `OneHolder`). `ListIntact` is inductive with `IInv`. A chain is a
numbering of its labels without gaps; `ChainPush`, `ChainPop` and `ChainCut` build
the numbering after a label is put in front, is taken from the front or is taken
out of the middle (`GapClosed` renumbers what comes before it). `MarkCounts` and
`RemoveCounts` compare `deletitionListCount` with the number of nodes in the list.

### The tree

`ArtTreeProofs` proves, for every number of threads, every capacity of the node
classes, every set of scenarios (keys in the tree at the start, calls to make) and
every bound of `ArtAssumption`, whether or not tables run full:

| Theorem | Statement |
|---|---|
| `TreeInvariant` | `Spec => []TInv` |
| `GarbageUnusedHolds` | `Spec => []GarbageUnused` |
| `HashesAgreeHolds` | `Spec => []HashesAgree` |

`GarbageUnused` is not inductive: that a pointer read from a slot is thrown away
depends on what was known of the slot's version when it was read. `TInv` says:

* `MemOK`: every child is a slot. The root keeps the biggest class and an empty
  prefix, so that it is neither grown nor split; `RootMatches` is the argument
  that a comparison with an empty prefix cannot fail.
* `HashesAgree`, as in the run.
* `LocalOK`: what a running call knows, by the step it has reached. Its versions
  are versions at which nobody held the lock, and at most the slot's present word
  (`Versioned`); a pointer read under version `v` is a slot, or garbage and then
  the word is no longer `v` (`Fetched`); a slot that it descended to was stored at
  the hash of its parent and byte (`Under`).
* `QueueOK`: which thread still has a call to make.

What one thread knows stays true while others work, since a slot keeps its id,
kind, prefix and hash for ever and its word only grows (`Lasting`, `CallLasts`).
The rest is what each kind of write does: `WordSound`, `ChangeSound`, `MarkSound`
and `AllocateSound` show once that adding to a word, changing a child, retiring a
slot and allocating slots keep memory well formed, and every action is one of
them with a move of the thread (`Goes`, `Restarts`, `Returns`). `GrowNode`,
`SplitNode` and `SplitLeaf` show that the nodes built under the hashes of the
parent agree with it. When a table runs full in the middle, the nodes allocated so
far are not linked to each other yet (`Unlinked`), which matters here: linked,
one of them would point to a slot that never was allocated.

Of the version words, from the same assumption:

| Theorem | Statement |
|---|---|
| `LockInvariant` | `Spec => []LInv` |
| `LeafLockFreeHolds` | `Spec => []LeafLockFree` |
| `GraceSufficesHolds` | `Spec => []GraceSuffices` |

Both properties are about two calls and a pointer that one of them read long ago, so
the invariant `LInv` has to say who owns a slot at each step of a call (`Owns`) and
whether the call will keep it or replace it by a copy (`Keeps`, `Copies`). A slot is
live while its word is free or someone keeps it.

* `ApartOK`, `Locking`: a slot has one owner, and its word says that it is taken.
  `UnheldOK`, `Prepared`: what a call has built and not linked is known to nobody
  else.
* `Current`: a pointer read under a version that is still the word, or in a node that
  is locked by the reader, is still there (`HasChild`).
* `OneLive`: of the copies of a node, which share its id, one is live. With
  `HashesAgree` it follows that a slot has at most one live parent (`OneParent`),
  although for a moment the node and its copy point to the same children.
* `LeavesOK`, `CutOK`: a leaf that is locked is being split or has no live parent; a
  slot whose pointer was overwritten, or that was handed over to be freed, has no
  live parent but the one that is about to lose it. So a pointer read in an unlocked
  node never leads to a slot that somebody has claimed (`NotFound`).
* `GraceOK`: who holds a slot that is claimed or was handed over was running when it
  was claimed. A call that begins later holds the root only, and gains slots only
  through `NotFound`.

`LeafLockFree` follows by `LeafReadable`: the call keeps the node above the leaf, so
that any other owner of the leaf would need a second live parent.

The step is proved once for all: `Turns` says what a step may do (`Writes`, `Locks`,
`Acquires`, `Cuts`, `Adds`), `Turned` that whatever does only that keeps `LInv`, and
one lemma for each kind of step that the actions of this kind do only that:
`LookupTurns`, `DescendTurns`, `LockingTurns`, `UnlockingTurns`, `HookingTurns`
(stores of a pointer), `HandingTurns` (marks), `MakingTurns` (allocations, complete
or cut short by the exception), `BeginTurns` and `EndTurns`.

`ArtMapProofs` adds, with `KeysAssumption`:

| Theorem | Statement |
|---|---|
| `MapInvariant` | `Spec => []MapInv` |
| `ImplementsMapHolds` | `Spec => ImplementsMap` |

The second is the promise of the whole tree, for any number of threads, any ladder of
node classes, any number of stored bytes and any scenario: whatever threads do in
between, a key that was inserted stays where lookups find it, and a lookup never
misses a key that was there when it began.

What makes it hard is that places move. A split cuts the prefix of a node that other
threads stand in, growth replaces a node by a copy, only the first bytes of a prefix
are stored, and a lookup that skipped the rest knows only at the leaf whether it is
right. `MapInv` therefore does not speak of paths. It says that there are a *chart*
`C` and a set `P` of *public* slots such that `Charted(C, P)` holds:

* The chart gives each node id a length (`far`) and bytes (`way`): the keys that
  `Passes` lets through are those that agree with these bytes, and they are the keys
  that may be below the children of the nodes with this id. A copy keeps its id, and
  a node that moves down below a fork keeps its id and ends at the same byte, so an
  entry of the chart never changes; a fork gets an id of its own. A step only extends
  a chart (`Extends`). `Fits` ties slots to it: the hash of a slot names the id and
  the byte it is entered by, its prefix reaches from there to the end of its id, and
  the bytes it stores are bytes of the way.
* `Follows`, `Leads` and `Finds` say where a key leads, without a path: a set of slots
  of which each is the leaf of the key or has its child for the key in the set. The
  tree is finite and levels grow, so that this is the same as what `Holds` computes
  (`FindsHolds`, by induction over the bytes of a key).
* `PublicOK`: what was linked at some time. Every public leaf is found from the root,
  and every live public node is on the way of all keys that enter it. So the tree has
  no second place where a key could be, and a key without public leaf is absent.
* `KeysOK`: a key that is still to be inserted has no public leaf.
* What each call knows. An insertion that walks down stands at a node that its key
  enters (`WayKnown`), has seen that no child is there (`ChildKnown`), and has built
  nodes that can take the place of the old one for all keys (`Ready`). A lookup
  whose key was there when it began is on a way to its leaf, also in a node that was
  replaced meanwhile (`Certain`); one that skipped bytes knows nothing else
  (`optimistic` in `LookupKnows`) and compares the whole key at the leaf.

`Advanced` is the frame: a step that adds slots and links the roots of its own batch
leaves the ways of the others (`Leading`), hence all they know, as it was. What is left
for each step is what the stepping thread knows afterwards: `LookupWalks` and
`InsertWalks` for the way down, `BuildsOn` with `ForkCharted` for the nodes that are
built, and `LinkCharted` for the one store that changes the tree: after it the tree
holds the inserted key and the keys from before, no others.

For the refinement `View` reads from the record of a thread what `CallOf` asks the tree
for (`CallViewed`: a key being inserted is in the tree exactly when the call has
linked it). A store that links is `TakeEffect`, a return from `lookup` is `Answer`,
a table without room is `Refuse`; all other steps of a call leave the view alone
(`Takes`, `ViewStays`, `CallSteps`).

`ArtAccountProofs` adds, with `LadderAssumption`: every kind of node that grows has
room for at least two children, and the next kind for more. The code's kinds have
4, 16, 64 and 256 (`N.h`); the biggest, which never grows, is not on the ladder.

| Theorem | Statement |
|---|---|
| `SizesInvariant` | `Spec => []SizesOK` |
| `TypeOKHolds` | `Spec => []TypeOK` |
| `AccountInvariant` | `Spec => [](RemovalsOK /\ LeakFree)` |
| `AccountedHolds` | `Spec => []Accounted` |

What is hard in `TypeOK` is the number of children. An insertion looks whether its
node is full before it locks it, and acts on the answer after. `RoomKnown` says what
it knows: while the word of the node is the version the insertion read, or the
insertion holds the lock, the answer holds; `RoomReached` shows that it is got by
reading under that version, and `ThreadsKnowRoom` that a step of another thread that
adds a child changes the word. So no node gets a child it has no room for, a node that
is copied to the next kind is full, and the copy has at least two children
(`BiggerSized`, `ForkSized`), as long as tables do not run full (`Fewest`).

`Accounted` is about states in which no call runs, and says nothing about those in
between. Its invariant has two halves.

* `RemovalsOK`: a slot is handed over at most once. Who is about to hand it over is
  alone with it and has made its word obsolete before, and an obsolete word is never
  locked again (`FirstMark`, `FirstCut`, `RemovalsStay`). The copy that will replace a
  node points to all the node points to (`Supplants`), so that nothing is lost
  with the node.
* `LeakFree`, where tables do not run full: every slot is the root, or removed, or the
  first of a batch that its call will link, or the child of a slot that is not
  removed (`Hung`); every inner node that is locked has an owner, or is removed
  (`Attended`). `Settles` says what a step may do to this: a pointer that
  goes away led to a slot that is removed with it, and a node that is removed leaves its
  children to another. One lemma for each kind of step shows that it does only that
  (`LockSettles`, `UnlockSettles`, `MarkSettles`, `LinkSettles`, `MakeSettles`).
  When a table is full the exception leaves locked nodes and slots that nobody
  links behind; `Accounted` excludes that case too.

When no call runs nobody owns anything and no batch is under way. Then the slots that
are not handed over are closed under children (`CutOK`, `LeavesOK`), so that nothing else
is reachable; and each of them is reachable, because it hangs on another one that is
nearer to the root in the chart of `MapInv`. `Reachable` is computed in as many rounds
as there are slots. That these are enough is `ReachableLeast`: a round that adds nothing
ends it, and every other round adds a slot.

### The node classes

`NodeProofs` proves of a node of any of the three copies, for every number of values of a
byte and every room that the classes have within `NodesAssumption`:

| Theorem | Statement |
|---|---|
| `NodesInvariant` | `NodesSpec => []NodesInv` |
| `ReadsAsMapHolds` | `NodesSpec => []ReadsAsMap` |
| `StaysInsideHolds` | `NodesSpec => []StaysInside` |

`NodesAssumption` asks `SizesFit` of each copy, which is what the ladders of `N.cpp` rely
on: every class is larger than the one below it, what is underfull fits into the class
below, and the count of a full table, which is zero in eight bits, is not taken for
underfull. The numbers of the code satisfy it, and TLC evaluates it for those of the run.

`NodesInv` says what the fields of the node are, given the map of its children: sorted
bytes (with the highest bit flipped in `N16` and `N64`) and their children in the same
order, no more than there is room for, or the table itself and the count in eight bits.
It has to say all of it, since each operation finds its place by what the ones before
left behind.

* A class is handled once: the arrays of `N16` and `N64` differ only in their room, and
  those of the copies not at all, so the lemmas are about an operation on a node of any
  class (`ClassInsert`, `InsertHolds` and so on), and the lemmas named `Same...` say that
  each copy's operation is the one of the class.
* The comparison that `N16` and `N64` make is of signed numbers; `Flipped` says that it
  orders the flipped bytes as the bytes themselves are ordered, at any even `Base`.
* A copy to another class is a loop over the children, and so is `getChildren`. Such a
  fold is shown to be a run of its rounds (`FoldRuns`), and over a run the induction is
  over one given set of numbers: after `k` rounds the new node holds the first `k`
  children (`CopyRunHolds`), so it is never fuller than the old one.
* A node that grows has its class's full number of children, less than the bigger one
  holds; one that shrinks has exactly the number at which it is underfull, and the
  child is removed after the copy. That is where `StaysInside` needs the room for the
  child that is about to go.

### The tries

`TrieProofs` proves of the three tries, one at a time as in `MCTries`, for every
finite set of characters, every set of words over them, long or short, and every set of
values, from `TrieAssumption` and `TriesAssumption`:

| Theorem | Statement |
|---|---|
| `InOrderHolds` | `Spec => []InOrder` |
| `HashesAgreeHolds` | `Spec => []HashesAgree` |
| `Tiny2NoEmptyNodeHolds` | `Spec => []Tiny2NoEmptyNode` |
| `ImplementsMapHolds` | `Spec => ImplementsMap` |

`TrieAssumption` says that words are sequences of finitely many characters, which a
`char` is; `TriesAssumption` that the values of `ValueTrie` are not the answer that
stands for no value, and that its words are among the others (its run uses fewer words,
`PlainWords`, as it has more states for each).

A call is one step, but goes down the trie in as many rounds as its word is long, and a
removal from `TinyTrie2` comes back up. The model folds a sequence for each of these
loops. The fold of the community modules is a recursive function over sets of
positions, which the prover knows only as a `CHOOSE`. So `FoldExists` builds the
function, with `AllNumbers` for the induction, and `FoldRuns` shows that it is a run:
what is there before the first round, and after each round what the round makes of it.
From there on a loop is proved as in a book: `ReachSteps` for finding a word,
`TinyStep`, `Tiny2Step` and `PlainStep` for making the nodes of a word, `PruneRound` for
the way up, each with its loop invariant (`AtTiny`, `AtTiny2`, `AtPlain`, `AtPrune`).

* `IsMemory`: every pointer leads to a node in use, every node but the root has one
  pointer that leads to it. So two words never lead to the same node (`ReachApart`),
  and a pointer that changes changes what is found of the words that go through it alone
  (`ReachChanges`).
* `Good` adds the hashes (`Fits`) to the tries of tiny pointers, and the values of
  marked nodes (`Valued`) to `ValueTrie`.
* A caller cannot see that a node is made where nothing or a tagged pointer was
  (`GrownGood`), nor that an empty node is freed and a tagged pointer left where a
  word ends (`FreedGood`). A pointer set to null or tagged (`CutGood`) and a mark that is
  set or cleared (`MarkedGood`) change one word. Every call consists of these.
* `Filled(m, e)`: every node but the root and `e` has something below it. Making the
  nodes of a word leaves only the last one empty, which then gets its pointer; a removal
  moves the empty node `e` up until there is none.
* `InOrder` is the inductive invariant: `Good`, `Filled` unless an insertion was
  refused, and that `count` is the number of words stored.

`ReachIn` stands for `Reach` of each of the three instances, with the memory as a
parameter (`ReachIs`), so that memories in the middle of a call can be spoken of.

### The automaton

`AlgorithmProofs` also proves, for every set of characters, every set of words over them and
texts of every length, from `AutomatonAssumption` (characters are positive numbers,
words are sequences of them):

| Theorem | Statement |
|---|---|
| `AutomatonInvariant` | `AutomatonSpec => []AutomatonInv` |
| `LinksRightHolds` | `AutomatonSpec => []LinksRight` |
| `MatchesRightHolds` | `AutomatonSpec => []MatchesRight` |

`LinksRight` says that a suffix link leads, from the moment it is set, to the longest
proper suffix of its node that is a node, and during a search a terminal link to the
longest one at which a word ends. `MatchesRight` says that every occurrence of a word in
the text so far is reported, nothing else is, and by position of its end.

While links are made, a link is found by way of links that have been made before, so
that the order matters. `QueueInv` says that the queue is sorted by depth, and that the
deepest node in it is at most one level below the node in hand; `PendingInv` that the
parent of a node without a link has no link itself, or is in the queue, or is the node
in hand and the child still to come. From these follows `LinkedSoFar`, by the
least depth of a counterexample: all nodes that are no deeper than the node in hand have
their links. These are all that a link of one of its children can lead to.

The loops that go up suffix links, `FallBack` for the link of a child and `Follow` for
a character of the text, are the same search: of the suffixes of a node, from the longest
down, for the first that has a child for a character. `FallInv` and `NodeInv` say that
what has been passed over has no such child (`Tried`); `GiveUp` and `TakeOn` carry this
from round to round, since two suffixes of one sequence are suffixes one of the other,
and nothing lies between a node and its suffix link. So the node in hand while a text is
searched is the longest suffix of the text that is a node, and every word that ends at
this position ends at the node or along its terminal links (`Due`, `MatchInv`).

### What is only model-checked

* Liveness (`CallsReturn`, `CleanupEnds`), which the prover does not reach, nor
  `ENABLED`.
* Node counts and creation in bulk (`CountsRight`, `SizedByCounts`). They are computed
  by a recursive operator over a list of words, which the prover does not take.

## 6. What is not modelled

* The hash functions, whose quality is statistical. The tables are modelled for
  every pair of buckets; the trees take a hash for the pair of id (or address)
  and byte it is made of, as if it were injective.
* `next_node_id`: a new node has an id no other has.
* The table of primes, `PerfEvent.hpp` and the submodules are third-party. `Key`
  is in a submodule that is not part of the tree.
* `Tree::remove` and `lookupRange`, which are commented out, and
  `checkPrefixCompare`, `checkPrefixEquals`, `addPrefixBefore` and
  `getSecondChild`, which only they use.
* `tiny_automaton.cpp`, which no target builds and which does not compile.
* A slot of the ART used again while a reader holds it: excluded by
  `GraceSuffices` with the epochs, but for the overlooked threads above.
* An idle thread whose read-only guard never withdrew its announcement keeps nodes
  from being freed (`Epoche.h:116`); no property claims that they are.
* Benchmarks, tools, tests and printing.
