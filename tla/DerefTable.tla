---------------------------- MODULE DerefTable ----------------------------
(***************************************************************************)
(* The dereference table of src/tiny_ptr/deref_table.h: a fixed array of   *)
(* buckets, each with Entries slots, a free list threaded through the      *)
(* storage of the free slots, and a sequence lock                          *)
(* (src/tiny_ptr/sequence_lock.h) whose version is an 8-bit counter that   *)
(* is odd while the bucket is held exclusively.                            *)
(*                                                                         *)
(* allocate() reads two candidate buckets optimistically, picks the one    *)
(* with more free slots, validates the other one and upgrades its          *)
(* optimistic lock on the chosen one; free() locks its bucket exclusively. *)
(* Every access to memory that another thread may also touch is a step of  *)
(* its own.  The target is x86 (xmmintrin.h), whose locked instructions    *)
(* and load/store order make the interleaving semantics adequate here.     *)
(*                                                                         *)
(* An operator whose comment begins with "Faulty:" is a variant of the     *)
(* definition after it, with a bug the properties have to notice.          *)
(***************************************************************************)
EXTENDS Integers, FiniteSets

CONSTANTS
  Threads,     (* threads that allocate and free                           *)
  Buckets,     (* buckets of the table                                     *)
  Entries,     (* ENTRIES_PER_BIN_COUNT, the slots of a bucket             *)
  Hashes,      (* the bucket pairs the keys in use hash to                 *)
  VersionMod,  (* number of versions of a sequence lock: 256 in the code   *)
  Object,      (* what a slot contains once its owner has written to it    *)
  MaxAllocs,   (* bound: calls of allocate()                               *)
  MaxFrees     (* bound: calls of free()                                   *)

Bits == {0, 1}            \* h_bit: the hash function a tiny pointer uses
Slots == 0 .. Entries - 1
Indices == 0 .. Entries   \* values of BucketIndexT; Entries names no slot
Versions == 0 .. VersionMod - 1

ASSUME DerefTableAssumption ==
  /\ Buckets # {}
  /\ Entries \in Nat \ {0}
  /\ Hashes \subseteq [Bits -> Buckets]
  /\ VersionMod \in Nat \ {0}
  /\ VersionMod % 2 = 0
  /\ Object \notin Indices
  /\ MaxAllocs \in Nat
  /\ MaxFrees \in Nat

VARIABLES
  version,        (* per bucket: SequenceLock::version                     *)
  freeCount,      (* per bucket: free_slot_count                           *)
  freeIndex,      (* per bucket: free_slot_index, head of the free list    *)
  nextFree,       (* per slot: the first bytes of its storage              *)
  held,           (* per slot: pointers to it that clients own             *)
  pc,             (* per thread: the next step of its call                 *)
  bucket,         (* per thread: h1_index and h2_index                     *)
  lockedVersion,  (* per thread: versions of the two optimistic locks      *)
  h1Count,        (* per thread: h1_free_count                             *)
  hBit,           (* per thread: h_bit                                     *)
  objectIndex,    (* per thread: object_index, or the index to free        *)
  nextIndex,      (* per thread: next_free_slot_index                      *)
  unread,         (* per thread: counters size() has yet to read           *)
  total,          (* per thread: result of size() so far                   *)
  size,           (* per thread: SizeCounters::size                        *)
  maxSize,        (* per thread: SizeCounters::max_reached_size            *)
  allocs,         (* calls of allocate() so far                            *)
  frees,          (* calls of free() so far                                *)
  snapshot,       (* history, per thread: free counts of its two buckets   *)
                  (* at the instant validate() succeeded                   *)
  wrapped         (* history: threads whose optimistic lock has seen its   *)
                  (* version come back after the bucket was locked         *)

table == <<version, freeCount, freeIndex, nextFree>>
locals == <<bucket, lockedVersion, h1Count, hBit, objectIndex, nextIndex,
            snapshot>>
counters == <<size, maxSize, unread, total>>
budget == <<allocs, frees>>
vars == <<version, freeCount, freeIndex, nextFree, held, pc, bucket,
          lockedVersion, h1Count, hBit, objectIndex, nextIndex, unread, total,
          size, maxSize, allocs, frees, snapshot, wrapped>>

---------------------------------------------------------------------------
(* Sequence locks.                                                         *)

IsLocked(v) == v % 2 = 1

\* The version after one more fetch_add(1): an unsigned integer wraps.
Bump(v) == IF v = VersionMod - 1 THEN 0 ELSE v + 1

\* Steps at which a thread relies on its optimistic lock of bucket[t][k].
Reading(k) ==
  {"countFirst", "countSecond", "readHead", "readNext", "validate", "upgrade"}
    \cup (IF k = 0 THEN {"lockSecond"} ELSE {})

\* Threads whose optimistic lock on b is at version v, which b is about to
\* reach again.
Lapped(b, v) ==
  {u \in Threads : \E k \in Bits : /\ pc[u] \in Reading(k)
                                   /\ bucket[u][k] = b
                                   /\ lockedVersion[u][k] = v}

\* ExclusiveLock::unlock(), also run by the destructor.
Unlock(b) ==
  /\ version' = [version EXCEPT ![b] = Bump(@)]
  /\ wrapped' = wrapped \cup Lapped(b, Bump(version[b]))

\* The bucket that h_bit selects: h_index.
Target(t) == bucket[t][hBit[t]]

Goto(t, step) == pc' = [pc EXCEPT ![t] = step]

NoPair == [k \in Bits |-> 0]
NoBuckets == CHOOSE h \in [Bits -> Buckets] : TRUE

\* The locals of one attempt go out of scope.
ForgetReads(t) ==
  /\ lockedVersion' = [lockedVersion EXCEPT ![t] = NoPair]
  /\ h1Count' = [h1Count EXCEPT ![t] = 0]
  /\ hBit' = [hBit EXCEPT ![t] = 0]
  /\ objectIndex' = [objectIndex EXCEPT ![t] = 0]
  /\ nextIndex' = [nextIndex EXCEPT ![t] = 0]
  /\ snapshot' = [snapshot EXCEPT ![t] = NoPair]

---------------------------------------------------------------------------
(* The free list in memory as the constructor leaves it.                   *)

Init ==
  /\ version = [b \in Buckets |-> 0]
  /\ freeCount = [b \in Buckets |-> Entries]
  /\ freeIndex = [b \in Buckets |-> 0]
  /\ nextFree = [b \in Buckets |->
                  [i \in Slots |-> IF i = Entries - 1 THEN 0 ELSE i + 1]]
  /\ held = [b \in Buckets |-> [i \in Slots |-> 0]]
  /\ pc = [t \in Threads |-> "idle"]
  /\ bucket = [t \in Threads |-> NoBuckets]
  /\ lockedVersion = [t \in Threads |-> NoPair]
  /\ h1Count = [t \in Threads |-> 0]
  /\ hBit = [t \in Threads |-> 0]
  /\ objectIndex = [t \in Threads |-> 0]
  /\ nextIndex = [t \in Threads |-> 0]
  /\ unread = [t \in Threads |-> {}]
  /\ total = [t \in Threads |-> 0]
  /\ size = [t \in Threads |-> 0]
  /\ maxSize = [t \in Threads |-> 0]
  /\ allocs = 0
  /\ frees = 0
  /\ snapshot = [t \in Threads |-> NoPair]
  /\ wrapped = {}

---------------------------------------------------------------------------
(* allocate(): the optimistic attempt.                                     *)

BeginAllocate(t, h) ==
  /\ pc[t] = "idle"
  /\ allocs < MaxAllocs
  /\ allocs' = allocs + 1
  /\ bucket' = [bucket EXCEPT ![t] = h]
  /\ Goto(t, "lockFirst")
  /\ UNCHANGED <<table, held, lockedVersion, h1Count, hBit, objectIndex,
                 nextIndex, counters, frees, snapshot, wrapped>>

\* Faulty: does not wait for the lock to be released.
LockOptimisticallyAnyway(t, k, from, to) ==
  /\ pc[t] = from
  /\ lockedVersion' = [lockedVersion EXCEPT ![t][k] = version[bucket[t][k]]]
  /\ Goto(t, to)
  /\ UNCHANGED <<table, held, bucket, h1Count, hBit, objectIndex, nextIndex,
                 counters, budget, snapshot, wrapped>>

\* lock_optimistically() spins until the bucket is unlocked and remembers
\* its version.
LockOptimistically(t, k, from, to) ==
  /\ pc[t] = from
  /\ ~ IsLocked(version[bucket[t][k]])
  /\ lockedVersion' = [lockedVersion EXCEPT ![t][k] = version[bucket[t][k]]]
  /\ Goto(t, to)
  /\ UNCHANGED <<table, held, bucket, h1Count, hBit, objectIndex, nextIndex,
                 counters, budget, snapshot, wrapped>>

LockFirst(t) == LockOptimistically(t, 0, "lockFirst", "lockSecond")
LockSecond(t) == LockOptimistically(t, 1, "lockSecond", "countFirst")

CountFirst(t) ==
  /\ pc[t] = "countFirst"
  /\ h1Count' = [h1Count EXCEPT ![t] = freeCount[bucket[t][0]]]
  /\ Goto(t, "countSecond")
  /\ UNCHANGED <<table, held, bucket, lockedVersion, hBit, objectIndex,
                 nextIndex, counters, budget, snapshot, wrapped>>

\* The emptier bucket wins, the first one on a tie.
CountSecond(t) ==
  /\ pc[t] = "countSecond"
  /\ hBit' = [hBit EXCEPT ![t] =
                IF h1Count[t] >= freeCount[bucket[t][1]] THEN 0 ELSE 1]
  /\ Goto(t, "readHead")
  /\ UNCHANGED <<table, held, bucket, lockedVersion, h1Count, objectIndex,
                 nextIndex, counters, budget, snapshot, wrapped>>

ReadHead(t) ==
  /\ pc[t] = "readHead"
  /\ objectIndex' = [objectIndex EXCEPT ![t] = freeIndex[Target(t)]]
  /\ Goto(t, "readNext")
  /\ UNCHANGED <<table, held, bucket, lockedVersion, h1Count, hBit, nextIndex,
                 counters, budget, snapshot, wrapped>>

\* A slot in use holds its owner's bytes: reading a link there may give any
\* index, and a stale head may even name no slot at all.
LinksReadable(b, i) ==
  IF i \in Slots /\ nextFree[b][i] # Object THEN {nextFree[b][i]} ELSE Indices

ReadNext(t) ==
  /\ pc[t] = "readNext"
  /\ \E n \in LinksReadable(Target(t), objectIndex[t]) :
       nextIndex' = [nextIndex EXCEPT ![t] = n]
  /\ Goto(t, "validate")
  /\ UNCHANGED <<table, held, bucket, lockedVersion, h1Count, hBit,
                 objectIndex, counters, budget, snapshot, wrapped>>

\* Faulty: reads again without locking again.
RetryWithOldVersions(t) ==
  /\ Goto(t, "countFirst")
  /\ UNCHANGED <<table, held, locals, counters, budget, wrapped>>

\* goto retry.
Retry(t) ==
  /\ Goto(t, "lockFirst")
  /\ ForgetReads(t)
  /\ UNCHANGED <<table, held, bucket, counters, budget, wrapped>>

StillAt(t, k) == version[bucket[t][k]] = lockedVersion[t][k]

\* Faulty: the bucket that was not chosen is not looked at again.
ValidateNothing(t) ==
  /\ pc[t] = "validate"
  /\ snapshot' = [snapshot EXCEPT ![t] =
                    [k \in Bits |-> freeCount[bucket[t][k]]]]
  /\ Goto(t, "upgrade")
  /\ UNCHANGED <<table, held, bucket, lockedVersion, h1Count, hBit,
                 objectIndex, nextIndex, counters, budget, wrapped>>

\* The bucket that was not chosen must not have changed.
Validate(t) ==
  /\ pc[t] = "validate"
  /\ StillAt(t, 1 - hBit[t])
  /\ snapshot' = [snapshot EXCEPT ![t] =
                    [k \in Bits |-> freeCount[bucket[t][k]]]]
  /\ Goto(t, "upgrade")
  /\ UNCHANGED <<table, held, bucket, lockedVersion, h1Count, hBit,
                 objectIndex, nextIndex, counters, budget, wrapped>>

ValidateFails(t) ==
  /\ pc[t] = "validate"
  /\ ~ StillAt(t, 1 - hBit[t])
  /\ Retry(t)

\* Faulty: locks the bucket at whatever version it has by now.
UpgradeFromAnyVersion(t) ==
  /\ pc[t] = "upgrade"
  /\ ~ IsLocked(version[Target(t)])
  /\ version' = [version EXCEPT ![Target(t)] = Bump(@)]
  /\ Goto(t, "take")
  /\ UNCHANGED <<freeCount, freeIndex, nextFree, held, locals, counters,
                 budget, wrapped>>

\* try_upgrade_to_exclusive(): compare-and-swap from the remembered version.
Upgrade(t) ==
  /\ pc[t] = "upgrade"
  /\ StillAt(t, hBit[t])
  /\ version' = [version EXCEPT ![Target(t)] = Bump(@)]
  /\ Goto(t, "take")
  /\ UNCHANGED <<freeCount, freeIndex, nextFree, held, locals, counters,
                 budget, wrapped>>

UpgradeFails(t) ==
  /\ pc[t] = "upgrade"
  /\ ~ StillAt(t, hBit[t])
  /\ Retry(t)

---------------------------------------------------------------------------
(* allocate(): the critical section and the return.                        *)

\* Faulty: takes a slot of a full bucket.
TakeUnchecked(t) ==
  /\ pc[t] = "take"
  /\ freeCount' = [freeCount EXCEPT ![Target(t)] = @ - 1]
  /\ Goto(t, "store")
  /\ UNCHANGED <<version, freeIndex, nextFree, held, locals, counters, budget,
                 wrapped>>

Take(t) ==
  /\ pc[t] = "take"
  /\ freeCount[Target(t)] # 0
  /\ freeCount' = [freeCount EXCEPT ![Target(t)] = @ - 1]
  /\ Goto(t, "store")
  /\ UNCHANGED <<version, freeIndex, nextFree, held, locals, counters, budget,
                 wrapped>>

\* Faulty: keeps the last slot of a bucket back.
OverflowBeforeFull(t) ==
  /\ pc[t] = "take"
  /\ freeCount[Target(t)] <= 1
  /\ unread' = [unread EXCEPT ![t] = Threads]
  /\ total' = [total EXCEPT ![t] = 0]
  /\ Goto(t, "size")
  /\ UNCHANGED <<table, held, locals, size, maxSize, budget, wrapped>>

\* The bucket is full: size() is evaluated for the message of the exception,
\* with the bucket still locked.
Overflow(t) ==
  /\ pc[t] = "take"
  /\ freeCount[Target(t)] = 0
  /\ unread' = [unread EXCEPT ![t] = Threads]
  /\ total' = [total EXCEPT ![t] = 0]
  /\ Goto(t, "size")
  /\ UNCHANGED <<table, held, locals, size, maxSize, budget, wrapped>>

ReadCounter(t, u) ==
  /\ pc[t] = "size"
  /\ u \in unread[t]
  /\ unread' = [unread EXCEPT ![t] = @ \ {u}]
  /\ total' = [total EXCEPT ![t] = @ + size[u]]
  /\ UNCHANGED <<table, held, pc, locals, size, maxSize, budget, wrapped>>

\* Faulty: leaves the bucket locked.
ThrowLocked(t) ==
  /\ pc[t] = "size"
  /\ unread[t] = {}
  /\ Goto(t, "idle")
  /\ total' = [total EXCEPT ![t] = 0]
  /\ bucket' = [bucket EXCEPT ![t] = NoBuckets]
  /\ ForgetReads(t)
  /\ UNCHANGED <<table, held, unread, size, maxSize, budget, wrapped>>

\* abort_overflow() throws; unwinding destroys the exclusive lock.
Throw(t) ==
  /\ pc[t] = "size"
  /\ unread[t] = {}
  /\ Unlock(Target(t))
  /\ Goto(t, "idle")
  /\ total' = [total EXCEPT ![t] = 0]
  /\ bucket' = [bucket EXCEPT ![t] = NoBuckets]
  /\ ForgetReads(t)
  /\ UNCHANGED <<freeCount, freeIndex, nextFree, held, unread, size, maxSize,
                 budget>>

Store(t) ==
  /\ pc[t] = "store"
  /\ freeIndex' = [freeIndex EXCEPT ![Target(t)] = nextIndex[t]]
  /\ Goto(t, "unlock")
  /\ UNCHANGED <<version, freeCount, nextFree, held, locals, counters, budget,
                 wrapped>>

UnlockAllocated(t) ==
  /\ pc[t] = "unlock"
  /\ Unlock(Target(t))
  /\ Goto(t, "increment")
  /\ UNCHANGED <<freeCount, freeIndex, nextFree, held, locals, counters,
                 budget>>

\* Faulty: compares the counter with the maximum before counting.
IncrementSizeLate(t) ==
  /\ pc[t] = "increment"
  /\ size' = [size EXCEPT ![t] = @ + 1]
  /\ maxSize' = [maxSize EXCEPT ![t] = IF size[t] > @ THEN size[t] ELSE @]
  /\ held' = [held EXCEPT ![Target(t)][objectIndex[t]] = @ + 1]
  /\ Goto(t, "idle")
  /\ bucket' = [bucket EXCEPT ![t] = NoBuckets]
  /\ ForgetReads(t)
  /\ UNCHANGED <<table, unread, total, budget, wrapped>>

\* increment_size(), then the pointer is returned to the caller.
IncrementSize(t) ==
  /\ pc[t] = "increment"
  /\ size' = [size EXCEPT ![t] = @ + 1]
  /\ maxSize' = [maxSize EXCEPT ![t] = IF size[t] + 1 > @ THEN size[t] + 1
                                                         ELSE @]
  /\ held' = [held EXCEPT ![Target(t)][objectIndex[t]] = @ + 1]
  /\ Goto(t, "idle")
  /\ bucket' = [bucket EXCEPT ![t] = NoBuckets]
  /\ ForgetReads(t)
  /\ UNCHANGED <<table, unread, total, budget, wrapped>>

---------------------------------------------------------------------------
(* free().                                                                 *)

\* A client gives up a pointer; the bit in the pointer and the key's hashes
\* lead back to bucket b and slot i.
BeginFree(t, b, i) ==
  /\ pc[t] = "idle"
  /\ frees < MaxFrees
  /\ held[b][i] > 0
  /\ frees' = frees + 1
  /\ held' = [held EXCEPT ![b][i] = @ - 1]
  /\ bucket' = [bucket EXCEPT ![t] = [k \in Bits |-> b]]
  /\ objectIndex' = [objectIndex EXCEPT ![t] = i]
  /\ Goto(t, "lock")
  /\ UNCHANGED <<table, lockedVersion, h1Count, hBit, nextIndex, counters,
                 allocs, snapshot, wrapped>>

\* lock_exclusive() spins until its compare-and-swap succeeds.
LockExclusive(t) ==
  /\ pc[t] = "lock"
  /\ ~ IsLocked(version[Target(t)])
  /\ version' = [version EXCEPT ![Target(t)] = Bump(@)]
  /\ Goto(t, "link")
  /\ UNCHANGED <<freeCount, freeIndex, nextFree, held, locals, counters,
                 budget, wrapped>>

\* Faulty: does not link the only free slot of a bucket to anything.
LinkUnlessLast(t) ==
  /\ pc[t] = "link"
  /\ nextFree' = IF freeCount[Target(t)] = 0 THEN nextFree
                 ELSE [nextFree EXCEPT ![Target(t)][objectIndex[t]] =
                         freeIndex[Target(t)]]
  /\ Goto(t, "push")
  /\ UNCHANGED <<version, freeCount, freeIndex, held, locals, counters,
                 budget, wrapped>>

Link(t) ==
  /\ pc[t] = "link"
  /\ nextFree' = [nextFree EXCEPT ![Target(t)][objectIndex[t]] =
                    freeIndex[Target(t)]]
  /\ Goto(t, "push")
  /\ UNCHANGED <<version, freeCount, freeIndex, held, locals, counters,
                 budget, wrapped>>

Push(t) ==
  /\ pc[t] = "push"
  /\ freeIndex' = [freeIndex EXCEPT ![Target(t)] = objectIndex[t]]
  /\ Goto(t, "count")
  /\ UNCHANGED <<version, freeCount, nextFree, held, locals, counters, budget,
                 wrapped>>

Count(t) ==
  /\ pc[t] = "count"
  /\ freeCount' = [freeCount EXCEPT ![Target(t)] = @ + 1]
  /\ Goto(t, "release")
  /\ UNCHANGED <<version, freeIndex, nextFree, held, locals, counters, budget,
                 wrapped>>

UnlockFreed(t) ==
  /\ pc[t] = "release"
  /\ Unlock(Target(t))
  /\ Goto(t, "decrement")
  /\ UNCHANGED <<freeCount, freeIndex, nextFree, held, locals, counters,
                 budget>>

\* Faulty: a counter never becomes negative.
DecrementSizeToZero(t) ==
  /\ pc[t] = "decrement"
  /\ size' = [size EXCEPT ![t] = IF @ > 0 THEN @ - 1 ELSE 0]
  /\ Goto(t, "idle")
  /\ bucket' = [bucket EXCEPT ![t] = NoBuckets]
  /\ ForgetReads(t)
  /\ UNCHANGED <<table, held, maxSize, unread, total, budget, wrapped>>

DecrementSize(t) ==
  /\ pc[t] = "decrement"
  /\ size' = [size EXCEPT ![t] = @ - 1]
  /\ Goto(t, "idle")
  /\ bucket' = [bucket EXCEPT ![t] = NoBuckets]
  /\ ForgetReads(t)
  /\ UNCHANGED <<table, held, maxSize, unread, total, budget, wrapped>>

---------------------------------------------------------------------------
(* The client writes an object it owns, over the link the slot contained.  *)
(* Taken right after IncrementSize, the same step is the memset() with     *)
(* which allocate() zeroes the slot on request.                            *)

WriteObject(b, i) ==
  /\ held[b][i] > 0
  /\ nextFree[b][i] # Object
  /\ nextFree' = [nextFree EXCEPT ![b][i] = Object]
  /\ UNCHANGED <<version, freeCount, freeIndex, held, pc, locals, counters,
                 budget, wrapped>>

\* No call is in progress: the program may stop here.
Quiescent == \A t \in Threads : pc[t] = "idle"

Stop == Quiescent /\ UNCHANGED vars

\* The steps of a call in progress.
Step(t) ==
  \/ LockFirst(t) \/ LockSecond(t) \/ CountFirst(t) \/ CountSecond(t)
  \/ ReadHead(t) \/ ReadNext(t) \/ Validate(t) \/ ValidateFails(t)
  \/ Upgrade(t) \/ UpgradeFails(t) \/ Take(t) \/ Overflow(t)
  \/ (\E u \in Threads : ReadCounter(t, u)) \/ Throw(t)
  \/ Store(t) \/ UnlockAllocated(t) \/ IncrementSize(t)
  \/ LockExclusive(t) \/ Link(t) \/ Push(t) \/ Count(t) \/ UnlockFreed(t)
  \/ DecrementSize(t)

Next ==
  \/ \E t \in Threads : \/ \E h \in Hashes : BeginAllocate(t, h)
                        \/ \E b \in Buckets, i \in Slots : BeginFree(t, b, i)
                        \/ Step(t)
  \/ \E b \in Buckets, i \in Slots : WriteObject(b, i)
  \/ Stop

Spec == Init /\ [][Next]_vars

\* A thread inside a call keeps running; clients need not call at all.
FairSpec == Spec /\ \A t \in Threads : WF_vars(Step(t))

---------------------------------------------------------------------------
(* Types.                                                                  *)

Holding == {"take", "size", "store", "unlock", "link", "push", "count",
            "release"}
Steps == Reading(0) \cup Holding
           \cup {"idle", "lockFirst", "increment", "lock", "decrement"}

TypeOK ==
  /\ version \in [Buckets -> Versions]
  /\ freeCount \in [Buckets -> Nat]
  /\ freeIndex \in [Buckets -> Indices]
  /\ nextFree \in [Buckets -> [Slots -> Indices \cup {Object}]]
  /\ held \in [Buckets -> [Slots -> Nat]]
  /\ pc \in [Threads -> Steps]
  /\ bucket \in [Threads -> [Bits -> Buckets]]
  /\ lockedVersion \in [Threads -> [Bits -> Versions]]
  /\ h1Count \in [Threads -> Nat]
  /\ hBit \in [Threads -> Bits]
  /\ objectIndex \in [Threads -> Indices]
  /\ nextIndex \in [Threads -> Indices]
  /\ unread \in [Threads -> SUBSET Threads]
  /\ total \in [Threads -> Int]
  /\ size \in [Threads -> Int]
  /\ maxSize \in [Threads -> Nat]
  /\ allocs \in 0 .. MaxAllocs
  /\ frees \in 0 .. MaxFrees
  /\ snapshot \in [Threads -> [Bits -> Nat]]
  /\ wrapped \in SUBSET Threads

---------------------------------------------------------------------------
(* Who owns a slot: a client, a call that has unlinked it and not yet      *)
(* returned it, or a call that was given it and has not yet linked it.     *)

Claiming == {"unlock", "increment", "lock", "link", "push"}

Claims(t, b, i) ==
  /\ pc[t] \in Claiming
  /\ Target(t) = b
  /\ objectIndex[t] = i

Owned(b, i) == held[b][i] > 0 \/ \E t \in Threads : Claims(t, b, i)

\* A free slot is handed out once: "thread-safe" in the docs of allocate()
\* and free().
NoDoubleAllocation ==
  \A b \in Buckets, i \in Slots :
    /\ held[b][i] <= 1
    /\ \A t \in Threads : Claims(t, b, i) => held[b][i] = 0
    /\ \A t, u \in Threads : Claims(t, b, i) /\ Claims(u, b, i) => t = u

\* The length of the free list, whose count lags behind the head between
\* two steps of a critical section.
ListLength(b) ==
  IF \E t \in Threads : pc[t] \in {"store", "count"} /\ Target(t) = b
  THEN freeCount[b] + 1
  ELSE freeCount[b]

\* The links of bucket b thread exactly its unowned slots, the head first:
\* rank is the number of slots from a slot to the end of the list, 0 off it.
FreeListOK(b) ==
  \E rank \in [Slots -> 0 .. ListLength(b)] :
    /\ freeIndex[b] \in Slots
    /\ ListLength(b) > 0 => rank[freeIndex[b]] = ListLength(b)
    /\ \A i \in Slots : rank[i] > 0 => nextFree[b][i] \in Slots
    /\ \A i \in Slots : rank[i] > 1 => rank[nextFree[b][i]] = rank[i] - 1
    /\ \A i, j \in Slots : rank[i] = rank[j] /\ rank[i] > 0 => i = j
    /\ \A i \in Slots : rank[i] = 0 <=> Owned(b, i)

\* No step of any two calls breaks or leaks a free list, half-done
\* critical sections included.
FreeListIntact == \A b \in Buckets : FreeListOK(b)

\* A bucket is locked exactly while one call is in its critical section:
\* no two at once, and none leaves it locked, the throwing one included.
LockDiscipline ==
  /\ \A t, u \in Threads :
       pc[t] \in Holding /\ pc[u] \in Holding /\ Target(t) = Target(u) => t = u
  /\ \A b \in Buckets :
       IsLocked(version[b]) <=>
         \E t \in Threads : pc[t] \in Holding /\ Target(t) = b

\* The power of two choices is made on a consistent snapshot: once the
\* upgrade has succeeded, the chosen bucket was the emptier of the two, ties
\* to the first, at one instant of the call.  An allocation therefore
\* overflows only if both buckets were full at that instant.
ChoiceConsistent ==
  \A t \in Threads : pc[t] \in {"take", "size", "store", "unlock", "increment"} =>
    /\ hBit[t] = 0 <=> snapshot[t][0] >= snapshot[t][1]
    /\ pc[t] = "size" => \A k \in Bits : snapshot[t][k] = 0

\* The assertion in size(), and its doc: it is called when no allocation or
\* free is in progress, so the counters sum up to a size of the table.
SizeAssertion ==
  \A t \in Threads :
    pc[t] = "size" /\ unread[t] = {}
      => total[t] \in 0 .. Entries * Cardinality(Buckets)

\* The table never writes into an object that a client owns before and after
\* the step: the links of the free list are threaded through free slots only.
KeepsObjects ==
  \A b \in Buckets, i \in Slots :
    nextFree[b][i] = Object /\ held[b][i] > 0 /\ held'[b][i] > 0
      => nextFree'[b][i] = Object

ObjectsUntouched == [][KeepsObjects]_vars

\* Every call returns or throws: no call is left waiting for a bucket, and
\* the retries of optimistic attempts do not keep each other failing.
CallsReturn == \A t \in Threads : pc[t] # "idle" ~> pc[t] = "idle"

---------------------------------------------------------------------------
(* Why the properties hold: an invariant that every step preserves.  It    *)
(* depends on no version wrapping around under an optimistic lock.         *)

\* An optimistic lock remembers an unlocked version.
OptimisticUnlocked ==
  \A t \in Threads, k \in Bits :
    pc[t] \in Reading(k) => ~ IsLocked(lockedVersion[t][k])

\* While the version of a bucket is the one a call remembers, what the call
\* has read from the bucket is what the bucket contains, even though the
\* reads were made one by one.
ReadsConsistent ==
  \A t \in Threads :
    /\ pc[t] = "countSecond" /\ StillAt(t, 0)
         => h1Count[t] = freeCount[bucket[t][0]]
    /\ pc[t] \in {"readHead", "readNext", "validate"}
         /\ StillAt(t, 0) /\ StillAt(t, 1)
         => (hBit[t] = 0 <=> freeCount[bucket[t][0]] >= freeCount[bucket[t][1]])
    /\ pc[t] \in {"readNext", "validate", "upgrade"} /\ StillAt(t, hBit[t])
         => objectIndex[t] = freeIndex[Target(t)]
    /\ pc[t] \in {"validate", "upgrade"} /\ StillAt(t, hBit[t])
         /\ freeCount[Target(t)] > 0
         => nextIndex[t] = nextFree[Target(t)][objectIndex[t]]
    /\ pc[t] = "upgrade" /\ StillAt(t, hBit[t])
         => /\ hBit[t] = 0 <=> snapshot[t][0] >= snapshot[t][1]
            /\ snapshot[t][hBit[t]] = freeCount[Target(t)]

\* The same under the exclusive lock, step by step.
CriticalConsistent ==
  \A t \in Threads :
    /\ pc[t] \in {"take", "store"} => objectIndex[t] = freeIndex[Target(t)]
    /\ (pc[t] = "take" /\ freeCount[Target(t)] > 0) \/ pc[t] = "store"
         => nextIndex[t] = nextFree[Target(t)][objectIndex[t]]
    /\ pc[t] = "take" => snapshot[t][hBit[t]] = freeCount[Target(t)]
    /\ pc[t] = "push" => nextFree[Target(t)][objectIndex[t]] = freeIndex[Target(t)]
    /\ pc[t] \in Claiming => objectIndex[t] \in Slots

TableInv ==
  /\ TypeOK
  /\ LockDiscipline
  /\ OptimisticUnlocked
  /\ wrapped = {} => /\ ReadsConsistent
                     /\ CriticalConsistent
                     /\ ChoiceConsistent
                     /\ NoDoubleAllocation
                     /\ FreeListIntact

===========================================================================
