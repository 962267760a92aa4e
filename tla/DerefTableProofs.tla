------------------------- MODULE DerefTableProofs -------------------------
(***************************************************************************)
(* What holds of the dereference table for any number of threads, buckets  *)
(* and slots, any hashes, and any even number of versions, 256 included.   *)
(***************************************************************************)
EXTENDS DerefTableRefines, DerefTableStats, FiniteSetTheorems,
        WellFoundedInduction, TLAPS

USE DerefTableAssumption

(* A fetch_add(1) locks an unlocked version and unlocks a locked one, also *)
(* where the version wraps.                                                *)
LEMMA BumpFlips ==
  ASSUME NEW v \in Versions
  PROVE  /\ Bump(v) \in Versions
         /\ IsLocked(Bump(v)) <=> ~ IsLocked(v)
  BY DEF Versions, Bump, IsLocked

(* Updates of the counters kept per bucket and per slot.                   *)
LEMMA CounterDown ==
  ASSUME NEW S, NEW f \in [S -> Nat], NEW x \in S, f[x] # 0
  PROVE  [f EXCEPT ![x] = @ - 1] \in [S -> Nat]
  OBVIOUS

LEMMA SlotCounterUp ==
  ASSUME NEW S, NEW T, NEW f \in [S -> [T -> Nat]], NEW x \in S, NEW y
  PROVE  [f EXCEPT ![x][y] = @ + 1] \in [S -> [T -> Nat]]
<1>1. \A z \in T : [f[x] EXCEPT ![y] = @ + 1][z] \in Nat
  OBVIOUS
<1>2. [f[x] EXCEPT ![y] = @ + 1] \in [T -> Nat]
  BY <1>1
<1> QED
  BY <1>2

LEMMA SlotCounterDown ==
  ASSUME NEW S, NEW T, NEW f \in [S -> [T -> Nat]], NEW x \in S, NEW y \in T,
         f[x][y] > 0
  PROVE  [f EXCEPT ![x][y] = @ - 1] \in [S -> [T -> Nat]]
<1>1. [f[x] EXCEPT ![y] = @ - 1] \in [T -> Nat]
  OBVIOUS
<1> QED
  BY <1>1

(* What the locals of a thread are reset to, and head index zero.          *)
LEMMA DefaultTypes ==
  /\ NoBuckets \in [Bits -> Buckets]
  /\ NoPair \in [Bits -> Versions]
  /\ NoPair \in [Bits -> Nat]
  /\ 0 \in Indices
<1>1. PICK b \in Buckets : TRUE
  OBVIOUS
<1>2. [k \in Bits |-> b] \in [Bits -> Buckets]
  OBVIOUS
<1>3. NoBuckets \in [Bits -> Buckets]
  BY <1>2 DEF NoBuckets
<1> QED
  BY <1>3 DEF NoPair, Versions, Indices

LEMMA TypeInit == Init => TypeOK
  BY DefaultTypes DEF Init, TypeOK, Versions, Indices, Slots, Steps, Bits

(* A step of a call keeps the types.                                       *)
LEMMA TypeStep ==
  ASSUME TypeOK, NEW t \in Threads, Step(t)
  PROVE  TypeOK'
<1> USE DEF TypeOK, Goto, Target, table, locals, counters, budget
<1>1. ASSUME NEW k \in Bits, NEW from \in Steps, NEW to \in Steps,
             LockOptimistically(t, k, from, to)
      PROVE  TypeOK'
  BY <1>1 DEF LockOptimistically
<1>2. CASE LockFirst(t)
  BY <1>1, <1>2 DEF LockFirst, Steps, Reading, Bits
<1>3. CASE LockSecond(t)
  BY <1>1, <1>3 DEF LockSecond, Steps, Reading, Bits
<1>4. CASE CountFirst(t)
  BY <1>4 DEF CountFirst, Steps, Reading, Bits
<1>5. CASE CountSecond(t)
  BY <1>5 DEF CountSecond, Steps, Reading, Bits
<1>6. CASE ReadHead(t)
  BY <1>6 DEF ReadHead, Steps, Reading
<1>7. CASE ReadNext(t)
  <2>1. \A n \in LinksReadable(Target(t), objectIndex[t]) : n \in Indices
    BY DEF LinksReadable
  <2> QED
    BY <1>7, <2>1 DEF ReadNext, Steps, Reading
<1>8. CASE Validate(t)
  BY <1>8 DEF Validate, Steps, Reading, Bits
<1>9. ASSUME Retry(t) PROVE TypeOK'
  BY <1>9, DefaultTypes DEF Retry, ForgetReads, Steps, Bits
<1>10. CASE ValidateFails(t) \/ UpgradeFails(t)
  BY <1>9, <1>10 DEF ValidateFails, UpgradeFails
<1>11. CASE Upgrade(t)
  BY <1>11, BumpFlips DEF Upgrade, Steps, Holding
<1>12. CASE Take(t)
  <2>1. /\ freeCount[Target(t)] # 0
        /\ freeCount' = [freeCount EXCEPT ![Target(t)] = @ - 1]
        /\ freeCount \in [Buckets -> Nat]
        /\ Target(t) \in Buckets
    BY <1>12 DEF Take
  <2>2. freeCount' \in [Buckets -> Nat]
    <3> HIDE DEF TypeOK, Target
    <3> QED
      BY <2>1, CounterDown
  <2> QED
    BY <1>12, <2>2 DEF Take, Steps, Holding
<1>13. CASE Overflow(t)
  BY <1>13 DEF Overflow, Steps, Holding
<1>14. ASSUME NEW u \in Threads, ReadCounter(t, u) PROVE TypeOK'
  BY <1>14 DEF ReadCounter
<1>15. \A b, v : Lapped(b, v) \subseteq Threads
  BY DEF Lapped
<1>16. CASE Throw(t)
  <2>1. /\ version' \in [Buckets -> Versions]
        /\ wrapped' \in SUBSET Threads
        /\ UNCHANGED <<freeCount, freeIndex, nextFree, held, unread, size,
                       maxSize, allocs, frees>>
    BY <1>15, <1>16, BumpFlips DEF Throw, Unlock
  <2>2. /\ pc' \in [Threads -> Steps]
        /\ bucket' \in [Threads -> [Bits -> Buckets]]
        /\ total' \in [Threads -> Int]
    BY <1>16, DefaultTypes DEF Throw, Steps
  <2>3. /\ lockedVersion' \in [Threads -> [Bits -> Versions]]
        /\ h1Count' \in [Threads -> Nat]
        /\ hBit' \in [Threads -> Bits]
        /\ objectIndex' \in [Threads -> Indices]
        /\ nextIndex' \in [Threads -> Indices]
        /\ snapshot' \in [Threads -> [Bits -> Nat]]
    BY <1>16, DefaultTypes DEF Throw, ForgetReads, Bits
  <2> QED
    BY <2>1, <2>2, <2>3
<1>17. CASE Store(t)
  BY <1>17 DEF Store, Steps, Holding
<1>18. CASE UnlockAllocated(t)
  BY <1>15, <1>18, BumpFlips DEF UnlockAllocated, Unlock, Steps
<1>19. CASE IncrementSize(t)
  <2>1. /\ size' \in [Threads -> Int]
        /\ UNCHANGED <<version, freeCount, freeIndex, nextFree, unread, total,
                       allocs, frees, wrapped>>
    BY <1>19 DEF IncrementSize
  <2>4. maxSize' \in [Threads -> Nat]
    BY <1>19 DEF IncrementSize
  <2>5. held' \in [Buckets -> [Slots -> Nat]]
    <3>1. /\ held' = [held EXCEPT ![Target(t)][objectIndex[t]] = @ + 1]
          /\ held \in [Buckets -> [Slots -> Nat]]
          /\ Target(t) \in Buckets
      BY <1>19 DEF IncrementSize
    <3> HIDE DEF TypeOK, Target
    <3> QED
      BY <3>1, SlotCounterUp
  <2>2. /\ pc' \in [Threads -> Steps]
        /\ bucket' \in [Threads -> [Bits -> Buckets]]
    BY <1>19, DefaultTypes DEF IncrementSize, Steps
  <2>3. /\ lockedVersion' \in [Threads -> [Bits -> Versions]]
        /\ h1Count' \in [Threads -> Nat]
        /\ hBit' \in [Threads -> Bits]
        /\ objectIndex' \in [Threads -> Indices]
        /\ nextIndex' \in [Threads -> Indices]
        /\ snapshot' \in [Threads -> [Bits -> Nat]]
    BY <1>19, DefaultTypes DEF IncrementSize, ForgetReads, Bits
  <2> QED
    BY <2>1, <2>2, <2>3, <2>4, <2>5
<1>20. CASE LockExclusive(t)
  BY <1>20, BumpFlips DEF LockExclusive, Steps, Holding
<1>21. CASE Link(t)
  BY <1>21 DEF Link, Steps, Holding
<1>22. CASE Push(t)
  BY <1>22 DEF Push, Steps, Holding
<1>23. CASE Count(t)
  BY <1>23 DEF Count, Steps, Holding
<1>24. CASE UnlockFreed(t)
  BY <1>15, <1>24, BumpFlips DEF UnlockFreed, Unlock, Steps
<1>25. CASE DecrementSize(t)
  BY <1>25, DefaultTypes DEF DecrementSize, ForgetReads, Steps, Bits
<1> QED
  BY <1>2, <1>3, <1>4, <1>5, <1>6, <1>7, <1>8, <1>10, <1>11, <1>12, <1>13,
     <1>14, <1>16, <1>17, <1>18, <1>19, <1>20, <1>21, <1>22, <1>23, <1>24,
     <1>25
  DEF Step

LEMMA TypeNext == TypeOK /\ [Next]_vars => TypeOK'
<1> SUFFICES ASSUME TypeOK, [Next]_vars PROVE TypeOK'
  OBVIOUS
<1> USE DEF TypeOK, Goto, table, locals, counters, budget
<1>1. ASSUME NEW t \in Threads, NEW h \in Hashes, BeginAllocate(t, h)
      PROVE  TypeOK'
  BY <1>1 DEF BeginAllocate, Steps
<1>2. ASSUME NEW t \in Threads, NEW b \in Buckets, NEW i \in Slots,
             BeginFree(t, b, i)
      PROVE  TypeOK'
  <2>1. held' \in [Buckets -> [Slots -> Nat]]
    <3>1. /\ held' = [held EXCEPT ![b][i] = @ - 1]
          /\ held \in [Buckets -> [Slots -> Nat]]
          /\ held[b][i] > 0
      BY <1>2 DEF BeginFree
    <3>2. [held EXCEPT ![b][i] = @ - 1] \in [Buckets -> [Slots -> Nat]]
      <4> HIDE DEF TypeOK
      <4> QED
        BY <3>1, SlotCounterDown
    <3> QED
      BY <3>1, <3>2
  <2>2. /\ objectIndex' \in [Threads -> Indices]
        /\ frees' \in 0 .. MaxFrees
    BY <1>2 DEF BeginFree, Indices, Slots
  <2>3. bucket' \in [Threads -> [Bits -> Buckets]]
    BY <1>2 DEF BeginFree
  <2>4. pc' \in [Threads -> Steps]
    BY <1>2 DEF BeginFree, Steps
  <2> QED
    BY <1>2, <2>1, <2>2, <2>3, <2>4 DEF BeginFree
<1>3. ASSUME NEW t \in Threads, Step(t) PROVE TypeOK'
  BY <1>3, TypeStep
<1>4. ASSUME NEW b \in Buckets, NEW i \in Slots, WriteObject(b, i)
      PROVE  TypeOK'
  BY <1>4 DEF WriteObject
<1>5. CASE Stop \/ UNCHANGED vars
  BY <1>5 DEF Stop, vars
<1> QED
  BY <1>1, <1>2, <1>3, <1>4, <1>5 DEF Next

(* Every variable keeps its type: in particular no free count goes below   *)
(* zero, wrapped versions or not.                                          *)
THEOREM TypeCorrect == Spec => []TypeOK
  BY TypeInit, TypeNext, PTL DEF Spec

---------------------------------------------------------------------------
(* What a step of one thread leaves alone.                                 *)

Act(t) ==
  \/ \E h \in Hashes : BeginAllocate(t, h)
  \/ \E b \in Buckets, i \in Slots : BeginFree(t, b, i)
  \/ Step(t)

SameLocals(u) ==
  /\ pc'[u] = pc[u]
  /\ bucket'[u] = bucket[u]
  /\ lockedVersion'[u] = lockedVersion[u]
  /\ h1Count'[u] = h1Count[u]
  /\ hBit'[u] = hBit[u]
  /\ objectIndex'[u] = objectIndex[u]
  /\ nextIndex'[u] = nextIndex[u]
  /\ snapshot'[u] = snapshot[u]

LEMMA OthersKeepLocals ==
  ASSUME TypeOK, NEW t \in Threads, NEW u \in Threads \ {t}, Act(t)
  PROVE  SameLocals(u)
<1> USE DEF SameLocals, Goto, locals
<1>0. /\ pc \in [Threads -> Steps]
      /\ bucket \in [Threads -> [Bits -> Buckets]]
      /\ lockedVersion \in [Threads -> [Bits -> Versions]]
      /\ h1Count \in [Threads -> Nat]
      /\ hBit \in [Threads -> Bits]
      /\ objectIndex \in [Threads -> Indices]
      /\ nextIndex \in [Threads -> Indices]
      /\ snapshot \in [Threads -> [Bits -> Nat]]
  BY DEF TypeOK
<1>1. ASSUME NEW h \in Hashes, BeginAllocate(t, h) PROVE SameLocals(u)
  BY <1>0, <1>1 DEF BeginAllocate
<1>2. ASSUME NEW b \in Buckets, NEW i \in Slots, BeginFree(t, b, i)
      PROVE  SameLocals(u)
  BY <1>0, <1>2 DEF BeginFree
<1>3. CASE LockFirst(t) \/ LockSecond(t)
  BY <1>0, <1>3 DEF LockFirst, LockSecond, LockOptimistically
<1>4. CASE CountFirst(t) \/ CountSecond(t)
  BY <1>0, <1>4 DEF CountFirst, CountSecond
<1>5. CASE ReadHead(t) \/ ReadNext(t) \/ Validate(t)
  BY <1>0, <1>5 DEF ReadHead, ReadNext, Validate
<1>6. CASE ValidateFails(t) \/ UpgradeFails(t)
  BY <1>0, <1>6 DEF ValidateFails, UpgradeFails, Retry, ForgetReads
<1>7. CASE Upgrade(t) \/ Take(t) \/ Overflow(t) \/ Store(t) \/ UnlockAllocated(t)
  BY <1>0, <1>7 DEF Upgrade, Take, Overflow, Store, UnlockAllocated
<1>8. CASE (\E w \in Threads : ReadCounter(t, w)) \/ Throw(t)
  BY <1>0, <1>8 DEF ReadCounter, Throw, ForgetReads
<1>9. CASE IncrementSize(t) \/ DecrementSize(t)
  BY <1>0, <1>9 DEF IncrementSize, DecrementSize, ForgetReads
<1>10. CASE \/ LockExclusive(t) \/ Link(t) \/ Push(t) \/ Count(t)
            \/ UnlockFreed(t)
  BY <1>0, <1>10 DEF LockExclusive, Link, Push, Count, UnlockFreed
<1> QED
  BY <1>1, <1>2, <1>3, <1>4, <1>5, <1>6, <1>7, <1>8, <1>9, <1>10 DEF Act, Step

---------------------------------------------------------------------------
(* The sequence locks.                                                     *)

Locks(t, b) == pc[t] \in Holding /\ Target(t) = b

\* The three things a step of t can do to the locks.
LocksKept(t) ==
  /\ version' = version
  /\ \A b \in Buckets : Locks(t, b)' <=> Locks(t, b)

Locked(t) ==
  \E b \in Buckets :
    /\ ~ IsLocked(version[b])
    /\ version' = [version EXCEPT ![b] = Bump(@)]
    /\ \A c \in Buckets : ~ Locks(t, c) /\ (Locks(t, c)' <=> c = b)

Unlocked(t) ==
  \E b \in Buckets :
    /\ Unlock(b)
    /\ \A c \in Buckets : (Locks(t, c) <=> c = b) /\ ~ Locks(t, c)'

LEMMA TargetType ==
  ASSUME TypeOK, NEW t \in Threads
  PROVE  Target(t) \in Buckets
  BY DEF TypeOK, Target

LEMMA LockEffect ==
  ASSUME TypeOK, OptimisticUnlocked, NEW t \in Threads, Act(t)
  PROVE  LocksKept(t) \/ Locked(t) \/ Unlocked(t)
<1> USE DEF Goto
<1>0. /\ pc \in [Threads -> Steps]
      /\ bucket \in [Threads -> [Bits -> Buckets]]
      /\ hBit \in [Threads -> Bits]
      /\ Target(t) \in Buckets
  BY TargetType DEF TypeOK
<1>1. CASE \/ \E h \in Hashes : BeginAllocate(t, h)
           \/ \E b \in Buckets, i \in Slots : BeginFree(t, b, i)
           \/ LockFirst(t) \/ LockSecond(t) \/ CountFirst(t) \/ CountSecond(t)
           \/ ReadHead(t) \/ ReadNext(t) \/ Validate(t)
           \/ ValidateFails(t) \/ UpgradeFails(t)
           \/ IncrementSize(t) \/ DecrementSize(t)
  <2>1. version' = version /\ pc[t] \notin Holding /\ pc'[t] \notin Holding
    BY <1>0, <1>1
    DEF BeginAllocate, BeginFree, LockFirst, LockSecond, LockOptimistically,
        CountFirst, CountSecond, ReadHead, ReadNext, Validate, ValidateFails,
        UpgradeFails, Retry, IncrementSize, DecrementSize, table, Holding
  <2> QED
    BY <2>1 DEF LocksKept, Locks
<1>2. CASE \/ Take(t) \/ Overflow(t) \/ (\E u \in Threads : ReadCounter(t, u))
           \/ Store(t) \/ Link(t) \/ Push(t) \/ Count(t)
  <2>1. /\ version' = version /\ bucket' = bucket /\ hBit' = hBit
        /\ pc[t] \in Holding /\ pc'[t] \in Holding
    BY <1>0, <1>2
    DEF Take, Overflow, ReadCounter, Store, Link, Push, Count, table, locals,
        Holding
  <2> QED
    BY <2>1 DEF LocksKept, Locks, Target
<1>3. CASE Upgrade(t) \/ LockExclusive(t)
  <2>1. /\ version' = [version EXCEPT ![Target(t)] = Bump(@)]
        /\ bucket' = bucket /\ hBit' = hBit
        /\ pc[t] \notin Holding /\ pc'[t] \in Holding
    BY <1>0, <1>3 DEF Upgrade, LockExclusive, locals, Holding
  <2>2. ~ IsLocked(version[Target(t)])
    BY <1>0, <1>3
    DEF Upgrade, LockExclusive, OptimisticUnlocked, Reading, StillAt, Target
  <2>3. \A c \in Buckets : ~ Locks(t, c) /\ (Locks(t, c)' <=> c = Target(t))
    BY <2>1 DEF Locks, Target
  <2> QED
    BY <1>0, <2>1, <2>2, <2>3 DEF Locked
<1>4. CASE Throw(t) \/ UnlockAllocated(t) \/ UnlockFreed(t)
  <2>1. Unlock(Target(t)) /\ pc[t] \in Holding /\ pc'[t] \notin Holding
    BY <1>0, <1>4 DEF Throw, UnlockAllocated, UnlockFreed, Holding
  <2> QED
    BY <1>0, <2>1 DEF Unlocked, Locks
<1> QED
  BY <1>1, <1>2, <1>3, <1>4 DEF Act, Step

LEMMA LockDisciplineStep ==
  ASSUME TypeOK, TypeOK', LockDiscipline, OptimisticUnlocked,
         NEW t \in Threads, Act(t)
  PROVE  LockDiscipline'
<1>1. \A u \in Threads \ {t} : \A b \in Buckets : Locks(u, b)' <=> Locks(u, b)
  BY OthersKeepLocals DEF SameLocals, Locks, Target
<1>2. \A u, v \in Threads, b \in Buckets : Locks(u, b) /\ Locks(v, b) => u = v
  BY DEF LockDiscipline, Locks
<1>3. \A b \in Buckets : IsLocked(version[b]) <=> \E u \in Threads : Locks(u, b)
  BY DEF LockDiscipline, Locks
<1>4. version \in [Buckets -> Versions]
  BY DEF TypeOK
<1>5. ASSUME \A u, v \in Threads, b \in Buckets : Locks(u, b)' /\ Locks(v, b)' => u = v,
             \A b \in Buckets : IsLocked(version'[b]) <=> \E u \in Threads : Locks(u, b)'
      PROVE  LockDiscipline'
  <2>1. \A u \in Threads : Target(u)' \in Buckets
    BY DEF TypeOK, Target
  <2> QED
    BY <1>5, <2>1 DEF LockDiscipline, Locks
<1>6. CASE LocksKept(t)
  BY <1>1, <1>2, <1>3, <1>5, <1>6 DEF LocksKept
<1>7. CASE Locked(t)
  <2>1. PICK b \in Buckets :
          /\ ~ IsLocked(version[b])
          /\ version' = [version EXCEPT ![b] = Bump(@)]
          /\ \A c \in Buckets : ~ Locks(t, c) /\ (Locks(t, c)' <=> c = b)
    BY <1>7 DEF Locked
  <2>2. IsLocked(version'[b])
    BY <1>4, <2>1, BumpFlips
  <2>3. \A c \in Buckets \ {b} : version'[c] = version[c]
    BY <1>4, <2>1
  <2>4. \A u \in Threads : ~ Locks(u, b)
    BY <1>3, <2>1
  <2> QED
    BY <1>1, <1>2, <1>3, <1>5, <2>1, <2>2, <2>3, <2>4
<1>8. CASE Unlocked(t)
  <2>1. PICK b \in Buckets :
          /\ Unlock(b)
          /\ \A c \in Buckets : (Locks(t, c) <=> c = b) /\ ~ Locks(t, c)'
    BY <1>8 DEF Unlocked
  <2>2. ~ IsLocked(version'[b])
    BY <1>3, <1>4, <2>1, BumpFlips DEF Unlock
  <2>3. \A c \in Buckets \ {b} : version'[c] = version[c]
    BY <1>4, <2>1 DEF Unlock
  <2>4. \A u \in Threads \ {t} : ~ Locks(u, b)
    BY <1>2, <2>1
  <2> QED
    BY <1>1, <1>2, <1>3, <1>5, <2>1, <2>2, <2>3, <2>4
<1> QED
  BY <1>6, <1>7, <1>8, LockEffect

LEMMA OptimisticUnlockedStep ==
  ASSUME TypeOK, TypeOK', OptimisticUnlocked, NEW t \in Threads, Act(t)
  PROVE  OptimisticUnlocked'
<1> USE DEF Goto
<1>0. /\ pc \in [Threads -> Steps]
      /\ lockedVersion \in [Threads -> [Bits -> Versions]]
  BY DEF TypeOK
<1>1. ASSUME NEW u \in Threads \ {t}, NEW k \in Bits, pc'[u] \in Reading(k)
      PROVE  ~ IsLocked(lockedVersion'[u][k])
  BY <1>1, OthersKeepLocals DEF SameLocals, OptimisticUnlocked
<1>2. ASSUME NEW k \in Bits, pc'[t] \in Reading(k)
      PROVE  ~ IsLocked(lockedVersion'[t][k])
  <2>1. CASE LockFirst(t) \/ LockSecond(t)
    BY <1>0, <1>2, <2>1
    DEF LockFirst, LockSecond, LockOptimistically, OptimisticUnlocked, Reading,
        Bits
  <2>2. CASE \/ CountFirst(t) \/ CountSecond(t) \/ ReadHead(t) \/ ReadNext(t)
             \/ Validate(t) \/ (\E u \in Threads : ReadCounter(t, u))
    BY <1>0, <1>2, <2>2
    DEF CountFirst, CountSecond, ReadHead, ReadNext, Validate, ReadCounter,
        locals, OptimisticUnlocked, Reading
  <2>3. CASE \/ \E h \in Hashes : BeginAllocate(t, h)
             \/ \E b \in Buckets, i \in Slots : BeginFree(t, b, i)
             \/ ValidateFails(t) \/ UpgradeFails(t) \/ Upgrade(t) \/ Take(t)
             \/ Overflow(t) \/ Throw(t) \/ Store(t) \/ UnlockAllocated(t)
             \/ IncrementSize(t) \/ LockExclusive(t) \/ Link(t) \/ Push(t)
             \/ Count(t) \/ UnlockFreed(t) \/ DecrementSize(t)
    BY <1>0, <1>2, <2>3
    DEF BeginAllocate, BeginFree, ValidateFails, UpgradeFails, Retry, Upgrade,
        Take, Overflow, Throw, Store, UnlockAllocated, IncrementSize,
        LockExclusive, Link, Push, Count, UnlockFreed, DecrementSize, Reading
  <2> QED
    BY <2>1, <2>2, <2>3 DEF Act, Step
<1> QED
  BY <1>1, <1>2 DEF OptimisticUnlocked

---------------------------------------------------------------------------
(* What optimistic reads are worth.                                        *)

\* The memory of bucket b that its lock protects.
SameBucket(b) ==
  /\ freeCount'[b] = freeCount[b]
  /\ freeIndex'[b] = freeIndex[b]
  /\ nextFree'[b] = nextFree[b]

(* A call writes to a bucket only while it holds its lock.                 *)
LEMMA ContentGuarded ==
  ASSUME TypeOK, NEW t \in Threads, Act(t), NEW b \in Buckets, ~ Locks(t, b)
  PROVE  SameBucket(b)
<1> USE DEF SameBucket, Goto
<1>0. /\ pc \in [Threads -> Steps]
      /\ freeCount \in [Buckets -> Nat]
      /\ freeIndex \in [Buckets -> Indices]
      /\ nextFree \in [Buckets -> [Slots -> Indices \cup {Object}]]
      /\ Target(t) \in Buckets
  BY TargetType DEF TypeOK
<1>1. CASE \/ \E h \in Hashes : BeginAllocate(t, h)
           \/ \E c \in Buckets, i \in Slots : BeginFree(t, c, i)
           \/ LockFirst(t) \/ LockSecond(t) \/ CountFirst(t) \/ CountSecond(t)
           \/ ReadHead(t) \/ ReadNext(t) \/ Validate(t)
           \/ ValidateFails(t) \/ UpgradeFails(t) \/ Upgrade(t) \/ Overflow(t)
           \/ (\E u \in Threads : ReadCounter(t, u)) \/ Throw(t)
           \/ UnlockAllocated(t) \/ IncrementSize(t) \/ LockExclusive(t)
           \/ UnlockFreed(t) \/ DecrementSize(t)
  BY <1>1
  DEF BeginAllocate, BeginFree, LockFirst, LockSecond, LockOptimistically,
      CountFirst, CountSecond, ReadHead, ReadNext, Validate, ValidateFails,
      UpgradeFails, Retry, Upgrade, Overflow, ReadCounter, Throw,
      UnlockAllocated, IncrementSize, LockExclusive, UnlockFreed,
      DecrementSize, table
<1>2. CASE Take(t) \/ Store(t) \/ Link(t) \/ Push(t) \/ Count(t)
  <2>1. Target(t) # b
    BY <1>2 DEF Locks, Holding, Take, Store, Link, Push, Count
  <2> QED
    BY <1>0, <1>2, <2>1 DEF Take, Store, Link, Push, Count
<1> QED
  BY <1>1, <1>2 DEF Act, Step

(* If the version of a bucket is the one an optimistic lock remembers, and *)
(* did not come back to it just now, no other thread has written to the    *)
(* bucket in this step.                                                    *)
LEMMA StableRead ==
  ASSUME TypeOK, LockDiscipline, OptimisticUnlocked, wrapped' = {},
         NEW t \in Threads, Act(t), NEW u \in Threads \ {t}, NEW k \in Bits,
         pc[u] \in Reading(k), StillAt(u, k)'
  PROVE  StillAt(u, k) /\ SameBucket(bucket[u][k])
<1> DEFINE b == bucket[u][k]
           v == lockedVersion[u][k]
<1>1. /\ b \in Buckets /\ v \in Versions /\ ~ IsLocked(v)
      /\ version \in [Buckets -> Versions]
  BY DEF TypeOK, OptimisticUnlocked
<1>2. version'[b] = v
  BY OthersKeepLocals DEF SameLocals, StillAt
<1>3. version[b] = v /\ ~ Locks(t, b)
  <2>1. CASE LocksKept(t)
    <3>1. version[b] = v
      BY <1>2, <2>1 DEF LocksKept
    <3> QED
      BY <1>1, <3>1 DEF LockDiscipline, Locks
  <2>2. CASE Locked(t)
    <3>1. PICK c \in Buckets :
            /\ ~ IsLocked(version[c])
            /\ version' = [version EXCEPT ![c] = Bump(@)]
            /\ \A d \in Buckets : ~ Locks(t, d)
      BY <2>2 DEF Locked
    <3>2. b # c
      <4>1. IsLocked(version'[c])
        BY <1>1, <3>1, BumpFlips
      <4> QED
        BY <1>1, <1>2, <4>1
    <3> QED
      BY <1>1, <1>2, <3>1, <3>2
  <2>3. CASE Unlocked(t)
    <3>1. PICK c \in Buckets :
            /\ Unlock(c)
            /\ \A d \in Buckets : Locks(t, d) <=> d = c
      BY <2>3 DEF Unlocked
    <3>2. b # c
      <4>1. SUFFICES ASSUME b = c PROVE u \in wrapped'
        BY <1>1
      <4>2. Bump(version[b]) = v
        BY <1>1, <1>2, <3>1, <4>1 DEF Unlock
      <4>3. u \in Lapped(b, Bump(version[b]))
        BY <4>2 DEF Lapped
      <4> QED
        BY <3>1, <4>1, <4>3 DEF Unlock
    <3> QED
      BY <1>1, <1>2, <3>1, <3>2 DEF Unlock
  <2> QED
    BY <2>1, <2>2, <2>3, LockEffect
<1> QED
  BY <1>1, <1>3, ContentGuarded DEF StillAt

---------------------------------------------------------------------------
(* Owners and free lists.                                                  *)

Begins(t) == \E b \in Buckets, i \in Slots : BeginFree(t, b, i)

(* Only four steps change who owns a slot.                                 *)
LEMMA OwnersKept ==
  ASSUME TypeOK, NEW t \in Threads, Act(t),
         ~ Store(t), ~ Push(t), ~ IncrementSize(t), ~ Begins(t)
  PROVE  /\ held' = held
         /\ \A u \in Threads, b \in Buckets, i \in Slots :
              Claims(u, b, i)' <=> Claims(u, b, i)
<1> USE DEF Goto
<1>0. /\ pc \in [Threads -> Steps]
      /\ bucket \in [Threads -> [Bits -> Buckets]]
      /\ hBit \in [Threads -> Bits]
      /\ objectIndex \in [Threads -> Indices]
  BY DEF TypeOK
<1>1. \A u \in Threads \ {t} : \A b, i : Claims(u, b, i)' <=> Claims(u, b, i)
  BY OthersKeepLocals DEF SameLocals, Claims, Target
<1>2. CASE \/ \E h \in Hashes : BeginAllocate(t, h)
           \/ LockFirst(t) \/ LockSecond(t) \/ CountFirst(t) \/ CountSecond(t)
           \/ ReadHead(t) \/ ReadNext(t) \/ Validate(t)
           \/ ValidateFails(t) \/ UpgradeFails(t) \/ Upgrade(t) \/ Take(t)
           \/ Overflow(t) \/ (\E u \in Threads : ReadCounter(t, u)) \/ Throw(t)
           \/ Count(t) \/ UnlockFreed(t) \/ DecrementSize(t)
  <2>1. held' = held /\ pc[t] \notin Claiming /\ pc'[t] \notin Claiming
    BY <1>0, <1>2
    DEF BeginAllocate, LockFirst, LockSecond, LockOptimistically, CountFirst,
        CountSecond, ReadHead, ReadNext, Validate, ValidateFails, UpgradeFails,
        Retry, Upgrade, Take, Overflow, ReadCounter, Throw, Count, UnlockFreed,
        DecrementSize, Claiming
  <2> QED
    BY <1>1, <2>1 DEF Claims
<1>3. CASE UnlockAllocated(t) \/ LockExclusive(t) \/ Link(t)
  <2>1. /\ held' = held /\ pc[t] \in Claiming /\ pc'[t] \in Claiming
        /\ bucket' = bucket /\ hBit' = hBit /\ objectIndex' = objectIndex
    BY <1>0, <1>3 DEF UnlockAllocated, LockExclusive, Link, locals, Claiming
  <2> QED
    BY <1>1, <2>1 DEF Claims, Target
<1> QED
  BY <1>2, <1>3 DEF Act, Step, Begins

\* Call t is between the two writes of count and head.
Midway(t, b) == pc[t] \in {"store", "count"} /\ Target(t) = b

(* Only a store to the head changes the length of a list.                  *)
LEMMA ListLengthKept ==
  ASSUME TypeOK, LockDiscipline, NEW t \in Threads, Act(t), NEW b \in Buckets,
         Target(t) = b => ~ Store(t) /\ ~ Push(t)
  PROVE  ListLength(b)' = ListLength(b)
<1> USE DEF Goto
<1>0. /\ pc \in [Threads -> Steps]
      /\ bucket \in [Threads -> [Bits -> Buckets]]
      /\ hBit \in [Threads -> Bits]
      /\ freeCount \in [Buckets -> Nat]
      /\ Target(t) \in Buckets
  BY TargetType DEF TypeOK
<1>1. \A u \in Threads \ {t} : Midway(u, b)' <=> Midway(u, b)
  BY OthersKeepLocals DEF SameLocals, Midway, Target
<1>2. /\ ListLength(b) = IF \E u \in Threads : Midway(u, b) THEN freeCount[b] + 1
                                                          ELSE freeCount[b]
      /\ ListLength(b)' = IF \E u \in Threads : Midway(u, b)' THEN freeCount'[b] + 1
                                                            ELSE freeCount'[b]
  BY DEF ListLength, Midway
<1>3. ASSUME freeCount'[b] = freeCount[b], Midway(t, b)' <=> Midway(t, b)
      PROVE  ListLength(b)' = ListLength(b)
  BY <1>1, <1>2, <1>3
<1>4. CASE Target(t) = b /\ (Take(t) \/ Count(t))
  <2>1. \A u \in Threads \ {t} : ~ Midway(u, b)
    BY <1>4 DEF LockDiscipline, Midway, Holding, Take, Count
  <2>2. CASE Take(t)
    <3>1. ~ Midway(t, b) /\ Midway(t, b)'
      BY <1>0, <1>4, <2>2 DEF Take, Midway, Target, locals
    <3>2. freeCount'[b] = freeCount[b] - 1
      <4>1. /\ freeCount' = [freeCount EXCEPT ![b] = @ - 1]
            /\ b \in DOMAIN freeCount
        BY <1>0, <1>4, <2>2 DEF Take
      <4> QED
        BY <4>1
    <3>3. ListLength(b) = freeCount[b] /\ ListLength(b)' = freeCount'[b] + 1
      BY <1>1, <1>2, <2>1, <3>1
    <3>4. freeCount[b] \in Nat
      BY <1>0
    <3> QED
      BY <3>2, <3>3, <3>4
  <2>3. CASE Count(t)
    <3>1. Midway(t, b) /\ ~ Midway(t, b)'
      BY <1>0, <1>4, <2>3 DEF Count, Midway, Target, locals
    <3>2. freeCount'[b] = freeCount[b] + 1
      BY <1>0, <1>4, <2>3 DEF Count
    <3> QED
      BY <1>0, <1>1, <1>2, <2>1, <3>1, <3>2
  <2> QED
    BY <1>4, <2>2, <2>3
<1>5. CASE Target(t) # b /\ (Take(t) \/ Count(t) \/ Store(t) \/ Push(t))
  BY <1>0, <1>3, <1>5 DEF Take, Count, Store, Push, Midway, Target, locals
<1>6. CASE \/ \E h \in Hashes : BeginAllocate(t, h)
           \/ Begins(t)
           \/ LockFirst(t) \/ LockSecond(t) \/ CountFirst(t) \/ CountSecond(t)
           \/ ReadHead(t) \/ ReadNext(t) \/ Validate(t)
           \/ ValidateFails(t) \/ UpgradeFails(t) \/ Upgrade(t) \/ Overflow(t)
           \/ (\E u \in Threads : ReadCounter(t, u)) \/ Throw(t)
           \/ UnlockAllocated(t) \/ IncrementSize(t) \/ LockExclusive(t)
           \/ Link(t) \/ UnlockFreed(t) \/ DecrementSize(t)
  <2>1. ~ Midway(t, b) /\ ~ Midway(t, b)' /\ freeCount' = freeCount
    BY <1>0, <1>6
    DEF BeginAllocate, Begins, BeginFree, LockFirst, LockSecond,
        LockOptimistically, CountFirst, CountSecond, ReadHead, ReadNext,
        Validate, ValidateFails, UpgradeFails, Retry, Upgrade, Overflow,
        ReadCounter, Throw, UnlockAllocated, IncrementSize, LockExclusive, Link,
        UnlockFreed, DecrementSize, table, Midway
  <2> QED
    BY <1>3, <2>1
<1> QED
  BY <1>4, <1>5, <1>6 DEF Act, Step, Begins

\* The ranks that FreeListOK asks for.
Ranks(b, rank) ==
  /\ freeIndex[b] \in Slots
  /\ ListLength(b) > 0 => rank[freeIndex[b]] = ListLength(b)
  /\ \A i \in Slots : rank[i] > 0 => nextFree[b][i] \in Slots
  /\ \A i \in Slots : rank[i] > 1 => rank[nextFree[b][i]] = rank[i] - 1
  /\ \A i, j \in Slots : rank[i] = rank[j] /\ rank[i] > 0 => i = j
  /\ \A i \in Slots : rank[i] = 0 <=> Owned(b, i)

LEMMA RanksFreeList ==
  ASSUME NEW b
  PROVE  FreeListOK(b) <=> \E rank \in [Slots -> 0 .. ListLength(b)] : Ranks(b, rank)
  BY DEF FreeListOK, Ranks

LEMMA ListLengthType ==
  ASSUME TypeOK, NEW b \in Buckets
  PROVE  ListLength(b) \in Nat
<1>1. freeCount[b] \in Nat
  BY DEF TypeOK
<1> QED
  BY <1>1 DEF ListLength

(* A list stays in order if its head, its length and its links do, and     *)
(* its slots find no owner.                                                *)
LEMMA ListFrame ==
  ASSUME NEW b \in Buckets, FreeListOK(b),
         freeIndex'[b] = freeIndex[b], ListLength(b)' = ListLength(b),
         \A i \in Slots : Owned(b, i)' <=> Owned(b, i),
         \A i \in Slots : ~ Owned(b, i) => nextFree'[b][i] = nextFree[b][i]
  PROVE  FreeListOK(b)'
<1>1. PICK rank \in [Slots -> 0 .. ListLength(b)] : Ranks(b, rank)
  BY RanksFreeList
<1>2. \A i \in Slots : rank[i] > 0 => ~ Owned(b, i) /\ nextFree'[b][i] = nextFree[b][i]
  BY <1>1 DEF Ranks
<1>3. Ranks(b, rank)'
  BY <1>1, <1>2 DEF Ranks
<1> QED
  BY <1>1, <1>3, RanksFreeList DEF FreeListOK, Ranks

(* Storing the head's link to the head takes the head off the list.        *)
LEMMA ListPop ==
  ASSUME TypeOK, NEW b \in Buckets, FreeListOK(b), ListLength(b) > 0,
         freeIndex'[b] = nextFree[b][freeIndex[b]], nextFree'[b] = nextFree[b],
         ListLength(b)' = ListLength(b) - 1,
         \A i \in Slots : Owned(b, i)' <=> Owned(b, i) \/ i = freeIndex[b]
  PROVE  FreeListOK(b)'
<1> DEFINE n == ListLength(b)
           head == freeIndex[b]
<1>1. PICK rank \in [Slots -> 0 .. n] : Ranks(b, rank)
  BY RanksFreeList
<1>2. n \in Nat /\ n > 0
  BY ListLengthType
<1>3. head \in Slots /\ rank[head] = n
  BY <1>1, <1>2 DEF Ranks
<1>4. \A i \in Slots \ {head} : rank[i] \in 0 .. n - 1
  BY <1>1, <1>2, <1>3 DEF Ranks
<1>5. [rank EXCEPT ![head] = 0] \in [Slots -> 0 .. n - 1]
  BY <1>1, <1>2, <1>3, <1>4
<1>6. PICK less \in [Slots -> 0 .. n - 1] :
        less[head] = 0 /\ \A i \in Slots \ {head} : less[i] = rank[i]
  BY <1>1, <1>3, <1>5
<1>7. nextFree[b][head] \in Slots
  BY <1>1, <1>2, <1>3 DEF Ranks
<1>8. ASSUME n > 1
      PROVE  /\ nextFree[b][head] # head
             /\ rank[nextFree[b][head]] = n - 1
  BY <1>1, <1>2, <1>3, <1>8 DEF Ranks
<1>9. ASSUME NEW i \in Slots, i # head, rank[i] > 1
      PROVE  nextFree[b][i] # head /\ nextFree[b][i] \in Slots
  <2>1. rank[nextFree[b][i]] = rank[i] - 1 /\ nextFree[b][i] \in Slots
    BY <1>1, <1>9 DEF Ranks
  <2>2. rank[i] \in Nat /\ rank[i] <= n - 1
    BY <1>2, <1>4, <1>9
  <2> QED
    BY <1>2, <1>3, <2>1, <2>2
<1>10. Ranks(b, less)'
  <2>1. freeIndex'[b] \in Slots
    BY <1>7
  <2>2. ListLength(b)' > 0 => less[freeIndex'[b]] = ListLength(b)'
    <3>1. SUFFICES ASSUME n > 1 PROVE less[nextFree[b][head]] = n - 1
      BY <1>2
    <3> QED
      BY <1>6, <1>7, <1>8, <3>1
  <2>3. \A i \in Slots : less[i] > 0 => nextFree'[b][i] \in Slots
    BY <1>1, <1>6 DEF Ranks
  <2>4. ASSUME NEW i \in Slots, less[i] > 1
        PROVE  less[nextFree'[b][i]] = less[i] - 1
    <3>1. i # head /\ rank[i] > 1
      BY <1>6, <2>4
    <3> QED
      BY <1>1, <1>6, <1>9, <3>1 DEF Ranks
  <2>5. \A i, j \in Slots : less[i] = less[j] /\ less[i] > 0 => i = j
    BY <1>1, <1>6 DEF Ranks
  <2>6. \A i \in Slots : less[i] = 0 <=> Owned(b, i)'
    BY <1>1, <1>6 DEF Ranks
  <2> QED
    BY <2>1, <2>2, <2>3, <2>4, <2>5, <2>6 DEF Ranks
<1> QED
  BY <1>6, <1>10 DEF FreeListOK, Ranks

(* Storing a slot linked to the head as the new head puts it on the list.  *)
LEMMA ListPush ==
  ASSUME TypeOK, NEW b \in Buckets, FreeListOK(b), NEW s \in Slots, Owned(b, s),
         nextFree[b][s] = freeIndex[b],
         freeIndex'[b] = s, nextFree'[b] = nextFree[b],
         ListLength(b)' = ListLength(b) + 1,
         \A i \in Slots : Owned(b, i)' <=> Owned(b, i) /\ i # s
  PROVE  FreeListOK(b)'
<1> DEFINE n == ListLength(b)
<1>1. PICK rank \in [Slots -> 0 .. n] : Ranks(b, rank)
  BY RanksFreeList
<1>2. n \in Nat
  BY ListLengthType
<1>3. rank[s] = 0
  BY <1>1 DEF Ranks
<1>4. [rank EXCEPT ![s] = n + 1] \in [Slots -> 0 .. n + 1]
  BY <1>1, <1>2
<1>5. PICK more \in [Slots -> 0 .. n + 1] :
        /\ more[s] = n + 1
        /\ \A i \in Slots \ {s} : more[i] = rank[i] /\ rank[i] \in 0 .. n
  BY <1>1, <1>4
<1>6. ASSUME NEW i \in Slots, i # s, rank[i] > 1
      PROVE  /\ nextFree[b][i] \in Slots \ {s}
             /\ rank[nextFree[b][i]] = rank[i] - 1
  <2>1. nextFree[b][i] \in Slots /\ rank[nextFree[b][i]] = rank[i] - 1
    BY <1>1, <1>6 DEF Ranks
  <2>2. rank[i] \in Nat
    BY <1>5, <1>6
  <2> QED
    BY <1>3, <1>6, <2>1, <2>2
<1>7. Ranks(b, more)'
  <2>1. freeIndex'[b] \in Slots /\ more[freeIndex'[b]] = ListLength(b)'
    BY <1>5
  <2>2. \A i \in Slots : more[i] > 0 => nextFree'[b][i] \in Slots
    BY <1>1, <1>5 DEF Ranks
  <2>3. ASSUME NEW i \in Slots, more[i] > 1
        PROVE  more[nextFree'[b][i]] = more[i] - 1
    <3>1. CASE i # s
      BY <1>5, <1>6, <2>3, <3>1
    <3>2. CASE i = s
      <4>1. n > 0
        BY <1>2, <1>5, <2>3, <3>2
      <4>2. freeIndex[b] \in Slots \ {s} /\ rank[freeIndex[b]] = n
        BY <1>1, <1>3, <4>1 DEF Ranks
      <4> QED
        BY <1>2, <1>5, <3>2, <4>2
    <3> QED
      BY <3>1, <3>2
  <2>4. \A i, j \in Slots : more[i] = more[j] /\ more[i] > 0 => i = j
    BY <1>1, <1>2, <1>5 DEF Ranks
  <2>5. \A i \in Slots : more[i] = 0 <=> Owned(b, i)'
    BY <1>1, <1>2, <1>5 DEF Ranks
  <2> QED
    BY <2>1, <2>2, <2>3, <2>4, <2>5 DEF Ranks
<1> QED
  BY <1>5, <1>7 DEF FreeListOK, Ranks

(* The head of a list that is not empty has no owner.                      *)
LEMMA HeadFree ==
  ASSUME TypeOK, NEW b \in Buckets, FreeListOK(b), ListLength(b) > 0
  PROVE  /\ freeIndex[b] \in Slots
         /\ nextFree[b][freeIndex[b]] \in Slots
         /\ ~ Owned(b, freeIndex[b])
<1>1. PICK rank \in [Slots -> 0 .. ListLength(b)] : Ranks(b, rank)
  BY RanksFreeList
<1> QED
  BY <1>1, ListLengthType DEF Ranks

(* What the four steps that concern owners do to them.                     *)
LEMMA StoreOwners ==
  ASSUME TypeOK, NEW t \in Threads, Store(t)
  PROVE  /\ held' = held
         /\ \A u \in Threads, b \in Buckets, i \in Slots :
              Claims(u, b, i)' <=> \/ Claims(u, b, i)
                                   \/ u = t /\ b = Target(t) /\ i = objectIndex[t]
<1>1. Act(t)
  BY DEF Act, Step
<1>2. \A u \in Threads \ {t} : \A b, i : Claims(u, b, i)' <=> Claims(u, b, i)
  BY <1>1, OthersKeepLocals DEF SameLocals, Claims, Target
<1>3. /\ held' = held /\ bucket' = bucket /\ hBit' = hBit
      /\ objectIndex' = objectIndex
      /\ pc[t] \notin Claiming /\ pc'[t] \in Claiming
  BY DEF TypeOK, Store, locals, Goto, Claiming
<1> QED
  BY <1>2, <1>3 DEF Claims, Target

LEMMA PushOwners ==
  ASSUME TypeOK, NEW t \in Threads, Push(t)
  PROVE  /\ held' = held
         /\ \A u \in Threads, b \in Buckets, i \in Slots :
              Claims(u, b, i)' <=> Claims(u, b, i) /\ u # t
         /\ \A b \in Buckets, i \in Slots :
              Claims(t, b, i) <=> b = Target(t) /\ i = objectIndex[t]
<1>1. Act(t)
  BY DEF Act, Step
<1>2. \A u \in Threads \ {t} : \A b, i : Claims(u, b, i)' <=> Claims(u, b, i)
  BY <1>1, OthersKeepLocals DEF SameLocals, Claims, Target
<1>3. held' = held /\ pc[t] \in Claiming /\ pc'[t] \notin Claiming
  BY DEF TypeOK, Push, Goto, Claiming
<1> QED
  BY <1>2, <1>3, SMTT(30) DEF Claims, Target

LEMMA IncrementOwners ==
  ASSUME TypeOK, NEW t \in Threads, IncrementSize(t)
  PROVE  /\ \A b \in Buckets, i \in Slots :
              held'[b][i] = IF b = Target(t) /\ i = objectIndex[t]
                            THEN held[b][i] + 1 ELSE held[b][i]
         /\ \A u \in Threads, b \in Buckets, i \in Slots :
              Claims(u, b, i)' <=> Claims(u, b, i) /\ u # t
         /\ \A b \in Buckets, i \in Slots :
              Claims(t, b, i) <=> b = Target(t) /\ i = objectIndex[t]
<1>1. Act(t)
  BY DEF Act, Step
<1>2. \A u \in Threads \ {t} : \A b, i : Claims(u, b, i)' <=> Claims(u, b, i)
  BY <1>1, OthersKeepLocals DEF SameLocals, Claims, Target
<1>3. pc[t] \in Claiming /\ pc'[t] \notin Claiming
  BY DEF TypeOK, IncrementSize, Goto, Claiming
<1>4. held' = [held EXCEPT ![Target(t)][objectIndex[t]] = @ + 1]
  BY DEF IncrementSize
<1>5. held \in [Buckets -> [Slots -> Nat]] /\ Target(t) \in Buckets
  BY TargetType DEF TypeOK
<1>6. \A b \in Buckets, i \in Slots :
        held'[b][i] = IF b = Target(t) /\ i = objectIndex[t]
                      THEN held[b][i] + 1 ELSE held[b][i]
  <2> HIDE DEF Target
  <2> QED
    BY <1>4, <1>5
<1>7. \A b \in Buckets, i \in Slots :
        /\ Claims(t, b, i) <=> b = Target(t) /\ i = objectIndex[t]
        /\ ~ Claims(t, b, i)'
  BY <1>3 DEF Claims
<1>8. \A u \in Threads, b \in Buckets, i \in Slots :
        Claims(u, b, i)' <=> Claims(u, b, i) /\ u # t
  BY <1>2, <1>7
<1> QED
  BY <1>6, <1>7, <1>8

LEMMA BeginFreeOwners ==
  ASSUME TypeOK, NEW t \in Threads, NEW c \in Buckets, NEW s \in Slots,
         BeginFree(t, c, s)
  PROVE  /\ held[c][s] > 0
         /\ \A b \in Buckets, i \in Slots :
              held'[b][i] = IF b = c /\ i = s THEN held[b][i] - 1 ELSE held[b][i]
         /\ \A u \in Threads, b \in Buckets, i \in Slots :
              Claims(u, b, i)' <=> Claims(u, b, i) \/ (u = t /\ b = c /\ i = s)
<1>1. Act(t)
  BY DEF Act
<1>2. \A u \in Threads \ {t} : \A b, i : Claims(u, b, i)' <=> Claims(u, b, i)
  BY <1>1, OthersKeepLocals DEF SameLocals, Claims, Target
<1>3. pc[t] \notin Claiming /\ pc'[t] \in Claiming
  BY DEF TypeOK, BeginFree, Goto, Claiming
<1>4. bucket'[t] = [k \in Bits |-> c] /\ objectIndex'[t] = s /\ hBit'[t] \in Bits
  BY DEF TypeOK, BeginFree
<1>5. held' = [held EXCEPT ![c][s] = @ - 1] /\ held[c][s] > 0
  BY DEF BeginFree
<1>6. held \in [Buckets -> [Slots -> Nat]]
  BY DEF TypeOK
<1>7. ASSUME NEW b \in Buckets, NEW i \in Slots
      PROVE  held'[b][i] = IF b = c /\ i = s THEN held[b][i] - 1 ELSE held[b][i]
  <2>1. CASE b = c
    <3>1. held'[c] = [held[c] EXCEPT ![s] = @ - 1]
      BY <1>5, <1>6
    <3> QED
      BY <1>6, <2>1, <3>1
  <2>2. CASE b # c
    BY <1>5, <1>6, <2>2
  <2> QED
    BY <2>1, <2>2
<1>8. \A b \in Buckets, i \in Slots :
        /\ Claims(t, b, i)' <=> b = c /\ i = s
        /\ ~ Claims(t, b, i)
  BY <1>3, <1>4 DEF Claims, Target
<1>9. \A u \in Threads, b \in Buckets, i \in Slots :
        Claims(u, b, i)' <=> Claims(u, b, i) \/ (u = t /\ b = c /\ i = s)
  BY <1>2, <1>8
<1> QED
  BY <1>5, <1>7, <1>9

LEMMA NoDoubleAllocationStep ==
  ASSUME TypeOK, CriticalConsistent, NoDoubleAllocation, FreeListIntact,
         NEW t \in Threads, Act(t)
  PROVE  NoDoubleAllocation'
<1> USE DEF NoDoubleAllocation
<1>0. \A b \in Buckets, i \in Slots : held[b][i] \in Nat
  BY DEF TypeOK
<1>1. CASE Store(t)
  <2>1. Target(t) \in Buckets /\ Midway(t, Target(t))
    BY <1>1, TargetType DEF Store, Midway
  <2>2. ListLength(Target(t)) > 0
    <3>1. freeCount[Target(t)] \in Nat
      BY <2>1 DEF TypeOK
    <3> QED
      BY <2>1, <3>1 DEF ListLength, Midway
  <2>3. objectIndex[t] = freeIndex[Target(t)]
    BY <1>1 DEF Store, CriticalConsistent
  <2>4. ~ Owned(Target(t), objectIndex[t])
    BY <2>1, <2>2, <2>3, HeadFree DEF FreeListIntact
  <2>5. /\ ~ held[Target(t)][objectIndex[t]] > 0
        /\ \A u \in Threads : ~ Claims(u, Target(t), objectIndex[t])
    BY <2>4 DEF Owned
  <2>6. /\ held' = held
        /\ \A u \in Threads, b \in Buckets, i \in Slots :
             Claims(u, b, i)' <=> \/ Claims(u, b, i)
                                  \/ u = t /\ b = Target(t) /\ i = objectIndex[t]
    BY <1>1, StoreOwners
  <2> HIDE DEF Store
  <2> QED
    BY <1>0, <2>1, <2>5, <2>6
<1>2. CASE Push(t)
  BY <1>2, PushOwners
<1>3. CASE IncrementSize(t)
  BY <1>3, <1>0, IncrementOwners
<1>4. CASE Begins(t)
  <2>1. PICK c \in Buckets, s \in Slots : BeginFree(t, c, s)
    BY <1>4 DEF Begins
  <2> QED
    BY <1>0, <2>1, BeginFreeOwners
<1> QED
  BY <1>1, <1>2, <1>3, <1>4, OwnersKept

(* A call overwrites the link of a slot only while it owns the slot, and   *)
(* the head of a list only in the two steps that change the list.          *)
LEMMA LinksKept ==
  ASSUME TypeOK, NEW t \in Threads, Act(t), NEW b \in Buckets
  PROVE  /\ \A i \in Slots : ~ Owned(b, i) => nextFree'[b][i] = nextFree[b][i]
         /\ Store(t) \/ Push(t) \/ freeIndex'[b] = freeIndex[b]
<1>0. /\ freeIndex \in [Buckets -> Indices]
      /\ nextFree \in [Buckets -> [Slots -> Indices \cup {Object}]]
      /\ Target(t) \in Buckets
  BY TargetType DEF TypeOK
<1>1. CASE Link(t)
  <2>1. /\ nextFree' = [nextFree EXCEPT ![Target(t)][objectIndex[t]] =
                          freeIndex[Target(t)]]
        /\ freeIndex' = freeIndex
    BY <1>1 DEF Link
  <2>2. Claims(t, Target(t), objectIndex[t])
    BY <1>1 DEF Link, Claims, Claiming
  <2>3. ASSUME NEW i \in Slots, ~ Owned(b, i)
        PROVE  nextFree'[b][i] = nextFree[b][i]
    <3>1. ~ (b = Target(t) /\ i = objectIndex[t])
      BY <2>2, <2>3 DEF Owned
    <3> HIDE DEF Target
    <3> QED
      BY <1>0, <2>1, <3>1
  <2> QED
    BY <2>1, <2>3
<1>2. CASE Take(t) \/ Count(t) \/ Store(t) \/ Push(t)
  BY <1>2 DEF Take, Count, Store, Push
<1>3. CASE ~ Link(t) /\ ~ Take(t) /\ ~ Count(t) /\ ~ Store(t) /\ ~ Push(t)
  BY <1>3
  DEF Act, Step, BeginAllocate, BeginFree, LockFirst, LockSecond,
      LockOptimistically, CountFirst, CountSecond, ReadHead, ReadNext, Validate,
      ValidateFails, UpgradeFails, Retry, Upgrade, Overflow, ReadCounter, Throw,
      UnlockAllocated, IncrementSize, LockExclusive, UnlockFreed,
      DecrementSize, table
<1> QED
  BY <1>1, <1>2, <1>3

(* A slot changes hands between its owners without being free in between.  *)
LEMMA OwnedKept ==
  ASSUME TypeOK, NoDoubleAllocation, NEW t \in Threads, Act(t),
         NEW b \in Buckets, Target(t) = b => ~ Store(t) /\ ~ Push(t),
         NEW i \in Slots
  PROVE  Owned(b, i)' <=> Owned(b, i)
<1> USE DEF Owned
<1>0. held[b][i] \in Nat
  BY DEF TypeOK
<1>1. CASE Store(t)
  BY <1>1, StoreOwners
<1>2. CASE Push(t)
  BY <1>2, PushOwners
<1>3. CASE IncrementSize(t)
  BY <1>0, <1>3, IncrementOwners
<1>4. CASE Begins(t)
  <2>1. PICK c \in Buckets, s \in Slots : BeginFree(t, c, s)
    BY <1>4 DEF Begins
  <2>2. CASE b = c /\ i = s
    BY <2>1, <2>2, BeginFreeOwners
  <2>3. CASE ~ (b = c /\ i = s)
    BY <2>1, <2>3, BeginFreeOwners
  <2> QED
    BY <2>2, <2>3
<1> QED
  BY <1>1, <1>2, <1>3, <1>4, OwnersKept

LEMMA FreeListStep ==
  ASSUME TypeOK, LockDiscipline, CriticalConsistent, NoDoubleAllocation,
         FreeListIntact, NEW t \in Threads, Act(t)
  PROVE  FreeListIntact'
<1> SUFFICES ASSUME NEW b \in Buckets PROVE FreeListOK(b)'
  BY DEF FreeListIntact
<1>0. /\ FreeListOK(b)
      /\ freeCount[b] \in Nat
      /\ pc \in [Threads -> Steps]
      /\ bucket \in [Threads -> [Bits -> Buckets]]
      /\ hBit \in [Threads -> Bits]
      /\ freeIndex \in [Buckets -> Indices]
  BY DEF FreeListIntact, TypeOK
<1>1. \A u \in Threads \ {t} : Midway(u, b)' <=> Midway(u, b)
  BY OthersKeepLocals DEF SameLocals, Midway, Target
<1>2. /\ ListLength(b) = IF \E u \in Threads : Midway(u, b) THEN freeCount[b] + 1
                                                          ELSE freeCount[b]
      /\ ListLength(b)' = IF \E u \in Threads : Midway(u, b)' THEN freeCount'[b] + 1
                                                            ELSE freeCount'[b]
  BY DEF ListLength, Midway
<1>3. CASE Store(t) /\ Target(t) = b
  <2>1. /\ Midway(t, b) /\ ~ Midway(t, b)'
        /\ freeCount' = freeCount /\ nextFree' = nextFree
        /\ freeIndex'[b] = nextIndex[t]
    BY <1>0, <1>3 DEF Store, Midway, Goto
  <2>2. \A u \in Threads \ {t} : ~ Midway(u, b)
    BY <1>3 DEF LockDiscipline, Midway, Holding, Store
  <2>3. ListLength(b) = freeCount[b] + 1 /\ ListLength(b)' = freeCount[b]
    BY <1>1, <1>2, <2>1, <2>2
  <2>4. ListLength(b)' = ListLength(b) - 1 /\ ListLength(b) > 0
    <3>1. freeCount[b] \in Nat
      BY <1>0
    <3> QED
      BY <2>3, <3>1
  <2>5. /\ objectIndex[t] = freeIndex[b]
        /\ nextIndex[t] = nextFree[b][freeIndex[b]]
    BY <1>3 DEF CriticalConsistent, Store
  <2>6. ASSUME NEW i \in Slots
        PROVE  Owned(b, i)' <=> Owned(b, i) \/ i = freeIndex[b]
    BY <1>3, <2>5, StoreOwners DEF Owned
  <2> QED
    BY <1>0, <2>1, <2>4, <2>5, <2>6, ListPop
<1>4. CASE Push(t) /\ Target(t) = b
  <2>1. /\ ~ Midway(t, b) /\ Midway(t, b)'
        /\ freeCount' = freeCount /\ nextFree' = nextFree
        /\ freeIndex'[b] = objectIndex[t]
    BY <1>0, <1>4 DEF Push, Midway, Goto, locals, Target
  <2>2. \A u \in Threads \ {t} : ~ Midway(u, b)
    BY <1>4 DEF LockDiscipline, Midway, Holding, Push
  <2>3. ListLength(b)' = ListLength(b) + 1
    BY <1>1, <1>2, <2>1, <2>2
  <2>4. /\ objectIndex[t] \in Slots
        /\ nextFree[b][objectIndex[t]] = freeIndex[b]
    BY <1>4 DEF CriticalConsistent, Push, Claiming
  <2>5. Claims(t, b, objectIndex[t])
    BY <1>4, <2>4, PushOwners
  <2>6. ASSUME NEW i \in Slots
        PROVE  Owned(b, i)' <=> Owned(b, i) /\ i # objectIndex[t]
    <3>1. CASE i = objectIndex[t]
      BY <1>4, <2>5, <3>1, PushOwners DEF Owned, NoDoubleAllocation
    <3>2. CASE i # objectIndex[t]
      BY <1>4, <3>2, PushOwners DEF Owned
    <3> QED
      BY <3>1, <3>2
  <2>7. Owned(b, objectIndex[t])
    BY <2>5 DEF Owned
  <2> QED
    BY <1>0, <2>1, <2>3, <2>4, <2>6, <2>7, ListPush
<1>5. CASE Target(t) = b => ~ Store(t) /\ ~ Push(t)
  <2>1. ListLength(b)' = ListLength(b)
    BY <1>5, ListLengthKept
  <2>2. \A i \in Slots : Owned(b, i)' <=> Owned(b, i)
    BY <1>5, OwnedKept
  <2>3. freeIndex'[b] = freeIndex[b]
    <3>1. CASE Store(t) \/ Push(t)
      BY <1>0, <1>5, <3>1 DEF Store, Push
    <3> QED
      BY <3>1, LinksKept
  <2>4. \A i \in Slots : ~ Owned(b, i) => nextFree'[b][i] = nextFree[b][i]
    BY LinksKept
  <2> QED
    BY <1>0, <2>1, <2>2, <2>3, <2>4, ListFrame
<1> QED
  BY <1>3, <1>4, <1>5

---------------------------------------------------------------------------
(* The reads of a call, thread by thread.                                  *)

ReadsOf(t) ==
  /\ pc[t] = "countSecond" /\ StillAt(t, 0)
       => h1Count[t] = freeCount[bucket[t][0]]
  /\ pc[t] \in {"readHead", "readNext", "validate"}
       /\ StillAt(t, 0) /\ StillAt(t, 1)
       => (hBit[t] = 0 <=> freeCount[bucket[t][0]] >= freeCount[bucket[t][1]])
  /\ pc[t] \in {"readNext", "validate", "upgrade"} /\ StillAt(t, hBit[t])
       => objectIndex[t] = freeIndex[Target(t)]
  /\ pc[t] \in {"validate", "upgrade"} /\ StillAt(t, hBit[t])
       /\ freeCount[Target(t)] > 0
       => nextIndex[t] = nextFree[Target(t)][objectIndex[t]]
  /\ pc[t] = "upgrade" /\ StillAt(t, hBit[t])
       => /\ hBit[t] = 0 <=> snapshot[t][0] >= snapshot[t][1]
          /\ snapshot[t][hBit[t]] = freeCount[Target(t)]

LEMMA ReadsOfAll == ReadsConsistent <=> \A t \in Threads : ReadsOf(t)
  BY DEF ReadsConsistent, ReadsOf

(* The reads of the other threads stay good.                               *)
LEMMA ReadsOfOthers ==
  ASSUME TypeOK, LockDiscipline, OptimisticUnlocked, wrapped' = {},
         NEW t \in Threads, Act(t), NEW u \in Threads \ {t}, ReadsOf(u)
  PROVE  ReadsOf(u)'
<1>1. SameLocals(u)
  BY OthersKeepLocals
<1>2. bucket[u] \in [Bits -> Buckets] /\ hBit[u] \in Bits
  BY DEF TypeOK
<1>3. \A k \in Bits : pc[u] \in Reading(k) /\ StillAt(u, k)'
                        => StillAt(u, k) /\ SameBucket(bucket[u][k])
  BY StableRead
<1>4. CASE pc[u] = "countSecond"
  <2>1. StillAt(u, 0)' => StillAt(u, 0) /\ SameBucket(bucket[u][0])
    BY <1>3, <1>4 DEF Reading, Bits
  <2> QED
    BY <1>1, <1>4, <2>1 DEF ReadsOf, SameLocals, SameBucket
<1>5. CASE pc[u] \in {"readHead", "readNext", "validate", "upgrade"}
  <2>1. \A k \in Bits : StillAt(u, k)' => StillAt(u, k) /\ SameBucket(bucket[u][k])
    BY <1>3, <1>5 DEF Reading
  <2>2. StillAt(u, 0)' => StillAt(u, 0) /\ SameBucket(bucket[u][0])
    BY <2>1 DEF Bits
  <2>3. StillAt(u, 1)' => StillAt(u, 1) /\ SameBucket(bucket[u][1])
    BY <2>1 DEF Bits
  <2>4. StillAt(u, hBit[u])' => StillAt(u, hBit[u]) /\ SameBucket(Target(u))
    BY <1>1, <1>2, <2>1 DEF Target, SameLocals
  <2>5. Target(u)' = Target(u)
    BY <1>1 DEF Target, SameLocals
  <2> QED
    BY <1>1, <1>5, <2>2, <2>3, <2>4, <2>5 DEF ReadsOf, SameLocals, SameBucket
<1>6. CASE pc[u] \notin {"countSecond", "readHead", "readNext", "validate", "upgrade"}
  BY <1>1, <1>6 DEF ReadsOf, SameLocals
<1> QED
  BY <1>4, <1>5, <1>6

(* A link read from an unchanged bucket that is not full is the head's.    *)
LEMMA ReadNextGood ==
  ASSUME TypeOK, FreeListIntact, NEW t \in Threads, ReadNext(t),
         objectIndex[t] = freeIndex[Target(t)], freeCount[Target(t)] > 0
  PROVE  nextIndex'[t] = nextFree[Target(t)][objectIndex[t]]
<1> DEFINE b == Target(t)
<1>1. b \in Buckets
  BY TargetType
<1>2. ListLength(b) > 0
  <2>1. freeCount[b] \in Nat
    BY <1>1 DEF TypeOK
  <2> QED
    BY <2>1 DEF ListLength
<1>3. freeIndex[b] \in Slots /\ nextFree[b][freeIndex[b]] \in Slots
  BY <1>1, <1>2, HeadFree DEF FreeListIntact
<1>4. nextFree[b][freeIndex[b]] # Object
  BY <1>3 DEF Slots, Indices
<1>5. LinksReadable(b, objectIndex[t]) = {nextFree[b][objectIndex[t]]}
  BY <1>3, <1>4 DEF LinksReadable
<1>6. nextIndex \in [Threads -> Indices]
  BY DEF TypeOK
<1> HIDE DEF b
<1> QED
  BY <1>5, <1>6 DEF ReadNext, b

(* The thread that takes the step reads what is there.                     *)
LEMMA ReadsOfSelf ==
  ASSUME TypeOK, FreeListIntact, NEW t \in Threads, Act(t), ReadsOf(t)
  PROVE  ReadsOf(t)'
<1> USE DEF Goto
<1>0. /\ pc \in [Threads -> Steps]
      /\ bucket \in [Threads -> [Bits -> Buckets]]
      /\ h1Count \in [Threads -> Nat]
      /\ hBit \in [Threads -> Bits]
      /\ objectIndex \in [Threads -> Indices]
      /\ nextIndex \in [Threads -> Indices]
      /\ snapshot \in [Threads -> [Bits -> Nat]]
      /\ freeCount \in [Buckets -> Nat]
  BY DEF TypeOK
<1>1. CASE CountFirst(t)
  BY <1>0, <1>1 DEF CountFirst, ReadsOf, table
<1>2. CASE CountSecond(t)
  BY <1>0, <1>2 DEF CountSecond, ReadsOf, StillAt, table, Bits
<1>3. CASE ReadHead(t)
  BY <1>0, <1>3 DEF ReadHead, ReadsOf, StillAt, Target, table
<1>4. CASE ReadNext(t)
  <2>1. /\ pc[t] = "readNext" /\ pc'[t] = "validate"
        /\ UNCHANGED <<version, freeCount, freeIndex, nextFree, bucket,
                       lockedVersion, h1Count, hBit, objectIndex>>
    BY <1>0, <1>4 DEF ReadNext, table
  <2>2. Target(t)' = Target(t) /\ \A k : StillAt(t, k)' <=> StillAt(t, k)
    BY <2>1 DEF Target, StillAt
  <2>3. StillAt(t, hBit[t]) /\ freeCount[Target(t)] > 0
          => nextIndex'[t] = nextFree[Target(t)][objectIndex[t]]
    BY <1>4, <2>1, ReadNextGood DEF ReadsOf
  <2> QED
    BY <2>1, <2>2, <2>3 DEF ReadsOf
<1>5. CASE Validate(t)
  <2>1. /\ pc[t] = "validate" /\ pc'[t] = "upgrade"
        /\ StillAt(t, 1 - hBit[t])
        /\ snapshot'[t] = [k \in Bits |-> freeCount[bucket[t][k]]]
        /\ UNCHANGED <<version, freeCount, freeIndex, nextFree, bucket,
                       lockedVersion, h1Count, hBit, objectIndex, nextIndex>>
    BY <1>0, <1>5 DEF Validate, table
  <2>2. Target(t)' = Target(t) /\ \A k : StillAt(t, k)' <=> StillAt(t, k)
    BY <2>1 DEF Target, StillAt
  <2>3. StillAt(t, hBit[t]) => StillAt(t, 0) /\ StillAt(t, 1)
    BY <1>0, <2>1 DEF Bits
  <2>4. /\ snapshot'[t][0] = freeCount[bucket[t][0]]
        /\ snapshot'[t][1] = freeCount[bucket[t][1]]
        /\ snapshot'[t][hBit[t]] = freeCount[Target(t)]
    BY <1>0, <2>1 DEF Bits, Target
  <2> QED
    BY <2>1, <2>2, <2>3, <2>4 DEF ReadsOf
<1>6. CASE ~ CountFirst(t) /\ ~ CountSecond(t) /\ ~ ReadHead(t) /\ ~ ReadNext(t)
             /\ ~ Validate(t)
  <2>1. pc'[t] \notin {"countSecond", "readHead", "readNext", "validate", "upgrade"}
    BY <1>0, <1>6
    DEF Act, Step, BeginAllocate, BeginFree, LockFirst, LockSecond,
        LockOptimistically, ValidateFails, UpgradeFails, Retry, Upgrade, Take,
        Overflow, ReadCounter, Throw, Store, UnlockAllocated, IncrementSize,
        LockExclusive, Link, Push, Count, UnlockFreed, DecrementSize
  <2> QED
    BY <2>1 DEF ReadsOf
<1> QED
  BY <1>1, <1>2, <1>3, <1>4, <1>5, <1>6

---------------------------------------------------------------------------
(* The critical sections, thread by thread.                                *)

CriticalOf(t) ==
  /\ pc[t] \in {"take", "store"} => objectIndex[t] = freeIndex[Target(t)]
  /\ (pc[t] = "take" /\ freeCount[Target(t)] > 0) \/ pc[t] = "store"
       => nextIndex[t] = nextFree[Target(t)][objectIndex[t]]
  /\ pc[t] = "take" => snapshot[t][hBit[t]] = freeCount[Target(t)]
  /\ pc[t] = "push" => nextFree[Target(t)][objectIndex[t]] = freeIndex[Target(t)]
  /\ pc[t] \in Claiming => objectIndex[t] \in Slots

LEMMA CriticalOfAll == CriticalConsistent <=> \A t \in Threads : CriticalOf(t)
  BY DEF CriticalConsistent, CriticalOf

(* A bucket held by another call is not written to.                        *)
LEMMA CriticalOfOthers ==
  ASSUME TypeOK, LockDiscipline,
         NEW t \in Threads, Act(t), NEW u \in Threads \ {t}, CriticalOf(u)
  PROVE  CriticalOf(u)'
<1>1. SameLocals(u)
  BY OthersKeepLocals
<1>2. Target(u)' = Target(u) /\ Target(u) \in Buckets
  BY <1>1, TargetType DEF Target, SameLocals
<1>3. CASE pc[u] \in {"take", "store", "push"}
  <2>1. ~ Locks(t, Target(u))
    BY <1>3 DEF LockDiscipline, Locks, Holding
  <2>2. SameBucket(Target(u))
    BY <1>2, <2>1, ContentGuarded
  <2> HIDE DEF Target
  <2> QED
    BY <1>1, <1>2, <2>2 DEF CriticalOf, SameLocals, SameBucket
<1>4. CASE pc[u] \notin {"take", "store", "push"}
  BY <1>1, <1>4 DEF CriticalOf, SameLocals
<1> QED
  BY <1>3, <1>4

(* Each step of a critical section finds what the step before it left.     *)
LEMMA CriticalOfSelf ==
  ASSUME TypeOK, FreeListIntact, NEW t \in Threads, Act(t),
         ReadsOf(t), CriticalOf(t)
  PROVE  CriticalOf(t)'
<1> USE DEF Goto
<1>0. /\ pc \in [Threads -> Steps]
      /\ bucket \in [Threads -> [Bits -> Buckets]]
      /\ hBit \in [Threads -> Bits]
      /\ objectIndex \in [Threads -> Indices]
      /\ freeIndex \in [Buckets -> Indices]
      /\ nextFree \in [Buckets -> [Slots -> Indices \cup {Object}]]
      /\ freeCount \in [Buckets -> Nat]
      /\ Target(t) \in Buckets
  BY TargetType DEF TypeOK
<1>1. CASE Upgrade(t)
  <2>1. /\ pc[t] = "upgrade" /\ pc'[t] = "take" /\ StillAt(t, hBit[t])
        /\ UNCHANGED <<freeCount, freeIndex, nextFree, bucket, hBit,
                       objectIndex, nextIndex, snapshot>>
    BY <1>0, <1>1 DEF Upgrade, locals
  <2> QED
    BY <2>1 DEF ReadsOf, CriticalOf, Target, Claiming
<1>2. CASE Take(t)
  <2>1. /\ pc[t] = "take" /\ pc'[t] = "store" /\ freeCount[Target(t)] > 0
        /\ UNCHANGED <<freeIndex, nextFree, bucket, hBit, objectIndex,
                       nextIndex>>
    BY <1>0, <1>2 DEF Take, locals
  <2> QED
    BY <2>1 DEF CriticalOf, Target, Claiming
<1>3. CASE Store(t)
  <2>1. /\ pc[t] = "store" /\ pc'[t] = "unlock" /\ objectIndex' = objectIndex
    BY <1>0, <1>3 DEF Store, locals
  <2>2. ListLength(Target(t)) > 0
    <3>1. freeCount[Target(t)] \in Nat
      BY <1>0
    <3> QED
      BY <2>1, <3>1 DEF ListLength
  <2>3. objectIndex[t] \in Slots
    BY <1>0, <2>1, <2>2, HeadFree DEF FreeListIntact, CriticalOf
  <2> QED
    BY <2>1, <2>3 DEF CriticalOf
<1>4. CASE Link(t)
  <2>1. /\ pc[t] = "link" /\ pc'[t] = "push"
        /\ UNCHANGED <<freeIndex, bucket, hBit, objectIndex>>
        /\ nextFree' = [nextFree EXCEPT ![Target(t)][objectIndex[t]] =
                          freeIndex[Target(t)]]
    BY <1>0, <1>4 DEF Link, locals
  <2>2. objectIndex[t] \in Slots
    BY <2>1 DEF CriticalOf, Claiming
  <2>3. Target(t)' = Target(t)
    BY <2>1 DEF Target
  <2>4. nextFree'[Target(t)][objectIndex[t]] = freeIndex[Target(t)]
    <3> HIDE DEF Target
    <3> QED
      BY <1>0, <2>1, <2>2
  <2> QED
    BY <2>1, <2>2, <2>3, <2>4 DEF CriticalOf
<1>5. CASE UnlockAllocated(t) \/ LockExclusive(t)
  <2>1. /\ pc[t] \in {"unlock", "lock"} /\ pc'[t] \in {"increment", "link"}
        /\ objectIndex' = objectIndex
    BY <1>0, <1>5 DEF UnlockAllocated, LockExclusive, locals
  <2> QED
    BY <2>1 DEF CriticalOf, Claiming
<1>6. CASE Begins(t)
  <2>1. PICK b \in Buckets, i \in Slots : BeginFree(t, b, i)
    BY <1>6 DEF Begins
  <2>2. pc'[t] = "lock" /\ objectIndex'[t] = i
    BY <1>0, <2>1 DEF BeginFree
  <2> QED
    BY <2>2 DEF CriticalOf
<1>7. CASE ~ Upgrade(t) /\ ~ Take(t) /\ ~ Store(t) /\ ~ Link(t)
             /\ ~ UnlockAllocated(t) /\ ~ LockExclusive(t) /\ ~ Begins(t)
  <2>1. pc'[t] \notin {"take", "store", "push"} \cup Claiming
    BY <1>0, <1>7
    DEF Act, Step, Begins, BeginAllocate, LockFirst, LockSecond,
        LockOptimistically, CountFirst, CountSecond, ReadHead, ReadNext,
        Validate, ValidateFails, UpgradeFails, Retry, Overflow, ReadCounter,
        Throw, IncrementSize, Push, Count, UnlockFreed, DecrementSize, Claiming
  <2> QED
    BY <2>1 DEF CriticalOf
<1> QED
  BY <1>1, <1>2, <1>3, <1>4, <1>5, <1>6, <1>7

(* The choice between the buckets, once made, stays what it was.           *)
LEMMA ChoiceConsistentStep ==
  ASSUME TypeOK, ReadsConsistent, CriticalConsistent, ChoiceConsistent,
         NEW t \in Threads, Act(t)
  PROVE  ChoiceConsistent'
<1> USE DEF Goto
<1>0. /\ pc \in [Threads -> Steps]
      /\ bucket \in [Threads -> [Bits -> Buckets]]
      /\ hBit \in [Threads -> Bits]
      /\ snapshot \in [Threads -> [Bits -> Nat]]
  BY DEF TypeOK
<1> DEFINE Chose(u) ==
      pc[u] \in {"take", "size", "store", "unlock", "increment"} =>
        /\ hBit[u] = 0 <=> snapshot[u][0] >= snapshot[u][1]
        /\ pc[u] = "size" => \A k \in Bits : snapshot[u][k] = 0
<1>1. \A u \in Threads : Chose(u)
  BY DEF ChoiceConsistent
<1>2. ASSUME NEW u \in Threads \ {t} PROVE Chose(u)'
  BY <1>1, OthersKeepLocals DEF SameLocals
<1>3. Chose(t)'
  <2>1. CASE Upgrade(t)
    <3>1. /\ pc[t] = "upgrade" /\ pc'[t] = "take" /\ StillAt(t, hBit[t])
          /\ hBit' = hBit /\ snapshot' = snapshot
      BY <1>0, <2>1 DEF Upgrade, locals
    <3> QED
      BY <3>1 DEF ReadsConsistent
  <2>2. CASE Overflow(t)
    <3>1. /\ pc[t] = "take" /\ pc'[t] = "size" /\ freeCount[Target(t)] = 0
          /\ hBit' = hBit /\ snapshot' = snapshot
      BY <1>0, <2>2 DEF Overflow, locals
    <3>2. snapshot[t][hBit[t]] = 0
      BY <3>1 DEF CriticalConsistent
    <3>3. hBit[t] = 0 <=> snapshot[t][0] >= snapshot[t][1]
      BY <1>1, <3>1
    <3>4. snapshot[t][0] \in Nat /\ snapshot[t][1] \in Nat /\ hBit[t] \in {0, 1}
      BY <1>0 DEF Bits
    <3>5. snapshot[t][0] = 0 /\ snapshot[t][1] = 0
      BY <3>2, <3>3, <3>4
    <3> QED
      BY <3>1, <3>3, <3>5 DEF Bits
  <2>3. CASE \/ Take(t) \/ Store(t) \/ UnlockAllocated(t)
             \/ \E u \in Threads : ReadCounter(t, u)
    <3>1. /\ pc[t] \in {"take", "store", "unlock", "size"}
          /\ pc'[t] \in {"store", "unlock", "increment", "size"}
          /\ pc'[t] = "size" => pc[t] = "size"
          /\ hBit' = hBit /\ snapshot' = snapshot
      BY <1>0, <2>3 DEF Take, Store, UnlockAllocated, ReadCounter, locals
    <3> QED
      BY <1>1, <3>1
  <2>4. CASE ~ Upgrade(t) /\ ~ Overflow(t) /\ ~ Take(t) /\ ~ Store(t)
               /\ ~ UnlockAllocated(t) /\ ~ \E u \in Threads : ReadCounter(t, u)
    <3>1. pc'[t] \notin {"take", "size", "store", "unlock", "increment"}
      BY <1>0, <2>4
      DEF Act, Step, BeginAllocate, BeginFree, LockFirst, LockSecond,
          LockOptimistically, CountFirst, CountSecond, ReadHead, ReadNext,
          Validate, ValidateFails, UpgradeFails, Retry, Throw, IncrementSize,
          LockExclusive, Link, Push, Count, UnlockFreed, DecrementSize
    <3> QED
      BY <3>1
  <2> QED
    BY <2>1, <2>2, <2>3, <2>4
<1> QED
  BY <1>2, <1>3 DEF ChoiceConsistent

---------------------------------------------------------------------------
(* A client that writes to its object writes to no free slot.              *)

LEMMA WriteObjectStep ==
  ASSUME TableInv, wrapped = {}, NEW c \in Buckets, NEW s \in Slots,
         WriteObject(c, s)
  PROVE  /\ ReadsConsistent'
         /\ CriticalConsistent'
         /\ ChoiceConsistent'
         /\ NoDoubleAllocation'
         /\ FreeListIntact'
<1>1. /\ held[c][s] > 0
      /\ nextFree' = [nextFree EXCEPT ![c][s] = Object]
      /\ UNCHANGED <<version, freeCount, freeIndex, held, pc, bucket,
                     lockedVersion, h1Count, hBit, objectIndex, nextIndex,
                     snapshot>>
  BY DEF WriteObject, locals
<1>2. /\ TypeOK /\ ReadsConsistent /\ CriticalConsistent /\ ChoiceConsistent
      /\ NoDoubleAllocation /\ FreeListIntact
  BY DEF TableInv
<1>3. nextFree \in [Buckets -> [Slots -> Indices \cup {Object}]]
  BY <1>2 DEF TypeOK
<1>4. ASSUME NEW b \in Buckets, NEW i \in Slots, held[b][i] = 0 \/ ~ Owned(b, i)
      PROVE  nextFree'[b][i] = nextFree[b][i]
  <2>1. held[b][i] \in Nat
    BY <1>2 DEF TypeOK
  <2>2. ~ (b = c /\ i = s)
    BY <1>1, <1>4, <2>1 DEF Owned
  <2> QED
    BY <1>1, <1>3, <2>2
<1>5. /\ \A t \in Threads, b \in Buckets, i \in Slots :
           Claims(t, b, i)' <=> Claims(t, b, i)
      /\ \A b \in Buckets, i \in Slots : Owned(b, i)' <=> Owned(b, i)
      /\ \A b \in Buckets : ListLength(b)' = ListLength(b)
      /\ \A t \in Threads : Target(t)' = Target(t)
      /\ \A t \in Threads : \A k : StillAt(t, k)' <=> StillAt(t, k)
  BY <1>1 DEF Claims, Owned, ListLength, Target, StillAt
<1>6. NoDoubleAllocation'
  BY <1>1, <1>2, <1>5 DEF NoDoubleAllocation
<1>7. ASSUME NEW b \in Buckets PROVE FreeListOK(b)'
  <2>1. FreeListOK(b) /\ freeIndex'[b] = freeIndex[b]
    BY <1>1, <1>2 DEF FreeListIntact
  <2> QED
    BY <1>4, <1>5, <2>1, ListFrame
<1>8. ASSUME NEW b \in Buckets, ListLength(b) > 0
      PROVE  nextFree'[b][freeIndex[b]] = nextFree[b][freeIndex[b]]
  BY <1>2, <1>4, <1>8, HeadFree DEF FreeListIntact
<1>9. ASSUME NEW t \in Threads PROVE ReadsOf(t)'
  <2>1. ReadsOf(t)
    BY <1>2, ReadsOfAll
  <2>2. ASSUME objectIndex[t] = freeIndex[Target(t)], freeCount[Target(t)] > 0
        PROVE  nextFree'[Target(t)][objectIndex[t]] =
                 nextFree[Target(t)][objectIndex[t]]
    <3>1. Target(t) \in Buckets
      BY <1>2, TargetType
    <3>2. freeCount[Target(t)] \in Nat
      BY <1>2, <3>1 DEF TypeOK
    <3>3. ListLength(Target(t)) > 0
      BY <2>2, <3>2 DEF ListLength
    <3> QED
      BY <1>8, <2>2, <3>1, <3>3
  <2> QED
    BY <1>1, <1>5, <2>1, <2>2 DEF ReadsOf
<1>10. ASSUME NEW t \in Threads PROVE CriticalOf(t)'
  <2>1. CriticalOf(t) /\ Target(t) \in Buckets
    BY <1>2, CriticalOfAll, TargetType
  <2>2. freeCount[Target(t)] \in Nat
    BY <1>2, <2>1 DEF TypeOK
  <2>3. CASE pc[t] = "push"
    <3>1. held[Target(t)][objectIndex[t]] = 0 /\ objectIndex[t] \in Slots
      BY <1>2, <2>1, <2>3
      DEF NoDoubleAllocation, Claims, CriticalOf, Claiming
    <3>2. nextFree'[Target(t)][objectIndex[t]] = nextFree[Target(t)][objectIndex[t]]
      BY <1>4, <2>1, <3>1
    <3> QED
      BY <1>1, <1>5, <2>1, <2>3, <3>2 DEF CriticalOf
  <2>4. CASE (pc[t] = "take" /\ freeCount[Target(t)] > 0) \/ pc[t] = "store"
    <3>1. ListLength(Target(t)) > 0
      BY <2>2, <2>4 DEF ListLength
    <3>2. nextFree'[Target(t)][objectIndex[t]] = nextFree[Target(t)][objectIndex[t]]
      BY <1>8, <2>1, <2>4, <3>1 DEF CriticalOf
    <3> QED
      BY <1>1, <1>5, <2>1, <2>4, <3>2 DEF CriticalOf
  <2>5. CASE /\ pc[t] \notin {"push", "store"}
             /\ ~ (pc[t] = "take" /\ freeCount[Target(t)] > 0)
    BY <1>1, <1>5, <2>1, <2>5 DEF CriticalOf
  <2> QED
    BY <2>3, <2>4, <2>5
<1>11. ReadsConsistent' /\ CriticalConsistent'
  BY <1>9, <1>10 DEF ReadsConsistent, ReadsOf, CriticalConsistent, CriticalOf
<1>12. ChoiceConsistent'
  BY <1>1, <1>2 DEF ChoiceConsistent
<1> QED
  BY <1>6, <1>7, <1>11, <1>12 DEF FreeListIntact

---------------------------------------------------------------------------
(* The invariant.                                                          *)

LEMMA TableInvInit == Init => TableInv
<1> SUFFICES ASSUME Init PROVE TableInv
  OBVIOUS
<1>1. TypeOK
  BY TypeInit
<1>2. /\ \A t \in Threads : pc[t] = "idle"
      /\ \A b \in Buckets : version[b] = 0
  BY DEF Init
<1>3. LockDiscipline
  BY <1>2 DEF LockDiscipline, Holding, IsLocked
<1>4. OptimisticUnlocked /\ ReadsConsistent /\ CriticalConsistent
        /\ ChoiceConsistent
  BY <1>2
  DEF OptimisticUnlocked, Reading, ReadsConsistent, CriticalConsistent,
      ChoiceConsistent, Claiming
<1>5. \A b \in Buckets, i \in Slots :
        held[b][i] = 0 /\ ~ Owned(b, i) /\ \A t \in Threads : ~ Claims(t, b, i)
  BY <1>2 DEF Init, Owned, Claims, Claiming
<1>6. NoDoubleAllocation
  BY <1>5 DEF NoDoubleAllocation
<1>7. ASSUME NEW b \in Buckets PROVE FreeListOK(b)
  <2>1. /\ ListLength(b) = Entries
        /\ freeIndex[b] = 0
        /\ \A i \in Slots : nextFree[b][i] = IF i = Entries - 1 THEN 0 ELSE i + 1
    BY <1>2 DEF ListLength, Init
  <2>2. Entries \in Nat \ {0}
    BY DerefTableAssumption
  <2>3. [i \in Slots |-> Entries - i] \in [Slots -> 0 .. Entries]
    BY <2>2 DEF Slots
  <2>4. PICK rank \in [Slots -> 0 .. Entries] :
          \A i \in Slots : rank[i] = Entries - i
    BY <2>3
  <2>5. Ranks(b, rank)
    <3>1. \A i \in Slots : rank[i] > 1 => rank[nextFree[b][i]] = rank[i] - 1
      BY <2>1, <2>2, <2>4 DEF Slots
    <3>2. \A i \in Slots : nextFree[b][i] \in Slots /\ rank[i] > 0
      BY <2>1, <2>2, <2>4 DEF Slots
    <3>3. 0 \in Slots
      BY <2>2 DEF Slots
    <3>4. \A i, j \in Slots : rank[i] = rank[j] => i = j
      BY <2>2, <2>4 DEF Slots
    <3> QED
      BY <1>5, <2>1, <2>4, <3>1, <3>2, <3>3, <3>4 DEF Ranks
  <2> QED
    BY <2>1, <2>4, <2>5, RanksFreeList
<1> QED
  BY <1>1, <1>3, <1>4, <1>6, <1>7 DEF TableInv, FreeListIntact

(* A lap is never forgotten.                                               *)
LEMMA WrappedGrows ==
  ASSUME NEW t \in Threads, Act(t)
  PROVE  wrapped \subseteq wrapped'
  BY DEF Act, Step, BeginAllocate, BeginFree, LockFirst, LockSecond,
         LockOptimistically, CountFirst, CountSecond, ReadHead, ReadNext,
         Validate, ValidateFails, UpgradeFails, Retry, Upgrade, Take, Overflow,
         ReadCounter, Throw, Store, UnlockAllocated, IncrementSize,
         LockExclusive, Link, Push, Count, UnlockFreed, DecrementSize, Unlock

LEMMA TableInvStep == TableInv /\ [Next]_vars => TableInv'
<1> SUFFICES ASSUME TableInv, [Next]_vars PROVE TableInv'
  OBVIOUS
<1>1. /\ TypeOK /\ LockDiscipline /\ OptimisticUnlocked
      /\ wrapped = {} => /\ ReadsConsistent /\ CriticalConsistent
                         /\ ChoiceConsistent /\ NoDoubleAllocation
                         /\ FreeListIntact
  BY DEF TableInv
<1>2. TypeOK'
  BY <1>1, TypeNext
<1>3. ASSUME NEW t \in Threads, Act(t) PROVE TableInv'
  <2>1. LockDiscipline' /\ OptimisticUnlocked'
    BY <1>1, <1>2, <1>3, LockDisciplineStep, OptimisticUnlockedStep
  <2>2. ASSUME wrapped' = {}
        PROVE  /\ ReadsConsistent' /\ CriticalConsistent' /\ ChoiceConsistent'
               /\ NoDoubleAllocation' /\ FreeListIntact'
    <3>1. /\ ReadsConsistent /\ CriticalConsistent /\ ChoiceConsistent
          /\ NoDoubleAllocation /\ FreeListIntact
      BY <1>1, <1>3, <2>2, WrappedGrows
    <3>2. \A u \in Threads : ReadsOf(u) /\ CriticalOf(u)
      BY <3>1, ReadsOfAll, CriticalOfAll
    <3>3. \A u \in Threads : ReadsOf(u)'
      BY <1>1, <1>3, <2>2, <3>1, <3>2, ReadsOfOthers, ReadsOfSelf
    <3>4. \A u \in Threads : CriticalOf(u)'
      BY <1>1, <1>3, <3>1, <3>2, CriticalOfOthers, CriticalOfSelf
    <3>5. ReadsConsistent' /\ CriticalConsistent'
      BY <3>3, <3>4 DEF ReadsConsistent, ReadsOf, CriticalConsistent, CriticalOf
    <3> QED
      BY <1>1, <1>3, <3>1, <3>5, ChoiceConsistentStep, NoDoubleAllocationStep,
         FreeListStep
  <2> QED
    BY <1>2, <2>1, <2>2 DEF TableInv
<1>4. ASSUME NEW b \in Buckets, NEW i \in Slots, WriteObject(b, i)
      PROVE  TableInv'
  <2>1. /\ UNCHANGED <<version, pc, bucket, hBit, lockedVersion, wrapped>>
    BY <1>4 DEF WriteObject, locals
  <2>2. LockDiscipline' /\ OptimisticUnlocked'
    BY <1>1, <2>1 DEF LockDiscipline, OptimisticUnlocked, Target
  <2> QED
    BY <1>2, <1>4, <2>1, <2>2, WriteObjectStep DEF TableInv
<1>5. CASE UNCHANGED vars
  BY <1>1, <1>2, <1>5, SMTT(30)
  DEF vars, TableInv, LockDiscipline, OptimisticUnlocked, ReadsConsistent,
      CriticalConsistent, ChoiceConsistent, NoDoubleAllocation, FreeListIntact,
      FreeListOK, ListLength, Owned, Claims, Target, StillAt
<1> QED
  BY <1>3, <1>4, <1>5 DEF Next, Act, Stop

(* Every reachable state satisfies the invariant.                          *)
THEOREM TableInvariant == Spec => []TableInv
  BY TableInvInit, TableInvStep, PTL DEF Spec

---------------------------------------------------------------------------
(* What follows for the calls of the table.                                *)

(* A bucket is locked exactly while one call works in it, whatever the     *)
(* versions do: exclusive locks never overlap, and none is left behind by  *)
(* a call that returns or throws.                                          *)
THEOREM MutualExclusion == Spec => []LockDiscipline
<1>1. TableInv => LockDiscipline
  BY DEF TableInv
<1> QED
  BY <1>1, TableInvariant, PTL

(* As long as no version has come back under an optimistic lock, no slot   *)
(* has two owners, whatever the number of threads, buckets and calls.      *)
THEOREM NoDoubleAllocationHolds ==
  Spec => [](wrapped = {} => NoDoubleAllocation)
<1>1. TableInv => (wrapped = {} => NoDoubleAllocation)
  BY DEF TableInv
<1> QED
  BY <1>1, TableInvariant, PTL

(* ... and every free list threads exactly the slots without an owner: no  *)
(* slot is lost either.                                                    *)
THEOREM FreeListIntactHolds == Spec => [](wrapped = {} => FreeListIntact)
<1>1. TableInv => (wrapped = {} => FreeListIntact)
  BY DEF TableInv
<1> QED
  BY <1>1, TableInvariant, PTL

(* ... and the bucket chosen was the emptier one of the two at one instant *)
(* of the call; a call overflows only if both were full at that instant.   *)
THEOREM ChoiceConsistentHolds == Spec => [](wrapped = {} => ChoiceConsistent)
<1>1. TableInv => (wrapped = {} => ChoiceConsistent)
  BY DEF TableInv
<1> QED
  BY <1>1, TableInvariant, PTL

(* A call writes links only to the slot it has been given back.            *)
LEMMA KeepsObjectsStep ==
  ASSUME TypeOK, CriticalConsistent, NoDoubleAllocation, Next
  PROVE  KeepsObjects
<1> SUFFICES ASSUME NEW b \in Buckets, NEW i \in Slots,
                    nextFree[b][i] = Object, held[b][i] > 0
             PROVE  nextFree'[b][i] = Object
  BY DEF KeepsObjects
<1>0. nextFree \in [Buckets -> [Slots -> Indices \cup {Object}]]
  BY DEF TypeOK
<1>1. ASSUME NEW t \in Threads, Link(t)
      PROVE  nextFree'[b][i] = Object
  <2>1. /\ nextFree' = [nextFree EXCEPT ![Target(t)][objectIndex[t]] =
                          freeIndex[Target(t)]]
        /\ Claims(t, Target(t), objectIndex[t])
    BY <1>1 DEF Link, Claims, Claiming
  <2>2. Target(t) \in Buckets /\ objectIndex[t] \in Slots
    BY <1>1, TargetType DEF Link, CriticalConsistent, Claiming
  <2>3. held[Target(t)][objectIndex[t]] = 0
    BY <2>1, <2>2 DEF NoDoubleAllocation
  <2>4. ~ (b = Target(t) /\ i = objectIndex[t])
    BY <2>3
  <2> HIDE DEF Target
  <2> QED
    BY <1>0, <2>1, <2>2, <2>4
<1>2. ASSUME NEW t \in Threads, Act(t), ~ Link(t)
      PROVE  nextFree'[b][i] = Object
  <2>1. nextFree' = nextFree
    BY <1>2
    DEF Act, Step, BeginAllocate, BeginFree, LockFirst, LockSecond,
        LockOptimistically, CountFirst, CountSecond, ReadHead, ReadNext,
        Validate, ValidateFails, UpgradeFails, Retry, Upgrade, Take, Overflow,
        ReadCounter, Throw, Store, UnlockAllocated, IncrementSize,
        LockExclusive, Push, Count, UnlockFreed, DecrementSize, table
  <2> QED
    BY <2>1
<1>3. ASSUME NEW c \in Buckets, NEW s \in Slots, WriteObject(c, s)
      PROVE  nextFree'[b][i] = Object
  BY <1>0, <1>3 DEF WriteObject
<1>4. CASE UNCHANGED vars
  BY <1>4 DEF vars
<1> QED
  BY <1>1, <1>2, <1>3, <1>4 DEF Next, Act, Stop

(* ... and the table writes into no object that a client owns.             *)
THEOREM ObjectsUntouchedHolds ==
  Spec /\ [](wrapped = {}) => ObjectsUntouched
<1>1. TableInv /\ wrapped = {} /\ [Next]_vars => [KeepsObjects]_vars
  BY KeepsObjectsStep DEF TableInv
<1> QED
  BY <1>1, TableInvariant, PTL DEF Spec, ObjectsUntouched

---------------------------------------------------------------------------
(* The table implements the pool of slots, as long as no version has come  *)
(* back under an optimistic lock.                                          *)

(* The call of a thread as its client sees it, stage by stage.             *)

Choosing == Reading(0) \cup {"lockFirst", "take", "store"}
Having == {"unlock", "increment"}
Giving == {"lock", "link", "push"}
Leaving == {"count", "release", "decrement"}

LEMMA Stages ==
  ASSUME NEW t \in Threads
  PROVE  /\ pc[t] \in Choosing =>
              CallOf(t) = Pool!Allocating({bucket[t][k] : k \in Bits})
         /\ pc[t] = "size" => CallOf(t) = Pool!Refused
         /\ pc[t] \in Having => CallOf(t) = Pool!Granted(PlaceOf(t))
         /\ pc[t] \in Giving => CallOf(t) = Pool!Returning(PlaceOf(t))
         /\ pc[t] \in Leaving => CallOf(t) = Pool!Released
         /\ pc[t] = "idle" => CallOf(t) = Pool!Idle
  BY DEF CallOf, Choosing, Having, Giving, Leaving, Reading, Pool!Allocating,
         Pool!Refused, Pool!Granted, Pool!Returning, Pool!Released, Pool!Idle

LEMMA StagesNext ==
  ASSUME NEW t \in Threads
  PROVE  /\ pc'[t] \in Choosing =>
              CallOf(t)' = Pool!Allocating({bucket'[t][k] : k \in Bits})
         /\ pc'[t] = "size" => CallOf(t)' = Pool!Refused
         /\ pc'[t] \in Having => CallOf(t)' = Pool!Granted(PlaceOf(t)')
         /\ pc'[t] \in Giving => CallOf(t)' = Pool!Returning(PlaceOf(t)')
         /\ pc'[t] \in Leaving => CallOf(t)' = Pool!Released
         /\ pc'[t] = "idle" => CallOf(t)' = Pool!Idle
  BY DEF CallOf, Choosing, Having, Giving, Leaving, Reading, Pool!Allocating,
         Pool!Refused, Pool!Granted, Pool!Returning, Pool!Released, Pool!Idle

LEMMA EveryStage ==
  ASSUME TypeOK, NEW t \in Threads
  PROVE  pc[t] \in Choosing \cup Having \cup Giving \cup Leaving \cup {"size", "idle"}
  BY DEF TypeOK, Steps, Holding, Choosing, Having, Giving, Leaving, Reading

(* A step of one thread changes the call of no other.                      *)
LEMMA OnlyOneCall ==
  ASSUME TypeOK, NEW t \in Threads, Act(t)
  PROVE  /\ Pool!Become(t, CallOf(t)')
         /\ CallOf(t)' = CallOf(t) =>
              [u \in Threads |-> CallOf(u)]' = [u \in Threads |-> CallOf(u)]
<1>1. ASSUME NEW u \in Threads \ {t} PROVE CallOf(u)' = CallOf(u)
  <2>1. SameLocals(u)
    BY OthersKeepLocals
  <2> QED
    BY <2>1 DEF SameLocals, CallOf, PlaceOf, Target
<1> QED
  BY <1>1 DEF Pool!Become

---------------------------------------------------------------------------
(* Free and held places.                                                   *)

LEMMA PlacesKept ==
  ASSUME held' = held,
         \A b \in Buckets, i \in Slots : Owned(b, i)' <=> Owned(b, i)
  PROVE  FreePlaces' = FreePlaces /\ HeldPlaces' = HeldPlaces
  BY DEF FreePlaces, HeldPlaces

(* A bucket whose list is empty has no free place.                         *)
LEMMA EmptyList ==
  ASSUME TypeOK, NEW b \in Buckets, FreeListOK(b), ListLength(b) = 0
  PROVE  Pool!FreeIn(b) = {}
<1>1. PICK rank \in [Slots -> 0 .. ListLength(b)] : Ranks(b, rank)
  BY RanksFreeList
<1>2. \A i \in Slots : Owned(b, i)
  BY <1>1 DEF Ranks
<1> QED
  BY <1>2 DEF Pool!FreeIn, FreePlaces

---------------------------------------------------------------------------
(* The steps of a call that the client does not see.                       *)

LEMMA HiddenStep ==
  ASSUME TypeOK, NEW t \in Threads, Act(t), CallOf(t)' = CallOf(t),
         ~ Store(t), ~ Push(t), ~ IncrementSize(t), ~ Begins(t)
  PROVE  UNCHANGED Pool!poolVars
<1>1. FreePlaces' = FreePlaces /\ HeldPlaces' = HeldPlaces
  BY OwnersKept, PlacesKept DEF Owned
<1>2. [u \in Threads |-> CallOf(u)]' = [u \in Threads |-> CallOf(u)]
  BY OnlyOneCall
<1> QED
  BY <1>1, <1>2 DEF Pool!poolVars

LEMMA InternalSteps ==
  ASSUME TypeOK, NEW t \in Threads,
         \/ LockFirst(t) \/ LockSecond(t) \/ CountFirst(t) \/ CountSecond(t)
         \/ ReadHead(t) \/ ReadNext(t) \/ Validate(t) \/ ValidateFails(t)
         \/ Upgrade(t) \/ UpgradeFails(t) \/ Take(t)
         \/ (\E u \in Threads : ReadCounter(t, u)) \/ UnlockAllocated(t)
         \/ LockExclusive(t) \/ Link(t) \/ Count(t) \/ UnlockFreed(t)
  PROVE  UNCHANGED Pool!poolVars
<1> USE DEF Goto
<1>0. /\ pc \in [Threads -> Steps]
      /\ Act(t)
  BY DEF TypeOK, Act, Step
<1>1. ASSUME pc[t] \notin {"store", "push", "increment", "idle"}
      PROVE  ~ Store(t) /\ ~ Push(t) /\ ~ IncrementSize(t) /\ ~ Begins(t)
  BY <1>1 DEF Store, Push, IncrementSize, Begins, BeginFree
<1>2. CASE \/ LockFirst(t) \/ LockSecond(t) \/ CountFirst(t) \/ CountSecond(t)
           \/ ReadHead(t) \/ ReadNext(t) \/ Validate(t) \/ ValidateFails(t)
           \/ Upgrade(t) \/ UpgradeFails(t) \/ Take(t)
  <2>1. /\ pc[t] \in Choosing \ {"store"} /\ pc'[t] \in Choosing
        /\ bucket' = bucket
    BY <1>0, <1>2
    DEF LockFirst, LockSecond, LockOptimistically, CountFirst, CountSecond,
        ReadHead, ReadNext, Validate, ValidateFails, Upgrade, UpgradeFails,
        Retry, Take, locals, Choosing, Reading
  <2>2. CallOf(t)' = CallOf(t)
    BY <2>1, Stages, StagesNext
  <2>3. pc[t] \notin {"store", "push", "increment", "idle"}
    BY <2>1 DEF Choosing, Reading
  <2> QED
    BY <1>0, <1>1, <2>2, <2>3, HiddenStep
<1>3. CASE \E u \in Threads : ReadCounter(t, u)
  <2>1. pc[t] = "size" /\ pc'[t] = "size"
    BY <1>3 DEF ReadCounter
  <2>2. CallOf(t)' = CallOf(t)
    BY <2>1, Stages, StagesNext
  <2> QED
    BY <1>0, <1>1, <2>1, <2>2, HiddenStep
<1>4. CASE UnlockAllocated(t) \/ LockExclusive(t) \/ Link(t)
  <2>1. /\ \/ pc[t] = "unlock" /\ pc'[t] = "increment"
           \/ pc[t] \in {"lock", "link"} /\ pc'[t] \in Giving
        /\ bucket' = bucket /\ hBit' = hBit /\ objectIndex' = objectIndex
    BY <1>0, <1>4 DEF UnlockAllocated, LockExclusive, Link, locals, Giving
  <2>2. PlaceOf(t)' = PlaceOf(t)
    BY <2>1 DEF PlaceOf, Target
  <2>3. CallOf(t)' = CallOf(t)
    BY <2>1, <2>2, Stages, StagesNext DEF Having, Giving
  <2> QED
    BY <1>0, <1>1, <2>1, <2>3, HiddenStep
<1>5. CASE Count(t) \/ UnlockFreed(t)
  <2>1. pc[t] \in {"count", "release"} /\ pc'[t] \in Leaving
    BY <1>0, <1>5 DEF Count, UnlockFreed, Leaving
  <2>2. CallOf(t)' = CallOf(t)
    BY <2>1, Stages, StagesNext DEF Leaving
  <2> QED
    BY <1>0, <1>1, <2>1, <2>2, HiddenStep
<1> QED
  BY <1>2, <1>3, <1>4, <1>5

---------------------------------------------------------------------------
(* The steps that the client sees: each is a step of the pool.             *)

LEMMA RequestStep ==
  ASSUME TypeOK, NEW t \in Threads, NEW h \in Hashes, BeginAllocate(t, h)
  PROVE  Pool!Request(t)
<1>1. /\ pc[t] = "idle" /\ pc'[t] = "lockFirst" /\ bucket'[t] = h
      /\ h \in [Bits -> Buckets]
      /\ Act(t)
  BY DEF TypeOK, BeginAllocate, Goto, Act
<1>2. CallOf(t) = Pool!Idle
  BY <1>1, Stages
<1>3. CallOf(t)' = Pool!Allocating({h[0], h[1]})
  BY <1>1, StagesNext DEF Choosing, Bits
<1>4. h[0] \in Buckets /\ h[1] \in Buckets
  BY <1>1 DEF Bits
<1>5. ~ Store(t) /\ ~ Push(t) /\ ~ IncrementSize(t) /\ ~ Begins(t)
  BY <1>1 DEF Store, Push, IncrementSize, Begins, BeginFree, Goto, TypeOK
<1>6. UNCHANGED <<FreePlaces, HeldPlaces>>
  BY <1>1, <1>5, OwnersKept, PlacesKept DEF Owned
<1> QED
  BY <1>1, <1>2, <1>3, <1>4, <1>6, OnlyOneCall DEF Pool!Request

LEMMA GrantStep ==
  ASSUME TypeOK, CriticalConsistent, FreeListIntact, NEW t \in Threads, Store(t)
  PROVE  Pool!Grant(t)
<1> DEFINE b == Target(t)
           s == objectIndex[t]
<1>1. /\ pc[t] = "store" /\ pc'[t] = "unlock"
      /\ bucket' = bucket /\ hBit' = hBit /\ objectIndex' = objectIndex
      /\ Act(t)
  BY DEF TypeOK, Store, Goto, Act, Step, locals
<1>2. b \in Buckets /\ freeCount[b] \in Nat /\ hBit[t] \in Bits
  BY TargetType DEF TypeOK
<1>3. ListLength(b) > 0
  BY <1>1, <1>2 DEF ListLength
<1>4. s \in Slots /\ ~ Owned(b, s)
  BY <1>1, <1>2, <1>3, HeadFree DEF CriticalConsistent, FreeListIntact
<1>5. <<b, s>> \in Pool!FreeIn(b)
  BY <1>2, <1>4 DEF Pool!FreeIn, FreePlaces
<1>6. CallOf(t) = Pool!Allocating({bucket[t][k] : k \in Bits})
  BY <1>1, Stages DEF Choosing
<1>7. CallOf(t)' = Pool!Granted(<<b, s>>)
  BY <1>1, StagesNext DEF Having, PlaceOf, Target
<1>8. b \in {bucket[t][k] : k \in Bits}
  BY <1>2 DEF Target
<1>9. \A c \in Buckets, i \in Slots : Owned(c, i)' <=> Owned(c, i) \/ (c = b /\ i = s)
  BY StoreOwners DEF Owned
<1>10. FreePlaces' = FreePlaces \ {<<b, s>>}
  BY <1>9 DEF FreePlaces
<1>11. HeldPlaces' = HeldPlaces
  BY StoreOwners DEF HeldPlaces
<1> QED
  <2>1. Pool!Become(t, Pool!Granted(<<b, s>>))
    BY <1>1, <1>7, OnlyOneCall
  <2>2. CallOf(t).op = "allocate" /\ b \in CallOf(t).choice
    BY <1>6, <1>8 DEF Pool!Allocating
  <2> HIDE DEF b, s
  <2> QED
    BY <1>5, <1>10, <1>11, <2>1, <2>2 DEF Pool!Grant

LEMMA RefuseStep ==
  ASSUME TypeOK, LockDiscipline, FreeListIntact, NEW t \in Threads, Overflow(t)
  PROVE  Pool!Refuse(t)
<1> DEFINE b == Target(t)
<1>1. /\ pc[t] = "take" /\ pc'[t] = "size" /\ freeCount[b] = 0
      /\ Act(t)
  BY DEF TypeOK, Overflow, Goto, Act, Step
<1>2. b \in Buckets /\ hBit[t] \in Bits
  BY TargetType DEF TypeOK
<1>3. \A u \in Threads : ~ (pc[u] \in {"store", "count"} /\ Target(u) = b)
  BY <1>1 DEF LockDiscipline, Holding
<1>4. ListLength(b) = 0
  BY <1>1, <1>3 DEF ListLength
<1>5. Pool!FreeIn(b) = {}
  BY <1>2, <1>4, EmptyList DEF FreeListIntact
<1>6. CallOf(t) = Pool!Allocating({bucket[t][k] : k \in Bits})
  BY <1>1, Stages DEF Choosing
<1>7. b \in {bucket[t][k] : k \in Bits}
  BY <1>2 DEF Target
<1>8. ~ Store(t) /\ ~ Push(t) /\ ~ IncrementSize(t) /\ ~ Begins(t)
  BY <1>1 DEF Store, Push, IncrementSize, Begins, BeginFree
<1>9. UNCHANGED <<FreePlaces, HeldPlaces>>
  BY <1>1, <1>8, OwnersKept, PlacesKept DEF Owned
<1>10. Pool!Become(t, Pool!Refused)
  BY <1>1, StagesNext, OnlyOneCall
<1>11. CallOf(t).op = "allocate" /\ b \in CallOf(t).choice
  BY <1>6, <1>7 DEF Pool!Allocating
<1> HIDE DEF b
<1> QED
  BY <1>5, <1>9, <1>10, <1>11 DEF Pool!Refuse

LEMMA DeliverStep ==
  ASSUME TypeOK, CriticalConsistent, NoDoubleAllocation, NEW t \in Threads,
         IncrementSize(t)
  PROVE  Pool!Deliver(t)
<1> DEFINE b == Target(t)
           s == objectIndex[t]
<1>1. /\ pc[t] = "increment" /\ pc'[t] = "idle" /\ Act(t)
  BY DEF TypeOK, IncrementSize, Goto, Act, Step
<1>2. b \in Buckets /\ s \in Slots
  BY <1>1, TargetType DEF CriticalConsistent, Claiming
<1>3. \A c \in Buckets, i \in Slots : held[c][i] \in Nat
  BY DEF TypeOK
<1>4. \A c \in Buckets, i \in Slots :
        held'[c][i] > 0 <=> held[c][i] > 0 \/ (c = b /\ i = s)
  BY <1>3, IncrementOwners
<1>5. HeldPlaces' = HeldPlaces \cup {<<b, s>>}
  BY <1>2, <1>4 DEF HeldPlaces
<1>6. FreePlaces' = FreePlaces
  <2>1. \A c \in Buckets, i \in Slots : Owned(c, i)' <=> Owned(c, i)
    BY <1>1, OwnedKept DEF Store, Push
  <2> QED
    BY <2>1 DEF FreePlaces
<1>7. CallOf(t) = Pool!Granted(<<b, s>>)
  BY <1>1, Stages DEF Having, PlaceOf
<1>8. Pool!Become(t, Pool!Idle)
  BY <1>1, StagesNext, OnlyOneCall
<1>9. CallOf(t).op = "granted" /\ CallOf(t).place = <<b, s>>
  BY <1>7 DEF Pool!Granted
<1> HIDE DEF b, s
<1> QED
  BY <1>5, <1>6, <1>8, <1>9 DEF Pool!Deliver

LEMMA GiveBackStep ==
  ASSUME TypeOK, NoDoubleAllocation, NEW t \in Threads, NEW b \in Buckets,
         NEW s \in Slots, BeginFree(t, b, s)
  PROVE  Pool!GiveBack(t)
<1>1. /\ pc[t] = "idle" /\ pc'[t] = "lock" /\ Act(t)
      /\ bucket'[t] = [k \in Bits |-> b] /\ objectIndex'[t] = s
      /\ hBit'[t] \in Bits
  BY DEF TypeOK, BeginFree, Goto, Act
<1>2. held[b][s] = 1
  BY BeginFreeOwners DEF NoDoubleAllocation, TypeOK
<1>3. <<b, s>> \in HeldPlaces
  BY <1>2 DEF HeldPlaces
<1>4. \A c \in Buckets, i \in Slots :
        held'[c][i] > 0 <=> held[c][i] > 0 /\ ~ (c = b /\ i = s)
  BY <1>2, BeginFreeOwners
<1>5. HeldPlaces' = HeldPlaces \ {<<b, s>>}
  BY <1>4 DEF HeldPlaces
<1>6. FreePlaces' = FreePlaces
  <2>1. \A c \in Buckets, i \in Slots : Owned(c, i)' <=> Owned(c, i)
    BY <1>1, OwnedKept DEF Store, Push
  <2> QED
    BY <2>1 DEF FreePlaces
<1>7. CallOf(t) = Pool!Idle
  BY <1>1, Stages
<1>8. PlaceOf(t)' = <<b, s>>
  BY <1>1 DEF PlaceOf, Target
<1>9. Pool!Become(t, Pool!Returning(<<b, s>>))
  BY <1>1, <1>8, StagesNext, OnlyOneCall DEF Giving
<1> QED
  BY <1>3, <1>5, <1>6, <1>7, <1>9 DEF Pool!GiveBack

LEMMA ReleaseStep ==
  ASSUME TypeOK, CriticalConsistent, NoDoubleAllocation, NEW t \in Threads,
         Push(t)
  PROVE  Pool!Release(t)
<1> DEFINE b == Target(t)
           s == objectIndex[t]
<1>1. /\ pc[t] = "push" /\ pc'[t] = "count" /\ Act(t)
  BY DEF TypeOK, Push, Goto, Act, Step
<1>2. b \in Buckets /\ s \in Slots
  BY <1>1, TargetType DEF CriticalConsistent, Claiming
<1>3. \A c \in Buckets, i \in Slots :
        Owned(c, i)' <=> Owned(c, i) /\ ~ (c = b /\ i = s)
  <2>1. held[b][s] = 0 /\ \A u \in Threads : Claims(u, b, s) => u = t
    BY <1>2, PushOwners DEF NoDoubleAllocation
  <2> QED
    BY <1>2, <2>1, PushOwners DEF Owned
<1>4. FreePlaces' = FreePlaces \cup {<<b, s>>}
  BY <1>2, <1>3 DEF FreePlaces
<1>5. HeldPlaces' = HeldPlaces
  BY PushOwners DEF HeldPlaces
<1>6. CallOf(t) = Pool!Returning(<<b, s>>)
  BY <1>1, Stages DEF Giving, PlaceOf
<1>7. Pool!Become(t, Pool!Released)
  BY <1>1, StagesNext, OnlyOneCall DEF Leaving
<1>8. CallOf(t).op = "return" /\ CallOf(t).place = <<b, s>>
  BY <1>6 DEF Pool!Returning
<1> HIDE DEF b, s
<1> QED
  BY <1>4, <1>5, <1>7, <1>8 DEF Pool!Release

LEMMA FinishStep ==
  ASSUME TypeOK, NEW t \in Threads, Throw(t) \/ DecrementSize(t)
  PROVE  Pool!Finish(t)
<1>1. /\ pc[t] \in {"size", "decrement"} /\ pc'[t] = "idle" /\ Act(t)
  BY DEF TypeOK, Throw, DecrementSize, Goto, Act, Step
<1>2. CallOf(t) \in {Pool!Refused, Pool!Released}
  BY <1>1, Stages DEF Leaving
<1>3. ~ Store(t) /\ ~ Push(t) /\ ~ IncrementSize(t) /\ ~ Begins(t)
  BY <1>1 DEF Store, Push, IncrementSize, Begins, BeginFree
<1>4. UNCHANGED <<FreePlaces, HeldPlaces>>
  BY <1>1, <1>3, OwnersKept, PlacesKept DEF Owned
<1>5. Pool!Become(t, Pool!Idle)
  BY <1>1, StagesNext, OnlyOneCall
<1> QED
  BY <1>2, <1>4, <1>5 DEF Pool!Finish

---------------------------------------------------------------------------
(* The refinement.                                                         *)

LEMMA PoolInit == TableInv /\ Init => Pool!Init
<1> SUFFICES ASSUME Init PROVE Pool!Init
  OBVIOUS
<1>1. \A t \in Threads : pc[t] = "idle"
  BY DEF Init
<1>2. \A b \in Buckets, i \in Slots : held[b][i] = 0 /\ ~ Owned(b, i)
  BY <1>1 DEF Init, Owned, Claims, Claiming
<1>3. FreePlaces = Pool!Places /\ HeldPlaces = {}
  BY <1>2 DEF FreePlaces, HeldPlaces, Pool!Places
<1>4. \A t \in Threads : CallOf(t) = Pool!Idle
  BY <1>1, Stages
<1> QED
  BY <1>3, <1>4 DEF Pool!Init

LEMMA PoolStep ==
  ASSUME TableInv, wrapped = {}, [Next]_vars
  PROVE  [Pool!Next]_(Pool!poolVars)
<1>0. /\ TypeOK /\ LockDiscipline /\ CriticalConsistent
      /\ NoDoubleAllocation /\ FreeListIntact
  BY DEF TableInv
<1>1. ASSUME NEW t \in Threads, NEW h \in Hashes, BeginAllocate(t, h)
      PROVE  Pool!Next
  BY <1>0, <1>1, RequestStep DEF Pool!Next
<1>2. ASSUME NEW t \in Threads, NEW b \in Buckets, NEW i \in Slots,
             BeginFree(t, b, i)
      PROVE  Pool!Next
  BY <1>0, <1>2, GiveBackStep DEF Pool!Next
<1>3. ASSUME NEW t \in Threads, Step(t)
      PROVE  [Pool!Next]_(Pool!poolVars)
  <2>1. CASE Store(t)
    BY <1>0, <2>1, GrantStep DEF Pool!Next
  <2>2. CASE Overflow(t)
    BY <1>0, <2>2, RefuseStep DEF Pool!Next
  <2>3. CASE IncrementSize(t)
    BY <1>0, <2>3, DeliverStep DEF Pool!Next
  <2>4. CASE Push(t)
    BY <1>0, <2>4, ReleaseStep DEF Pool!Next
  <2>5. CASE Throw(t) \/ DecrementSize(t)
    BY <1>0, <2>5, FinishStep DEF Pool!Next
  <2> QED
    BY <1>0, <1>3, <2>1, <2>2, <2>3, <2>4, <2>5, InternalSteps DEF Step
<1>4. ASSUME NEW b \in Buckets, NEW i \in Slots, WriteObject(b, i)
      PROVE  UNCHANGED Pool!poolVars
  <2>1. UNCHANGED <<held, pc, bucket, hBit, objectIndex>>
    BY <1>4 DEF WriteObject, locals
  <2> QED
    BY <2>1 DEF Pool!poolVars, FreePlaces, HeldPlaces, Owned, Claims, CallOf,
                PlaceOf, Target
<1>5. CASE UNCHANGED vars
  BY <1>5 DEF vars, Pool!poolVars, FreePlaces, HeldPlaces, Owned, Claims,
              CallOf, PlaceOf, Target
<1> QED
  BY <1>1, <1>2, <1>3, <1>4, <1>5 DEF Next, Stop

(* As long as no version has come back under an optimistic lock, every     *)
(* call of allocate() and free() takes effect at one instant: allocate()   *)
(* hands out a slot that is free, or fails when one of its two buckets has *)
(* none, and free() returns the slot it was given.                         *)
THEOREM PoolImplemented == Spec /\ [](wrapped = {}) => ImplementsPool
<1>1. TableInv /\ wrapped = {} /\ [Next]_vars => [Pool!Next]_(Pool!poolVars)
  BY PoolStep
<1> QED
  BY <1>1, PoolInit, TableInvariant, PTL DEF Spec, ImplementsPool, Pool!Spec

-----------------------------------------------------------------------------
(***************************************************************************)
(* The statistics of the table, for any finite number of threads and       *)
(* buckets.  The counters are summed by folding a set, so that this part   *)
(* begins with what holds of such a sum.                                   *)
(***************************************************************************)
HIDE DerefTableAssumption

(* A set of numbers that is not empty has a least one, so that what holds  *)
(* of 0 and of the successor of each number it holds of, holds of all.     *)
LEMMA LeastNumber ==
  ASSUME NEW S \in SUBSET Nat, S # {}
  PROVE  \E n \in S : \A m \in S : n <= m
<1> DEFINE R == {ss \in Nat \X Nat : ss[1] < ss[2]}
<1>1. IsWellFoundedOn(R, Nat)
  BY NatLessThanWellFounded DEF OpToRel
<1>2. PICK n \in S : \A m \in S : ~(<<m, n>> \in R)
  <2> HIDE DEF R
  <2> QED
    BY <1>1, WFMin
<1>3. \A m \in S : ~(m < n)
  BY <1>2
<1> QED
  BY <1>3

LEMMA AllNumbers ==
  ASSUME NEW S, 0 \in S, \A n \in Nat : n \in S => n + 1 \in S
  PROVE  \A n \in Nat : n \in S
<1> SUFFICES ASSUME Nat \ S # {} PROVE FALSE
  OBVIOUS
<1>1. PICK n \in Nat \ S : \A m \in Nat \ S : n <= m
  BY LeastNumber
<1>2. n # 0 /\ n - 1 \in Nat /\ n - 1 \in S
  BY <1>1
<1>3. (n - 1) + 1 \in S
  BY <1>2
<1> QED
  BY <1>1, <1>3

(* How a sum takes one number after another.                               *)
Some(s) == CHOOSE x \in s : TRUE

Adds(f, g, s) == g[s] = IF s = {} THEN 0 ELSE f[Some(s)] + g[s \ {Some(s)}]

IsSum(f, g) ==
  g = [s \in SUBSET (DOMAIN f) |-> IF s = {} THEN 0 ELSE f[Some(s)] + g[s \ {Some(s)}]]

LEMMA SumIs ==
  ASSUME NEW f
  PROVE  SumOf(f) = (CHOOSE g : IsSum(f, g))[DOMAIN f]
BY DEF SumOf, MapThenSumSet, MapThenFoldSet, IsSum, Some

LEMMA SomeOf ==
  ASSUME NEW D, IsFiniteSet(D), NEW s \in SUBSET D
  PROVE  /\ IsFiniteSet(s) /\ Cardinality(s) \in Nat
         /\ Cardinality(s) = 0 <=> s = {}
         /\ s # {} => Some(s) \in s
         /\ \A x \in s : /\ s \ {x} \in SUBSET D
                         /\ Cardinality(s \ {x}) = Cardinality(s) - 1
<1>1. IsFiniteSet(s)
  BY FS_Subset
<1> QED
  BY <1>1, FS_CardinalityType, FS_EmptySet, FS_RemoveElement DEF Some

LEMMA SumExists ==
  ASSUME NEW f, IsFiniteSet(DOMAIN f)
  PROVE  \E g : IsSum(f, g)
<1> DEFINE D == DOMAIN f
           Good(n) == \E g : /\ g = [s \in SUBSET D |-> g[s]]
                             /\ \A s \in SUBSET D : Cardinality(s) <= n => Adds(f, g, s)
           Sizes == {n \in Nat : Good(n)}
<1>1. 0 \in Sizes
  <2> DEFINE g == [s \in SUBSET D |-> 0]
  <2>1. \A s \in SUBSET D : Cardinality(s) <= 0 => Adds(f, g, s)
    BY SomeOf DEF Adds
  <2> QED
    BY <2>1
<1>2. ASSUME NEW n \in Nat, n \in Sizes PROVE n + 1 \in Sizes
  <2>1. PICK g : /\ g = [s \in SUBSET D |-> g[s]]
                 /\ \A s \in SUBSET D : Cardinality(s) <= n => Adds(f, g, s)
    BY <1>2
  <2> DEFINE h == [s \in SUBSET D |-> IF s = {} THEN 0 ELSE f[Some(s)] + g[s \ {Some(s)}]]
  <2>2. \A s \in SUBSET D : Cardinality(s) <= n => h[s] = g[s]
    BY <2>1 DEF Adds
  <2>3. ASSUME NEW s \in SUBSET D, Cardinality(s) <= n + 1 PROVE Adds(f, h, s)
    <3>1. CASE s = {}
      BY <3>1 DEF Adds
    <3>2. CASE s # {}
      <4>1. s \ {Some(s)} \in SUBSET D /\ Cardinality(s \ {Some(s)}) <= n
        BY <2>3, <3>2, SomeOf
      <4>2. h[s \ {Some(s)}] = g[s \ {Some(s)}]
        BY <2>2, <4>1
      <4> QED
        BY <3>2, <4>2 DEF Adds
    <3> QED
      BY <3>1, <3>2
  <2>4. h = [s \in SUBSET D |-> h[s]]
    OBVIOUS
  <2>5. Good(n + 1)
    <3> HIDE DEF h
    <3>1. \A s \in SUBSET D : Cardinality(s) <= n + 1 => Adds(f, h, s)
      BY <2>3
    <3> QED
      BY <2>4, <3>1
  <2> HIDE DEF Good
  <2> QED
    BY <2>5
<1>3. \A n \in Nat : n \in Sizes
  <2> HIDE DEF Sizes
  <2> QED
    BY <1>1, <1>2, AllNumbers
<1>4. Cardinality(D) \in Nat
  BY FS_CardinalityType
<1>5. PICK g : /\ g = [s \in SUBSET D |-> g[s]]
               /\ \A s \in SUBSET D : Cardinality(s) <= Cardinality(D) => Adds(f, g, s)
  BY <1>3, <1>4
<1>6. \A s \in SUBSET D : Adds(f, g, s)
  BY <1>5, FS_Subset
<1>7. IsSum(f, g)
  BY <1>5, <1>6 DEF IsSum, Adds
<1> QED
  BY <1>7

LEMMA SumStep ==
  ASSUME NEW f, NEW g, IsSum(f, g)
  PROVE  \A s \in SUBSET (DOMAIN f) :
            /\ s = {} => g[s] = 0
            /\ s # {} => g[s] = f[Some(s)] + g[s \ {Some(s)}]
<1>1. \A s \in SUBSET (DOMAIN f) : g[s] = IF s = {} THEN 0 ELSE f[Some(s)] + g[s \ {Some(s)}]
  BY DEF IsSum
<1> QED
  BY <1>1

(* An integer for each element, and the sum of every part an integer.      *)
Numbers(f) == IsFiniteSet(DOMAIN f) /\ \A x \in DOMAIN f : f[x] \in Int

LEMMA SumType ==
  ASSUME NEW f, Numbers(f), NEW g, IsSum(f, g)
  PROVE  \A s \in SUBSET (DOMAIN f) : g[s] \in Int
<1> DEFINE D == DOMAIN f
           Sizes == {n \in Nat : \A s \in SUBSET D : Cardinality(s) = n => g[s] \in Int}
<1>1. 0 \in Sizes
  <2>1. \A s \in SUBSET D : Cardinality(s) = 0 => s = {}
    BY SomeOf DEF Numbers
  <2>2. \A s \in SUBSET D : s = {} => g[s] = 0
    BY SumStep
  <2> QED
    BY <2>1, <2>2
<1>2. ASSUME NEW n \in Nat, n \in Sizes PROVE n + 1 \in Sizes
  <2> SUFFICES ASSUME NEW s \in SUBSET D, Cardinality(s) = n + 1 PROVE g[s] \in Int
    OBVIOUS
  <2>1. s # {} /\ Some(s) \in s /\ s \ {Some(s)} \in SUBSET D /\ Cardinality(s \ {Some(s)}) = n
    BY SomeOf DEF Numbers
  <2>2. g[s \ {Some(s)}] \in Int /\ f[Some(s)] \in Int
    BY <1>2, <2>1 DEF Numbers
  <2> QED
    BY <2>1, <2>2, SumStep
<1>3. \A n \in Nat : n \in Sizes
  <2> HIDE DEF Sizes
  <2> QED
    BY <1>1, <1>2, AllNumbers
<1>4. \A s \in SUBSET D : Cardinality(s) \in Nat
  BY SomeOf DEF Numbers
<1> QED
  BY <1>3, <1>4

(* The order does not matter.                                              *)
LEMMA SumAny ==
  ASSUME NEW f, Numbers(f), NEW g, IsSum(f, g)
  PROVE  \A s \in SUBSET (DOMAIN f) : \A x \in s : g[s] = f[x] + g[s \ {x}]
<1> DEFINE D == DOMAIN f
           Good(s) == \A x \in s : g[s] = f[x] + g[s \ {x}]
           Sizes == {n \in Nat : \A s \in SUBSET D : Cardinality(s) = n => Good(s)}
<1>1. 0 \in Sizes
  BY SomeOf DEF Numbers
<1>2. ASSUME NEW n \in Nat, n \in Sizes PROVE n + 1 \in Sizes
  <2> SUFFICES ASSUME NEW s \in SUBSET D, Cardinality(s) = n + 1, NEW x \in s
               PROVE  g[s] = f[x] + g[s \ {x}]
    OBVIOUS
  <2> DEFINE c == Some(s)
  <2>1. c \in s /\ g[s] = f[c] + g[s \ {c}]
    BY SomeOf, SumStep DEF Numbers
  <2>2. CASE x = c
    BY <2>1, <2>2
  <2>3. CASE x # c
    <3>1. /\ s \ {c} \in SUBSET D /\ Cardinality(s \ {c}) = n /\ x \in s \ {c}
          /\ s \ {x} \in SUBSET D /\ Cardinality(s \ {x}) = n /\ c \in s \ {x}
      BY <2>1, <2>3, SomeOf DEF Numbers
    <3>2. (s \ {c}) \ {x} = (s \ {x}) \ {c} /\ (s \ {x}) \ {c} \in SUBSET D
      OBVIOUS
    <3> DEFINE r == (s \ {x}) \ {c}
    <3>3. g[s \ {c}] = f[x] + g[r]
      BY <1>2, <3>1, <3>2
    <3>4. g[s \ {x}] = f[c] + g[r]
      BY <1>2, <3>1, <3>2
    <3>5. f[c] \in Int /\ f[x] \in Int /\ g[r] \in Int
      BY <2>1, <3>2, SumType DEF Numbers
    <3> HIDE DEF r, c
    <3> QED
      BY <2>1, <3>3, <3>4, <3>5
  <2> QED
    BY <2>2, <2>3
<1>3. \A n \in Nat : n \in Sizes
  <2> HIDE DEF Sizes
  <2> QED
    BY <1>1, <1>2, AllNumbers
<1>4. \A s \in SUBSET D : Cardinality(s) \in Nat
  BY SomeOf DEF Numbers
<1> QED
  BY <1>3, <1>4

(* Sums compared part by part.                                             *)
LEMMA SumOrder ==
  ASSUME NEW f, Numbers(f), NEW g, IsSum(f, g),
         NEW e, Numbers(e), NEW h, IsSum(e, h), DOMAIN e = DOMAIN f,
         NEW S \in SUBSET (DOMAIN f)
  PROVE  /\ (\A x \in S : e[x] = f[x]) => h[S] = g[S]
         /\ (\A x \in S : e[x] <= f[x]) => h[S] <= g[S]
<1> DEFINE D == DOMAIN f
           Good(s) == /\ (\A x \in s : e[x] = f[x]) => h[s] = g[s]
                      /\ (\A x \in s : e[x] <= f[x]) => h[s] <= g[s]
           Sizes == {n \in Nat : \A s \in SUBSET D : Cardinality(s) = n => Good(s)}
<1>1. 0 \in Sizes
  <2> SUFFICES ASSUME NEW s \in SUBSET D, Cardinality(s) = 0 PROVE Good(s)
    OBVIOUS
  <2>1. s = {}
    BY SomeOf DEF Numbers
  <2>2. h[s] = 0 /\ g[s] = 0
    BY <2>1, SumStep
  <2> QED
    BY <2>2
<1>2. ASSUME NEW n \in Nat, n \in Sizes PROVE n + 1 \in Sizes
  <2> SUFFICES ASSUME NEW s \in SUBSET D, Cardinality(s) = n + 1 PROVE Good(s)
    OBVIOUS
  <2> DEFINE c == Some(s)
             r == s \ {c}
  <2>1. s # {} /\ c \in s /\ r \in SUBSET D /\ Cardinality(r) = n
    BY SomeOf DEF Numbers
  <2>2. h[s] = e[c] + h[r] /\ g[s] = f[c] + g[r]
    <3>1. \A a \in SUBSET D : a # {} => g[a] = f[Some(a)] + g[a \ {Some(a)}]
      BY SumStep
    <3>2. \A a \in SUBSET D : a # {} => h[a] = e[Some(a)] + h[a \ {Some(a)}]
      BY SumStep
    <3> QED
      BY <2>1, <3>1, <3>2
  <2>3. e[c] \in Int /\ f[c] \in Int /\ h[r] \in Int /\ g[r] \in Int
    BY <2>1, SumType DEF Numbers
  <2>4. Good(r)
    BY <1>2, <2>1
  <2>5. r \subseteq s
    OBVIOUS
  <2> HIDE DEF c, r
  <2> QED
    BY <2>1, <2>2, <2>3, <2>4, <2>5
<1>3. \A n \in Nat : n \in Sizes
  <2> HIDE DEF Sizes
  <2> QED
    BY <1>1, <1>2, AllNumbers
<1>4. Cardinality(S) \in Nat
  BY SomeOf DEF Numbers
<1> QED
  BY <1>3, <1>4

(* What the statistics need of sums.                                       *)
LEMMA SumOfType ==
  ASSUME NEW f, Numbers(f)
  PROVE  SumOf(f) \in Int
BY SumIs, SumExists, SumType DEF Numbers

LEMMA SumOfOrder ==
  ASSUME NEW f, NEW e, Numbers(f), Numbers(e), DOMAIN e = DOMAIN f,
         \A x \in DOMAIN f : e[x] <= f[x]
  PROVE  SumOf(e) <= SumOf(f)
<1>1. PICK g : IsSum(f, g) /\ SumOf(f) = g[DOMAIN f]
  BY SumIs, SumExists DEF Numbers
<1>2. PICK h : IsSum(e, h) /\ SumOf(e) = h[DOMAIN f]
  BY SumIs, SumExists DEF Numbers
<1> QED
  BY <1>1, <1>2, SumOrder

LEMMA SumOfChange ==
  ASSUME NEW f, Numbers(f), NEW x \in DOMAIN f, NEW v \in Int
  PROVE  /\ Numbers([f EXCEPT ![x] = v])
         /\ SumOf([f EXCEPT ![x] = v]) = SumOf(f) + v - f[x]
<1> DEFINE e == [f EXCEPT ![x] = v]
           D == DOMAIN f
<1>1. Numbers(e) /\ DOMAIN e = D /\ e[x] = v /\ \A y \in D \ {x} : e[y] = f[y]
  BY DEF Numbers
<1> HIDE DEF e
<1>2. PICK g : IsSum(f, g) /\ SumOf(f) = g[D]
  BY SumIs, SumExists DEF Numbers
<1>3. PICK h : IsSum(e, h) /\ SumOf(e) = h[D]
  BY <1>1, SumIs, SumExists DEF Numbers
<1>4. D \in SUBSET D /\ D \ {x} \in SUBSET D
  OBVIOUS
<1>5. g[D] = f[x] + g[D \ {x}]
  BY <1>2, <1>4, SumAny
<1>6. h[D] = v + h[D \ {x}]
  BY <1>1, <1>3, <1>4, SumAny
<1>7. h[D \ {x}] = g[D \ {x}]
  BY <1>1, <1>2, <1>3, <1>4, SumOrder
<1>8. f[x] \in Int /\ g[D \ {x}] \in Int
  BY <1>2, <1>4, SumType DEF Numbers
<1>9. SumOf(e) = SumOf(f) + v - f[x]
  BY <1>2, <1>3, <1>5, <1>6, <1>7, <1>8
<1> QED
  BY <1>1, <1>9 DEF e

LEMMA SumOfConstant ==
  ASSUME NEW D, IsFiniteSet(D), NEW c \in Nat
  PROVE  SumOf([x \in D |-> c]) = c * Cardinality(D)
<1> DEFINE f == [x \in D |-> c]
<1>1. Numbers(f) /\ DOMAIN f = D /\ \A x \in D : f[x] = c
  BY DEF Numbers
<1> HIDE DEF f
<1>2. PICK g : IsSum(f, g) /\ SumOf(f) = g[D]
  BY <1>1, SumIs, SumExists
<1> DEFINE Sizes == {n \in Nat : \A s \in SUBSET D : Cardinality(s) = n => g[s] = c * n}
<1>0. \A s \in SUBSET D : /\ s = {} => g[s] = 0
                          /\ s # {} => g[s] = f[Some(s)] + g[s \ {Some(s)}]
  <2>1. \A s \in SUBSET (DOMAIN f) : /\ s = {} => g[s] = 0
                                     /\ s # {} => g[s] = f[Some(s)] + g[s \ {Some(s)}]
    <3> SUFFICES ASSUME NEW s \in SUBSET (DOMAIN f)
                 PROVE  /\ s = {} => g[s] = 0
                        /\ s # {} => g[s] = f[Some(s)] + g[s \ {Some(s)}]
      OBVIOUS
    <3>1. IsSum(f, g)
      BY <1>2
    <3> QED
      BY <3>1, SumStep
  <2> QED
    BY <1>1, <2>1
<1>3. 0 \in Sizes
  <2> SUFFICES ASSUME NEW s \in SUBSET D, Cardinality(s) = 0 PROVE g[s] = 0
    OBVIOUS
  <2> QED
    BY <1>0, SomeOf
<1>4. ASSUME NEW n \in Nat, n \in Sizes PROVE n + 1 \in Sizes
  <2> SUFFICES ASSUME NEW s \in SUBSET D, Cardinality(s) = n + 1 PROVE g[s] = c * (n + 1)
    OBVIOUS
  <2>1. s # {} /\ Some(s) \in s /\ s \ {Some(s)} \in SUBSET D /\ Cardinality(s \ {Some(s)}) = n
    BY SomeOf
  <2>2. g[s] = c + g[s \ {Some(s)}]
    BY <1>0, <1>1, <2>1
  <2>3. g[s \ {Some(s)}] = c * n
    BY <1>4, <2>1
  <2>4. c * (n + 1) = c * n + c
    OBVIOUS
  <2> QED
    BY <2>2, <2>3, <2>4
<1>5. \A n \in Nat : n \in Sizes
  <2> HIDE DEF Sizes
  <2> QED
    BY <1>3, <1>4, AllNumbers
<1>6. Cardinality(D) \in Nat
  BY FS_CardinalityType
<1>7. g[D] = c * Cardinality(D)
  BY <1>5, <1>6
<1> QED
  BY <1>2, <1>7 DEF f

-----------------------------------------------------------------------------
(* Where the counters lag behind each other.  A call that frees has taken   *)
(* the object from its client, but is still counted in size; in between     *)
(* the counts of the buckets and the objects a slot belongs to neither.     *)
Freeing == {"lock", "link", "push", "count", "release", "decrement"}
Between == {"store", "unlock", "increment", "lock", "link", "push", "count"}

Share(p, F) == [t \in Threads |-> IF p[t] \in F THEN 1 ELSE 0]
Objects(h) == SumOf([b \in Buckets |-> SumOf(h[b])])

StatsInv ==
  /\ \A t \in Threads : size[t] <= maxSize[t]
  /\ SumOf(size) = Allocated + SumOf(Share(pc, Freeing))
  /\ SumOf(freeCount) + Allocated + SumOf(Share(pc, Between)) = Capacity
  /\ peak \in Int /\ peak <= SumOf(maxSize)
  /\ frees = 0 =>
        /\ \A t \in Threads : size[t] = maxSize[t] /\ pc[t] \notin Freeing
        /\ peak = Allocated

LEMMA ShareSum ==
  ASSUME NEW p, NEW F
  PROVE  /\ Numbers(Share(p, F)) /\ SumOf(Share(p, F)) \in Nat
         /\ (\A t \in Threads : p[t] \notin F) => SumOf(Share(p, F)) = 0
<1> DEFINE f == Share(p, F)
           zero == [t \in Threads |-> 0]
<1>1. Numbers(f) /\ Numbers(zero) /\ DOMAIN f = Threads /\ \A t \in Threads : zero[t] <= f[t]
  BY StatsAssumption DEF Numbers, Share
<1>2. SumOf(zero) = 0
  <2>1. SumOf(zero) = 0 * Cardinality(Threads)
    BY StatsAssumption, SumOfConstant
  <2>2. Cardinality(Threads) \in Nat
    BY StatsAssumption, FS_CardinalityType
  <2> QED
    BY <2>1, <2>2
<1>3. DOMAIN zero = Threads
  OBVIOUS
<1>4. (\A t \in Threads : p[t] \notin F) => f = zero
  BY DEF Share
<1> HIDE DEF f, zero
<1>5. SumOf(f) \in Int /\ SumOf(zero) <= SumOf(f)
  BY <1>1, <1>3, SumOfType, SumOfOrder
<1> QED
  BY <1>1, <1>2, <1>4, <1>5 DEF f

LEMMA ShareChange ==
  ASSUME NEW p, p \in [Threads -> Steps], NEW t \in Threads, NEW step, NEW F
  PROVE  SumOf(Share([p EXCEPT ![t] = step], F)) =
            SumOf(Share(p, F)) + (IF step \in F THEN 1 ELSE 0) - (IF p[t] \in F THEN 1 ELSE 0)
<1> DEFINE f == Share(p, F)
           v == IF step \in F THEN 1 ELSE 0
<1>1. Share([p EXCEPT ![t] = step], F) = [f EXCEPT ![t] = v]
  BY DEF Share
<1>2. Numbers(f) /\ t \in DOMAIN f /\ v \in Int /\ f[t] = IF p[t] \in F THEN 1 ELSE 0
  <2>1. Numbers(f) /\ v \in Int
    BY ShareSum
  <2>2. t \in DOMAIN f /\ f[t] = IF p[t] \in F THEN 1 ELSE 0
    BY DEF Share
  <2> QED
    BY <2>1, <2>2
<1> HIDE DEF f, v
<1>3. SumOf([f EXCEPT ![t] = v]) = SumOf(f) + v - f[t]
  BY <1>2, SumOfChange
<1>4. SumOf(Share([p EXCEPT ![t] = step], F)) = SumOf(f) + v - f[t]
  BY <1>1, <1>3
<1> QED
  BY <1>2, <1>4 DEF f, v

LEMMA ObjectsSum ==
  ASSUME NEW h \in [Buckets -> [Slots -> Nat]]
  PROVE  /\ \A b \in Buckets : Numbers(h[b]) /\ DOMAIN h[b] = Slots
         /\ Numbers([b \in Buckets |-> SumOf(h[b])])
         /\ Objects(h) \in Int
<1>1. IsFiniteSet(Slots)
  <2>1. 0 \in Int /\ Entries - 1 \in Int
    BY DerefTableAssumption
  <2> QED
    BY <2>1, FS_Interval DEF Slots
<1>2. \A b \in Buckets : Numbers(h[b]) /\ DOMAIN h[b] = Slots
  BY <1>1 DEF Numbers
<1>3. \A b \in Buckets : SumOf(h[b]) \in Int
  BY <1>2, SumOfType
<1>4. Numbers([b \in Buckets |-> SumOf(h[b])])
  BY <1>3, StatsAssumption DEF Numbers
<1> QED
  BY <1>2, <1>4, SumOfType DEF Objects

LEMMA ObjectsChange ==
  ASSUME NEW h \in [Buckets -> [Slots -> Nat]], NEW b \in Buckets, NEW i \in Slots, NEW v \in Int
  PROVE  Objects([h EXCEPT ![b][i] = v]) = Objects(h) + v - h[b][i]
<1> DEFINE f == [c \in Buckets |-> SumOf(h[c])]
           r == [h[b] EXCEPT ![i] = v]
           g == [h EXCEPT ![b][i] = v]
<1>1. /\ Numbers(h[b]) /\ i \in DOMAIN h[b] /\ Numbers(f) /\ DOMAIN f = Buckets
      /\ f[b] = SumOf(h[b]) /\ h[b][i] \in Nat
  BY ObjectsSum
<1>2. SumOf(r) = SumOf(h[b]) + v - h[b][i]
  BY <1>1, SumOfChange
<1>3. g[b] = r /\ \A c \in Buckets \ {b} : g[c] = h[c]
  OBVIOUS
<1>4. [c \in Buckets |-> SumOf(g[c])] = [f EXCEPT ![b] = SumOf(r)]
  <2> HIDE DEF g, r
  <2> QED
    BY <1>3
<1>5. SumOf(h[b]) \in Int /\ SumOf(r) \in Int
  <2>1. SumOf(h[b]) \in Int
    BY <1>1, SumOfType
  <2> QED
    BY <1>1, <1>2, <2>1
<1>6. SumOf([f EXCEPT ![b] = SumOf(r)]) = SumOf(f) + SumOf(r) - f[b]
  <2> HIDE DEF f, r
  <2> QED
    BY <1>1, <1>5, SumOfChange
<1>7. SumOf(f) \in Int
  BY <1>1, SumOfType
<1> HIDE DEF f, r, g
<1>8. Objects(g) = SumOf(f) + v - h[b][i]
  BY <1>1, <1>2, <1>4, <1>5, <1>6, <1>7 DEF Objects
<1>9. Objects(h) = SumOf(f)
  BY DEF Objects, f
<1> QED
  BY <1>8, <1>9 DEF g

LEMMA AllocatedIs == Allocated = Objects(held)
BY DEF Allocated, AllocatedIn, Objects

LEMMA StatsInit == StatInit => StatsInv
<1> SUFFICES ASSUME StatInit PROVE StatsInv
  OBVIOUS
<1>1. size = [t \in Threads |-> 0] /\ maxSize = [t \in Threads |-> 0] /\ peak = 0 /\ frees = 0
  BY DEF StatInit, Init
<1>2. SumOf(size) = 0 * Cardinality(Threads) /\ SumOf(maxSize) = 0 * Cardinality(Threads)
  BY <1>1, StatsAssumption, SumOfConstant
<1>3. SumOf(size) = 0 /\ SumOf(maxSize) = 0
  <2>1. Cardinality(Threads) \in Nat
    BY StatsAssumption, FS_CardinalityType
  <2> QED
    BY <1>2, <2>1
<1>4. Entries \in Nat /\ Cardinality(Buckets) \in Nat /\ Entries - 1 \in Int
  BY DerefTableAssumption, StatsAssumption, FS_CardinalityType
<1>5. freeCount = [b \in Buckets |-> Entries]
  BY DEF StatInit, Init
<1>6. SumOf(freeCount) = Entries * Cardinality(Buckets)
  BY <1>4, <1>5, StatsAssumption, SumOfConstant
<1>7. SumOf([i \in Slots |-> 0]) = 0
  <2>1. IsFiniteSet(Slots)
    BY <1>4, FS_Interval DEF Slots
  <2>2. Cardinality(Slots) \in Nat
    BY <2>1, FS_CardinalityType
  <2>3. SumOf([i \in Slots |-> 0]) = 0 * Cardinality(Slots)
    BY <2>1, SumOfConstant
  <2> QED
    BY <2>2, <2>3
<1>8. [b \in Buckets |-> SumOf(held[b])] = [b \in Buckets |-> 0]
  <2>1. \A b \in Buckets : held[b] = [i \in Slots |-> 0]
    BY DEF StatInit, Init
  <2> QED
    BY <1>7, <2>1
<1>9. Allocated = 0
  <2>1. SumOf([b \in Buckets |-> 0]) = 0 * Cardinality(Buckets)
    BY StatsAssumption, SumOfConstant
  <2> QED
    BY <1>4, <1>8, <2>1, AllocatedIs DEF Objects
<1>10. \A t \in Threads : pc[t] = "idle"
  BY DEF StatInit, Init
<1>11. \A t \in Threads : pc[t] \notin Freeing /\ pc[t] \notin Between
  BY <1>10 DEF Freeing, Between
<1>12. SumOf(Share(pc, Freeing)) = 0 /\ SumOf(Share(pc, Between)) = 0
  BY <1>11, ShareSum
<1>13. \A t \in Threads : size[t] = 0 /\ maxSize[t] = 0
  BY <1>1
<1> QED
  BY <1>1, <1>3, <1>4, <1>6, <1>9, <1>11, <1>12, <1>13 DEF StatsInv, Capacity

(* A step that moves the sums by amounts that agree preserves StatsInv.     *)
LEMMA Balanced ==
  ASSUME TypeOK, TypeOK', StatsInv,
         peak' = IF Allocated' > peak THEN Allocated' ELSE peak,
         NEW s \in Int, NEW a \in Int, NEW c \in Int,
         SumOf(size') = SumOf(size) + s,
         Allocated' = Allocated + a,
         SumOf(freeCount') = SumOf(freeCount) + c,
         SumOf(Share(pc', Freeing)) = SumOf(Share(pc, Freeing)) + s - a,
         SumOf(Share(pc', Between)) = SumOf(Share(pc, Between)) - a - c,
         \A t \in Threads : size'[t] <= maxSize'[t] /\ maxSize[t] <= maxSize'[t],
         frees' = 0 =>
           /\ frees = 0 /\ a >= 0
           /\ \A t \in Threads : size'[t] = maxSize'[t] /\ pc'[t] \notin Freeing
  PROVE  StatsInv'
<1>1. /\ Numbers(size) /\ Numbers(size') /\ Numbers(maxSize) /\ Numbers(maxSize')
      /\ Numbers(freeCount)
      /\ DOMAIN size = Threads /\ DOMAIN size' = Threads
      /\ DOMAIN maxSize = Threads /\ DOMAIN maxSize' = Threads
  BY StatsAssumption DEF TypeOK, Numbers
<1>2. /\ SumOf(size) \in Int /\ SumOf(maxSize) \in Int /\ SumOf(maxSize') \in Int
      /\ SumOf(freeCount) \in Int
  BY <1>1, SumOfType
<1>3. SumOf(size') <= SumOf(maxSize') /\ SumOf(maxSize) <= SumOf(maxSize')
  BY <1>1, SumOfOrder
<1>4. /\ SumOf(Share(pc, Freeing)) \in Nat /\ SumOf(Share(pc, Between)) \in Nat
      /\ SumOf(Share(pc', Freeing)) \in Nat /\ SumOf(Share(pc', Between)) \in Nat
  BY ShareSum
<1>5. Allocated \in Int
  BY AllocatedIs, ObjectsSum DEF TypeOK
<1>6. SumOf(size') = Allocated' + SumOf(Share(pc', Freeing))
  BY <1>2, <1>4, <1>5 DEF StatsInv
<1>7. SumOf(freeCount') + Allocated' + SumOf(Share(pc', Between)) = Capacity
  BY <1>2, <1>4, <1>5 DEF StatsInv
<1>8. Allocated' <= SumOf(maxSize')
  <2>1. Allocated' <= SumOf(size') /\ Allocated' \in Int /\ SumOf(size') \in Int
    BY <1>2, <1>4, <1>5, <1>6
  <2> QED
    BY <1>2, <1>3, <2>1
<1>9. peak' \in Int /\ peak' <= SumOf(maxSize')
  BY <1>2, <1>3, <1>5, <1>8 DEF StatsInv
<1>10. frees' = 0 => peak' = Allocated'
  BY <1>5 DEF StatsInv
<1> QED
  BY <1>6, <1>7, <1>9, <1>10 DEF StatsInv, Capacity

(* Steps that count nothing and leave their thread where it was counted.    *)
Uncounted(t) ==
  /\ \E step \in Steps : /\ pc' = [pc EXCEPT ![t] = step]
                         /\ step \in Freeing <=> pc[t] \in Freeing
                         /\ step \in Between <=> pc[t] \in Between
  /\ UNCHANGED <<freeCount, held, size, maxSize, frees>>

LEMMA UncountedStep ==
  ASSUME TypeOK, TypeOK', StatsInv,
         peak' = IF Allocated' > peak THEN Allocated' ELSE peak,
         NEW t \in Threads, Uncounted(t)
  PROVE  StatsInv'
<1>1. PICK step \in Steps : /\ pc' = [pc EXCEPT ![t] = step]
                            /\ step \in Freeing <=> pc[t] \in Freeing
                            /\ step \in Between <=> pc[t] \in Between
  BY DEF Uncounted
<1>2. UNCHANGED <<freeCount, held, size, maxSize, frees>>
  BY DEF Uncounted
<1>3. /\ SumOf(Share(pc', Freeing)) = SumOf(Share(pc, Freeing)) + 0 - 0
      /\ SumOf(Share(pc', Between)) = SumOf(Share(pc, Between)) - 0 - 0
  <2>1. Share(pc', Freeing) = Share(pc, Freeing) /\ Share(pc', Between) = Share(pc, Between)
    BY <1>1 DEF Share, TypeOK
  <2> QED
    BY <2>1, ShareSum
<1>4. Allocated' = Allocated /\ Allocated \in Int
  BY <1>2, AllocatedIs, ObjectsSum DEF TypeOK, Allocated, AllocatedIn
<1>5. SumOf(size) \in Int /\ SumOf(freeCount) \in Int
  <2>1. Numbers(size) /\ Numbers(freeCount)
    BY StatsAssumption DEF TypeOK, Numbers
  <2> QED
    BY <2>1, SumOfType
<1>6. /\ SumOf(size') = SumOf(size) + 0 /\ Allocated' = Allocated + 0
      /\ SumOf(freeCount') = SumOf(freeCount) + 0
  BY <1>2, <1>4, <1>5
<1>7. \A u \in Threads : /\ size'[u] <= maxSize'[u]
                         /\ maxSize[u] <= maxSize'[u]
  BY <1>2 DEF StatsInv, TypeOK
<1>8. \A u \in Threads : pc'[u] \in Freeing <=> pc[u] \in Freeing
  BY <1>1 DEF TypeOK
<1>9. frees' = 0 =>
        /\ frees = 0 /\ 0 >= 0
        /\ \A u \in Threads : size'[u] = maxSize'[u] /\ pc'[u] \notin Freeing
  BY <1>2, <1>8 DEF StatsInv
<1> QED
  BY <1>3, <1>6, <1>7, <1>9, Balanced

LEMMA UncountedSteps ==
  ASSUME TypeOK, NEW t \in Threads,
         \/ \E h \in Hashes : BeginAllocate(t, h)
         \/ LockFirst(t) \/ LockSecond(t) \/ CountFirst(t) \/ CountSecond(t)
         \/ ReadHead(t) \/ ReadNext(t) \/ Validate(t) \/ ValidateFails(t)
         \/ Upgrade(t) \/ UpgradeFails(t) \/ Overflow(t)
         \/ (\E u \in Threads : ReadCounter(t, u)) \/ Throw(t)
         \/ Store(t) \/ UnlockAllocated(t)
         \/ LockExclusive(t) \/ Link(t) \/ Push(t) \/ UnlockFreed(t)
  PROVE  Uncounted(t)
<1> USE DEF Uncounted, Freeing, Between, Steps, Reading, Holding, Goto, TypeOK, table,
            locals, counters, budget
<1>1. CASE \E h \in Hashes : BeginAllocate(t, h)
  BY <1>1 DEF BeginAllocate
<1>2. CASE LockFirst(t) \/ LockSecond(t)
  BY <1>2 DEF LockFirst, LockSecond, LockOptimistically
<1>3. CASE CountFirst(t) \/ CountSecond(t) \/ ReadHead(t) \/ ReadNext(t)
  BY <1>3 DEF CountFirst, CountSecond, ReadHead, ReadNext
<1>4. CASE Validate(t) \/ ValidateFails(t)
  BY <1>4 DEF Validate, ValidateFails, Retry
<1>5. CASE Upgrade(t) \/ UpgradeFails(t)
  BY <1>5 DEF Upgrade, UpgradeFails, Retry
<1>6. CASE Overflow(t)
  BY <1>6 DEF Overflow
<1>7. CASE \E u \in Threads : ReadCounter(t, u)
  <2>1. pc' = [pc EXCEPT ![t] = "size"] /\ pc[t] = "size"
    BY <1>7 DEF ReadCounter
  <2>2. UNCHANGED <<freeCount, held, size, maxSize, frees>>
    BY <1>7 DEF ReadCounter
  <2> QED
    BY <2>1, <2>2
<1>8. CASE Throw(t)
  BY <1>8 DEF Throw
<1>9. CASE Store(t) \/ UnlockAllocated(t)
  BY <1>9 DEF Store, UnlockAllocated
<1>10. CASE LockExclusive(t) \/ Link(t)
  BY <1>10 DEF LockExclusive, Link
<1>11. CASE Push(t) \/ UnlockFreed(t)
  BY <1>11 DEF Push, UnlockFreed
<1> QED
  BY <1>1, <1>2, <1>3, <1>4, <1>5, <1>6, <1>7, <1>8, <1>9, <1>10, <1>11

LEMMA CountingStep ==
  ASSUME TableInv, CriticalConsistent, TypeOK', StatsInv,
         peak' = IF Allocated' > peak THEN Allocated' ELSE peak,
         NEW t \in Threads,
         \/ Take(t) \/ Count(t) \/ IncrementSize(t) \/ DecrementSize(t)
         \/ \E b \in Buckets, i \in Slots : BeginFree(t, b, i)
  PROVE  StatsInv'
<1>1. TypeOK /\ t \in DOMAIN pc /\ pc \in [Threads -> Steps] /\ Target(t) \in Buckets
  BY TargetType DEF TableInv, TypeOK
<1>2. /\ Numbers(size) /\ Numbers(maxSize) /\ Numbers(freeCount)
      /\ DOMAIN size = Threads /\ DOMAIN freeCount = Buckets
  BY <1>1, StatsAssumption DEF TypeOK, Numbers
<1>3. SumOf(size) \in Int /\ SumOf(freeCount) \in Int /\ Allocated \in Int
  BY <1>1, <1>2, SumOfType, AllocatedIs, ObjectsSum DEF TypeOK
<1>4. SumOf(Share(pc, Freeing)) \in Nat /\ SumOf(Share(pc, Between)) \in Nat
  BY ShareSum
<1>5. \A u \in Threads : size[u] <= maxSize[u] /\ size[u] \in Int /\ maxSize[u] \in Nat
  BY <1>1 DEF StatsInv, TypeOK
<1>11. /\ \A x \in Buckets, v \in Int :
             SumOf([freeCount EXCEPT ![x] = v]) = SumOf(freeCount) + v - freeCount[x]
       /\ \A x \in Threads, v \in Int :
             SumOf([size EXCEPT ![x] = v]) = SumOf(size) + v - size[x]
  BY <1>2, SumOfChange
<1>12. \A step : \A F :
         SumOf(Share([pc EXCEPT ![t] = step], F)) =
           SumOf(Share(pc, F)) + (IF step \in F THEN 1 ELSE 0) - (IF pc[t] \in F THEN 1 ELSE 0)
  BY <1>1, ShareChange
<1>6. CASE Take(t)
  <2>1. /\ pc[t] = "take" /\ pc' = [pc EXCEPT ![t] = "store"]
        /\ freeCount' = [freeCount EXCEPT ![Target(t)] = freeCount[Target(t)] - 1]
        /\ UNCHANGED <<held, size, maxSize, frees>>
    BY <1>6 DEF Take, Goto, counters, budget
  <2>2. SumOf(freeCount') = SumOf(freeCount) + (-1)
    <3>1. freeCount[Target(t)] \in Int /\ freeCount[Target(t)] - 1 \in Int
      BY <1>1 DEF TypeOK
    <3>2. SumOf([freeCount EXCEPT ![Target(t)] = freeCount[Target(t)] - 1]) =
            SumOf(freeCount) + (freeCount[Target(t)] - 1) - freeCount[Target(t)]
      BY <1>1, <1>11, <3>1
    <3> QED
      BY <1>3, <2>1, <3>1, <3>2
  <2>3. /\ SumOf(Share(pc', Freeing)) = SumOf(Share(pc, Freeing)) + 0 - 0
        /\ SumOf(Share(pc', Between)) = SumOf(Share(pc, Between)) - 0 - (-1)
    <3>1. \A F : SumOf(Share(pc', F)) =
            SumOf(Share(pc, F)) + (IF "store" \in F THEN 1 ELSE 0) - (IF "take" \in F THEN 1 ELSE 0)
      BY <1>12, <2>1
    <3>2. /\ "store" \notin Freeing /\ "take" \notin Freeing
          /\ "store" \in Between /\ "take" \notin Between
      BY DEF Freeing, Between
    <3> QED
      BY <1>4, <3>1, <3>2
  <2>4. SumOf(size') = SumOf(size) + 0 /\ Allocated' = Allocated + 0
    BY <1>3, <2>1 DEF Allocated, AllocatedIn
  <2>5. \A u \in Threads : size'[u] <= maxSize'[u] /\ maxSize[u] <= maxSize'[u]
    BY <1>5, <2>1
  <2>6. frees' = 0 =>
          /\ frees = 0 /\ 0 >= 0
          /\ \A u \in Threads : size'[u] = maxSize'[u] /\ pc'[u] \notin Freeing
    BY <1>1, <2>1 DEF StatsInv, Freeing
  <2> QED
    BY <1>1, <2>2, <2>3, <2>4, <2>5, <2>6, Balanced
<1>7. CASE Count(t)
  <2>1. /\ pc[t] = "count" /\ pc' = [pc EXCEPT ![t] = "release"]
        /\ freeCount' = [freeCount EXCEPT ![Target(t)] = freeCount[Target(t)] + 1]
        /\ UNCHANGED <<held, size, maxSize, frees>>
    BY <1>7 DEF Count, Goto, counters, budget
  <2>2. SumOf(freeCount') = SumOf(freeCount) + 1
    <3>1. freeCount[Target(t)] \in Int /\ freeCount[Target(t)] + 1 \in Int
      BY <1>1 DEF TypeOK
    <3>2. SumOf([freeCount EXCEPT ![Target(t)] = freeCount[Target(t)] + 1]) =
            SumOf(freeCount) + (freeCount[Target(t)] + 1) - freeCount[Target(t)]
      BY <1>1, <1>11, <3>1
    <3> QED
      BY <1>3, <2>1, <3>1, <3>2
  <2>3. /\ SumOf(Share(pc', Freeing)) = SumOf(Share(pc, Freeing)) + 0 - 0
        /\ SumOf(Share(pc', Between)) = SumOf(Share(pc, Between)) - 0 - 1
    <3>1. \A F : SumOf(Share(pc', F)) =
            SumOf(Share(pc, F)) + (IF "release" \in F THEN 1 ELSE 0) - (IF "count" \in F THEN 1 ELSE 0)
      BY <1>12, <2>1
    <3>2. /\ "release" \in Freeing /\ "count" \in Freeing
          /\ "release" \notin Between /\ "count" \in Between
      BY DEF Freeing, Between
    <3> QED
      BY <1>4, <3>1, <3>2
  <2>4. SumOf(size') = SumOf(size) + 0 /\ Allocated' = Allocated + 0
    BY <1>3, <2>1 DEF Allocated, AllocatedIn
  <2>5. \A u \in Threads : size'[u] <= maxSize'[u] /\ maxSize[u] <= maxSize'[u]
    BY <1>5, <2>1
  <2>6. frees' = 0 => FALSE
    BY <1>1, <2>1 DEF StatsInv, Freeing
  <2> QED
    BY <1>1, <2>2, <2>3, <2>4, <2>5, <2>6, Balanced
<1>8. CASE IncrementSize(t)
  <2> DEFINE b == Target(t)
             i == objectIndex[t]
  <2>1. /\ pc[t] = "increment" /\ pc' = [pc EXCEPT ![t] = "idle"]
        /\ size' = [size EXCEPT ![t] = size[t] + 1]
        /\ maxSize' = [maxSize EXCEPT ![t] = IF size[t] + 1 > maxSize[t]
                                             THEN size[t] + 1 ELSE maxSize[t]]
        /\ held' = [held EXCEPT ![b][i] = held[b][i] + 1]
        /\ UNCHANGED <<freeCount, frees>>
    BY <1>8 DEF IncrementSize, Goto, table, budget
  <2>2. b \in Buckets /\ i \in Slots /\ held \in [Buckets -> [Slots -> Nat]]
    BY <1>1, <2>1 DEF CriticalConsistent, Claiming, TypeOK
  <2>3. Allocated' = Allocated + 1
    <3> HIDE DEF b, i
    <3>1. held[b][i] \in Nat /\ held[b][i] + 1 \in Int
      BY <2>2
    <3>2. Objects(held') = Objects(held) + (held[b][i] + 1) - held[b][i]
      BY <2>1, <2>2, <3>1, ObjectsChange
    <3>3. Allocated' = Objects(held')
      BY DEF Allocated, AllocatedIn, Objects
    <3> QED
      BY <1>3, <3>1, <3>2, <3>3, AllocatedIs
  <2>4. SumOf(size') = SumOf(size) + 1
    <3>1. size[t] \in Int /\ size[t] + 1 \in Int
      BY <1>5
    <3>2. SumOf([size EXCEPT ![t] = size[t] + 1]) =
            SumOf(size) + (size[t] + 1) - size[t]
      BY <1>1, <1>11, <3>1
    <3> QED
      BY <1>3, <2>1, <3>1, <3>2
  <2>5. /\ SumOf(Share(pc', Freeing)) = SumOf(Share(pc, Freeing)) + 1 - 1
        /\ SumOf(Share(pc', Between)) = SumOf(Share(pc, Between)) - 1 - 0
    <3>1. \A F : SumOf(Share(pc', F)) =
            SumOf(Share(pc, F)) + (IF "idle" \in F THEN 1 ELSE 0) - (IF "increment" \in F THEN 1 ELSE 0)
      BY <1>12, <2>1
    <3>2. /\ "idle" \notin Freeing /\ "increment" \notin Freeing
          /\ "idle" \notin Between /\ "increment" \in Between
      BY DEF Freeing, Between
    <3> QED
      BY <1>4, <3>1, <3>2
  <2>6. SumOf(freeCount') = SumOf(freeCount) + 0
    BY <1>3, <2>1
  <2>7. DOMAIN maxSize = Threads /\ DOMAIN size = Threads
    BY <1>1 DEF TypeOK
  <2>8. \A u \in Threads : size'[u] <= maxSize'[u] /\ maxSize[u] <= maxSize'[u]
    BY <1>5, <2>1, <2>7
  <2>9. frees' = 0 =>
          /\ frees = 0 /\ 1 >= 0
          /\ \A u \in Threads : size'[u] = maxSize'[u] /\ pc'[u] \notin Freeing
    BY <1>1, <1>5, <2>1, <2>7 DEF StatsInv, Freeing
  <2> QED
    BY <1>1, <2>3, <2>4, <2>5, <2>6, <2>8, <2>9, Balanced
<1>9. CASE DecrementSize(t)
  <2>1. /\ pc[t] = "decrement" /\ pc' = [pc EXCEPT ![t] = "idle"]
        /\ size' = [size EXCEPT ![t] = size[t] - 1]
        /\ UNCHANGED <<freeCount, held, maxSize, frees>>
    BY <1>9 DEF DecrementSize, Goto, table, budget
  <2>2. SumOf(size') = SumOf(size) + (-1)
    <3>1. size[t] \in Int /\ size[t] - 1 \in Int
      BY <1>5
    <3>2. SumOf([size EXCEPT ![t] = size[t] - 1]) =
            SumOf(size) + (size[t] - 1) - size[t]
      BY <1>1, <1>11, <3>1
    <3> QED
      BY <1>3, <2>1, <3>1, <3>2
  <2>3. /\ SumOf(Share(pc', Freeing)) = SumOf(Share(pc, Freeing)) + (-1) - 0
        /\ SumOf(Share(pc', Between)) = SumOf(Share(pc, Between)) - 0 - 0
    <3>1. \A F : SumOf(Share(pc', F)) =
            SumOf(Share(pc, F)) + (IF "idle" \in F THEN 1 ELSE 0) - (IF "decrement" \in F THEN 1 ELSE 0)
      BY <1>12, <2>1
    <3>2. /\ "idle" \notin Freeing /\ "decrement" \in Freeing
          /\ "idle" \notin Between /\ "decrement" \notin Between
      BY DEF Freeing, Between
    <3> QED
      BY <1>4, <3>1, <3>2
  <2>4. SumOf(freeCount') = SumOf(freeCount) + 0 /\ Allocated' = Allocated + 0
    BY <1>3, <2>1 DEF Allocated, AllocatedIn
  <2>5. \A u \in Threads : size'[u] <= maxSize'[u] /\ maxSize[u] <= maxSize'[u]
    BY <1>2, <1>5, <2>1
  <2>6. frees' = 0 => FALSE
    BY <1>1, <2>1 DEF StatsInv, Freeing
  <2> QED
    BY <1>1, <2>2, <2>3, <2>4, <2>5, <2>6, Balanced
<1>10. CASE \E b \in Buckets, i \in Slots : BeginFree(t, b, i)
  <2>0. PICK b \in Buckets, i \in Slots : BeginFree(t, b, i)
    BY <1>10
  <2>1. /\ pc[t] = "idle" /\ pc' = [pc EXCEPT ![t] = "lock"]
        /\ held' = [held EXCEPT ![b][i] = held[b][i] - 1]
        /\ frees' = frees + 1
        /\ UNCHANGED <<freeCount, size, maxSize>>
    BY <2>0 DEF BeginFree, Goto, table, counters
  <2>2. held \in [Buckets -> [Slots -> Nat]] /\ frees \in Nat
    BY <1>1 DEF TypeOK
  <2>3. Allocated' = Allocated + (-1)
    <3>1. held[b][i] \in Nat /\ held[b][i] - 1 \in Int
      BY <2>2
    <3>2. Objects(held') = Objects(held) + (held[b][i] - 1) - held[b][i]
      BY <2>1, <2>2, <3>1, ObjectsChange
    <3>3. Allocated' = Objects(held')
      BY DEF Allocated, AllocatedIn, Objects
    <3> QED
      BY <1>3, <3>1, <3>2, <3>3, AllocatedIs
  <2>4. /\ SumOf(Share(pc', Freeing)) = SumOf(Share(pc, Freeing)) + 0 - (-1)
        /\ SumOf(Share(pc', Between)) = SumOf(Share(pc, Between)) - (-1) - 0
    <3>1. \A F : SumOf(Share(pc', F)) =
            SumOf(Share(pc, F)) + (IF "lock" \in F THEN 1 ELSE 0) - (IF "idle" \in F THEN 1 ELSE 0)
      BY <1>12, <2>1
    <3>2. /\ "lock" \in Freeing /\ "idle" \notin Freeing
          /\ "lock" \in Between /\ "idle" \notin Between
      BY DEF Freeing, Between
    <3> QED
      BY <1>4, <3>1, <3>2
  <2>5. SumOf(freeCount') = SumOf(freeCount) + 0 /\ SumOf(size') = SumOf(size) + 0
    BY <1>3, <2>1
  <2>6. \A u \in Threads : size'[u] <= maxSize'[u] /\ maxSize[u] <= maxSize'[u]
    BY <1>5, <2>1
  <2>7. frees' = 0 => FALSE
    BY <2>1, <2>2
  <2> QED
    BY <1>1, <2>3, <2>4, <2>5, <2>6, <2>7, Balanced
<1> QED
  BY <1>6, <1>7, <1>8, <1>9, <1>10

LEMMA WrappedBefore == [Next]_vars /\ wrapped' = {} => wrapped = {}
<1> SUFFICES ASSUME [Next]_vars, wrapped' = {} PROVE wrapped = {}
  OBVIOUS
<1>1. (\E t \in Threads : Act(t)) \/ UNCHANGED wrapped
  BY DEF Next, Act, WriteObject, Stop, vars
<1> QED
  BY <1>1, WrappedGrows

LEMMA StatsStep ==
  ASSUME TableInv, StatsInv, [StatNext]_statVars, wrapped' = {}
  PROVE  StatsInv'
<1>1. [Next]_vars /\ TableInv'
  <2>1. [Next]_vars
    BY DEF StatNext, statVars
  <2> QED
    BY <2>1, TableInvStep
<1>2. wrapped = {} /\ TypeOK /\ TypeOK' /\ CriticalConsistent
  <2>1. wrapped = {}
    BY <1>1, WrappedBefore
  <2> QED
    BY <1>1, <2>1 DEF TableInv
<1>3. CASE UNCHANGED statVars
  BY <1>3 DEF statVars, vars, StatsInv, Allocated, AllocatedIn, Capacity
<1>4. CASE StatNext
  <2>1. peak' = IF Allocated' > peak THEN Allocated' ELSE peak
    BY <1>4 DEF StatNext
  <2>2. ASSUME NEW t \in Threads,
               (\E h \in Hashes : BeginAllocate(t, h))
                 \/ (\E b \in Buckets, i \in Slots : BeginFree(t, b, i)) \/ Step(t)
        PROVE  StatsInv'
    <3>1. CASE \/ Take(t) \/ Count(t) \/ IncrementSize(t) \/ DecrementSize(t)
               \/ \E b \in Buckets, i \in Slots : BeginFree(t, b, i)
      BY <1>2, <2>1, <3>1, CountingStep
    <3>2. CASE ~(\/ Take(t) \/ Count(t) \/ IncrementSize(t) \/ DecrementSize(t)
                 \/ \E b \in Buckets, i \in Slots : BeginFree(t, b, i))
      <4>1. Uncounted(t)
        BY <1>2, <2>2, <3>2, UncountedSteps DEF Step
      <4> QED
        BY <1>2, <2>1, <4>1, UncountedStep
    <3> QED
      BY <3>1, <3>2
  <2>3. CASE (\E b \in Buckets, i \in Slots : WriteObject(b, i)) \/ Stop
    <3>1. UNCHANGED <<freeCount, held, pc, size, maxSize, frees>>
      BY <2>3 DEF WriteObject, Stop, vars, counters, budget
    <3>2. Allocated' = Allocated
      BY <3>1 DEF Allocated, AllocatedIn
    <3>3. Threads # {} => StatsInv'
      <4> SUFFICES ASSUME NEW t \in Threads PROVE StatsInv'
        OBVIOUS
      <4>1. pc' = [pc EXCEPT ![t] = pc[t]] /\ pc[t] \in Steps
        BY <1>2, <3>1 DEF TypeOK
      <4>2. Uncounted(t)
        BY <3>1, <4>1 DEF Uncounted
      <4> QED
        BY <1>2, <2>1, <4>2, UncountedStep
    <3>4. Threads = {} => StatsInv'
      <4> SUFFICES ASSUME Threads = {} PROVE StatsInv'
        OBVIOUS
      <4>1. /\ Numbers(maxSize) /\ SumOf(Share(pc, Freeing)) \in Nat
            /\ \A t \in Threads : pc[t] \notin Freeing
        BY <1>2, StatsAssumption, ShareSum DEF TypeOK, Numbers
      <4>2. SumOf(Share(pc, Freeing)) = 0
        BY <4>1, ShareSum
      <4>3. Numbers(size) /\ DOMAIN size = Threads /\ DOMAIN maxSize = Threads
        BY <1>2, StatsAssumption DEF TypeOK, Numbers
      <4>4. SumOf(size) <= SumOf(maxSize) /\ SumOf(size) \in Int /\ SumOf(maxSize) \in Int
        BY <4>1, <4>3, SumOfOrder, SumOfType
      <4>5. Allocated \in Int
        BY <1>2, AllocatedIs, ObjectsSum DEF TypeOK
      <4>6. Allocated <= SumOf(maxSize)
        BY <4>2, <4>4, <4>5 DEF StatsInv
      <4>7. peak' \in Int /\ peak' <= SumOf(maxSize) /\ (frees = 0 => peak' = Allocated)
        BY <2>1, <3>2, <4>4, <4>5, <4>6 DEF StatsInv
      <4> QED
        BY <3>1, <3>2, <4>7 DEF StatsInv, Capacity
    <3> QED
      BY <3>3, <3>4
  <2> QED
    BY <1>4, <2>2, <2>3 DEF StatNext, Next
<1> QED
  BY <1>3, <1>4

LEMMA StatsAlways == StatSpec => [](TableInv /\ (wrapped = {} => StatsInv))
<1>1. StatInit => TableInv /\ (wrapped = {} => StatsInv)
  BY TableInvInit, StatsInit DEF StatInit
<1>2. TableInv /\ (wrapped = {} => StatsInv) /\ [StatNext]_statVars
        => (TableInv /\ (wrapped = {} => StatsInv))'
  <2> SUFFICES ASSUME TableInv, wrapped = {} => StatsInv, [StatNext]_statVars
               PROVE  TableInv' /\ (wrapped' = {} => StatsInv')
    OBVIOUS
  <2>1. [Next]_vars
    BY DEF StatNext, statVars
  <2>2. TableInv'
    BY <2>1, TableInvStep
  <2>3. wrapped' = {} => wrapped = {}
    BY <2>1, WrappedBefore
  <2> QED
    BY <2>2, <2>3, StatsStep
<1> QED
  BY <1>1, <1>2, PTL DEF StatSpec

(* What the invariant says when no call is in progress.                     *)
LEMMA StatsAgree == StatsInv /\ TypeOK => CountersAgree
<1> SUFFICES ASSUME StatsInv, TypeOK, Quiescent
             PROVE  /\ SumOf(size) = Allocated
                    /\ SumOf(freeCount) + Allocated = Capacity
  BY DEF CountersAgree
<1>1. \A t \in Threads : pc[t] \notin Freeing /\ pc[t] \notin Between
  BY DEF Quiescent, Freeing, Between
<1>2. SumOf(Share(pc, Freeing)) = 0 /\ SumOf(Share(pc, Between)) = 0
  BY <1>1, ShareSum
<1>3. Numbers(freeCount)
  BY StatsAssumption DEF TypeOK, Numbers
<1>4. SumOf(freeCount) \in Int /\ Allocated \in Int
  BY <1>3, SumOfType, AllocatedIs, ObjectsSum DEF TypeOK
<1> QED
  BY <1>2, <1>4 DEF StatsInv

LEMMA StatsBound == StatsInv /\ TypeOK => MaxBoundsPeak
<1> SUFFICES ASSUME StatsInv, TypeOK PROVE MaxBoundsPeak
  OBVIOUS
<1>1. ASSUME frees = 0 PROVE SumOf(maxSize) = peak
  <2>1. size = maxSize
    BY <1>1 DEF StatsInv, TypeOK
  <2>2. SumOf(Share(pc, Freeing)) = 0
    BY <1>1, ShareSum DEF StatsInv
  <2>3. Allocated \in Int
    BY AllocatedIs, ObjectsSum DEF TypeOK
  <2> QED
    BY <1>1, <2>1, <2>2, <2>3 DEF StatsInv
<1> QED
  BY <1>1 DEF StatsInv, MaxBoundsPeak, MaxReachedSize

-----------------------------------------------------------------------------
(* While no version has come back under an optimistic lock: whenever no    *)
(* call is in progress, size() is the number of objects clients own, and    *)
(* the free counts of the buckets account for all the other slots, however  *)
(* many attempts were retried, overflowed or freed by another thread.       *)
THEOREM CountersAgreeHolds == StatSpec => [](wrapped = {} => CountersAgree)
<1>1. TableInv /\ (wrapped = {} => StatsInv) => (wrapped = {} => CountersAgree)
  BY StatsAgree DEF TableInv
<1> QED
  BY <1>1, StatsAlways, PTL

(* While no version has come back under an optimistic lock: the sum of the  *)
(* threads' own peaks, max_reached_size(), is never below the largest       *)
(* number of objects owned at once, and equals it while nothing is freed.   *)
THEOREM MaxBoundsPeakHolds == StatSpec => [](wrapped = {} => MaxBoundsPeak)
<1>1. TableInv /\ (wrapped = {} => StatsInv) => (wrapped = {} => MaxBoundsPeak)
  BY StatsBound DEF TableInv
<1> QED
  BY <1>1, StatsAlways, PTL
===========================================================================
