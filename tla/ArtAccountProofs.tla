-------------------------- MODULE ArtAccountProofs --------------------------
(***************************************************************************)
(* The memory of the tree: no node holds more children than its kind has   *)
(* room for, and when no call is in progress every slot is in the tree or  *)
(* was handed over once to be freed.                                       *)
(***************************************************************************)
EXTENDS ArtMapProofs

-----------------------------------------------------------------------------
(* How many children a node has.  Where an allocation fails a node may be   *)
(* left without the children it was built for.                              *)
Fewest == IF MayOverflow THEN 0 ELSE 2

NodeSized(n) ==
  /\ n.kind \in Nat /\ IsFiniteSet(DOMAIN n.child)
  /\ n.kind = 0 => n.plen = 0 /\ Len(n.prefix) = 0
  /\ 0 < n.kind /\ n.kind < TopKind => Cardinality(Bytes(n)) \in Fewest..Ladder[n.kind]

(* What an insertion knows of the room in its node: what it read while the  *)
(* node's version is the one it read, and what it read for good once it     *)
(* holds the lock.                                                          *)
RoomKnown(M) ==
  /\ M.pc \in {"parent", "lockNode"} /\ Word(M.node) = M.v => ~IsFull(mem[M.node])
  /\ M.pc \in {"put", "putInsert"} => ~IsFull(mem[M.node])
  /\ M.pc \in {"growParent", "growNode"} /\ Word(M.node) = M.v => IsFull(mem[M.node])
  /\ M.pc = "growBuild" => IsFull(mem[M.node])

RoomPlaces == {"parent", "lockNode", "put", "putInsert", "growParent", "growNode", "growBuild"}

SizesOK ==
  /\ \A s \in Slots : NodeSized(mem[s])
  /\ \A t \in Threads : \A M : M = loc[t] => RoomKnown(M)
-----------------------------------------------------------------------------
(* The capacities of the kinds that grow.                                   *)
LEMMA Capacities ==
  ASSUME NEW k \in Nat, 0 < k, k < TopKind
  PROVE  /\ Ladder[k] \in Nat /\ Ladder[k] >= 2
         /\ k + 1 < TopKind => Ladder[k + 1] \in Nat /\ Ladder[k] + 1 <= Ladder[k + 1]
<1>1. Ladder \in Seq(Nat \ {0}) /\ Len(Ladder) \in Nat /\ DOMAIN Ladder = 1..Len(Ladder)
  BY ArtAssumption, LenProperties
<1>2. \A i \in 1..Len(Ladder) : Ladder[i] \in Nat
  BY <1>1, ElementOfSeq
<1>3. k \in DOMAIN Ladder /\ (k + 1 < TopKind => k + 1 \in DOMAIN Ladder)
  BY <1>1 DEF TopKind
<1>4. Ladder[k] >= 2 /\ (k + 1 < TopKind => Ladder[k] < Ladder[k + 1])
  BY <1>3, LadderAssumption
<1>5. Ladder[k] \in Nat /\ (k + 1 < TopKind => Ladder[k + 1] \in Nat)
  BY <1>1, <1>2, <1>3
<1> QED
  BY <1>4, <1>5

(* A sized node has a number of children.                                   *)
LEMMA Counted ==
  ASSUME NEW n, NodeSized(n)
  PROVE  IsFiniteSet(Bytes(n)) /\ Cardinality(Bytes(n)) \in Nat
<1>1. Bytes(n) \subseteq DOMAIN n.child
  BY DEF Bytes
<1> QED
  BY <1>1, FS_Subset, FS_CardinalityType DEF NodeSized

(* A node has the children it had, and as much room.                        *)
LEMMA SizeLasts ==
  ASSUME Grows, NEW s \in Slots, mem'[s].child = mem[s].child
  PROVE  /\ NodeSized(mem[s]) => NodeSized(mem'[s])
         /\ IsFull(mem'[s]) <=> IsFull(mem[s])
<1>1. mem'[s].kind = mem[s].kind /\ mem'[s].plen = mem[s].plen /\ mem'[s].prefix = mem[s].prefix
  BY DEF Grows, Lasting
<1>2. Bytes(mem'[s]) = Bytes(mem[s])
  BY DEF Bytes
<1> QED
  BY <1>1, <1>2 DEF NodeSized, IsFull

(* What another call knows of the room in its node stays true.              *)
LEMMA RoomUnknown ==
  ASSUME NEW t \in Threads, NEW M, NEW N, Turns(t, M, N), NEW u \in Threads, u # t,
         NEW U, U = loc[u], Calls(U), U.op = "insert", RoomKnown(U)
  PROVE  RoomKnown(U)'
<1>1. TInv /\ LInv /\ Grows /\ Moving(t, M, N) /\ Writes(M, N)
  BY DEF Turns, Careful, Moving
<1>2. CallOK(U) /\ Located(U)
  BY <1>1, LocatedNow
<1>3. ASSUME U.pc \in RoomPlaces PROVE Versioned(U.node, U.v) /\ U.node \in Slots
  <2>1. U.pc # "insert"
    BY <1>3 DEF RoomPlaces
  <2> QED
    BY <1>2, <2>1 DEF CallOK, InsertOK, LookupOK, Arrived, Here, Versioned
<1>4. U.node \in Slots /\ mem'[U.node].child = mem[U.node].child =>
         (IsFull(mem[U.node])' <=> IsFull(mem[U.node]))
  BY <1>1, SizeLasts
<1>5. U.pc \in RoomPlaces /\ Word(U.node)' = U.v =>
         Word(U.node) = U.v /\ mem'[U.node].child = mem[U.node].child
  BY <1>1, <1>3, Vouched
<1>6. U.pc \in {"parent", "lockNode"} /\ Word(U.node)' = U.v => ~IsFull(mem[U.node])'
  BY <1>3, <1>4, <1>5 DEF RoomKnown, RoomPlaces
<1>7. U.pc \in {"growParent", "growNode"} /\ Word(U.node)' = U.v => IsFull(mem[U.node])'
  BY <1>3, <1>4, <1>5 DEF RoomKnown, RoomPlaces
<1>8. U.pc \in {"put", "putInsert", "growBuild"} => (IsFull(mem[U.node])' <=> IsFull(mem[U.node]))
  <2> SUFFICES ASSUME U.pc \in {"put", "putInsert", "growBuild"}
               PROVE  IsFull(mem[U.node])' <=> IsFull(mem[U.node])
    OBVIOUS
  <2>1. Keeps(U, U.node)
    BY DEF Keeps, KeepsNode
  <2> QED
    BY <1>4, <2>1, Protected
<1> QED
  BY <1>6, <1>7, <1>8 DEF RoomKnown

(* Where a call is after a step.                                            *)
LEMMA Lands ==
  ASSUME NEW t \in Threads, DOMAIN loc = Threads
  PROVE  /\ \A changes : Go(t, changes) /\ "pc" \in DOMAIN changes => loc'[t].pc = changes.pc
         /\ Restart(t) => loc'[t].pc = loc[t].op
         /\ \A result : Return(t, result) => loc'[t].pc = "done"
<1>1. ASSUME NEW changes, Go(t, changes), "pc" \in DOMAIN changes PROVE loc'[t].pc = changes.pc
  <2>1. loc'[t] = Merge(loc[t], changes)
    BY <1>1 DEF Go
  <2> QED
    BY <1>1, <2>1 DEF Merge
<1>2. Restart(t) => loc'[t].pc = loc[t].op
  BY DEF Restart, Start
<1>3. \A result : Return(t, result) => loc'[t].pc = "done"
  BY DEF Return
<1> QED
  BY <1>1, <1>2, <1>3

(* The steps after which a call knows of the room in its node.              *)
RoomStep(t) ==
  \/ Room(t) \/ PutParent(t) \/ PutLock(t) \/ PutLeaf(t)
  \/ LockParent(t, "growParent", "growNode") \/ LockNode(t, "growNode", "growBuild")

(* Only these steps lead to where an insertion relies on the room in its     *)
(* node.                                                                     *)
LEMMA Elsewhere ==
  ASSUME TInv, NEW t \in Threads, lookup(t) \/ insert(t), ~RoomStep(t)
  PROVE  loc'[t].pc \notin RoomPlaces
<1>1. /\ \A changes : Go(t, changes) /\ "pc" \in DOMAIN changes => loc'[t].pc = changes.pc
      /\ Restart(t) => loc'[t].pc = loc[t].op
      /\ \A result : Return(t, result) => loc'[t].pc = "done"
  BY Lands DEF TInv, QueueOK
<1>2. loc[t].op \in {"lookup", "insert"}
  BY Underway
<1>3. Restart(t) => loc'[t].pc \notin RoomPlaces
  BY <1>1, <1>2 DEF RoomPlaces
<1>4. \A result : Return(t, result) => loc'[t].pc \notin RoomPlaces
  BY <1>1 DEF RoomPlaces
<1>5. \A changes : Go(t, changes) /\ "pc" \in DOMAIN changes /\ changes.pc \notin RoomPlaces =>
         loc'[t].pc \notin RoomPlaces
  BY <1>1
<1>6. CASE lookup(t)
  <2>1. CASE LookupRoot(t) \/ Search(t) \/ LookupMiss(t) \/ LookupHit(t)
    BY <1>3, <1>4, <1>5, <2>1 DEF LookupRoot, Search, LookupMiss, LookupHit, RoomPlaces
  <2>2. CASE LookupLeaf(t) \/ LeafReadLock(t) \/ LeafRead(t) \/ Descend(t) \/ Couple(t)
    BY <1>3, <1>4, <1>5, <2>2 DEF LookupLeaf, LeafReadLock, LeafRead, Descend, Couple, Check, RoomPlaces
  <2> QED
    BY <1>6, <2>1, <2>2 DEF lookup
<1>7. CASE descend(t)
  <2>1. \A kt : CheckPrefixPessimistic(t, kt) => loc'[t].pc \notin RoomPlaces
    BY <1>5, PrefixGoes DEF RoomPlaces
  <2>2. CASE PrefixStep(t) \/ AnyCheck(t)
    BY <1>3, <1>5, <2>1, <2>2 DEF PrefixStep, AnyCheck, RoomPlaces
  <2>3. CASE Visit(t) \/ AnyLock(t) \/ AnyChild(t)
    BY <1>3, <1>5, <2>3 DEF Visit, AnyLock, AnyChild, RoomPlaces
  <2>4. CASE ReadChild(t) \/ ChildCheck(t) \/ Further(t)
    BY <1>3, <1>5, <2>4 DEF ReadChild, ChildCheck, Further, Check, RoomPlaces
  <2> QED
    BY <1>7, <2>2, <2>3, <2>4 DEF descend
<1>8. CASE LockStep(t)
  <2>1. \/ LeafLockNode(t) \/ LeafWriteLock(t)
        \/ LockParent(t, "splitParent", "splitNode") \/ LockNode(t, "splitNode", "splitBuild")
    BY <1>8 DEF LockStep, RoomStep
  <2>2. ASSUME NEW s, NEW v, NEW changes, "pc" \in DOMAIN changes, changes.pc \notin RoomPlaces,
               \/ Upgrade(t, s, v, changes, Restart(t))
               \/ Upgrade(t, s, v, changes, Go(t, [pc |-> "undo"]))
        PROVE  loc'[t].pc \notin RoomPlaces
    <3>1. Go(t, changes) \/ Restart(t) \/ Go(t, [pc |-> "undo"])
      BY <2>2 DEF Upgrade
    <3> QED
      BY <1>3, <1>5, <2>2, <3>1 DEF RoomPlaces
  <2>3. CASE LeafLockNode(t)
    BY <2>2, <2>3 DEF LeafLockNode, RoomPlaces
  <2>4. CASE LeafWriteLock(t)
    BY <1>3, <1>5, <2>4 DEF LeafWriteLock, RoomPlaces
  <2>5. CASE LockParent(t, "splitParent", "splitNode")
    BY <2>2, <2>5 DEF LockParent, RoomPlaces
  <2>6. CASE LockNode(t, "splitNode", "splitBuild")
    BY <2>2, <2>6 DEF LockNode, RoomPlaces
  <2> QED
    BY <2>1, <2>3, <2>4, <2>5, <2>6
<1>9. CASE UnlockStep(t)
  BY <1>3, <1>4, <1>5, <1>9 DEF UnlockStep, Unlock, Undo, GrowUnlock, SplitUnlock, GrowObsolete,
                                SplitObsolete, LeafObsolete, RoomPlaces
<1>10. CASE LinkStep(t)
  BY <1>5, <1>10 DEF LinkStep, PutInsert, GrowLink, SplitLink, LeafLink, RoomPlaces
<1>11. CASE MarkStep(t)
  BY <1>4, <1>5, <1>11 DEF MarkStep, GrowMark, SplitMark, LeafMark, RoomPlaces
<1>12. CASE MakeStep(t)
  <2>1. \A new, changes :
           Allocate(t, new, changes) /\ "pc" \in DOMAIN changes /\ changes.pc \notin RoomPlaces
           => loc'[t].pc \notin RoomPlaces
    <3>1. \A new, changes : Allocate(t, new, changes) => Go(t, changes) \/ Return(t, "refused")
      BY Zenon DEF Allocate
    <3> QED
      BY <1>4, <1>5, <3>1
  <2>2. GrowBuild(t) \/ SplitBuild(t) \/ LeafBuild(t)
    BY <1>12 DEF MakeStep, RoomStep
  <2>3. CASE GrowBuild(t)
    BY <2>1, <2>3 DEF GrowBuild, RoomPlaces
  <2>4. CASE SplitBuild(t)
    BY <2>1, <2>4 DEF SplitBuild, RoomPlaces
  <2>5. CASE LeafBuild(t)
    BY <2>1, <2>5 DEF LeafBuild, RoomPlaces
  <2> QED
    BY <2>2, <2>3, <2>4, <2>5
<1> QED
  BY <1>6, <1>7, <1>8, <1>9, <1>10, <1>11, <1>12, Sorted DEF WalkStep, RoomStep

(* A call that reads a node's room, or locks the node it read, knows it.    *)
LEMMA RoomReached ==
  ASSUME NEW t \in Threads, NEW M, NEW N, Moving(t, M, N), RoomStep(t), SizesOK
  PROVE  RoomKnown(N)'
<1>1. M.pc \in Changing /\ M = loc[t] /\ RoomKnown(M)
  BY DEF RoomStep, Room, PutParent, PutLock, PutLeaf, LockParent, LockNode, Moving,
         Changing, Putting, Replacing, Growing, SizesOK
<1>2. /\ TInv /\ MemOK /\ Grows /\ Calls(M) /\ M.op = "insert" /\ N = loc'[t]
      /\ Versioned(M.node, M.v) /\ M.node \in Slots
      /\ M.pc \in Replacing => M.parent \in Slots
  BY <1>1, ChangingCall DEF Here, Moving, TInv
<1>3. N.pc \notin RoomPlaces => RoomKnown(N)'
  BY DEF RoomKnown, RoomPlaces
<1>4. Restart(t) => RoomKnown(N)'
  <2>1. Restart(t) => N.pc = "insert"
    BY <1>1, <1>2, Lands DEF TInv, QueueOK
  <2> QED
    BY <1>3, <2>1 DEF RoomPlaces
<1>5. \A result : Return(t, result) => RoomKnown(N)'
  <2>1. \A result : Return(t, result) => N.pc = "done"
    BY <1>1, <1>2, Lands DEF TInv, QueueOK
  <2> QED
    BY <1>3, <2>1 DEF RoomPlaces
<1>6. ASSUME NEW changes, Go(t, changes), DOMAIN changes \subseteq {"pc", "claim", "fresh"},
             "pc" \in DOMAIN changes
      PROVE  N.pc = changes.pc /\ N.node = M.node /\ N.v = M.v
  <2>1. Changed(N, M, changes)
    BY <1>2, <1>6, Outcomes DEF Fields
  <2> QED
    BY <1>6, <2>1, Going DEF Onward
<1>7. mem'[M.node].child = mem[M.node].child
  <2>1. UNCHANGED mem => mem'[M.node].child = mem[M.node].child
    OBVIOUS
  <2>2. \A s \in Slots : AddToWord(s, 2) => mem'[M.node].child = mem[M.node].child
    BY <1>2, WordsOnly DEF Steady
  <2>3. CASE Room(t) \/ PutParent(t)
    BY <2>3 DEF Room, PutParent
  <2>4. CASE PutLock(t)
    BY <1>1, <1>2, <2>1, <2>2, <2>4 DEF PutLock, Upgrade
  <2>5. CASE LockParent(t, "growParent", "growNode")
    BY <1>1, <1>2, <2>1, <2>2, <2>5 DEF LockParent, Upgrade, Replacing, Growing
  <2>6. CASE LockNode(t, "growNode", "growBuild")
    BY <1>1, <1>2, <2>1, <2>2, <2>6 DEF LockNode, Upgrade
  <2>7. CASE PutLeaf(t)
    <3>1. \E new, changes : IsSeq(new) /\ Allocate(t, new, changes)
      BY <2>7, Tuples DEF PutLeaf
    <3>2. mem'[M.node] = mem[M.node]
      BY <1>2, <3>1, Allocated
    <3> QED
      BY <3>2
  <2> QED
    BY <2>3, <2>4, <2>5, <2>6, <2>7 DEF RoomStep
<1>8. IsFull(mem'[M.node]) <=> IsFull(mem[M.node])
  BY <1>2, <1>7, SizeLasts
<1>9. mem'[M.node].word = M.v => mem[M.node].word = M.v /\ ~IsLocked(mem[M.node].word)
  <2>1. mem'[M.node].word >= mem[M.node].word /\ M.v <= mem[M.node].word /\ M.v \in Nat
        /\ mem[M.node].word \in Nat /\ ~IsLocked(M.v)
    BY <1>2 DEF Grows, Lasting, Versioned, Word, MemOK, Readable
  <2>2. mem'[M.node].word = M.v => mem[M.node].word = M.v
    BY <2>1
  <2> QED
    BY <2>1, <2>2
<1>10. CASE Room(t)
  <2>1. PICK full \in BOOLEAN :
          /\ mem[M.node].word = M.v => full = IsFull(mem[M.node])
          /\ Go(t, [pc |-> IF full THEN "growParent" ELSE "parent"])
    <3>1. PICK full \in IF IsLocked(mem[M.node].word) /\ mem[M.node].kind < TopKind
                        THEN BOOLEAN ELSE {IsFull(mem[M.node])} :
            Go(t, [pc |-> IF full THEN "growParent" ELSE "parent"])
      BY <1>1, <1>10 DEF Room
    <3>2. M.v = mem[M.node].word => ~IsLocked(mem[M.node].word)
      BY <1>2 DEF Versioned, Readable
    <3>3. IsFull(mem[M.node]) \in BOOLEAN
      BY DEF IsFull
    <3> QED
      BY <3>1, <3>2, <3>3
  <2>2. /\ N.pc = IF full THEN "growParent" ELSE "parent"
        /\ N.node = M.node /\ N.v = M.v
    BY <1>6, <2>1
  <2> QED
    BY <1>8, <1>9, <2>1, <2>2 DEF RoomKnown, Word
<1>11. CASE PutParent(t)
  <2>1. CASE Go(t, [pc |-> "lockNode"])
    <3>1. N.pc = "lockNode" /\ N.node = M.node /\ N.v = M.v /\ M.pc = "parent"
      BY <1>1, <1>6, <1>11, <2>1 DEF PutParent
    <3> QED
      BY <1>1, <1>8, <1>9, <3>1 DEF RoomKnown, Word
  <2> QED
    BY <1>4, <1>11, <2>1 DEF PutParent
<1>12. CASE PutLock(t)
  <2>1. CASE Go(t, [pc |-> "put"]) /\ Word(M.node) = M.v
    <3>1. N.pc = "put" /\ N.node = M.node /\ M.pc = "lockNode"
      BY <1>1, <1>6, <1>12, <2>1 DEF PutLock
    <3> QED
      BY <1>1, <1>8, <2>1, <3>1 DEF RoomKnown
  <2> QED
    BY <1>1, <1>4, <1>12, <2>1 DEF PutLock, Upgrade
<1>13. CASE LockParent(t, "growParent", "growNode")
  <2>1. CASE Go(t, [pc |-> "growNode", claim |-> Running])
    <3>1. N.pc = "growNode" /\ N.node = M.node /\ N.v = M.v /\ M.pc = "growParent"
      BY <1>1, <1>6, <1>13, <2>1 DEF LockParent
    <3> QED
      BY <1>1, <1>8, <1>9, <3>1 DEF RoomKnown, Word
  <2> QED
    BY <1>1, <1>4, <1>13, <2>1 DEF LockParent, Upgrade
<1>14. CASE LockNode(t, "growNode", "growBuild")
  <2>1. CASE Go(t, [pc |-> "growBuild"]) /\ Word(M.node) = M.v
    <3>1. N.pc = "growBuild" /\ N.node = M.node /\ M.pc = "growNode"
      BY <1>1, <1>6, <1>14, <2>1 DEF LockNode
    <3> QED
      BY <1>1, <1>8, <2>1, <3>1 DEF RoomKnown
  <2>2. CASE Go(t, [pc |-> "undo"])
    <3>1. N.pc = "undo"
      BY <1>6, <2>2
    <3> QED
      BY <1>3, <3>1 DEF RoomPlaces
  <2> QED
    BY <1>1, <1>14, <2>1, <2>2 DEF LockNode, Upgrade
<1>15. CASE PutLeaf(t)
  <2>1. CASE Go(t, [pc |-> "putInsert", fresh |-> Len(mem) + 1])
    <3>1. N.pc = "putInsert" /\ N.node = M.node /\ M.pc = "put"
      BY <1>1, <1>6, <1>15, <2>1 DEF PutLeaf
    <3> QED
      BY <1>1, <1>8, <3>1 DEF RoomKnown
  <2>2. Go(t, [pc |-> "putInsert", fresh |-> Len(mem) + 1]) \/ Return(t, "refused")
    BY <1>15, Zenon DEF PutLeaf, Allocate
  <2> QED
    BY <1>5, <2>1, <2>2
<1> QED
  BY <1>10, <1>11, <1>12, <1>13, <1>14, <1>15 DEF RoomStep

-----------------------------------------------------------------------------
(* What every call knows of the room in its node after a step, when the one *)
(* that took the step does.                                                 *)
LEMMA ThreadsKnowRoom ==
  ASSUME NEW t \in Threads, NEW M, NEW N, Turns(t, M, N), SizesOK, N.pc \notin RoomPlaces \/ RoomKnown(N)',
         \A s \in Slots' : NodeSized(mem'[s])
  PROVE  SizesOK'
<1>1. N = loc'[t] /\ TInv /\ \A u \in Threads : u # t => loc'[u] = loc[u]
  BY DEF Turns, Moving
<1>2. RoomKnown(N)'
  BY DEF RoomKnown, RoomPlaces
<1>3. ASSUME NEW u \in Threads, u # t, NEW U, U = loc[u] PROVE RoomKnown(U)'
  <2>1. CASE U.pc \in RoomPlaces
    <3>1. Calls(U)
      BY <2>1 DEF Calls, RoomPlaces
    <3>2. CallOK(U)
      BY <1>1, <1>3, <3>1 DEF TInv, LocalOK, Calls, Idle
    <3>3. U.op = "insert"
      BY <2>1, <3>2 DEF CallOK, LookupOK, Looking, RoomPlaces
    <3>4. RoomKnown(U)
      BY <1>3 DEF SizesOK
    <3> QED
      BY <1>3, <3>1, <3>3, <3>4, RoomUnknown
  <2>2. CASE U.pc \notin RoomPlaces
    BY <2>2 DEF RoomKnown, RoomPlaces
  <2> QED
    BY <2>1, <2>2
<1>4. \A u \in Threads : \A U : U = loc'[u] => RoomKnown(U)'
  BY <1>1, <1>2, <1>3
<1> QED
  BY <1>4 DEF SizesOK

-----------------------------------------------------------------------------
(* The steps that link a node.                                              *)

(* A child more, or another child in its place.                             *)
LEMMA ChildAdded ==
  ASSUME MemOK, Grows, NEW p \in Slots, NEW b, NEW f \in Slots, change(p, b, f), Inner(p),
         NodeSized(mem[p]), b \notin Bytes(mem[p]) => ~IsFull(mem[p])
  PROVE  NodeSized(mem'[p])
<1>1. /\ DOMAIN mem'[p].child = DOMAIN mem[p].child \cup {b} /\ mem'[p].child[b] = f
      /\ \A x \in DOMAIN mem[p].child : x # b => mem'[p].child[x] = mem[p].child[x]
      /\ mem'[p].kind = mem[p].kind
  BY ChildChanged DEF Lasting
<1>2. f # Nil
  BY NoSlots
<1>3. Bytes(mem'[p]) = Bytes(mem[p]) \cup {b}
  BY <1>1, <1>2 DEF Bytes
<1>4. IsFiniteSet(Bytes(mem[p])) /\ Cardinality(Bytes(mem[p])) \in Nat
  BY Counted
<1>5. Cardinality(Bytes(mem'[p])) =
        IF b \in Bytes(mem[p]) THEN Cardinality(Bytes(mem[p])) ELSE Cardinality(Bytes(mem[p])) + 1
  BY <1>3, <1>4, FS_AddElement
<1>6. IsFiniteSet(DOMAIN mem'[p].child)
  BY <1>1, FS_AddElement DEF NodeSized
<1>7. ASSUME 0 < mem[p].kind, mem[p].kind < TopKind
      PROVE  Cardinality(Bytes(mem'[p])) \in Fewest..Ladder[mem[p].kind]
  <2>1. mem[p].kind \in Nat
    BY DEF MemOK
  <2>2. Ladder[mem[p].kind] \in Nat /\ Fewest \in Nat
    BY <1>7, <2>1, Capacities DEF Fewest
  <2>3. Cardinality(Bytes(mem[p])) \in Fewest..Ladder[mem[p].kind]
    BY <1>7 DEF NodeSized
  <2>4. b \notin Bytes(mem[p]) => Cardinality(Bytes(mem[p])) # Ladder[mem[p].kind]
    BY <1>7 DEF IsFull
  <2> QED
    BY <1>4, <1>5, <2>2, <2>3, <2>4
<1>8. mem[p].kind # 0
  BY DEF Inner
<1> QED
  BY <1>1, <1>6, <1>7, <1>8 DEF NodeSized

(* A store of a pointer keeps every node within its capacity.                *)
LEMMA LinkSized ==
  ASSUME NEW t \in Threads, NEW M, NEW N, Moving(t, M, N), LinkStep(t), UNCHANGED <<todo, load>>,
         MapInv, SizesOK
  PROVE  SizesOK'
<1>1. PICK C, P : Charted(C, P)
  BY DEF MapInv
<1>2. /\ Turns(t, M, N) /\ M = loc[t] /\ Calls(M) /\ TInv /\ LInv /\ MemOK /\ Grows
  BY LinkForm DEF Moving, TInv
<1>3. PICK p, b : Hooks(M, N, p, b) /\ change(p, b, M.fresh)
  BY LinkForm
<1>4. PICK c : LinksUp(C, P, M, p, b, c)
  BY <1>1, <1>2, <1>3, LinkPlace
<1>5. /\ p \in Slots /\ Inner(p) /\ M.fresh \in Slots /\ c = ChildOf(mem[p], b)
  BY <1>4 DEF LinksUp, PublicOK, Under
<1>6. b \notin Bytes(mem[p]) => c = Nil
  BY <1>5 DEF Bytes, ChildOf
<1>7. c = Nil => ~IsFull(mem[p])
  <2>1. M.pc = "putInsert" => p = M.node /\ ~IsFull(mem[M.node])
    BY <1>2, <1>3 DEF Hooks, SizesOK, RoomKnown
  <2>2. M.pc # "putInsert" => c # Nil
    <3>1. Current(M) /\ Reading(M) /\ M.node \in Slots
      BY <1>2, <1>3, HookingOwns, ChangingCall DEF Knows
    <3>2. M.pc = "leafLink" => c = M.next /\ M.next \in Slots
      BY <1>3, <1>5, <3>1 DEF Hooks, Current, HasChild, ChildOf, Reading, LeafSplitting, Under
    <3>3. M.pc \in {"growLink", "splitLink"} => c = M.node
      BY <1>3, <1>5, <3>1 DEF Hooks, Current, HasChild, ChildOf
    <3> QED
      BY <1>3, <3>1, <3>2, <3>3, NoSlots DEF Hooks
  <2> QED
    BY <2>1, <2>2
<1>8. NodeSized(mem'[p])
  BY <1>2, <1>3, <1>5, <1>6, <1>7, ChildAdded DEF SizesOK
<1>9. Slots' = Slots /\ \A s \in Slots : s # p => mem'[s] = mem[s]
  BY <1>2, <1>3, <1>5, ChildChanged DEF Slots
<1>10. \A s \in Slots' : NodeSized(mem'[s])
  BY <1>8, <1>9 DEF SizesOK
<1>11. N.pc \notin RoomPlaces
  BY <1>3 DEF Hooks, RoomPlaces
<1> QED
  BY <1>2, <1>10, <1>11, ThreadsKnowRoom

-----------------------------------------------------------------------------
(* The steps that make nodes.                                               *)

(* The bytes of a node are those under which it has a child.                *)
LEMMA BytesAre ==
  \A n, b : b \in Bytes(n) <=> ChildOf(n, b) # Nil
BY DEF Bytes, ChildOf

(* A new leaf has no children.                                              *)
LEMMA LeafSized ==
  ASSUME NEW key, NEW hash, NEW n, n = NewLeaf(key, hash)
  PROVE  NodeSized(n) /\ DOMAIN n = NodeFields
<1> DEFINE m == NewNode(0, 0, <<>>, 0, hash)
<1>1. m.plen = 0 /\ m.prefix = Prefix(<<>>, Stored(m)) /\ DOMAIN m = NodeFields /\ m.child = NoChildren
  BY NewNodeParts
<1>2. MaxStored \in Nat /\ IsSeq(<<>>) /\ Len(<<>>) = 0
  BY ArtAssumption DEF IsSeq
<1>3. Stored(m) = 0
  BY <1>1, <1>2 DEF Stored
<1>4. Len(m.prefix) = 0
  BY <1>1, <1>2, <1>3, Cropped
<1> HIDE DEF m
<1>5. n = [m EXCEPT !.value = key]
  BY DEF NewLeaf, m
<1>6. n.plen = 0 /\ n.prefix = m.prefix /\ n.child = NoChildren
  BY <1>1, <1>5 DEF NodeFields
<1>7. n.kind = 0 /\ DOMAIN n = NodeFields /\ DOMAIN n.child = {}
  BY LeafMade
<1>8. IsFiniteSet({}) /\ ~(0 < 0)
  BY FS_EmptySet
<1> QED
  BY <1>4, <1>6, <1>7, <1>8 DEF NodeSized

(* A node of two children has room for them.                                *)
LEMMA ForkSized ==
  ASSUME Len(mem) \in Nat, NEW id, NEW bytes, NEW length, NEW hash, NEW mine, NEW other, mine # other,
         NEW n, n = Fork(id, bytes, length, hash, mine, Len(mem) + 2, other, Len(mem) + 3)
  PROVE  /\ NodeSized(n) /\ DOMAIN n = NodeFields
         /\ ChildOf(n, mine) = Len(mem) + 2 /\ ChildOf(n, other) = Len(mem) + 3
<1> DEFINE a == NewNode(InitialNode, id, bytes, length, hash)
           b == SetChild(a, mine, Len(mem) + 2)
<1>1. DOMAIN a = NodeFields /\ a.kind = InitialNode /\ DOMAIN a.child = {} /\ \A x : ChildOf(a, x) = Nil
  <2>1. a.child = NoChildren /\ DOMAIN a = NodeFields /\ a.kind = InitialNode /\ \A x : ChildOf(a, x) = Nil
    BY NewNodeParts
  <2> QED
    BY <2>1 DEF NoChildren
<1>2. n = SetChild(b, other, Len(mem) + 3)
  BY DEF Fork
<1> HIDE DEF a
<1>3. /\ DOMAIN b = NodeFields /\ b.kind = a.kind /\ DOMAIN b.child = DOMAIN a.child \cup {mine}
      /\ \A x : ChildOf(b, x) = IF x = mine THEN Len(mem) + 2 ELSE ChildOf(a, x)
  BY <1>1, ChildSet, SetChildParts
<1> HIDE DEF b
<1>4. /\ DOMAIN n = NodeFields /\ n.kind = b.kind /\ DOMAIN n.child = DOMAIN b.child \cup {other}
      /\ \A x : ChildOf(n, x) = IF x = other THEN Len(mem) + 3 ELSE ChildOf(b, x)
  BY <1>2, <1>3, ChildSet, SetChildParts
<1>5. DOMAIN n.child = {mine} \cup {other} /\ n.kind = 1
  BY <1>1, <1>3, <1>4 DEF InitialNode
<1>6. Len(mem) + 2 # Nil /\ Len(mem) + 3 # Nil
  BY DEF Nil
<1>7. Bytes(n) = {mine} \cup {other}
  BY <1>1, <1>3, <1>4, <1>6, BytesAre
<1>8. IsFiniteSet({mine} \cup {other}) /\ Cardinality({mine} \cup {other}) = 2
  <2>1. IsFiniteSet({mine}) /\ Cardinality({mine}) = 1 /\ other \notin {mine}
    BY FS_Singleton
  <2>2. IsFiniteSet({mine} \cup {other}) /\ Cardinality({mine} \cup {other}) = Cardinality({mine}) + 1
    BY <2>1, FS_AddElement
  <2> QED
    BY <2>1, <2>2
<1>9. 1 < TopKind => 2 \in Fewest..Ladder[1]
  BY Capacities DEF Fewest
<1>10. NodeSized(n)
  <2>1. IsFiniteSet(DOMAIN n.child) /\ Cardinality(Bytes(n)) = 2
    BY <1>5, <1>7, <1>8
  <2> QED
    BY <1>5, <1>9, <2>1 DEF NodeSized
<1>11. ChildOf(n, other) = Len(mem) + 3 /\ ChildOf(n, mine) = Len(mem) + 2
  BY <1>3, <1>4
<1> QED
  BY <1>4, <1>10, <1>11

(* The next kind of node has room for one child more than a full node has.  *)
LEMMA BiggerSized ==
  ASSUME NEW n, n.kind \in Nat, n.kind # 0, NodeSized(n), IsFull(n), NEW byte, ChildOf(n, byte) = Nil,
         NEW hash, NEW c, c # Nil, NEW m, m = SetChild(Bigger(n, hash), byte, c)
  PROVE  /\ NodeSized(m) /\ DOMAIN m = NodeFields
         /\ \A x : ChildOf(m, x) = IF x = byte THEN c ELSE ChildOf(n, x)
<1> DEFINE a == NewNode(n.kind + 1, n.id, n.prefix, n.plen, hash)
           b == Bigger(n, hash)
<1>1. DOMAIN a = NodeFields /\ a.kind = n.kind + 1
  BY NewNodeParts
<1>2. b = [a EXCEPT !.child = n.child]
  BY DEF Bigger
<1> HIDE DEF a
<1>3. DOMAIN b = NodeFields /\ b.kind = n.kind + 1 /\ b.child = n.child
  BY <1>1, <1>2 DEF NodeFields
<1> HIDE DEF b
<1>4. m = SetChild(b, byte, c)
  BY DEF b
<1>5. /\ DOMAIN m = NodeFields /\ m.kind = n.kind + 1 /\ DOMAIN m.child = DOMAIN n.child \cup {byte}
      /\ \A x : ChildOf(m, x) = IF x = byte THEN c ELSE ChildOf(b, x)
  BY <1>3, <1>4, ChildSet, SetChildParts
<1>6. \A x : ChildOf(b, x) = ChildOf(n, x)
  BY <1>3 DEF ChildOf
<1>7. Bytes(m) = Bytes(n) \cup {byte} /\ byte \notin Bytes(n)
  BY <1>5, <1>6, BytesAre
<1>8. IsFiniteSet(Bytes(n)) /\ Cardinality(Bytes(n)) \in Nat
  BY Counted
<1>9. Cardinality(Bytes(m)) = Cardinality(Bytes(n)) + 1 /\ IsFiniteSet(DOMAIN m.child)
  <2>1. IsFiniteSet(DOMAIN n.child)
    BY DEF NodeSized
  <2>2. IsFiniteSet(DOMAIN n.child \cup {byte})
    BY <2>1, FS_AddElement
  <2>3. Cardinality(Bytes(n) \cup {byte}) = Cardinality(Bytes(n)) + 1
    BY <1>7, <1>8, FS_AddElement
  <2> QED
    BY <1>5, <1>7, <2>2, <2>3
<1>10. /\ Cardinality(Bytes(n)) = Ladder[n.kind] /\ n.kind < TopKind /\ 0 < n.kind
       /\ Cardinality(Bytes(n)) \in Fewest..Ladder[n.kind]
  BY DEF IsFull, NodeSized
<1>11. n.kind + 1 < TopKind => Ladder[n.kind + 1] \in Nat /\ Ladder[n.kind] + 1 <= Ladder[n.kind + 1]
  BY <1>10, Capacities
<1>12. n.kind + 1 < TopKind => Cardinality(Bytes(m)) \in Fewest..Ladder[n.kind + 1]
  <2>1. Fewest \in Nat
    BY DEF Fewest
  <2> QED
    BY <1>8, <1>9, <1>10, <1>11, <2>1
<1> QED
  BY <1>5, <1>6, <1>9, <1>12 DEF NodeSized

(* A relocated node has the children of the original.                       *)
LEMMA RelocatedSized ==
  ASSUME NEW n, DOMAIN n = NodeFields, n.kind # 0, NodeSized(n), NEW hash, NEW bytes, NEW length,
         NEW m, m = Relocated(n, hash, bytes, length)
  PROVE  NodeSized(m) /\ DOMAIN m = NodeFields /\ m.child = n.child
<1>1. DOMAIN m = NodeFields /\ m.kind = n.kind /\ m.child = n.child
  BY RelocatedParts
<1>2. Bytes(m) = Bytes(n)
  BY <1>1 DEF Bytes
<1> QED
  BY <1>1, <1>2 DEF NodeSized

(* What is allocated of sized nodes is sized: where memory runs out, nodes   *)
(* lack the children they were built for, and need not have two.             *)
LEMMA NewSized ==
  ASSUME MemOK, NEW t, NEW new, IsSeq(new),
         \A i \in 1..Len(new) : DOMAIN new[i] = NodeFields /\ NodeSized(new[i]),
         NEW changes, Allocate(t, new, changes), NEW s \in Slots' \ Slots
  PROVE  NodeSized(mem'[s])
<1>1. Len(mem) \in Nat /\ Len(new) \in Nat
  BY Sequence DEF MemOK
<1>2. CASE /\ mem' = mem \o new /\ Go(t, changes)
  <2>1. Len(mem') = Len(mem) + Len(new) /\ \A i \in 1..Len(mem') : mem'[i] = IF i <= Len(mem) THEN mem[i] ELSE new[i - Len(mem)]
    BY <1>2, Appended DEF MemOK, Joined
  <2>2. s \in 1..Len(mem') /\ ~(s <= Len(mem)) /\ s - Len(mem) \in 1..Len(new)
    BY <1>1, <2>1 DEF Slots
  <2> QED
    BY <2>1, <2>2
<1>3. ASSUME NEW k \in 0..Len(new) - 1, mem' = mem \o [j \in 1..k |-> Unlinked(new[j])], MayOverflow
      PROVE  NodeSized(mem'[s])
  <2> DEFINE u == [j \in 1..k |-> Unlinked(new[j])]
  <2>1. k \in Nat /\ k <= Len(new)
    BY <1>1
  <2>2. IsSeq(u) /\ Len(u) = k
    BY <2>1, Listed
  <2>3. \A j \in 1..k : u[j] = Unlinked(new[j])
    OBVIOUS
  <2>4. mem' = Joined(mem, u) /\ IsSeq(mem)
    BY <1>3 DEF Joined, MemOK
  <2> HIDE DEF u
  <2>5. Len(mem') = Len(mem) + k /\ \A i \in 1..Len(mem') : mem'[i] = IF i <= Len(mem) THEN mem[i] ELSE u[i - Len(mem)]
    <3>1. Len(mem') = Len(mem) + Len(u) /\ \A i \in 1..Len(mem') : mem'[i] = IF i <= Len(mem) THEN mem[i] ELSE u[i - Len(mem)]
      BY <2>2, <2>4, Appended
    <3> QED
      BY <2>2, <3>1
  <2>6. s \in 1..Len(mem') /\ ~(s <= Len(mem)) /\ s - Len(mem) \in 1..k
    BY <1>1, <2>1, <2>5 DEF Slots
  <2>7. PICK n : n = new[s - Len(mem)] /\ DOMAIN n = NodeFields /\ NodeSized(n) /\ mem'[s] = Unlinked(n)
    <3>1. s - Len(mem) \in 1..Len(new)
      BY <1>1, <2>1, <2>6
    <3>2. mem'[s] = u[s - Len(mem)]
      BY <2>5, <2>6
    <3> QED
      BY <2>3, <2>6, <3>1, <3>2
  <2>8. PICK m : m = Unlinked(n)
    OBVIOUS
  <2>9. /\ m.kind = n.kind /\ m.plen = n.plen /\ m.prefix = n.prefix
        /\ DOMAIN m.child \subseteq DOMAIN n.child
        /\ \A b \in DOMAIN m.child : m.child[b] = n.child[b]
    BY <2>7, <2>8 DEF Unlinked, NodeFields
  <2>10. Bytes(m) \subseteq Bytes(n) /\ Fewest = 0
    BY <1>3, <2>9 DEF Bytes, Fewest
  <2>11. /\ IsFiniteSet(DOMAIN m.child) /\ IsFiniteSet(Bytes(m)) /\ Cardinality(Bytes(m)) \in Nat
         /\ Cardinality(Bytes(n)) \in Nat /\ Cardinality(Bytes(m)) <= Cardinality(Bytes(n))
    <3>1. IsFiniteSet(DOMAIN n.child) /\ IsFiniteSet(Bytes(n)) /\ Cardinality(Bytes(n)) \in Nat
      BY <2>7, Counted DEF NodeSized
    <3>2. IsFiniteSet(DOMAIN m.child)
      BY <2>9, <3>1, FS_Subset
    <3>3. IsFiniteSet(Bytes(m)) /\ Cardinality(Bytes(m)) <= Cardinality(Bytes(n))
      BY <2>10, <3>1, FS_Subset
    <3> QED
      BY <3>1, <3>2, <3>3, FS_CardinalityType
  <2>12. 0 < m.kind /\ m.kind < TopKind => Cardinality(Bytes(m)) \in Fewest..Ladder[m.kind]
    <3>1. 0 < m.kind /\ m.kind < TopKind => Cardinality(Bytes(n)) \in Fewest..Ladder[m.kind]
      BY <2>7, <2>9 DEF NodeSized
    <3>2. m.kind \in Nat /\ 0 < m.kind /\ m.kind < TopKind => Ladder[m.kind] \in Nat
      BY Capacities
    <3>3. m.kind \in Nat
      BY <2>7, <2>9 DEF NodeSized
    <3> QED
      BY <2>10, <2>11, <3>1, <3>2, <3>3
  <2> QED
    BY <2>7, <2>8, <2>9, <2>11, <2>12 DEF NodeSized
<1> QED
  BY <1>2, <1>3 DEF Allocate

(* What a call allocates: the leaf for its key, alone or with the node that  *)
(* takes the place of another, and with the other child that this one gets.  *)
Supplies(M, new) ==
  \/ M.pc = "put" /\ Len(new) = 1
  \/ /\ M.pc = "growBuild" /\ Len(new) = 2 /\ ChildOf(mem[M.node], M.byte) = Nil
     /\ \A b : ChildOf(new[1], b) = IF b = M.byte THEN Len(mem) + 2 ELSE ChildOf(mem[M.node], b)
  \/ /\ M.pc \in {"splitBuild", "leafBuild"} /\ Len(new) = 3
     /\ \E mine, other : ChildOf(new[1], mine) = Len(mem) + 2 /\ ChildOf(new[1], other) = Len(mem) + 3
     /\ M.pc = "splitBuild" => new[3].child = mem[M.node].child

MadeFor == [pc \in {"put", "growBuild", "splitBuild", "leafBuild"} |->
              CASE pc = "put" -> "putInsert" [] pc = "growBuild" -> "growLink"
                [] pc = "splitBuild" -> "splitLink" [] pc = "leafBuild" -> "leafObsolete"]

Made(t, M, new) ==
  /\ M.pc \in {"put", "growBuild", "splitBuild", "leafBuild"}
  /\ IsSeq(new) /\ \A i \in 1..Len(new) : DOMAIN new[i] = NodeFields /\ NodeSized(new[i])
  /\ Supplies(M, new)
  /\ Allocate(t, new, [pc |-> MadeFor[M.pc], fresh |-> Len(mem) + 1])

(* A call that builds nodes allocates such new ones.                         *)
LEMMA MakeForm ==
  ASSUME NEW t \in Threads, NEW M, NEW N, Moving(t, M, N), MakeStep(t), MapInv, SizesOK
  PROVE  \E new : Made(t, M, new)
<1>1. PICK C, P : Charted(C, P)
  BY DEF MapInv
<1>2. M = loc[t] /\ M.pc \in {"put", "growBuild", "splitBuild", "leafBuild"}
  BY DEF Moving, MakeStep, PutLeaf, GrowBuild, SplitBuild, LeafBuild
<1>3. /\ Len(mem) \in Nat /\ MemOK /\ M.node \in Slots /\ Inner(M.node) /\ ChildKnown(M)
      /\ M.key \in AllKeys /\ Building(M)
  BY <1>1, <1>2, MakingCall, ChangingCall, ChangingNow DEF Changing, Putting, Replacing, Growing, Splitting,
     LeafSplitting
<1>4. NodeSized(mem[M.node]) /\ RoomKnown(M) /\ DOMAIN mem[M.node] = NodeFields
  BY <1>2, <1>3 DEF SizesOK, MemOK
<1>5. CASE PutLeaf(t)
  <2>1. PICK leaf : leaf = LeafUnder(t, mem[M.node].id, M.byte)
    OBVIOUS
  <2>2. PICK new : new = <<leaf>>
    OBVIOUS
  <2>3. NodeSized(leaf) /\ DOMAIN leaf = NodeFields
    BY <2>1, LeafSized DEF LeafUnder
  <2>4. IsSeq(new) /\ Len(new) = 1 /\ new[1] = leaf
    BY <2>2, Tuples
  <2>5. M.pc = "put" /\ Allocate(t, new, [pc |-> "putInsert", fresh |-> Len(mem) + 1])
    BY <1>2, <1>5, <2>1, <2>2 DEF PutLeaf
  <2>6. \A i \in 1..Len(new) : i = 1
    BY <2>4
  <2> QED
    BY <2>3, <2>4, <2>5, <2>6 DEF Made, Supplies, MadeFor
<1>6. CASE GrowBuild(t)
  <2>1. PICK f : f = Len(mem) + 1
    OBVIOUS
  <2>2. PICK n : n = mem[M.node]
    OBVIOUS
  <2>3. PICK hash : hash = IdHash(M.parent, M.pbyte)
    OBVIOUS
  <2>4. PICK big : big = SetChild(Bigger(n, hash), M.byte, f + 1)
    OBVIOUS
  <2>5. PICK leaf : leaf = LeafUnder(t, n.id, M.byte)
    OBVIOUS
  <2>6. PICK new : new = <<big, leaf>>
    OBVIOUS
  <2>7. M.pc = "growBuild" /\ Allocate(t, new, [pc |-> "growLink", fresh |-> f])
    BY <1>2, <1>6, <2>1, <2>2, <2>3, <2>4, <2>5, <2>6 DEF GrowBuild, Bigger
  <2>8. n.kind \in Nat /\ n.kind # 0 /\ NodeSized(n) /\ IsFull(n) /\ ChildOf(n, M.byte) = Nil
    BY <1>3, <1>4, <2>2, <2>7 DEF RoomKnown, ChildKnown, NoChild, Inner, NodeSized
  <2>9. f + 1 # Nil /\ f + 1 = Len(mem) + 2
    BY <1>3, <2>1 DEF Nil
  <2>10. /\ NodeSized(big) /\ DOMAIN big = NodeFields
         /\ \A x : ChildOf(big, x) = IF x = M.byte THEN f + 1 ELSE ChildOf(n, x)
    BY <2>4, <2>8, <2>9, BiggerSized
  <2>11. NodeSized(leaf) /\ DOMAIN leaf = NodeFields
    BY <2>5, LeafSized DEF LeafUnder
  <2>12. IsSeq(new) /\ Len(new) = 2 /\ new[1] = big /\ new[2] = leaf
    BY <2>6, Tuples
  <2>13. \A i \in 1..Len(new) : i = 1 \/ i = 2
    BY <2>12
  <2>14. Supplies(M, new)
    BY <2>2, <2>7, <2>8, <2>9, <2>10, <2>12 DEF Supplies
  <2> QED
    BY <2>1, <2>7, <2>10, <2>11, <2>12, <2>13, <2>14 DEF Made, MadeFor
<1>7. ASSUME NEW fork, NEW leaf, NEW third, NEW new, new = <<fork, leaf, third>>,
             NodeSized(fork) /\ DOMAIN fork = NodeFields, NodeSized(leaf) /\ DOMAIN leaf = NodeFields,
             NodeSized(third) /\ DOMAIN third = NodeFields,
             M.pc \in {"splitBuild", "leafBuild"},
             Allocate(t, new, [pc |-> MadeFor[M.pc], fresh |-> Len(mem) + 1]),
             NEW mine, NEW other, ChildOf(fork, mine) = Len(mem) + 2, ChildOf(fork, other) = Len(mem) + 3,
             M.pc = "splitBuild" => third.child = mem[M.node].child
      PROVE  Made(t, M, new)
  <2>1. IsSeq(new) /\ Len(new) = 3 /\ new[1] = fork /\ new[2] = leaf /\ new[3] = third
    BY <1>7, Tuples
  <2>2. \A i \in 1..Len(new) : i = 1 \/ i = 2 \/ i = 3
    BY <2>1
  <2>3. Supplies(M, new)
    BY <1>7, <2>1 DEF Supplies
  <2> QED
    BY <1>2, <1>7, <2>1, <2>2, <2>3 DEF Made
<1>8. CASE SplitBuild(t)
  <2>1. M.pc = "splitBuild"
    BY <1>2, <1>8 DEF SplitBuild
  <2>2. PICK i, w, h, l, d, n : SplitParts(C, M, i, w, h, l, d, n)
    BY <1>1, <2>1, SplitPlace
  <2>3. n = mem[M.node] /\ M.level = l /\ d = l + M.matched /\ M.miss # M.key[d + 1]
    BY <2>2 DEF SplitParts
  <2>4. PICK f : f = Len(mem) + 1
    OBVIOUS
  <2>5. PICK mine : mine = M.key[M.level + M.matched + 1]
    OBVIOUS
  <2>6. PICK hash : hash = IdHash(M.parent, M.pbyte)
    OBVIOUS
  <2>7. PICK fork : fork = Fork(f, n.prefix, M.matched, hash, mine, f + 1, M.miss, f + 2)
    OBVIOUS
  <2>8. PICK leaf : leaf = LeafUnder(t, f, mine)
    OBVIOUS
  <2>9. PICK third : third = Relocated(n, <<f, M.miss>>, M.rest, n.plen - (M.matched + 1))
    OBVIOUS
  <2>10. PICK new : new = <<fork, leaf, third>>
    OBVIOUS
  <2>11. Allocate(t, new, [pc |-> "splitLink", fresh |-> f])
    BY <1>2, <1>8, <2>3, <2>4, <2>5, <2>6, <2>7, <2>8, <2>9, <2>10 DEF SplitBuild, Fork, Relocated
  <2>12. mine # M.miss
    BY <2>3, <2>5
  <2>13. f + 1 = Len(mem) + 2 /\ f + 2 = Len(mem) + 3
    BY <1>3, <2>4
  <2>14. /\ NodeSized(fork) /\ DOMAIN fork = NodeFields
         /\ ChildOf(fork, mine) = Len(mem) + 2 /\ ChildOf(fork, M.miss) = Len(mem) + 3
    BY <1>3, <2>7, <2>12, <2>13, ForkSized
  <2>15. NodeSized(leaf) /\ DOMAIN leaf = NodeFields
    BY <2>8, LeafSized DEF LeafUnder
  <2>16. NodeSized(third) /\ DOMAIN third = NodeFields /\ third.child = mem[M.node].child
    BY <1>3, <1>4, <2>3, <2>9, RelocatedSized DEF Inner
  <2>17. MadeFor[M.pc] = "splitLink"
    BY <2>1 DEF MadeFor
  <2>18. Made(t, M, new)
    BY <1>7, <2>1, <2>4, <2>10, <2>11, <2>14, <2>15, <2>16, <2>17
  <2> QED
    BY <2>18
<1>9. CASE LeafBuild(t)
  <2>1. M.pc = "leafBuild"
    BY <1>2, <1>9 DEF LeafBuild
  <2>2. PICK v, h, l, m, d : LeafParts(C, M, v, h, l, m, d)
    BY <1>1, <2>1, LeafPlace
  <2>3. /\ v = mem[M.next].value /\ l = M.level + 1 /\ m = Agreement(Drop(v, l), Drop(M.key, l))
        /\ d = l + m /\ l \in Nat /\ m \in Nat /\ d < Len(M.key) /\ v[d + 1] # M.key[d + 1]
    BY <2>2 DEF LeafParts
  <2>4. M.level \in Nat
    BY <1>1, <2>1, LeafLevel
  <2>5. PICK f : f = Len(mem) + 1
    OBVIOUS
  <2>6. PICK below : below = Drop(M.key, M.level + 1)
    OBVIOUS
  <2>7. PICK mine : mine = below[m + 1]
    OBVIOUS
  <2>8. PICK other : other = v[M.level + m + 2]
    OBVIOUS
  <2>9. PICK hash : hash = IdHash(M.node, M.byte)
    OBVIOUS
  <2>10. PICK fork : fork = Fork(f, below, m, hash, mine, f + 1, other, f + 2)
    OBVIOUS
  <2>11. PICK leaf : leaf = LeafUnder(t, f, mine)
    OBVIOUS
  <2>12. PICK third : third = NewLeaf(v, <<f, other>>)
    OBVIOUS
  <2>13. PICK new : new = <<fork, leaf, third>>
    OBVIOUS
  <2>14. Allocate(t, new, [pc |-> "leafObsolete", fresh |-> f])
    <3>1. m = Agreement(Drop(v, M.level + 1), below)
      BY <2>3, <2>6
    <3> QED
      BY <1>2, <1>9, <2>3, <2>5, <2>6, <2>7, <2>8, <2>9, <2>10, <2>11, <2>12, <2>13, <3>1 DEF LeafBuild, Fork
  <2>15. mine # other
    <3>1. IsSeq(M.key) /\ Len(M.key) \in Nat
      BY <1>3, KeySeq, KeyFacts
    <3>2. l <= Len(M.key) /\ m + 1 \in 1..Len(M.key) - l /\ d + 1 = l + (m + 1) /\ l \in Nat
      <4>1. \A a, b, c, e : a \in Nat /\ b \in Nat /\ c \in Nat /\ e = a + b /\ e < c =>
               a <= c /\ b + 1 \in 1..c - a /\ e + 1 = a + (b + 1)
        OBVIOUS
      <4>2. l \in Nat /\ m \in Nat /\ d = l + m /\ d < Len(M.key)
        BY <2>3
      <4> QED
        BY <3>1, <4>1, <4>2
    <3>3. mine = M.key[d + 1]
      <4>1. below = Drop(M.key, l)
        BY <2>3, <2>6
      <4>2. Drop(M.key, l)[m + 1] = M.key[l + (m + 1)]
        BY <3>1, <3>2, Dropped
      <4> QED
        BY <2>7, <3>2, <4>1, <4>2
    <3>4. M.level + m + 2 = d + 1
      BY <2>3, <2>4
    <3> QED
      BY <2>3, <2>8, <3>3, <3>4
  <2>16. f + 1 = Len(mem) + 2 /\ f + 2 = Len(mem) + 3
    BY <1>3, <2>5
  <2>17. /\ NodeSized(fork) /\ DOMAIN fork = NodeFields
         /\ ChildOf(fork, mine) = Len(mem) + 2 /\ ChildOf(fork, other) = Len(mem) + 3
    BY <1>3, <2>10, <2>15, <2>16, ForkSized
  <2>18. NodeSized(leaf) /\ DOMAIN leaf = NodeFields /\ NodeSized(third) /\ DOMAIN third = NodeFields
    BY <2>11, <2>12, LeafSized DEF LeafUnder
  <2>19. MadeFor[M.pc] = "leafObsolete"
    BY <2>1 DEF MadeFor
  <2>20. Made(t, M, new)
    BY <1>7, <2>1, <2>5, <2>13, <2>14, <2>17, <2>18, <2>19
  <2> QED
    BY <2>20
<1> QED
  BY <1>5, <1>6, <1>8, <1>9 DEF MakeStep

(* The steps that neither link nor make a node leave the children of every   *)
(* node as they are.                                                        *)
LEMMA OnlyWords ==
  ASSUME NEW t \in Threads, NEW M, NEW N, Moving(t, M, N),
         lookup(t) \/ WalkStep(t) \/ LockStep(t) \/ UnlockStep(t) \/ MarkStep(t)
  PROVE  Slots' = Slots /\ \A s \in Slots : mem'[s].child = mem[s].child
<1>1. M = loc[t] /\ TInv /\ MemOK
  BY DEF Moving, TInv
<1>2. Steady => Slots' = Slots /\ \A s \in Slots : mem'[s].child = mem[s].child
  BY DEF Steady
<1>3. UNCHANGED mem => Steady
  BY <1>1, WordsOnly
<1>4. \A s \in Slots, n \in Nat : AddToWord(s, n) => Steady
  BY <1>1, WordsOnly
<1>5. CASE lookup(t)
  BY <1>2, <1>3, <1>5 DEF lookup, LookupRoot, Search, LookupMiss, LookupHit, LookupLeaf, LeafReadLock,
     LeafRead, Descend, Couple
<1>6. CASE WalkStep(t)
  BY <1>2, <1>3, <1>6 DEF WalkStep, descend, Visit, PrefixStep, AnyLock, AnyChild, AnyCheck, ReadChild,
     ChildCheck, Further, Room, PutParent
<1>7. CASE MarkStep(t)
  BY <1>2, <1>3, <1>7 DEF MarkStep, GrowMark, SplitMark, LeafMark
<1>8. CASE LockStep(t)
  <2>1. PICK s : \E changes :
            /\ DOMAIN changes \subseteq {"pc", "claim"} /\ "pc" \in DOMAIN changes
            /\ \/ /\ AddToWord(s, 2) /\ Go(t, changes) /\ LocksFor(M, changes.pc, s)
                  /\ M.pc \in {"lockNode", "growNode"} => Word(M.node) = M.v
               \/ /\ UNCHANGED mem
                  /\ \/ Restart(t)
                     \/ Go(t, changes) /\ changes.pc = "undo" /\ M.pc \in {"growNode", "splitNode"}
    BY <1>1, <1>8, LockForms
  <2>2. PICK changes : (AddToWord(s, 2) /\ LocksFor(M, changes.pc, s)) \/ UNCHANGED mem
    BY <2>1
  <2>3. CASE AddToWord(s, 2) /\ LocksFor(M, changes.pc, s)
    <3>1. M.pc \in Changing
      BY <2>3 DEF LocksFor, Changing, Putting, Replacing, Growing, Splitting, LeafSplitting
    <3>2. M.node \in Slots /\ (M.pc \in Replacing => M.parent \in Slots)
          /\ (M.pc \in LeafSplitting => M.next \in Slots)
      BY <3>1, ChangingCall
    <3>3. s \in Slots
      BY <2>3, <3>2 DEF LocksFor, Replacing, Growing, Splitting, LeafSplitting
    <3>4. 2 \in Nat
      OBVIOUS
    <3> QED
      BY <1>2, <1>4, <2>3, <3>3, <3>4
  <2> QED
    BY <1>2, <1>3, <2>2, <2>3
<1>9. CASE UnlockStep(t)
  <2>1. M.pc \in Changing
    BY <1>1, <1>9 DEF UnlockStep, Unlock, Undo, GrowUnlock, SplitUnlock, GrowObsolete, SplitObsolete,
       LeafObsolete, Changing, Putting, Replacing, Growing, Splitting, LeafSplitting
  <2>2. M.node \in Slots /\ (M.pc \in Replacing => M.parent \in Slots)
        /\ (M.pc \in LeafSplitting => M.next \in Slots)
    BY <2>1, ChangingCall
  <2>3. PICK s \in {M.node, M.parent, M.next}, n \in {2, 3} : AddToWord(s, n) /\ s \in Slots
    BY <1>1, <1>9, <2>2 DEF UnlockStep, Unlock, Undo, GrowUnlock, SplitUnlock, GrowObsolete,
       SplitObsolete, LeafObsolete, writeUnlock, writeUnlockObsolete, Replacing, Growing, Splitting,
       LeafSplitting
  <2>4. n \in Nat
    OBVIOUS
  <2> QED
    BY <1>2, <1>4, <2>3, <2>4
<1> QED
  BY <1>5, <1>6, <1>7, <1>8, <1>9

(* A call that builds nodes builds them in size.                            *)
LEMMA MakeSized ==
  ASSUME NEW t \in Threads, NEW M, NEW N, Moving(t, M, N), MakeStep(t), MapInv, SizesOK,
         N.pc \notin RoomPlaces \/ RoomKnown(N)'
  PROVE  SizesOK'
<1>1. PICK new : Made(t, M, new)
  BY MakeForm
<1>2. PICK changes : /\ IsSeq(new) /\ Allocate(t, new, changes)
                     /\ \A i \in 1..Len(new) : DOMAIN new[i] = NodeFields /\ NodeSized(new[i])
  BY <1>1 DEF Made
<1>3. MemOK /\ Turns(t, M, N)
  BY MakingTurns DEF MakeStep, Moving, TInv
<1>4. \A s \in Slots : mem'[s] = mem[s]
  BY <1>2, <1>3, Allocated
<1>5. \A s \in Slots' \ Slots : NodeSized(mem'[s])
  BY <1>2, <1>3, NewSized
<1>6. \A s \in Slots' : NodeSized(mem'[s])
  BY <1>4, <1>5 DEF SizesOK
<1> QED
  BY <1>3, <1>6, ThreadsKnowRoom

(* Other steps leave the children of every node as they are.                *)
LEMMA StillSized ==
  ASSUME NEW t \in Threads, NEW M, NEW N, Turns(t, M, N), Slots' = Slots,
         \A s \in Slots : mem'[s].child = mem[s].child, SizesOK,
         N.pc \notin RoomPlaces \/ RoomKnown(N)'
  PROVE  SizesOK'
<1>1. Grows
  BY DEF Turns, Moving
<1>2. \A s \in Slots' : NodeSized(mem'[s])
  BY <1>1, SizeLasts DEF SizesOK
<1> QED
  BY <1>2, ThreadsKnowRoom

(* Every step of a call keeps the nodes in size.                            *)
LEMMA CallSized ==
  ASSUME NEW t \in Threads, NEW M, NEW N, Moving(t, M, N), lookup(t) \/ insert(t),
         UNCHANGED <<todo, load>>, MapInv, SizesOK
  PROVE  SizesOK'
<1>1. N.pc \notin RoomPlaces \/ RoomKnown(N)'
  <2>1. TInv /\ N = loc'[t]
    BY DEF Moving
  <2> QED
    BY <2>1, Elsewhere, RoomReached
<1>2. CASE LinkStep(t)
  BY <1>2, LinkSized
<1>3. CASE MakeStep(t)
  BY <1>1, <1>3, MakeSized
<1>4. CASE lookup(t) \/ WalkStep(t) \/ LockStep(t) \/ UnlockStep(t) \/ MarkStep(t)
  <2>1. Turns(t, M, N)
    BY <1>4, LookupTurns, DescendTurns, LockingTurns, UnlockingTurns, HandingTurns
       DEF WalkStep, LockStep, UnlockStep, MarkStep
  <2>2. Slots' = Slots /\ \A s \in Slots : mem'[s].child = mem[s].child
    BY <1>4, OnlyWords
  <2> QED
    BY <1>1, <2>1, <2>2, StillSized
<1> QED
  BY <1>2, <1>3, <1>4, Sorted

(* Every step keeps the nodes in size.                                       *)
LEMMA StepSized ==
  ASSUME TInv, TInv', LInv, MapInv, SizesOK, [Next]_vars
  PROVE  SizesOK'
<1>1. CASE UNCHANGED vars
  BY <1>1 DEF vars, SizesOK, RoomKnown, Word, Slots
<1>2. ASSUME NEW t \in Threads, Step(t) PROVE SizesOK'
  <2>1. CASE BeginCall(t) \/ EndCall(t)
    <3>0. PICK M, N : M = loc[t] /\ N = loc'[t]
      OBVIOUS
    <3>1. Turns(t, M, N)
      BY <2>1, <3>0, BeginTurns, EndTurns
    <3>2. mem' = mem
      BY <2>1 DEF BeginCall, EndCall
    <3>3. Slots' = Slots /\ \A s \in Slots : mem'[s].child = mem[s].child
      BY <3>2 DEF Slots
    <3>4. N.pc \notin RoomPlaces
      <4>1. CASE BeginCall(t)
        <5>1. \E op \in {"lookup", "insert"}, key \in AllKeys : \E missing :
                 loc' = [loc EXCEPT ![t] = Start([op |-> op, key |-> key, missing |-> missing])]
          BY <4>1, Begun
        <5> QED
          BY <3>0, <5>1 DEF TInv, QueueOK, Start, RoomPlaces
      <4>2. CASE EndCall(t)
        BY <3>0, <4>2 DEF EndCall, TInv, QueueOK, Idle, RoomPlaces
      <4> QED
        BY <2>1, <4>1, <4>2
    <3> QED
      BY <3>1, <3>3, <3>4, StillSized
  <2>2. CASE (lookup(t) \/ insert(t)) /\ UNCHANGED <<todo, load>>
    <3>1. Grows /\ \A u \in Threads : u # t => loc'[u] = loc[u]
      BY <2>2, Stirring DEF Alone
    <3>2. Moving(t, loc[t], loc'[t])
      BY <2>2, <3>1, Movement
    <3> QED
      BY <2>2, <3>2, CallSized
  <2> QED
    BY <1>2, <2>1, <2>2 DEF Step
<1> QED
  BY <1>1, <1>2 DEF Next

(* The root alone is in size, and no call is under way.                      *)
LEMMA SizedInitially ==
  ASSUME Init
  PROVE  SizesOK
<1>1. mem = <<NewNode(TopKind, 1, <<>>, 0, <<0, 0>>)>> /\ \A t \in Threads : loc[t] = Idle
  BY DEF Init
<1>2. Slots = {1} /\ mem[1] = NewNode(TopKind, 1, <<>>, 0, <<0, 0>>)
  BY <1>1 DEF Slots
<1>3. mem[1].kind = TopKind /\ DOMAIN mem[1].child = {} /\ TopKind \in Nat \ {0}
  BY <1>2, NodeMade, Kinds
<1>4. NodeSized(mem[1])
  BY <1>3, FS_EmptySet DEF NodeSized
<1>5. \A t \in Threads : \A M : M = loc[t] => RoomKnown(M)
  BY <1>1 DEF RoomKnown, Idle
<1> QED
  BY <1>2, <1>4, <1>5 DEF SizesOK

(* No node has more children than its kind has room for, and none is left    *)
(* with fewer than two: an insertion sees that its node has room while the   *)
(* node is still at the version it has read, and locks it at that version.   *)
THEOREM SizesInvariant == Spec => []SizesOK
<1>1. Init => TInv /\ LInv /\ MapInv /\ SizesOK
  BY Initially, LockInitially, ChartedInitially, SizedInitially
<1>2. TInv /\ LInv /\ MapInv /\ SizesOK /\ [Next]_vars => TInv' /\ LInv' /\ MapInv' /\ SizesOK'
  BY Steps, StepsLocked, StepCharted, StepSized
<1> QED
  BY <1>1, <1>2, PTL DEF Spec

(* Every call is somewhere in lookup or insert.                             *)
LEMMA Somewhere ==
  ASSUME TInv, NEW t \in Threads
  PROVE  loc[t].pc \in Locations
<1>1. CASE loc[t] = Idle
  BY <1>1 DEF Idle, Locations
<1>2. CASE loc[t].pc = "done"
  BY <1>2 DEF Locations
<1>3. CASE CallOK(loc[t])
  BY <1>3 DEF CallOK, LookupOK, InsertOK, Looking, Descending, Putting, Replacing, Growing, Splitting,
              LeafSplitting, Locations
<1> QED
  BY <1>1, <1>2, <1>3 DEF TInv, LocalOK

(* Every node is of a kind and stores the bytes of its prefix that it can,   *)
(* pointers are slots, a node has as many children as its kind allows and,   *)
(* where memory does not run out, at least two, and every call is somewhere  *)
(* in the code (the nodes of N.h, what setPrefix keeps in N.cpp).            *)
THEOREM TypeOKHolds == Spec => []TypeOK
<1>1. TInv /\ LInv /\ MapInv /\ SizesOK => TypeOK
  <2> SUFFICES ASSUME TInv, LInv, MapInv, SizesOK PROVE TypeOK
    OBVIOUS
  <2>1. PICK C, P : Charted(C, P) /\ Placed(C)
    BY PlacedNow DEF MapInv
  <2>2. MemOK
    BY DEF TInv
  <2>3. ASSUME NEW s \in Slots
        PROVE  Len(mem[s].prefix) = (IF mem[s].plen < MaxStored THEN mem[s].plen ELSE MaxStored)
    <3>1. CASE Inner(s)
      BY <2>1, <3>1 DEF Placed, Fits, InnerFits, Stored
    <3>2. CASE mem[s].kind = 0
      <4>1. mem[s].plen = 0 /\ Len(mem[s].prefix) = 0
        BY <3>2 DEF SizesOK, NodeSized
      <4> QED
        BY <4>1, ArtAssumption
    <3> QED
      BY <3>1, <3>2 DEF Inner
  <2>4. \A s \in Slots : \A b \in Bytes(mem[s]) : mem[s].child[b] \in Slots
    BY <2>2 DEF MemOK, Bytes
  <2>5. \A s \in Slots : 0 < mem[s].kind /\ mem[s].kind < TopKind =>
           Cardinality(Bytes(mem[s])) \in (IF MayOverflow THEN 0 ELSE 2)..Ladder[mem[s].kind]
    BY DEF SizesOK, NodeSized, Fewest
  <2> QED
    BY <2>2, <2>3, <2>4, <2>5, Somewhere DEF TypeOK, MemOK
<1>2. Spec => []TInv /\ []LInv /\ []MapInv /\ []SizesOK
  BY TreeInvariant, LockInvariant, MapInvariant, SizesInvariant
<1> QED
  BY <1>1, <1>2, PTL

-----------------------------------------------------------------------------
(* What becomes of the slots that are replaced.  A slot that was handed over *)
(* is obsolete.                                                              *)
Spent(s) == mem[s].word % 4 = 1

(* What a call that replaces a slot has already done with it.               *)
Discards(M) ==
  /\ M.pc \in {"growMark", "splitMark"} => Spent(M.node)
  /\ M.pc = "leafMark" => Spent(M.next)
  /\ M.pc = "leafLink" => retired[M.next] # {}

(* The copy that takes over the children of the node.                       *)
Heir(M) == IF M.pc = "growLink" THEN M.fresh ELSE M.fresh + 2

Supplants(M) ==
  M.pc \in {"growLink", "splitLink"} =>
     /\ Heir(M) \in Slots /\ retired[Heir(M)] = {}
     /\ \A x \in Slots : Links(M.node, x) => Links(Heir(M), x)

(* A slot is handed over once, by the one call that takes it out of the tree. *)
RemovalsOK ==
  /\ \A s \in Slots : retired[s] # {} => Spent(s)
  /\ \A s \in Slots : \A q, r \in retired[s] : q = r
  /\ \A t \in Threads : \A s : Removing(loc[t], s) =>
        retired[s] = {} /\ \A u \in Threads : u # t => ~Removing(loc[u], s)
  /\ \A t \in Threads : \A M : M = loc[t] /\ Calls(M) => Discards(M) /\ Supplants(M)

(* A slot hangs on another one that is in the tree, or is about to.          *)
Hung(s) ==
  \/ s = Root \/ Removed(s)
  \/ \E u \in Threads : loc[u].pc \in Preparing /\ s = loc[u].fresh
  \/ \E q \in Slots : Links(q, s) /\ ~Removed(q)

(* A node that is locked has an owner, unless it is taken out of the tree.   *)
Attended(s) == Inner(s) => Free(s) \/ Removed(s) \/ \E u \in Threads : Owns(loc[u], s)

LeakFree == ~MayOverflow => \A s \in Slots : Hung(s) /\ Attended(s)

(* A slot that a call keeps is not taken out of the tree.                    *)
LEMMA KeptStays ==
  ASSUME TInv, LInv, RemovalsOK, NEW t \in Threads, NEW p, Keeps(loc[t], p)
  PROVE  p \in Slots /\ ~Removed(p)
<1>1. Calls(loc[t]) /\ Knows(loc[t])
  BY Idlers DEF LInv, KnowsOK
<1>2. p \in Slots /\ Taken(p)
  BY <1>1 DEF Knows, Locking, Owns
<1>3. retired[p] = {}
  BY <1>2 DEF RemovalsOK, Spent, Taken
<1>4. ASSUME NEW u \in Threads, Removing(loc[u], p) PROVE FALSE
  <2>1. Calls(loc[u])
    BY <1>4, Idlers
  <2>2. CASE loc[u].pc \in {"growMark", "splitMark"}
    BY <1>2, <1>4, <2>1, <2>2 DEF RemovalsOK, Discards, Removing, Spent, Taken
  <2>3. CASE loc[u].pc \in {"growObsolete", "splitUnlock", "splitObsolete"}
    <3>1. Owns(loc[u], p)
      BY <1>4, <2>3 DEF Removing, Owns, Copies, CopiesNode
    <3>2. u = t
      BY <3>1 DEF LInv, ApartOK, Apart, Owns
    <3> QED
      BY <1>1, <1>4, <2>3, <3>2 DEF Knows, Locking, Keeps, Removing, KeepsNode, KeepsNext, KeepsParent, CopiesNode
  <2> QED
    BY <1>4, <2>2, <2>3 DEF Removing
<1> QED
  BY <1>2, <1>3, <1>4 DEF Removed

(* Nor is the child of a slot that a call keeps.                             *)
LEMMA LinkedStays ==
  ASSUME TInv, LInv, NEW t \in Threads, NEW p, Keeps(loc[t], p), loc[t].pc # "leafLink",
         NEW s \in Slots, Links(p, s)
  PROVE  ~Removed(s)
<1>1. Calls(loc[t]) /\ Knows(loc[t])
  BY Idlers DEF LInv, KnowsOK
<1>2. p \in Slots
  BY <1>1 DEF Knows, Locking, Owns
<1>3. Live(p)
  BY DEF Live
<1>4. ASSUME NEW u \in Threads, Leaving(loc[u], p, s) PROVE FALSE
  <2>1. Owns(loc[u], p)
    BY <1>4 DEF Leaving, Owns, Keeps, KeepsNode
  <2>2. u = t
    BY <2>1 DEF LInv, ApartOK, Apart, Owns
  <2> QED
    BY <1>4, <2>2 DEF Leaving
<1> QED
  BY <1>2, <1>3, <1>4 DEF LInv, CutOK

(* What a call has built and not linked is held by no call.                  *)
LEMMA Private ==
  ASSUME TInv, LInv, NEW C, NEW P, Charted(C, P), NEW t \in Threads, loc[t].pc \in Preparing,
         NEW y \in Batch(loc[t]), NEW u \in Threads, NEW U, U = loc[u]
  PROVE  /\ y \in Slots /\ ~Owns(U, y) /\ ~Removing(U, y)
         /\ Calls(U) => y \notin HeldBy(U)
<1>1. Calls(loc[t])
  BY Idlers
<1>2. loc[t].op = "insert"
  BY <1>1, Callers DEF CallOK, LookupOK, Looking, Preparing
<1>3. Batch(loc[t]) \subseteq Slots \ P
  BY <1>1, <1>2 DEF Charted, ThreadKnows, CallKnows, InsertKnows, Ready
<1>4. Calls(U) => HeldBy(U) \subseteq P \cup {Nil}
  BY DEF Charted, ThreadKnows, CallKnows
<1>5. y \in Slots /\ y \notin P /\ y # Nil
  BY <1>3, NoSlots
<1>6. Calls(U) => y \notin HeldBy(U)
  BY <1>4, <1>5
<1>7. Owns(U, y) \/ Removing(U, y) => y \in HeldBy(U) /\ Calls(U)
  BY Idlers DEF Owns, Keeps, Copies, Removing, HeldBy, KeepsNext
<1> QED
  BY <1>5, <1>6, <1>7

(* What a step may do to what is handed over and what is taken out.          *)
Marks(M, s) ==
  \/ M.pc \in {"growMark", "splitMark"} /\ s = M.node
  \/ M.pc = "leafMark" /\ s = M.next

Removes(M, N) ==
  /\ \A s \in Slots : \/ retired'[s] = retired[s]
                      \/ Marks(M, s) /\ \E r : retired'[s] = retired[s] \cup {r}
  /\ \A s \in Slots : Removing(M, s) => Removing(N, s) \/ retired'[s] # {}
  /\ \A s : Removing(N, s) =>
        /\ s \in Slots /\ retired'[s] = retired[s]
        /\ Removing(M, s) \/ (M.pc \in {"growLink", "splitLink"} /\ s = M.node)
  /\ Calls(N) => (Discards(N) /\ Supplants(N))'

(* The slot that a call is about to hand over was not handed over before.    *)
LEMMA FirstMark ==
  ASSUME TInv, LInv, RemovalsOK, NEW t \in Threads, NEW M, M = loc[t], NEW s, Marks(M, s)
  PROVE  /\ s \in Slots /\ retired[s] = {} /\ Spent(s) /\ Calls(M) /\ s \in HeldBy(M)
         /\ \A u \in Threads : u # t => ~Removing(loc[u], s)
<1>1. Calls(M) /\ Knows(M) /\ Discards(M)
  BY DEF Marks, Calls, LInv, KnowsOK, RemovalsOK
<1>2. CASE M.pc \in {"growMark", "splitMark"} /\ s = M.node
  <2>1. Removing(M, s)
    BY <1>2 DEF Removing
  <2>2. s \in HeldBy(M) \cap Slots
    BY <1>1, <2>1, Callers
  <2> QED
    BY <1>1, <1>2, <2>1, <2>2 DEF RemovalsOK, Discards
<1>3. CASE M.pc = "leafMark" /\ s = M.next
  <2>1. HasChild(M.node, M.byte, s) /\ Keeps(M, M.node)
    BY <1>1, <1>3 DEF Knows, Current, Keeps, KeepsNode
  <2>2. Calls(M) /\ s \in HeldBy(M)
    BY <1>1, <1>3 DEF HeldBy
  <2>3. s \in Slots /\ IsLeaf(s)
    <3>1. M.op = "insert"
      BY <1>1, <1>3, Callers DEF CallOK, LookupOK, Looking
    <3> QED
      BY <1>1, <1>3, <3>1 DEF Knows, KindsKnown, LeafSplitting, IsLeaf
  <2>4. ~Removed(s)
    BY <1>3, <2>1, <2>3, LinkedStays DEF HasChild, Links
  <2> QED
    BY <1>1, <1>3, <2>2, <2>3, <2>4 DEF Removed, Discards
<1> QED
  BY <1>2, <1>3 DEF Marks

(* The node whose place is taken was in the tree.                            *)
LEMMA FirstCut ==
  ASSUME TInv, LInv, NEW t \in Threads, NEW M, M = loc[t], M.pc \in {"growLink", "splitLink"}
  PROVE  M.node \in Slots /\ ~Removed(M.node) /\ Copies(M, M.node)
<1>1. Calls(M) /\ Knows(M) /\ Copies(M, M.node)
  BY DEF Calls, LInv, KnowsOK, Copies, CopiesNode
<1>2. HasChild(M.parent, M.pbyte, M.node) /\ Keeps(M, M.parent)
  BY <1>1 DEF Knows, Current, Keeps, KeepsParent
<1>3. M.node \in Slots
  BY <1>1 DEF Knows, Locking, Owns
<1> QED
  BY <1>1, <1>2, <1>3, LinkedStays DEF HasChild, Links

(* What was handed over or taken out stays so, and only the node whose place *)
(* is taken and the leaf that is handed over join.                           *)
LEMMA RemovedStays ==
  ASSUME NEW t \in Threads, NEW M, NEW N, Turns(t, M, N), RemovalsOK, Removes(M, N), NEW s \in Slots
  PROVE  /\ Spent(s) => Spent(s)'
         /\ retired[s] \subseteq retired'[s]
         /\ Removed(s) => Removed(s)'
         /\ Removed(s)' => \/ Removed(s) \/ IsLeaf(s)
                           \/ M.pc \in {"growLink", "splitLink"} /\ s = M.node
<1>1. /\ TInv /\ LInv /\ M = loc[t] /\ N = loc'[t] /\ Writes(M, N) /\ Moving(t, M, N)
      /\ \A u \in Threads : u # t => loc'[u] = loc[u]
  BY DEF Turns, Moving, Careful
<1>2. Spent(s) => Spent(s)'
  <2> SUFFICES ASSUME Spent(s) PROVE Spent(s)'
    OBVIOUS
  <2>1. ~Free(s) /\ ~Owns(M, s)
    <3>1. Owns(M, s) => Taken(s)
      BY <1>1, Unchanging
    <3> QED
      BY <3>1 DEF Spent, Free, Taken
  <2>2. mem'[s].word = mem[s].word
    BY <1>1, <2>1 DEF Writes, Owns
  <2> QED
    BY <2>2 DEF Spent
<1>3. retired[s] \subseteq retired'[s]
  BY DEF Removes
<1>4. Removed(s) => Removed(s)'
  <2>1. CASE retired[s] # {}
    BY <1>3, <2>1 DEF Removed
  <2>2. ASSUME NEW u \in Threads, Removing(loc[u], s) PROVE Removed(s)'
    <3>1. CASE u = t
      BY <1>1, <2>2, <3>1 DEF Removes, Removed
    <3>2. CASE u # t
      BY <1>1, <2>2, <3>2 DEF Removed
    <3> QED
      BY <3>1, <3>2
  <2> QED
    BY <2>1, <2>2 DEF Removed
<1>5. ASSUME Removed(s)', ~Removed(s), ~IsLeaf(s) PROVE M.pc \in {"growLink", "splitLink"} /\ s = M.node
  <2>1. ~Marks(M, s)
    <3> SUFFICES ASSUME Marks(M, s) PROVE FALSE
      OBVIOUS
    <3>1. ~Removing(M, s)
      BY <1>1, <1>5 DEF Removed
    <3>2. M.pc = "leafMark" /\ s = M.next
      BY <3>1 DEF Marks, Removing
    <3>3. M.op = "insert" /\ Knows(M)
      BY <1>1, <3>2, Callers DEF CallOK, LookupOK, Looking, Calls, LInv, KnowsOK
    <3> QED
      BY <1>5, <3>2, <3>3 DEF Knows, KindsKnown, LeafSplitting
  <2>2. retired'[s] = {}
    BY <1>5, <2>1 DEF Removes, Removed
  <2>3. PICK u \in Threads : Removing(loc'[u], s)
    BY <1>5, <2>2 DEF Removed
  <2>4. u = t
    BY <1>1, <1>5, <2>3 DEF Removed
  <2> QED
    BY <1>1, <1>5, <2>3, <2>4 DEF Removes, Removed
<1> QED
  BY <1>2, <1>3, <1>4, <1>5

(* So a slot is handed over once, whatever the step is.                      *)
LEMMA RemovalsStay ==
  ASSUME NEW t \in Threads, NEW M, NEW N, Turns(t, M, N), RemovalsOK, Removes(M, N),
         NEW C, NEW P, Charted(C, P)
  PROVE  RemovalsOK'
<1>1. /\ TInv /\ LInv /\ M = loc[t] /\ N = loc'[t] /\ Writes(M, N) /\ Adds(M) /\ Moving(t, M, N)
      /\ \A u \in Threads : u # t => loc'[u] = loc[u]
      /\ Slots \subseteq Slots' /\ TInv'
  BY Unchanging DEF Turns, Moving, Careful
<1>2. ASSUME NEW s \in Slots', retired'[s] # {}
      PROVE  s \in Slots /\ Spent(s)' /\ \A q, r \in retired'[s] : q = r
  <2>1. s \in Slots
    BY <1>1, <1>2 DEF Adds
  <2>2. CASE retired'[s] = retired[s]
    BY <1>2, <2>1, <2>2, RemovedStays DEF RemovalsOK
  <2>3. CASE Marks(M, s) /\ \E r : retired'[s] = retired[s] \cup {r}
    <3>1. retired[s] = {} /\ Spent(s)
      BY <1>1, <2>3, FirstMark
    <3> QED
      BY <2>1, <2>3, <3>1, RemovedStays
  <2> QED
    BY <2>1, <2>2, <2>3 DEF Removes
<1>3. ASSUME NEW u \in Threads, NEW s, Removing(loc'[u], s)
      PROVE  retired'[s] = {} /\ \A v \in Threads : v # u => ~Removing(loc'[v], s)
  <2>1. CASE u = t
    <3>1. s \in Slots /\ retired'[s] = retired[s]
      BY <1>1, <1>3, <2>1 DEF Removes
    <3>2. retired[s] = {} /\ \A v \in Threads : v # t => ~Removing(loc[v], s)
      <4>1. CASE Removing(M, s)
        BY <1>1, <4>1 DEF RemovalsOK
      <4>2. CASE M.pc \in {"growLink", "splitLink"} /\ s = M.node
        BY <1>1, <4>2, FirstCut DEF Removed
      <4> QED
        BY <1>1, <1>3, <2>1, <4>1, <4>2 DEF Removes
    <3> QED
      BY <1>1, <2>1, <3>1, <3>2
  <2>2. CASE u # t
    <3>1. Removing(loc[u], s)
      BY <1>1, <1>3, <2>2
    <3>2. s \in Slots
      BY <1>1, <3>1, Idlers, Callers
    <3>3. retired[s] = {} /\ \A v \in Threads : v # u => ~Removing(loc[v], s)
      BY <3>1 DEF RemovalsOK
    <3>4. ~Marks(M, s)
      BY <1>1, <2>2, <3>1, FirstMark
    <3>5. ~Removing(N, s)
      <4>1. ~(M.pc \in {"growLink", "splitLink"} /\ s = M.node)
        BY <1>1, <3>1, FirstCut DEF Removed
      <4> QED
        BY <1>1, <2>2, <3>3, <4>1 DEF Removes
    <3> QED
      BY <1>1, <3>2, <3>3, <3>4, <3>5 DEF Removes
  <2> QED
    BY <2>1, <2>2
<1>4. ASSUME NEW u \in Threads, NEW U, U = loc'[u], Calls(U) PROVE (Discards(U) /\ Supplants(U))'
  <2>1. CASE u = t
    BY <1>1, <1>4, <2>1 DEF Removes
  <2>2. CASE u # t
    <3>1. U = loc[u] /\ Discards(U) /\ Supplants(U) /\ Knows(U)
      BY <1>1, <1>4, <2>2 DEF RemovalsOK, LInv, KnowsOK
    <3>2. Discards(U)'
      <4>1. U.pc \in {"growMark", "splitMark"} => U.node \in Slots
        BY <1>1, <1>4, <3>1, Callers DEF Removing
      <4>2. U.pc = "leafMark" => U.next \in Slots
        BY <1>1, <1>4, <3>1, Callers DEF Claims, ClaimsNext
      <4>3. U.pc = "leafLink" => U.next \in Slots
        <5>1. U.pc = "leafLink" => U.op = "insert"
          BY <1>1, <1>4, <3>1, Callers DEF CallOK, LookupOK, Looking
        <5> QED
          BY <3>1, <5>1 DEF Knows, KindsKnown, LeafSplitting, IsLeaf
      <4> QED
        BY <3>1, <4>1, <4>2, <4>3, RemovedStays DEF Discards
    <3>3. Supplants(U)'
      <4> SUFFICES ASSUME U.pc \in {"growLink", "splitLink"}
                   PROVE  /\ Heir(U) \in Slots' /\ retired'[Heir(U)] = {}
                          /\ \A x \in Slots' : Links(U.node, x)' => Links(Heir(U), x)'
        BY DEF Supplants, Heir
      <4>1. PICK y : y = Heir(U)
        OBVIOUS
      <4>2. y \in Slots /\ retired[y] = {} /\ \A x \in Slots : Links(U.node, x) => Links(y, x)
        BY <3>1, <4>1 DEF Supplants
      <4>3. y \in Batch(loc[u]) /\ loc[u].pc \in Preparing
        BY <3>1, <4>1 DEF Heir, Batch, Preparing
      <4>4. ~Owns(M, y) /\ (Calls(M) => y \notin HeldBy(M))
        BY <1>1, <4>3, Private
      <4>5. ~Marks(M, y)
        BY <1>1, <4>4, FirstMark
      <4>6. retired'[y] = {}
        BY <4>2, <4>5 DEF Removes
      <4>7. mem'[y].child = mem[y].child
        BY <1>1, <4>2, <4>4 DEF Writes, Owns
      <4>8. U.node \in Slots /\ Owns(U, U.node)
        BY <1>1, <3>1, FirstCut DEF Owns
      <4>9. mem'[U.node].child = mem[U.node].child
        <5>1. ~Owns(M, U.node)
          BY <1>1, <2>2, <3>1, <4>8 DEF LInv, ApartOK, Apart
        <5> QED
          BY <1>1, <4>8, <5>1 DEF Writes, Owns
      <4>10. ASSUME NEW x \in Slots', Links(U.node, x)' PROVE Links(y, x)'
        <5>1. Links(U.node, x)
          BY <4>9, <4>10 DEF Links
        <5>2. x \in Slots
          BY <1>1, <4>8, <5>1, NoSlots DEF Links, TInv, MemOK
        <5>3. Links(y, x)
          BY <4>2, <5>1, <5>2
        <5> QED
          BY <4>7, <5>3 DEF Links
      <4> QED
        BY <1>1, <4>1, <4>2, <4>6, <4>10
    <3> QED
      BY <3>2, <3>3
  <2> QED
    BY <2>1, <2>2
<1> QED
  BY <1>2, <1>3, <1>4 DEF RemovalsOK

(* What a step may do to the pointers: a slot that loses the pointer to it is *)
(* taken out of the tree, what a call has built is linked or still its own,   *)
(* the children of a node that is taken out hang on another one, and a call   *)
(* that gives up a node unlocks it or takes it out.                           *)
Settles(M, N) ==
  /\ \A q, x \in Slots : Links(q, x) /\ ~Links(q, x)' => Removed(x)'
  /\ M.pc \in Preparing => \/ N.pc \in Preparing /\ N.fresh = M.fresh
                           \/ \E q \in Slots : Links(q, M.fresh)' /\ ~Removed(q)'
  /\ \A q \in Slots : Removed(q)' /\ ~Removed(q) =>
        \/ IsLeaf(q)
        \/ \E p \in Slots : ~Removed(p)' /\ \A x \in Slots : Links(q, x) => Links(p, x)'
  /\ \A s \in Slots' \ Slots : \/ N.pc \in Preparing /\ s = N.fresh
                               \/ \E q \in Slots' : Links(q, s)' /\ ~Removed(q)'
  /\ \A s \in Slots : Inner(s) /\ Owns(M, s) => Owns(N, s) \/ Removed(s)' \/ Free(s)'

(* Such a step leaves no slot behind.                                        *)
LEMMA LeakFreeStays ==
  ASSUME NEW t \in Threads, NEW M, NEW N, Turns(t, M, N), RemovalsOK, Removes(M, N), LeakFree,
         ~MayOverflow => Settles(M, N)
  PROVE  LeakFree'
<1> SUFFICES ASSUME ~MayOverflow, NEW s \in Slots' PROVE Hung(s)' /\ Attended(s)'
  BY DEF LeakFree
<1>1. /\ TInv /\ LInv /\ M = loc[t] /\ N = loc'[t] /\ Writes(M, N) /\ Adds(M) /\ Moving(t, M, N)
      /\ \A u \in Threads : u # t => loc'[u] = loc[u]
      /\ Slots \subseteq Slots'
  BY Unchanging DEF Turns, Moving, Careful
<1>2. Settles(M, N) /\ \A x \in Slots : Hung(x) /\ Attended(x)
  BY DEF LeakFree
<1>3. CASE s \in Slots' \ Slots
  <2>1. Free(s)'
    BY <1>1, <1>3 DEF Adds, Free
  <2>2. Hung(s)'
    BY <1>1, <1>2, <1>3 DEF Settles, Hung
  <2> QED
    BY <2>1, <2>2 DEF Attended
<1>4. CASE s \in Slots
  <2>1. Hung(s)'
    <3>1. CASE s = Root \/ Removed(s)
      BY <1>4, <3>1, RemovedStays DEF Hung
    <3>2. ASSUME NEW u \in Threads, loc[u].pc \in Preparing /\ s = loc[u].fresh PROVE Hung(s)'
      <4>1. CASE u = t
        BY <1>1, <1>2, <3>2, <4>1 DEF Settles, Hung
      <4>2. CASE u # t
        BY <1>1, <3>2, <4>2 DEF Hung
      <4> QED
        BY <4>1, <4>2
    <3>3. ASSUME NEW q \in Slots, Links(q, s), ~Removed(q) PROVE Hung(s)'
      <4>1. CASE ~Links(q, s)'
        BY <1>2, <1>4, <3>3, <4>1 DEF Settles, Hung
      <4>2. CASE Links(q, s)' /\ ~Removed(q)'
        BY <1>1, <3>3, <4>2 DEF Hung
      <4>3. CASE Removed(q)'
        <5>1. ~IsLeaf(q)
          BY <1>1, <1>4, <3>3, Pointers, KindsOf DEF LInv
        <5> QED
          BY <1>1, <1>2, <1>4, <3>3, <4>3, <5>1 DEF Settles, Hung
      <4> QED
        BY <4>1, <4>2, <4>3
    <3> QED
      BY <1>2, <1>4, <3>1, <3>2, <3>3 DEF Hung
  <2>2. Attended(s)'
    <3> SUFFICES ASSUME Inner(s)' PROVE Free(s)' \/ Removed(s)' \/ \E u \in Threads : Owns(loc'[u], s)
      BY DEF Attended, Owns, Keeps, Copies
    <3>1. Inner(s)
      BY <1>1, <1>4, Unchanging
    <3>2. CASE Free(s)
      <4>1. ~Owns(M, s)
        BY <1>1, <3>2, Unchanging DEF Free, Taken
      <4>2. mem'[s].word = mem[s].word \/ Keeps(N, s)
        BY <1>1, <1>4, <4>1 DEF Writes, Owns
      <4> QED
        BY <1>1, <3>2, <4>2 DEF Free, Owns
    <3>3. CASE Removed(s)
      BY <1>4, <3>3, RemovedStays
    <3>4. ASSUME NEW u \in Threads, Owns(loc[u], s)
          PROVE  Free(s)' \/ Removed(s)' \/ \E v \in Threads : Owns(loc'[v], s)
      <4>1. CASE u = t
        BY <1>1, <1>2, <1>4, <3>1, <3>4, <4>1 DEF Settles
      <4>2. CASE u # t
        BY <1>1, <3>4, <4>2
      <4> QED
        BY <4>1, <4>2
    <3> QED
      BY <1>2, <1>4, <3>1, <3>2, <3>3, <3>4 DEF Attended
  <2> QED
    BY <2>1, <2>2
<1> QED
  BY <1>3, <1>4

(* A step that neither moves a pointer nor hands anything over.              *)
LEMMA Calm ==
  ASSUME NEW t \in Threads, NEW M, NEW N, Turns(t, M, N), Slots' = Slots,
         \A s \in Slots : retired'[s] = retired[s] /\ mem'[s].child = mem[s].child,
         \A s : Removing(N, s) <=> Removing(M, s),
         M.pc \in Preparing => N.pc \in Preparing /\ N.fresh = M.fresh,
         Calls(N) => (Discards(N) /\ Supplants(N))',
         \A s \in Slots : Inner(s) /\ Owns(M, s) => Owns(N, s) \/ Removed(s)' \/ Free(s)'
  PROVE  Removes(M, N) /\ Settles(M, N)
<1>1. /\ TInv /\ M = loc[t] /\ N = loc'[t]
      /\ \A u \in Threads : u # t => loc'[u] = loc[u]
  BY DEF Turns, Moving
<1>2. \A s : Removing(M, s) => s \in Slots
  BY <1>1, Callers, Idlers
<1>3. Removes(M, N)
  BY <1>2 DEF Removes
<1>4. \A q, x \in Slots : Links(q, x)' <=> Links(q, x)
  BY DEF Links
<1>5. ASSUME NEW q \in Slots, Removed(q)' PROVE Removed(q)
  <2>1. CASE retired'[q] # {}
    BY <2>1 DEF Removed
  <2>2. ASSUME NEW u \in Threads, Removing(loc'[u], q) PROVE Removed(q)
    <3>1. Removing(loc[u], q)
      BY <1>1, <2>2
    <3> QED
      BY <3>1 DEF Removed
  <2> QED
    BY <1>5, <2>1, <2>2 DEF Removed
<1> QED
  BY <1>3, <1>4, <1>5 DEF Settles

(* A call that reads, or restarts, or returns, owns nothing.                 *)
LEMMA Unbound ==
  ASSUME TInv, NEW t \in Threads, lookup(t) \/ WalkStep(t)
  PROVE  loc[t].pc \notin Bound /\ loc'[t].pc \notin Bound /\ UNCHANGED <<mem, retired>>
<1>1. /\ \A changes : Go(t, changes) /\ "pc" \in DOMAIN changes => loc'[t].pc = changes.pc
      /\ Restart(t) => loc'[t].pc = loc[t].op
      /\ \A result : Return(t, result) => loc'[t].pc = "done"
  BY Lands DEF TInv, QueueOK
<1>2. loc[t].op \in {"lookup", "insert"}
  BY Underway DEF WalkStep, insert, insertAndUnlock
<1> DEFINE Loosely == loc'[t].pc \notin Bound
<1>3. Restart(t) => Loosely
  BY <1>1, <1>2 DEF Bound, KeepsNode, CopiesNode, KeepsParent
<1>4. \A result : Return(t, result) => Loosely
  BY <1>1 DEF Bound, KeepsNode, CopiesNode, KeepsParent
<1>5. \A changes : Go(t, changes) /\ "pc" \in DOMAIN changes /\ changes.pc \notin Bound => Loosely
  BY <1>1
<1> HIDE DEF Loosely
<1> USE DEF Bound, KeepsNode, CopiesNode, KeepsParent
<1>6. CASE lookup(t)
  <2>1. CASE LookupRoot(t) \/ Search(t) \/ LookupMiss(t) \/ LookupHit(t)
    BY <1>3, <1>4, <1>5, <2>1 DEF LookupRoot, Search, LookupMiss, LookupHit, Loosely
  <2>2. CASE LookupLeaf(t) \/ LeafReadLock(t) \/ LeafRead(t) \/ Descend(t) \/ Couple(t)
    BY <1>3, <1>4, <1>5, <2>2 DEF LookupLeaf, LeafReadLock, LeafRead, Descend, Couple, Check, Loosely
  <2> QED
    BY <1>6, <2>1, <2>2 DEF lookup
<1>7. CASE WalkStep(t)
  <2>1. \A kt : CheckPrefixPessimistic(t, kt) => Loosely
    BY <1>5, PrefixGoes
  <2>2. CASE PrefixStep(t) \/ AnyCheck(t)
    BY <1>3, <1>5, <2>1, <2>2 DEF PrefixStep, AnyCheck, Loosely
  <2>3. CASE Visit(t) \/ AnyLock(t) \/ AnyChild(t)
    BY <1>3, <1>5, <2>3 DEF Visit, AnyLock, AnyChild, Loosely
  <2>4. CASE ReadChild(t) \/ ChildCheck(t) \/ Further(t)
    BY <1>3, <1>5, <2>4 DEF ReadChild, ChildCheck, Further, Check, Loosely
  <2>5. CASE Room(t) \/ PutParent(t)
    BY <1>3, <1>5, <2>5 DEF Room, PutParent, Loosely
  <2> QED
    BY <1>7, <2>2, <2>3, <2>4, <2>5 DEF WalkStep, descend
<1> QED
  BY <1>6, <1>7

(* So such a step, and the begin and the end of a call, settle.              *)
LEMMA LooseSettles ==
  ASSUME NEW t \in Threads, NEW M, NEW N, Turns(t, M, N), M.pc \notin Bound, N.pc \notin Bound,
         UNCHANGED <<mem, retired>>
  PROVE  Removes(M, N) /\ Settles(M, N)
<1>1. Slots' = Slots /\ \A s \in Slots : retired'[s] = retired[s] /\ mem'[s].child = mem[s].child
  BY DEF Slots
<1>2. /\ \A s : ~Owns(M, s) /\ ~Removing(M, s) /\ ~Removing(N, s)
      /\ M.pc \notin Preparing
  BY Loose
<1>3. (Discards(N) /\ Supplants(N))'
  BY DEF Discards, Supplants, Bound, KeepsNode, CopiesNode, KeepsParent
<1> QED
  BY <1>1, <1>2, <1>3, Calm

(* A call that locks a node keeps the ones it has, and one that fails to lock *)
(* restarts only if it has none: it never restarts from the lock of a leaf.   *)
LEMMA LockSettles ==
  ASSUME NEW t \in Threads, NEW M, NEW N, Moving(t, M, N), LockStep(t)
  PROVE  Removes(M, N) /\ Settles(M, N)
<1>1. /\ Turns(t, M, N) /\ M = loc[t] /\ UNCHANGED retired /\ TInv /\ LInv
      /\ Slots' = Slots /\ \A s \in Slots : mem'[s].child = mem[s].child
  BY LockingTurns, OnlyWords DEF LockStep, Moving, PutLock, LeafLockNode, LeafWriteLock, LockParent, LockNode
<1>2. Calls(M)
  BY <1>1 DEF LockStep, PutLock, LeafLockNode, LeafWriteLock, LockParent, LockNode, Calls
<1>3. ASSUME NEW changes, DOMAIN changes \subseteq {"pc", "claim"}, "pc" \in DOMAIN changes, Go(t, changes),
             \/ \E s : LocksFor(M, changes.pc, s)
             \/ M.pc \in {"growNode", "splitNode"} /\ changes.pc = "undo"
      PROVE  Removes(M, N) /\ Settles(M, N)
  <2>1. Changed(N, M, changes)
    BY <1>1, <1>2, <1>3, Outcomes DEF Fields
  <2>2. Onward(M, N) /\ N.pc = changes.pc
    BY <1>3, <2>1, Going
  <2>3. /\ \A s : ~Removing(M, s) /\ ~Removing(N, s)
        /\ M.pc \notin Preparing
        /\ N.pc \notin {"growMark", "splitMark", "leafMark", "leafLink", "growLink", "splitLink"}
    BY <1>3, <2>2 DEF LocksFor, Removing, Preparing
  <2>4. \A s : Owns(M, s) => Owns(N, s)
    BY <1>3, <2>2 DEF LocksFor, Onward, Owns, Keeps, Copies, KeepsNode, KeepsParent, KeepsNext, CopiesNode
  <2>5. (Discards(N) /\ Supplants(N))'
    BY <2>3 DEF Discards, Supplants
  <2> QED
    BY <1>1, <2>3, <2>4, <2>5, Calm
<1>4. ASSUME Restart(t), UNCHANGED mem, M.pc \in {"lockNode", "leafLockNode", "growParent", "splitParent"}
      PROVE  Removes(M, N) /\ Settles(M, N)
  <2>1. N = Start(M)
    BY <1>1, <1>2, <1>4, Outcomes
  <2>2. N.pc \notin Bound
    BY <1>1, <1>2, <2>1, Restarted
  <2>3. M.pc \notin Bound
    BY <1>4 DEF Bound, KeepsNode, CopiesNode, KeepsParent
  <2> QED
    BY <1>1, <1>4, <2>2, <2>3, LooseSettles
<1>5. ASSUME NEW to, Go(t, [pc |-> to]) \/ Go(t, [pc |-> to, claim |-> Running]),
             \/ \E s : LocksFor(M, to, s)
             \/ M.pc \in {"growNode", "splitNode"} /\ to = "undo"
      PROVE  Removes(M, N) /\ Settles(M, N)
  <2>1. PICK changes : /\ DOMAIN changes \subseteq {"pc", "claim"} /\ "pc" \in DOMAIN changes
                       /\ changes.pc = to /\ Go(t, changes)
    <3>1. CASE Go(t, [pc |-> to])
      <4>1. DOMAIN [pc |-> to] \subseteq {"pc", "claim"} /\ "pc" \in DOMAIN [pc |-> to]
            /\ [pc |-> to].pc = to
        OBVIOUS
      <4> QED
        BY <3>1, <4>1
    <3>2. CASE Go(t, [pc |-> to, claim |-> Running])
      <4>1. /\ DOMAIN [pc |-> to, claim |-> Running] \subseteq {"pc", "claim"}
            /\ "pc" \in DOMAIN [pc |-> to, claim |-> Running]
            /\ [pc |-> to, claim |-> Running].pc = to
        OBVIOUS
      <4> QED
        BY <3>2, <4>1
    <3> QED
      BY <1>5, <3>1, <3>2
  <2> QED
    BY <1>3, <1>5, <2>1
<1>6. CASE PutLock(t) \/ LeafLockNode(t)
  <2>1. \/ M.pc = "lockNode" /\ Go(t, [pc |-> "put"]) /\ LocksFor(M, "put", M.node)
        \/ M.pc = "leafLockNode" /\ Go(t, [pc |-> "leafWrite", claim |-> Running])
           /\ LocksFor(M, "leafWrite", M.node)
        \/ Restart(t) /\ UNCHANGED mem /\ M.pc \in {"lockNode", "leafLockNode"}
    BY <1>1, <1>6 DEF PutLock, LeafLockNode, Upgrade, LocksFor
  <2> QED
    BY <1>4, <1>5, <2>1
<1>7. CASE LeafWriteLock(t)
  <2>1. M.pc = "leafWrite" /\ M.next \in Slots /\ Free(M.next)
    BY <1>1, <1>7, LeafReadable DEF LeafWriteLock
  <2>2. Readable(Word(M.next))
    BY <1>1, <2>1, WordBits DEF TInv, MemOK, Free, Word
  <2>3. Go(t, [pc |-> "leafBuild"]) /\ LocksFor(M, "leafBuild", M.next)
    BY <1>1, <1>7, <2>1, <2>2 DEF LeafWriteLock, LocksFor
  <2> QED
    BY <1>5, <2>3
<1>8. CASE LockParent(t, "growParent", "growNode") \/ LockParent(t, "splitParent", "splitNode")
  <2>1. \/ \E to : Go(t, [pc |-> to, claim |-> Running]) /\ LocksFor(M, to, M.parent)
        \/ Restart(t) /\ UNCHANGED mem /\ M.pc \in {"growParent", "splitParent"}
    BY <1>1, <1>8 DEF LockParent, Upgrade, LocksFor
  <2> QED
    BY <1>4, <1>5, <2>1
<1>9. CASE LockNode(t, "growNode", "growBuild") \/ LockNode(t, "splitNode", "splitBuild")
  <2>1. \/ \E to : Go(t, [pc |-> to]) /\ LocksFor(M, to, M.node)
        \/ Go(t, [pc |-> "undo"]) /\ M.pc \in {"growNode", "splitNode"}
    BY <1>1, <1>9 DEF LockNode, Upgrade, LocksFor
  <2> QED
    BY <1>5, <2>1
<1> QED
  BY <1>6, <1>7, <1>8, <1>9 DEF LockStep

(* A call that unlocks a node, or makes it obsolete, gives up that one alone. *)
LEMMA UnlockSettles ==
  ASSUME NEW t \in Threads, NEW M, NEW N, Moving(t, M, N), UnlockStep(t), RemovalsOK
  PROVE  Removes(M, N) /\ Settles(M, N)
<1>1. /\ Turns(t, M, N) /\ M = loc[t] /\ UNCHANGED retired /\ TInv /\ LInv /\ M.pc \in Changing
      /\ Slots' = Slots /\ \A s \in Slots : mem'[s].child = mem[s].child
  BY UnlockingTurns, OnlyWords DEF UnlockStep, Moving, Unlock, Undo, GrowUnlock, SplitUnlock, GrowObsolete,
     SplitObsolete, LeafObsolete, Changing, Putting, Replacing, Growing, Splitting, LeafSplitting
<1>2. /\ Calls(M) /\ Locking(M) /\ M.node \in Slots /\ N = loc'[t]
      /\ M.pc \in Replacing => M.parent \in Slots
      /\ M.pc \in LeafSplitting => M.next \in Slots /\ IsLeaf(M.next)
  BY <1>1, ChangingCall DEF Knows, Moving
<1>3. ASSUME NEW s \in Slots, AddToWord(s, 2), Owns(M, s) PROVE Free(s)'
  <2>1. mem'[s].word = mem[s].word + 2 /\ mem[s].word \in Nat /\ Taken(s)
    BY <1>1, <1>2, <1>3, WordAdded DEF TInv, MemOK, Locking
  <2> QED
    BY <2>1, WordBits DEF Free, Taken
<1>4. ASSUME NEW s \in Slots, AddToWord(s, 3), Owns(M, s) PROVE Spent(s)'
  <2>1. mem'[s].word = mem[s].word + 3 /\ mem[s].word \in Nat /\ Taken(s)
    BY <1>1, <1>2, <1>4, WordAdded DEF TInv, MemOK, Locking
  <2> QED
    BY <2>1, WordBits DEF Spent, Taken
<1>5. CASE Unlock(t) \/ Undo(t) \/ GrowUnlock(t)
  <2>1. \/ M.pc = "unlock" /\ AddToWord(M.node, 2) /\ Return(t, "inserted")
        \/ M.pc = "growUnlock" /\ AddToWord(M.parent, 2) /\ Return(t, "inserted")
        \/ M.pc = "undo" /\ AddToWord(M.parent, 2) /\ Restart(t)
    BY <1>1, <1>5 DEF Unlock, Undo, GrowUnlock, writeUnlock
  <2>2. ~Calls(N) \/ N = Start(M)
    BY <1>2, <2>1, Outcomes
  <2>3. (\A s : ~Removing(N, s)) /\ (Calls(N) => N.pc \notin Bound)
    BY <1>2, <2>2, Idlers, Restarted, Loose
  <2>4. Calls(N) => (Discards(N) /\ Supplants(N))'
    BY <2>3 DEF Discards, Supplants, Bound, KeepsNode, CopiesNode, KeepsParent
  <2>5. (\A s : ~Removing(M, s)) /\ M.pc \notin Preparing
    BY <2>1 DEF Removing, Preparing
  <2>6. \A s \in Slots : Owns(M, s) => Free(s)'
    BY <1>2, <1>3, <2>1 DEF Owns, Keeps, Copies, KeepsNode, KeepsParent, KeepsNext, CopiesNode,
       Replacing, Growing
  <2> QED
    BY <1>1, <2>3, <2>4, <2>5, <2>6, Calm
<1>6. ASSUME NEW to, Go(t, [pc |-> to])
      PROVE  Onward(M, N) /\ N.pc = to /\ N.fresh = M.fresh
  <2>1. Changed(N, M, [pc |-> to])
    BY <1>2, <1>6, Outcomes DEF Fields
  <2> QED
    BY <2>1, Going
<1>7. CASE SplitUnlock(t)
  <2>1. M.pc = "splitUnlock" /\ AddToWord(M.parent, 2) /\ Go(t, [pc |-> "splitObsolete"])
    BY <1>1, <1>7 DEF SplitUnlock, writeUnlock
  <2>2. Onward(M, N) /\ N.pc = "splitObsolete"
    BY <1>6, <2>1
  <2>3. \A s : Removing(N, s) <=> Removing(M, s)
    BY <2>1, <2>2 DEF Removing, Onward
  <2>4. (Discards(N) /\ Supplants(N))' /\ M.pc \notin Preparing
    BY <2>1, <2>2 DEF Discards, Supplants, Preparing
  <2>5. \A s \in Slots : Owns(M, s) => Owns(N, s) \/ Free(s)'
    BY <1>2, <1>3, <2>1, <2>2 DEF Owns, Keeps, Copies, KeepsNode, KeepsParent, KeepsNext, CopiesNode,
       Replacing, Splitting, Onward
  <2> QED
    BY <1>1, <2>3, <2>4, <2>5, Calm
<1>8. CASE GrowObsolete(t) \/ SplitObsolete(t)
  <2>1. /\ M.pc \in {"growObsolete", "splitObsolete"} /\ AddToWord(M.node, 3)
        /\ Go(t, [pc |-> IF M.pc = "growObsolete" THEN "growMark" ELSE "splitMark"])
    BY <1>1, <1>8 DEF GrowObsolete, SplitObsolete, writeUnlockObsolete
  <2>2. Onward(M, N) /\ N.pc = IF M.pc = "growObsolete" THEN "growMark" ELSE "splitMark"
    BY <1>6, <2>1
  <2>3. \A s : Removing(N, s) <=> Removing(M, s)
    BY <2>1, <2>2 DEF Removing, Onward
  <2>4. Owns(M, M.node)
    BY <2>1 DEF Owns, Copies, CopiesNode
  <2>5. (Discards(N) /\ Supplants(N))' /\ M.pc \notin Preparing
    BY <1>2, <1>4, <2>1, <2>2, <2>4 DEF Discards, Supplants, Preparing, Onward
  <2>6. Removed(M.node)'
    BY <1>2, <2>1, <2>2 DEF Removed, Removing, Onward
  <2>7. \A s \in Slots : Owns(M, s) => Owns(N, s) \/ Removed(s)'
    <3>1. ASSUME NEW s, Owns(M, s) PROVE s = M.node \/ Owns(N, s)
      BY <2>1, <2>2, <3>1 DEF Owns, Keeps, Copies, KeepsNode, KeepsParent, KeepsNext, CopiesNode, Onward
    <3> QED
      BY <2>6, <3>1
  <2> QED
    BY <1>1, <2>3, <2>5, <2>7, Calm
<1>9. CASE LeafObsolete(t)
  <2>1. M.pc = "leafObsolete" /\ AddToWord(M.next, 3) /\ Go(t, [pc |-> "leafMark"])
    BY <1>1, <1>9 DEF LeafObsolete, writeUnlockObsolete
  <2>2. Onward(M, N) /\ N.pc = "leafMark" /\ N.fresh = M.fresh
    BY <1>6, <2>1
  <2>3. \A s : ~Removing(N, s) /\ ~Removing(M, s)
    BY <2>1, <2>2 DEF Removing
  <2>4. Owns(M, M.next) /\ M.next \in Slots /\ ~Inner(M.next)
    BY <1>2, <2>1, KindsOf DEF Owns, Keeps, KeepsNext, LeafSplitting
  <2>5. (Discards(N) /\ Supplants(N))' /\ N.pc \in Preparing
    BY <1>2, <1>4, <2>1, <2>2, <2>4 DEF Discards, Supplants, Preparing, Onward
  <2>6. \A s \in Slots : Inner(s) /\ Owns(M, s) => Owns(N, s)
    <3>1. ASSUME NEW s, Owns(M, s) PROVE s = M.next \/ Owns(N, s)
      BY <2>1, <2>2, <3>1 DEF Owns, Keeps, Copies, KeepsNode, KeepsParent, KeepsNext, CopiesNode, Onward
    <3> QED
      BY <2>4, <3>1
  <2> QED
    BY <1>1, <2>2, <2>3, <2>5, <2>6, Calm
<1> QED
  BY <1>5, <1>7, <1>8, <1>9 DEF UnlockStep

(* A call that hands a slot over has it taken out of the tree, or is about to. *)
LEMMA MarkSettles ==
  ASSUME NEW t \in Threads, NEW M, NEW N, Moving(t, M, N), MarkStep(t), RemovalsOK
  PROVE  Removes(M, N) /\ Settles(M, N)
<1>1. /\ Turns(t, M, N) /\ M = loc[t] /\ N = loc'[t] /\ UNCHANGED mem /\ TInv /\ LInv
      /\ Slots' = Slots /\ MemOK /\ Calls(M)
  BY HandingTurns DEF MarkStep, Moving, TInv, Slots, GrowMark, SplitMark, LeafMark, Calls
<1>2. ASSUME NEW to, Go(t, [pc |-> to])
      PROVE  Onward(M, N) /\ N.pc = to /\ N.fresh = M.fresh
  <2>1. Changed(N, M, [pc |-> to])
    BY <1>1, <1>2, Outcomes DEF Fields
  <2> QED
    BY <2>1, Going
<1>3. PICK s, owner, byte : Hands(M, N, s) /\ Mark(t, s, owner, byte)
  <2>1. CASE GrowMark(t)
    BY <1>1, <1>2, <2>1 DEF GrowMark, Hands
  <2>2. CASE LeafMark(t)
    BY <1>1, <1>2, <2>2 DEF LeafMark, Hands
  <2>3. CASE SplitMark(t)
    BY <1>1, <2>3, Outcomes DEF SplitMark, Hands
  <2> QED
    BY <2>1, <2>2, <2>3 DEF MarkStep
<1>4. Marks(M, s) /\ s \in Slots /\ Claims(M, s)
  <2>1. Marks(M, s)
    BY <1>3 DEF Hands, Marks
  <2> QED
    BY <1>1, <1>3, <2>1, FirstMark, HandingOwns
<1>5. /\ \A x \in Slots : x # s => retired'[x] = retired[x]
      /\ \E r : retired'[s] = retired[s] \cup {r}
  <2>1. \A x \in Slots : x # s => retired'[x] = retired[x]
    BY <1>1, <1>3, <1>4, MarkWrites
  <2>2. IsSeq(retired) /\ Len(retired) = Len(mem) /\ s \in DOMAIN retired
    BY <1>1, <1>4, Sequence DEF MemOK, Slots
  <2> QED
    BY <1>3, <2>1, <2>2 DEF Mark
<1>6. (\A x : ~Removing(N, x)) /\ (M.pc # "leafMark" => Removing(M, s))
  BY <1>3, HandingOwns
<1>7. \A x : Removing(M, x) => x = s
  BY <1>3 DEF Removing, Hands
<1>8. Calls(N) => (Discards(N) /\ Supplants(N))'
  BY <1>3, <1>5 DEF Hands, Onward, Discards, Supplants
<1>9. Removes(M, N)
  BY <1>4, <1>5, <1>6, <1>7, <1>8 DEF Removes
<1>10. \A q, x \in Slots : Links(q, x)' <=> Links(q, x)
  BY <1>1 DEF Links
<1>11. M.pc \in Preparing => N.pc \in Preparing /\ N.fresh = M.fresh
  BY <1>3 DEF Hands, Preparing
<1>12. \A q \in Slots : Removed(q)' /\ ~Removed(q) => IsLeaf(q)
  <2>1. M.pc \notin {"growLink", "splitLink"}
    BY <1>3 DEF Hands
  <2> QED
    BY <1>1, <1>9, <2>1, RemovedStays
<1>13. \A x : Owns(M, x) => Owns(N, x)
  BY <1>3 DEF Hands, Onward, Owns, Keeps, Copies, KeepsNode, KeepsParent, KeepsNext, CopiesNode
<1> QED
  BY <1>1, <1>9, <1>10, <1>11, <1>12, <1>13 DEF Settles

(* A call that stores a pointer loses the one that was there: to nothing, to a *)
(* leaf that was handed over, or to the node that it takes out of the tree.    *)
LEMMA LinkSettles ==
  ASSUME NEW t \in Threads, NEW M, NEW N, Moving(t, M, N), LinkStep(t), MapInv, RemovalsOK
  PROVE  Removes(M, N) /\ Settles(M, N)
<1>1. /\ Turns(t, M, N) /\ UNCHANGED retired /\ M = loc[t] /\ N = loc'[t] /\ Calls(M) /\ TInv /\ LInv /\ MemOK
      /\ \A u \in Threads : u # t => loc'[u] = loc[u]
  BY LinkForm DEF Moving, TInv
<1>2. PICK C, P : Charted(C, P)
  BY DEF MapInv
<1>3. PICK p, b : Hooks(M, N, p, b) /\ change(p, b, M.fresh)
  BY LinkForm
<1>4. /\ M.pc \in Changing /\ Keeps(M, p) /\ M.pc \in Preparing
      /\ \A x : Removing(N, x) => M.pc \in {"growLink", "splitLink"} /\ x = M.node
  BY <1>3, HookingOwns
<1>5. /\ Knows(M) /\ M.op = "insert" /\ M.node \in Slots /\ Discards(M) /\ Supplants(M)
  BY <1>1, <1>4, ChangingCall DEF RemovalsOK
<1>6. p \in Slots /\ ~Removed(p)
  BY <1>1, <1>4, KeptStays
<1>7. /\ Slots' = Slots
      /\ \A x \in Slots : x # p => mem'[x] = mem[x]
      /\ \A x \in DOMAIN mem[p].child : x # b => x \in DOMAIN mem'[p].child /\ mem'[p].child[x] = mem[p].child[x]
      /\ b \in DOMAIN mem'[p].child /\ mem'[p].child[b] = M.fresh
  BY <1>1, <1>3, <1>6, ChildChanged DEF Slots
<1>8. ~Removed(p)'
  <2>1. ~Removing(N, p)
    <3>1. M.pc \in {"growLink", "splitLink"} => p = M.parent /\ M.node # M.parent
      BY <1>3, <1>5 DEF Hooks, Knows, Locking, KeepsParent, CopiesNode
    <3> QED
      BY <1>4, <3>1
  <2> QED
    BY <1>1, <1>6, <2>1 DEF Removed
<1>9. \A s : ~Removing(M, s)
  BY <1>4 DEF Preparing, Removing
<1>10. (Discards(N) /\ Supplants(N))'
  BY <1>3 DEF Hooks, Discards, Supplants
<1>11. Removes(M, N)
  BY <1>1, <1>4, <1>5, <1>9, <1>10 DEF Removes
<1>12. ASSUME NEW q \in Slots, NEW x \in Slots, Links(q, x), ~Links(q, x)' PROVE Removed(x)'
  <2>1. q = p /\ HasChild(p, b, x)
    BY <1>7, <1>12 DEF Links, HasChild
  <2>2. CASE M.pc = "putInsert"
    <3>1. M.pc \in Inserting
      BY <2>2 DEF Inserting, Putting
    <3>2. NoChild(M)
      BY <1>1, <1>2, <2>2, <3>1, InsertingCall DEF ChildKnown
    <3>3. p = M.node /\ b = M.byte
      BY <1>3, <2>2 DEF Hooks
    <3>4. x = Nil
      BY <2>1, <3>2, <3>3 DEF NoChild, ChildOf, HasChild
    <3> QED
      BY <3>4, NoSlots
  <2>3. CASE M.pc = "leafLink"
    <3>1. p = M.node /\ b = M.byte /\ HasChild(M.node, M.byte, M.next)
      BY <1>3, <1>5, <2>3 DEF Hooks, Knows, Current
    <3>2. x = M.next
      BY <2>1, <3>1 DEF HasChild
    <3> QED
      BY <1>1, <1>5, <2>3, <3>2 DEF Discards, Removed
  <2>4. CASE M.pc \in {"growLink", "splitLink"}
    <3>1. p = M.parent /\ b = M.pbyte /\ HasChild(M.parent, M.pbyte, M.node) /\ Removing(N, M.node)
      BY <1>3, <1>5, <2>4 DEF Hooks, Onward, Knows, Current, Removing
    <3>2. x = M.node
      BY <2>1, <3>1 DEF HasChild
    <3> QED
      BY <1>1, <3>1, <3>2 DEF Removed
  <2> QED
    BY <1>3, <2>2, <2>3, <2>4 DEF Hooks
<1>13. Links(p, M.fresh)'
  BY <1>7 DEF Links
<1>14. ASSUME NEW q \in Slots, Removed(q)', ~Removed(q), ~IsLeaf(q)
       PROVE  \E h \in Slots : ~Removed(h)' /\ \A x \in Slots : Links(q, x) => Links(h, x)'
  <2>1. M.pc \in {"growLink", "splitLink"} /\ q = M.node
    BY <1>1, <1>11, <1>14, RemovedStays
  <2>2. PICK h : h = Heir(M)
    OBVIOUS
  <2>3. h \in Slots /\ retired[h] = {} /\ \A x \in Slots : Links(q, x) => Links(h, x)
    BY <1>5, <2>1, <2>2 DEF Supplants
  <2>4. h \in Batch(loc[t])
    BY <1>1, <2>1, <2>2 DEF Heir, Batch, Preparing
  <2>5. ~Owns(M, h) /\ \A u \in Threads : ~Removing(loc[u], h)
    BY <1>1, <1>2, <1>4, <2>4, Private
  <2>6. h # p /\ h # M.node
    BY <1>4, <2>1, <2>5 DEF Owns, Copies, CopiesNode
  <2>7. ~Removed(h)'
    BY <1>1, <1>4, <2>3, <2>5, <2>6 DEF Removed
  <2>8. \A x \in Slots : Links(q, x) => Links(h, x)'
    BY <1>7, <2>3, <2>6 DEF Links
  <2> QED
    BY <2>3, <2>7, <2>8
<1>15. \A x : Owns(M, x) => Owns(N, x)
  BY <1>3 DEF Hooks, Onward, Owns, Keeps, Copies, KeepsNode, KeepsParent, KeepsNext, CopiesNode
<1> QED
  BY <1>6, <1>7, <1>8, <1>11, <1>12, <1>13, <1>14, <1>15 DEF Settles

(* A call that builds nodes leaves every pointer as it is, and links what it   *)
(* has built below the first of them.                                          *)
LEMMA MakeSettles ==
  ASSUME NEW t \in Threads, NEW M, NEW N, Moving(t, M, N), MakeStep(t), UNCHANGED <<todo, load>>,
         MapInv, SizesOK, RemovalsOK
  PROVE  Removes(M, N) /\ (~MayOverflow => Settles(M, N))
<1>1. /\ Turns(t, M, N) /\ M = loc[t] /\ N = loc'[t] /\ TInv /\ LInv /\ MemOK
      /\ \A u \in Threads : u # t => loc'[u] = loc[u]
      /\ Slots \subseteq Slots'
  BY MakingTurns, Unchanging DEF MakeStep, Moving, TInv
<1>2. PICK new : Made(t, M, new)
  BY MakeForm
<1>3. PICK to, changes : /\ to = MadeFor[M.pc] /\ changes = [pc |-> to, fresh |-> Len(mem) + 1]
                         /\ Allocate(t, new, changes)
  BY <1>2 DEF Made
<1>4. /\ M.pc \in {"put", "growBuild", "splitBuild", "leafBuild"} /\ IsSeq(new) /\ Supplies(M, new) /\ Calls(M)
      /\ \/ M.pc = "put" /\ to = "putInsert"
         \/ M.pc = "growBuild" /\ to = "growLink"
         \/ M.pc = "splitBuild" /\ to = "splitLink"
         \/ M.pc = "leafBuild" /\ to = "leafObsolete"
  BY <1>2, <1>3 DEF Made, MadeFor, Calls
<1>5. /\ \A s \in Slots : mem'[s] = mem[s] /\ retired'[s] = retired[s]
      /\ \A s \in Slots' \ Slots : retired'[s] = {}
      /\ \/ /\ Len(mem') = Len(mem) + Len(new) /\ Go(t, changes)
            /\ \A i \in 1..Len(new) : mem'[Len(mem) + i] = new[i]
         \/ Return(t, "refused")
  BY <1>1, <1>3, <1>4, Allocated
<1>6. Go(t, changes) => /\ Makes(M, N) /\ N.pc = to /\ N.fresh = Len(mem) + 1 /\ N.node = M.node
  BY <1>1, <1>3, <1>4, Making
<1>7. Return(t, "refused") => ~Calls(N) /\ N.pc = "done"
  BY <1>1, <1>4, Outcomes, Lands DEF TInv, QueueOK
<1>8. \A s : ~Removing(M, s) /\ ~Removing(N, s)
  BY <1>4, <1>5, <1>6, <1>7 DEF Removing, Calls
<1>9. \A s \in Slots' \ Slots : ~Removed(s)'
  <2>1. ASSUME NEW s \in Slots' \ Slots, NEW u \in Threads, Removing(loc'[u], s) PROVE FALSE
    <3>1. u # t /\ Removing(loc[u], s)
      BY <1>1, <1>8, <2>1
    <3> QED
      BY <1>1, <3>1, Callers, Idlers
  <2> QED
    BY <1>5, <2>1 DEF Removed
<1>10. Len(mem) \in Nat /\ Len(new) \in Nat /\ M.node \in Slots
  <2>1. M.pc \in Changing
    BY <1>4 DEF Changing, Putting, Replacing, Growing, Splitting, LeafSplitting
  <2> QED
    BY <1>1, <1>4, <2>1, ChangingCall, Sequence DEF MemOK
<1>11. ASSUME Calls(N) PROVE (Discards(N) /\ Supplants(N))'
  <2>1. /\ Len(mem') = Len(mem) + Len(new) /\ \A i \in 1..Len(new) : mem'[Len(mem) + i] = new[i]
        /\ N.pc = to /\ N.fresh = Len(mem) + 1 /\ N.node = M.node
    BY <1>5, <1>6, <1>7, <1>11
  <2>2. Discards(N)'
    BY <1>4, <2>1 DEF Discards
  <2>3. CASE M.pc = "growBuild"
    <3>1. /\ N.pc = "growLink" /\ Len(new) = 2 /\ ChildOf(mem[M.node], M.byte) = Nil
          /\ \A b : ChildOf(new[1], b) = IF b = M.byte THEN Len(mem) + 2 ELSE ChildOf(mem[M.node], b)
      BY <1>4, <2>1, <2>3 DEF Supplies
    <3>2. Len(mem) + 1 \in Slots' \ Slots /\ mem'[Len(mem) + 1] = new[1] /\ Heir(N) = Len(mem) + 1
      BY <1>10, <2>1, <3>1 DEF Slots, Heir
    <3>3. ASSUME NEW x \in Slots', Links(N.node, x)' PROVE Links(Heir(N), x)'
      <4>1. PICK b \in DOMAIN mem[M.node].child : mem[M.node].child[b] = x
        BY <1>5, <1>10, <2>1, <3>3 DEF Links
      <4>2. x # Nil /\ ChildOf(mem[M.node], b) = x
        BY <4>1, NoSlots DEF ChildOf
      <4>3. ChildOf(new[1], b) = x
        BY <3>1, <4>2
      <4>4. b \in DOMAIN new[1].child /\ new[1].child[b] = x
        BY <4>2, <4>3 DEF ChildOf
      <4> QED
        BY <3>2, <4>4 DEF Links
    <3>4. \A x \in Slots' : Links(N.node, x)' => Links(Heir(N), x)'
      BY <3>3
    <3> QED
      BY <1>5, <2>2, <3>2, <3>4 DEF Supplants, Heir
  <2>4. CASE M.pc = "splitBuild"
    <3>1. N.pc = "splitLink" /\ Len(new) = 3 /\ new[3].child = mem[M.node].child
      BY <1>4, <2>1, <2>4 DEF Supplies
    <3>2. Len(mem) + 3 \in Slots' \ Slots /\ mem'[Len(mem) + 3] = new[3] /\ Heir(N) = Len(mem) + 3
      BY <1>10, <2>1, <3>1 DEF Slots, Heir
    <3>3. \A x \in Slots' : Links(N.node, x)' => Links(Heir(N), x)'
      BY <1>5, <1>10, <2>1, <3>1, <3>2 DEF Links
    <3> QED
      BY <1>5, <2>2, <3>2, <3>3 DEF Supplants, Heir
  <2>5. CASE M.pc \in {"put", "leafBuild"}
    BY <1>4, <2>1, <2>2, <2>5 DEF Supplants
  <2> QED
    BY <1>4, <2>3, <2>4, <2>5
<1>12. Removes(M, N)
  BY <1>5, <1>8, <1>11 DEF Removes
<1>13. ASSUME ~MayOverflow PROVE Settles(M, N)
  <2>1. Go(t, changes)
    BY <1>3, <1>13 DEF Allocate
  <2>2. /\ N.pc = to /\ N.fresh = Len(mem) + 1 /\ Makes(M, N)
    BY <1>6, <2>1
  <2>3. Len(mem') = Len(mem) + Len(new) /\ \A i \in 1..Len(new) : mem'[Len(mem) + i] = new[i]
    BY <1>4, <1>5, <1>7, <2>2
  <2>4. \A q, x \in Slots : Links(q, x)' <=> Links(q, x)
    BY <1>5 DEF Links
  <2>5. M.pc \notin Preparing /\ N.pc \in Preparing
    BY <1>4, <2>2 DEF Preparing
  <2>6. \A q \in Slots : Removed(q)' /\ ~Removed(q) => IsLeaf(q)
    BY <1>1, <1>4, <1>12, RemovedStays
  <2>7. ASSUME NEW s \in Slots' \ Slots, s # N.fresh
        PROVE  \E q \in Slots' \ Slots : Links(q, s)'
    <3>1. s \in Len(mem) + 2..Len(mem) + Len(new)
      BY <1>10, <2>2, <2>3, <2>7 DEF Slots
    <3>2. PICK q \in Slots' \ Slots : mem'[q] = new[1]
      BY <1>10, <2>3, <3>1 DEF Slots
    <3>3. \E b : ChildOf(new[1], b) = s
      <4>1. CASE M.pc = "put"
        <5>1. Len(new) = 1
          BY <1>4, <4>1 DEF Supplies
        <5> QED
          BY <1>10, <3>1, <5>1
      <4>2. CASE M.pc = "growBuild"
        <5>1. Len(new) = 2 /\ ChildOf(new[1], M.byte) = Len(mem) + 2
          BY <1>4, <4>2 DEF Supplies
        <5>2. s = Len(mem) + 2
          BY <1>10, <3>1, <5>1
        <5> QED
          BY <5>1, <5>2
      <4>3. CASE M.pc \in {"splitBuild", "leafBuild"}
        <5>1. PICK mine, other : /\ Len(new) = 3 /\ ChildOf(new[1], mine) = Len(mem) + 2
                                 /\ ChildOf(new[1], other) = Len(mem) + 3
          BY <1>4, <4>3 DEF Supplies
        <5>2. s = Len(mem) + 2 \/ s = Len(mem) + 3
          BY <1>10, <3>1, <5>1
        <5> QED
          BY <5>1, <5>2
      <4> QED
        BY <1>4, <4>1, <4>2, <4>3
    <3>4. PICK b : b \in DOMAIN new[1].child /\ new[1].child[b] = s
      <4>1. PICK b : ChildOf(new[1], b) = s
        BY <3>3
      <4>2. s # Nil
        BY <2>7, NoSlots
      <4> QED
        BY <4>1, <4>2 DEF ChildOf
    <3> QED
      BY <3>2, <3>4 DEF Links
  <2>8. \A x : Owns(M, x) => Owns(N, x)
    BY <2>2 DEF Makes, Onward, Owns, Keeps, Copies, KeepsNode, KeepsParent, KeepsNext, CopiesNode
  <2>9. ASSUME NEW s \in Slots' \ Slots
        PROVE  \/ N.pc \in Preparing /\ s = N.fresh
               \/ \E q \in Slots' : Links(q, s)' /\ ~Removed(q)'
    <3>1. CASE s # N.fresh
      <4>1. PICK q \in Slots' \ Slots : Links(q, s)'
        BY <2>7, <3>1
      <4> QED
        BY <1>9, <4>1
    <3> QED
      BY <2>5, <3>1
  <2> QED
    BY <2>4, <2>5, <2>6, <2>8, <2>9 DEF Settles
<1> QED
  BY <1>12, <1>13

(* Every step of a call hands over once what it replaces, and leaves no slot   *)
(* behind.                                                                     *)
LEMMA CallSettles ==
  ASSUME NEW t \in Threads, NEW M, NEW N, Moving(t, M, N), lookup(t) \/ insert(t),
         UNCHANGED <<todo, load>>, MapInv, SizesOK, RemovalsOK
  PROVE  Turns(t, M, N) /\ Removes(M, N) /\ (~MayOverflow => Settles(M, N))
<1>1. TInv /\ M = loc[t] /\ N = loc'[t]
  BY DEF Moving
<1>2. CASE lookup(t) \/ WalkStep(t)
  <2>1. Turns(t, M, N)
    BY <1>2, LookupTurns, DescendTurns DEF WalkStep
  <2> QED
    BY <1>1, <1>2, <2>1, Unbound, LooseSettles
<1>3. CASE LockStep(t)
  BY <1>3, LockingTurns, LockSettles DEF LockStep
<1>4. CASE UnlockStep(t)
  BY <1>4, UnlockingTurns, UnlockSettles DEF UnlockStep
<1>5. CASE LinkStep(t)
  BY <1>5, HookingTurns, LinkSettles DEF LinkStep
<1>6. CASE MarkStep(t)
  BY <1>6, HandingTurns, MarkSettles DEF MarkStep
<1>7. CASE MakeStep(t)
  BY <1>7, MakingTurns, MakeSettles DEF MakeStep
<1> QED
  BY <1>2, <1>3, <1>4, <1>5, <1>6, <1>7, Sorted

(* Every step of the tree does.                                                *)
LEMMA StepSettled ==
  ASSUME TInv, TInv', LInv, MapInv, SizesOK, RemovalsOK, LeakFree, [Next]_vars
  PROVE  RemovalsOK' /\ LeakFree'
<1>1. CASE UNCHANGED vars
  <2>1. mem' = mem /\ loc' = loc /\ retired' = retired /\ Slots' = Slots
    BY <1>1 DEF vars, Slots
  <2>2. \A s : Removed(s)' <=> Removed(s)
    BY <2>1 DEF Removed
  <2>3. \A q, s : Links(q, s)' <=> Links(q, s)
    BY <2>1 DEF Links
  <2>4. RemovalsOK'
    BY <2>1, <2>2, <2>3 DEF RemovalsOK, Spent, Discards, Supplants, Heir
  <2>5. LeakFree'
    BY <2>1, <2>2, <2>3 DEF LeakFree, Hung, Attended, Inner, Free
  <2> QED
    BY <2>4, <2>5
<1>2. ASSUME NEW t \in Threads, Step(t) PROVE RemovalsOK' /\ LeakFree'
  <2>0. PICK M, N : M = loc[t] /\ N = loc'[t]
    OBVIOUS
  <2>1. Turns(t, M, N) /\ Removes(M, N) /\ (~MayOverflow => Settles(M, N))
    <3>1. CASE BeginCall(t) \/ EndCall(t)
      <4>1. Turns(t, M, N)
        BY <2>0, <3>1, BeginTurns, EndTurns
      <4>2. UNCHANGED <<mem, retired>> /\ M.pc \in {"idle", "done"}
        BY <2>0, <3>1 DEF BeginCall, EndCall, Idle
      <4>3. N.pc \in {"idle", "lookup", "insert"}
        <5>1. CASE BeginCall(t)
          <6>1. \E op \in {"lookup", "insert"}, key \in AllKeys : \E missing :
                   loc' = [loc EXCEPT ![t] = Start([op |-> op, key |-> key, missing |-> missing])]
            BY <5>1, Begun
          <6> QED
            BY <2>0, <6>1 DEF TInv, QueueOK, Start
        <5>2. CASE EndCall(t)
          BY <2>0, <5>2 DEF EndCall, TInv, QueueOK, Idle
        <5> QED
          BY <3>1, <5>1, <5>2
      <4>4. M.pc \notin Bound /\ N.pc \notin Bound
        BY <4>2, <4>3 DEF Bound, KeepsNode, CopiesNode, KeepsParent
      <4> QED
        BY <4>1, <4>2, <4>4, LooseSettles
    <3>2. CASE (lookup(t) \/ insert(t)) /\ UNCHANGED <<todo, load>>
      <4>1. Grows /\ \A u \in Threads : u # t => loc'[u] = loc[u]
        BY <3>2, Stirring DEF Alone
      <4>2. Moving(t, M, N)
        BY <2>0, <3>2, <4>1, Movement
      <4> QED
        BY <3>2, <4>2, CallSettles
    <3> QED
      BY <1>2, <3>1, <3>2 DEF Step
  <2>2. PICK C, P : Charted(C, P)
    BY DEF MapInv
  <2> QED
    BY <2>1, <2>2, RemovalsStay, LeakFreeStays
<1> QED
  BY <1>1, <1>2 DEF Next

(* At first there is the root alone, and no call.                              *)
LEMMA SettledInitially ==
  ASSUME Init
  PROVE  RemovalsOK /\ LeakFree
<1>1. /\ mem = <<NewNode(TopKind, 1, <<>>, 0, <<0, 0>>)>> /\ \A t \in Threads : loc[t] = Idle
      /\ retired = <<{}>>
  BY DEF Init
<1>2. Slots = {1} /\ retired[1] = {} /\ mem[1] = NewNode(TopKind, 1, <<>>, 0, <<0, 0>>)
  BY <1>1 DEF Slots
<1>3. mem[1].word = 4
  BY <1>2, NodeMade
<1>4. \A t \in Threads : ~Calls(loc[t]) /\ \A s : ~Removing(loc[t], s)
  BY <1>1 DEF Calls, Removing, Idle
<1>5. RemovalsOK
  BY <1>2, <1>4 DEF RemovalsOK
<1>6. LeakFree
  BY <1>2, <1>3 DEF LeakFree, Hung, Attended, Root, Free
<1> QED
  BY <1>5, <1>6

(* An insertion hands the slot of a node or leaf that it replaces over once,   *)
(* when no other call still can, and every slot hangs on one that is in the    *)
(* tree until then: none is lost, and none stays locked without an owner.      *)
THEOREM AccountInvariant == Spec => [](RemovalsOK /\ LeakFree)
<1>1. Init => TInv /\ LInv /\ MapInv /\ SizesOK /\ RemovalsOK /\ LeakFree
  BY Initially, LockInitially, ChartedInitially, SizedInitially, SettledInitially
<1>2. TInv /\ LInv /\ MapInv /\ SizesOK /\ RemovalsOK /\ LeakFree /\ [Next]_vars =>
         TInv' /\ LInv' /\ MapInv' /\ SizesOK' /\ RemovalsOK' /\ LeakFree'
  BY Steps, StepsLocked, StepCharted, StepSized, StepSettled
<1> QED
  BY <1>1, <1>2, PTL DEF Spec

-----------------------------------------------------------------------------
(* The slots that pointers lead to from the root, step by step.                *)
Spread(A) == UNION {WithChildren(s) : s \in A}
IsSpreading(reach) ==
  reach = [i \in 0..Len(mem) |-> IF i = 0 THEN {Root} ELSE UNION {WithChildren(s) : s \in reach[i - 1]}]

(* Reachable reads off the last set of the spreading the model chooses.        *)
LEMMA ReachableAs ==
  ASSUME NEW reach, reach = CHOOSE f : IsSpreading(f)
  PROVE  Reachable = reach[Len(mem)]
BY DEF Reachable, IsSpreading

(* There is such a spreading.                                                  *)
LEMMA SpreadingExists ==
  ASSUME Len(mem) \in Nat
  PROVE  \E reach : IsSpreading(reach)
<1> DEFINE D == 0..Len(mem)
           Level(f, i) == f[i] = IF i = 0 THEN {Root} ELSE Spread(f[i - 1])
           Good(n) == \E f : f = [i \in D |-> f[i]] /\ \A i \in D : i <= n => Level(f, i)
           Depths == {n \in Nat : Good(n)}
<1>1. 0 \in Depths
  <2> DEFINE f == [i \in D |-> {Root}]
  <2>1. f = [i \in D |-> f[i]] /\ \A i \in D : i <= 0 => Level(f, i)
    OBVIOUS
  <2> QED
    BY <2>1
<1>2. ASSUME NEW n \in Nat, n \in Depths PROVE n + 1 \in Depths
  <2>1. PICK f : f = [i \in D |-> f[i]] /\ \A i \in D : i <= n => Level(f, i)
    BY <1>2
  <2> DEFINE g == [i \in D |-> IF i = 0 THEN {Root} ELSE Spread(f[i - 1])]
  <2>2. \A i \in D : i <= n => g[i] = f[i]
    BY <2>1
  <2>3. ASSUME NEW i \in D, i <= n + 1 PROVE Level(g, i)
    <3>1. i # 0 => i - 1 \in D /\ i - 1 <= n
      BY <2>3
    <3>2. i # 0 => g[i - 1] = f[i - 1]
      BY <2>2, <3>1
    <3>3. g[i] = IF i = 0 THEN {Root} ELSE Spread(f[i - 1])
      OBVIOUS
    <3> HIDE DEF g
    <3> QED
      BY <3>2, <3>3
  <2>4. g = [i \in D |-> g[i]]
    OBVIOUS
  <2>5. Good(n + 1)
    <3> HIDE DEF g
    <3>1. \A i \in D : i <= n + 1 => Level(g, i)
      BY <2>3
    <3> QED
      BY <2>4, <3>1
  <2> HIDE DEF Good
  <2> QED
    BY <2>5
<1>3. \A n \in Nat : n \in Depths
  <2> HIDE DEF Depths
  <2> QED
    BY <1>1, <1>2, AllNumbers
<1>4. Good(Len(mem))
  <2> HIDE DEF Good
  <2> QED
    BY <1>3
<1>5. PICK f : f = [i \in D |-> f[i]] /\ \A i \in D : i <= Len(mem) => Level(f, i)
  BY <1>4
<1>6. IsSpreading(f)
  BY <1>5 DEF IsSpreading, Spread
<1> QED
  BY <1>6

(* The spreading starts at the root and goes on by the children.               *)
LEMMA Spreads ==
  ASSUME Len(mem) \in Nat
  PROVE  \E reach : /\ reach[0] = {Root} /\ Reachable = reach[Len(mem)]
                    /\ \A i \in 0..Len(mem) - 1 : reach[i + 1] = Spread(reach[i])
<1>1. PICK reach : reach = CHOOSE f : IsSpreading(f)
  OBVIOUS
<1>2. IsSpreading(reach)
  BY <1>1, SpreadingExists
<1>3. \A j \in 0..Len(mem) : reach[j] = IF j = 0 THEN {Root} ELSE Spread(reach[j - 1])
  BY <1>2 DEF IsSpreading, Spread
<1>4. reach[0] = {Root}
  BY <1>3
<1>5. ASSUME NEW i \in 0..Len(mem) - 1 PROVE reach[i + 1] = Spread(reach[i])
  <2>1. i + 1 \in 0..Len(mem) /\ i + 1 # 0 /\ (i + 1) - 1 = i
    OBVIOUS
  <2> QED
    BY <1>3, <2>1
<1> QED
  BY <1>1, <1>4, <1>5, ReachableAs

(* A set of slots that has the children of its slots.                          *)
Closed(T) == \A q \in T : \A s \in Slots : Links(q, s) => s \in T

(* What one step of the spreading adds, and when it adds nothing.              *)
LEMMA SpreadFacts ==
  ASSUME MemOK, NEW A \in SUBSET Slots
  PROVE  /\ A \subseteq Spread(A) /\ Spread(A) \subseteq Slots
         /\ Spread(A) = A => Closed(A)
         /\ \A T : A \subseteq T /\ Closed(T) => Spread(A) \subseteq T
<1>1. \A q \in Slots : \A x : x \in WithChildren(q) <=> x = q \/ (x \in Slots /\ Links(q, x))
  <2> SUFFICES ASSUME NEW q \in Slots, NEW x
               PROVE  x \in WithChildren(q) <=> x = q \/ (x \in Slots /\ Links(q, x))
    OBVIOUS
  <2>1. \A b \in DOMAIN mem[q].child : mem[q].child[b] \in Slots \cup {Nil}
    BY DEF MemOK
  <2> QED
    BY <2>1, NoSlots DEF WithChildren, Bytes, Links
<1>2. \A x : x \in Spread(A) <=> \E q \in A : x = q \/ (x \in Slots /\ Links(q, x))
  BY <1>1 DEF Spread
<1>3. A \subseteq Spread(A) /\ Spread(A) \subseteq Slots
  BY <1>2
<1>4. Spread(A) = A => Closed(A)
  BY <1>2 DEF Closed
<1>5. \A T : A \subseteq T /\ Closed(T) => Spread(A) \subseteq T
  BY <1>2 DEF Closed
<1> QED
  BY <1>3, <1>4, <1>5

(* The spreading stops growing before it has made as many steps as there are   *)
(* slots, so that what is reachable is the least set that has the root and the *)
(* children of its slots.                                                      *)
LEMMA ReachableLeast ==
  ASSUME MemOK
  PROVE  /\ Root \in Reachable /\ Reachable \subseteq Slots /\ Closed(Reachable)
         /\ \A T : Root \in T /\ Closed(T) => Reachable \subseteq T
<1> DEFINE n == Len(mem)
<1>1. n \in Nat /\ Root \in Slots /\ IsFiniteSet(Slots) /\ Cardinality(Slots) = n
  <2>1. n \in Nat /\ Root \in Slots
    BY Sequence DEF MemOK
  <2>2. IsFiniteSet(1..n) /\ Cardinality(1..n) = IF 1 > n THEN 0 ELSE n - 1 + 1
    BY <2>1, FS_Interval
  <2> QED
    BY <2>1, <2>2 DEF Slots
<1>2. PICK reach : /\ reach[0] = {Root} /\ Reachable = reach[n]
                   /\ \A i \in 0..n - 1 : reach[i + 1] = Spread(reach[i])
  BY <1>1, Spreads
<1> HIDE DEF n
<1>3. \A i \in 0..n : reach[i] \subseteq Slots /\ Root \in reach[i]
  <2> DEFINE Inside == {i \in Nat : i <= n => reach[i] \subseteq Slots /\ Root \in reach[i]}
  <2>1. 0 \in Inside
    BY <1>1, <1>2
  <2>2. ASSUME NEW i \in Nat, i \in Inside PROVE i + 1 \in Inside
    <3> SUFFICES ASSUME i + 1 <= n PROVE reach[i + 1] \subseteq Slots /\ Root \in reach[i + 1]
      OBVIOUS
    <3>1. i \in 0..n - 1 /\ reach[i] \subseteq Slots /\ Root \in reach[i]
      BY <1>1, <2>2
    <3>2. reach[i + 1] = Spread(reach[i])
      BY <1>2, <3>1
    <3> QED
      BY <3>1, <3>2, SpreadFacts
  <2>3. \A i \in Nat : i \in Inside
    <3> HIDE DEF Inside
    <3> QED
      BY <2>1, <2>2, AllNumbers
  <2> QED
    BY <2>3
<1>4. ASSUME NEW i \in 0..n - 1
      PROVE  reach[i] \subseteq reach[i + 1] /\ (reach[i + 1] = reach[i] => Closed(reach[i]))
  <2>1. reach[i + 1] = Spread(reach[i]) /\ reach[i] \in SUBSET Slots
    BY <1>1, <1>2, <1>3, <1>4
  <2> QED
    BY <2>1, SpreadFacts
<1>5. ASSUME NEW T, Root \in T, Closed(T) PROVE \A i \in 0..n : reach[i] \subseteq T
  <2> DEFINE Within == {i \in Nat : i <= n => reach[i] \subseteq T}
  <2>1. 0 \in Within
    BY <1>2, <1>5
  <2>2. ASSUME NEW i \in Nat, i \in Within PROVE i + 1 \in Within
    <3> SUFFICES ASSUME i + 1 <= n PROVE reach[i + 1] \subseteq T
      OBVIOUS
    <3>1. i \in 0..n - 1 /\ reach[i] \subseteq T
      BY <1>1, <2>2
    <3>2. reach[i + 1] = Spread(reach[i]) /\ reach[i] \in SUBSET Slots
      BY <1>1, <1>2, <1>3, <3>1
    <3> QED
      BY <1>5, <3>1, <3>2, SpreadFacts
  <2>3. \A i \in Nat : i \in Within
    <3> HIDE DEF Within
    <3> QED
      BY <2>1, <2>2, AllNumbers
  <2> QED
    BY <2>3
<1>6. \A i \in 0..n : Closed(reach[i]) \/ Cardinality(reach[i]) >= i + 1
  <2> DEFINE Sized == {i \in Nat : i <= n => Closed(reach[i]) \/ Cardinality(reach[i]) >= i + 1}
  <2>1. 0 \in Sized
    <3>1. Cardinality(reach[0]) = 1
      BY <1>2, FS_Singleton
    <3> QED
      BY <3>1
  <2>2. ASSUME NEW i \in Nat, i \in Sized PROVE i + 1 \in Sized
    <3> SUFFICES ASSUME i + 1 <= n PROVE Closed(reach[i + 1]) \/ Cardinality(reach[i + 1]) >= (i + 1) + 1
      OBVIOUS
    <3>1. /\ i \in 0..n - 1 /\ i + 1 \in 0..n
          /\ Closed(reach[i]) \/ Cardinality(reach[i]) >= i + 1
      BY <1>1, <2>2
    <3>2. reach[i] \subseteq reach[i + 1] /\ reach[i + 1] \subseteq Slots /\ Root \in reach[i]
      BY <1>1, <1>3, <1>4, <3>1
    <3>3. CASE Closed(reach[i])
      <4>1. reach[i + 1] \subseteq reach[i]
        BY <1>5, <3>1, <3>2, <3>3
      <4> QED
        BY <3>2, <3>3, <4>1
    <3>4. CASE ~Closed(reach[i]) /\ Cardinality(reach[i]) >= i + 1
      <4>1. PICK x \in reach[i + 1] : x \notin reach[i]
        <5>1. reach[i + 1] = reach[i] => Closed(reach[i])
          BY <1>4, <3>1
        <5>2. reach[i + 1] # reach[i]
          BY <3>4, <5>1
        <5> QED
          BY <3>2, <5>2
      <4>2. IsFiniteSet(reach[i + 1])
        BY <1>1, <3>2, FS_Subset
      <4>3. IsFiniteSet(reach[i]) /\ reach[i] \cup {x} \in SUBSET reach[i + 1]
        BY <3>2, <4>1, <4>2, FS_Subset
      <4>4. Cardinality(reach[i] \cup {x}) = Cardinality(reach[i]) + 1
        BY <4>1, <4>3, FS_AddElement
      <4>5. Cardinality(reach[i] \cup {x}) <= Cardinality(reach[i + 1])
        BY <4>2, <4>3, FS_Subset
      <4>6. Cardinality(reach[i]) \in Nat /\ Cardinality(reach[i + 1]) \in Nat
        BY <4>2, <4>3, FS_CardinalityType
      <4> QED
        BY <3>4, <4>4, <4>5, <4>6
    <3> QED
      BY <3>1, <3>3, <3>4
  <2>3. \A i \in Nat : i \in Sized
    <3> HIDE DEF Sized
    <3> QED
      BY <2>1, <2>2, AllNumbers
  <2> QED
    BY <2>3
<1>7. Closed(reach[n])
  <2>1. n \in 0..n /\ reach[n] \in SUBSET Slots
    BY <1>1, <1>3
  <2>2. Cardinality(reach[n]) <= n /\ IsFiniteSet(reach[n])
    BY <1>1, <2>1, FS_Subset
  <2>3. Cardinality(reach[n]) \in Nat
    BY <2>2, FS_CardinalityType
  <2> QED
    BY <1>1, <1>6, <2>1, <2>2, <2>3
<1>8. n \in 0..n
  BY <1>1
<1> QED
  BY <1>2, <1>3, <1>5, <1>7, <1>8

(* When no call runs, the slots that pointers lead to are those that nobody    *)
(* handed over, and they are not locked.                                       *)
LEMMA ReachableAtRest ==
  ASSUME TInv, LInv, MapInv, RemovalsOK, LeakFree, ~MayOverflow, \A t \in Threads : ~Calls(loc[t])
  PROVE  /\ Reachable = {s \in Slots : retired[s] = {}}
         /\ \A s \in Reachable : Free(s)
<1>1. MemOK /\ SlotsOK /\ CutOK /\ LeavesOK
  BY DEF TInv, LInv
<1>2. Root \in Reachable /\ Reachable \subseteq Slots /\ Closed(Reachable)
  BY <1>1, ReachableLeast
<1>3. \A s : Removed(s) <=> retired[s] # {}
  BY Idlers DEF Removed
<1>4. \A q \in Slots : Free(q) => Live(q)
  BY DEF Live
<1>5. \A s \in Slots : Inner(s) /\ retired[s] = {} => Free(s)
  <2>1. ASSUME NEW s \in Slots, Inner(s), retired[s] = {} PROVE Free(s)
    <3>1. Attended(s)
      BY DEF LeakFree
    <3> QED
      BY <1>3, <2>1, <3>1, Idlers DEF Attended
  <2> QED
    BY <2>1
<1> DEFINE T == {s \in Slots : retired[s] = {} /\ Free(s)}
<1>6. Root \in T
  <2>1. Root \in Slots /\ Inner(Root) /\ retired[Root] = {}
    BY <1>1, Kinds DEF MemOK, SlotsOK, Inner
  <2> QED
    BY <1>5, <2>1
<1>7. Closed(T)
  <2> SUFFICES ASSUME NEW q \in T, NEW s \in Slots, Links(q, s) PROVE retired[s] = {} /\ Free(s)
    BY DEF Closed
  <2>1. q \in Slots /\ Live(q)
    BY <1>4
  <2>2. ~Removed(s)
    BY <1>1, <2>1, Idlers DEF CutOK
  <2>3. retired[s] = {}
    BY <1>3, <2>2
  <2>4. IsLeaf(s) => Free(s)
    BY <1>1, <2>1, Idlers DEF LeavesOK
  <2> QED
    BY <1>5, <2>3, <2>4, KindsOf
<1>8. Reachable \subseteq T
  BY <1>1, <1>6, <1>7, ReachableLeast
<1>9. ASSUME NEW x \in Slots, retired[x] = {}, x \notin Reachable PROVE FALSE
  <2>1. PICK C, P : Charted(C, P) /\ Placed(C)
    BY PlacedNow DEF MapInv
  <2> DEFINE U == {s \in Slots : retired[s] = {} /\ s \notin Reachable}
             S == {LevelOf(C, s) : s \in U}
  <2>2. S \in SUBSET Nat /\ S # {}
    BY <1>9, <2>1, SlotFacts
  <2>3. PICK l \in S : \A m \in S : l <= m
    <3> HIDE DEF S
    <3> QED
      BY <2>2, LeastNumber
  <2>4. PICK s \in U : LevelOf(C, s) = l
    BY <2>3
  <2>5. s \in Slots /\ s # Root /\ ~Removed(s) /\ Hung(s) /\ s \notin Reachable
    BY <1>2, <1>3, <2>4 DEF LeakFree
  <2>6. PICK q \in Slots : Links(q, s) /\ ~Removed(q)
    BY <2>5, Idlers DEF Hung
  <2>7. q \in U
    <3>1. q \notin Reachable
      BY <1>2, <2>5, <2>6 DEF Closed
    <3> QED
      BY <1>3, <2>6, <3>1
  <2>8. LevelOf(C, s) = C.far[Id(q)] + 1 /\ Inner(q)
    <3>1. PICK b : b \in DOMAIN mem[q].child /\ mem[q].child[b] = s
      BY <2>6 DEF Links
    <3>2. ChildOf(mem[q], b) = s /\ s # Nil
      BY <2>5, <3>1, NoSlots DEF ChildOf
    <3>3. Under(s, q, b)
      BY <2>1, <3>2, ChildUnder
    <3>4. Inner(q)
      BY <1>1, <3>1 DEF SlotsOK, Inner
    <3> QED
      BY <2>1, <3>3, <3>4, ChildEnters
  <2>9. LevelOf(C, q) \in Nat /\ mem[q].plen \in Nat /\ C.far[Id(q)] = LevelOf(C, q) + mem[q].plen
    BY <2>1, <2>8, SlotFacts
  <2>10. LevelOf(C, q) \in S
    BY <2>7
  <2> HIDE DEF S
  <2> QED
    BY <2>3, <2>4, <2>8, <2>9, <2>10
<1> QED
  BY <1>2, <1>8, <1>9

(* When no call runs, every slot is in the tree, unlocked, or was handed over  *)
(* once to be freed: an insertion neither loses the nodes it replaces nor      *)
(* hands over one that is still linked (N.cpp:121 when a node grows,           *)
(* Tree.cpp:605 and 669 when a node or a leaf is split).                       *)
THEOREM AccountedHolds == Spec => []Accounted
<1>1. TInv /\ LInv /\ MapInv /\ RemovalsOK /\ LeakFree => Accounted
  <2> SUFFICES ASSUME TInv, LInv, MapInv, RemovalsOK, LeakFree, ~MayOverflow,
                      \A t \in Threads : loc[t].pc \in {"idle", "done"}, NEW s \in Slots
               PROVE  /\ s \in Reachable => Readable(Word(s))
                      /\ Cardinality(retired[s]) = IF s \in Reachable THEN 0 ELSE 1
    BY DEF Accounted
  <2>1. s \in Reachable <=> retired[s] = {}
    BY ReachableAtRest DEF Calls
  <2>2. s \in Reachable => Free(s)
    BY ReachableAtRest DEF Calls
  <2>3. s \in Reachable => Readable(Word(s))
    BY <2>2, WordBits DEF TInv, MemOK, Free, Word
  <2>4. retired[s] = {} => Cardinality(retired[s]) = 0
    BY FS_EmptySet
  <2>5. retired[s] # {} => Cardinality(retired[s]) = 1
    <3> SUFFICES ASSUME NEW r \in retired[s] PROVE Cardinality(retired[s]) = 1
      OBVIOUS
    <3>1. retired[s] = {r}
      BY DEF RemovalsOK
    <3> QED
      BY <3>1, FS_Singleton
  <2> QED
    BY <2>1, <2>3, <2>4, <2>5
<1> QED
  BY <1>1, TreeInvariant, LockInvariant, MapInvariant, AccountInvariant, PTL

=============================================================================
