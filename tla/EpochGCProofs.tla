--------------------------- MODULE EpochGCProofs ---------------------------
(***************************************************************************)
(* What holds of the epochs for any number of threads, nodes and labels,   *)
(* any size of a label, any period and any threshold: no node is given     *)
(* back while an operation that a scan could see may hold it.              *)
(***************************************************************************)
EXTENDS EpochGC, FiniteSetTheorems, TLAPS

LEMMA Sizes ==
  /\ LabelSize \in Nat \ {0} /\ Period \in Nat \ {0, 1}
  /\ Threshold \in Nat /\ MaxEpoch \in Nat
  /\ IsFiniteSet(Nodes) /\ IsFiniteSet(Labels)
  /\ Nil \notin Threads /\ Nil \notin Nodes /\ Nil \notin Labels
  BY EpochAssumption

(* The locations of a thread inside a guard, and of one that removes a node. *)
Working == {"in", "claimed", "marked", "unlinked"}
Sweeping == {"scan", "walk", "free"}

(* The entry of node n in label l of t's list is still to be dealt with.   *)
Waits(t, l, n) ==
  /\ l \in chained[t]
  /\ n \in label[l].nodes
  /\ pc[t] = "free" /\ cur[t] = l => n \in pending[t]

(* The lists of different threads are apart, and in one thread the list of *)
(* entered labels and the free list; a label has one way to it, and no way *)
(* leads back.                                                             *)
Apart ==
  /\ \A t, u \in Threads : t # u => made[t] \cap made[u] = {}
  /\ \A t \in Threads :
        /\ chained[t] \subseteq made[t]
        /\ head[t] \in chained[t] \cup {Nil}
        /\ spare[t] \in (made[t] \ chained[t]) \cup {Nil}
        /\ \A l \in made[t] : label[l].next # Nil =>
              /\ label[l].next \in made[t] \ {head[t], spare[t]}
              /\ label[l].next \in chained[t] <=> l \in chained[t]
              /\ \A k \in made[t] : label[k].next = label[l].next => k = l

Descending(f, t) ==
  \A l \in made[t] : label[l].next # Nil => f[label[l].next] < f[l]

Acyclic == \A t \in Threads : \E f \in [Labels -> Nat] : Descending(f, t)

(* Where a cleanup stands: prev is the label before cur, and the label it  *)
(* has opened is older than every epoch it has seen.                       *)
Walks ==
  \A t \in Threads :
     /\ pc[t] \in {"walk", "free"} =>
           /\ unscanned[t] = {}
           /\ cur[t] \in chained[t] \cup {Nil}
           /\ prev[t] = Nil => cur[t] = head[t]
           /\ prev[t] # Nil => prev[t] \in chained[t] /\ label[prev[t]].next = cur[t]
     /\ pc[t] = "free" =>
           /\ cur[t] # Nil
           /\ pending[t] \subseteq label[cur[t]].nodes
           /\ label[cur[t]].epoche < oldest[t]
     /\ pc[t] # "free" => pending[t] = {}

(* Whoever is inside a guard has a list, and announced an epoch that is    *)
(* not in the future; a thread that is gone announces the maximum; nodes   *)
(* wait only for threads inside.                                           *)
Guards ==
  /\ \A t \in Threads :
        /\ t \in inside <=> pc[t] \in Working
        /\ pc[t] # "absent" => t \in created
        /\ pc[t] = "absent" => unflushed[t] = None /\ (t \in created => localEpoche[t] = MAX)
        /\ pc[t] = "enter" => loaded[t] <= currentEpoche
        /\ t \in inside => Announced(t) <= currentEpoche
  /\ \A n \in Nodes : waiting[n] \subseteq inside

(* A node is removed by one thread at a time.                              *)
Holders ==
  /\ \A t \in Threads :
        /\ pc[t] \in {"claimed", "marked", "unlinked"} <=> held[t] # Nil
        /\ pc[t] \in {"claimed", "marked"} => phase[held[t]] = "claimed"
        /\ pc[t] = "unlinked" => phase[held[t]] = "unlinked"
        /\ \A u \in Threads : held[t] = held[u] /\ held[t] # Nil => t = u
  /\ \A n \in Nodes : phase[n] = "claimed" => \E t \in Threads : held[t] = n

(* A node that waits is out of the tree, or marked and about to be; it     *)
(* waits in one place.                                                     *)
Queued ==
  \A t \in Threads : \A l \in Labels : \A n \in Nodes : Waits(t, l, n) =>
     /\ phase[n] = "unlinked" \/ (held[t] = n /\ pc[t] = "marked")
     /\ \A u \in Threads : \A k \in Labels : Waits(u, k, n) => t = u /\ k = l
     /\ \A u \in Threads : held[u] = n => pc[u] = "marked"

(* No node that is out of the tree is forgotten.                           *)
Entered ==
  /\ \A n \in Nodes : phase[n] = "unlinked" =>
        \/ \E t \in Threads : held[t] = n /\ pc[t] = "unlinked"
        \/ \E t \in Threads : \E l \in Labels : Waits(t, l, n)
  /\ \A t \in Threads : pc[t] = "marked" => \E l \in Labels : Waits(t, l, held[t])

(* A thread that a node waits for announced an epoch no younger than the   *)
(* stamp of the node's label, and a scan that has passed the thread knows. *)
Stamped ==
  \A t \in Threads : \A l \in Labels : \A n \in Nodes : Waits(t, l, n) =>
     \A u \in waiting[n] :
        /\ Announced(u) <= label[l].epoche
        /\ pc[t] \in Sweeping /\ u \notin unscanned[t] => oldest[t] <= Announced(u)

IInv == /\ TypeOK /\ Apart /\ Acyclic /\ Walks
        /\ Guards /\ Holders /\ Queued /\ Entered /\ Stamped
-----------------------------------------------------------------------------
LEMMA TypeInit == Init => TypeOK
<1> SUFFICES ASSUME Init PROVE TypeOK
  OBVIOUS
<1> USE Sizes DEF Init
<1>1. EpochTypes
  <2>1. localEpoche \in [Threads -> 0..MAX] /\ currentEpoche \in 0..MaxEpoch
    BY DEF MAX
  <2>2. unflushed \in [Threads -> -1..MaxEpoch]
    BY DEF None
  <2> QED
    BY <2>1, <2>2 DEF EpochTypes, Locations
<1>2. ListTypes
  BY DEF ListTypes, NewLabel
<1>3. SweepTypes
  BY DEF SweepTypes, MAX
<1>4. HistoryTypes
  BY DEF HistoryTypes
<1> QED
  BY <1>1, <1>2, <1>3, <1>4 DEF TypeOK

LEMMA EpochTypesStep ==
  ASSUME IInv, [Next]_vars
  PROVE  EpochTypes'
<1> USE Sizes DEF IInv, TypeOK, EpochTypes, Announced, MAX, None, Locations,
       Goto, LeaveGuard, epochs, lists, sweep, history
<1>1. ASSUME NEW t \in Threads, Register(t) PROVE EpochTypes'
  BY <1>1 DEF Register
<1>2. ASSUME NEW t \in Threads, Unregister(t) PROVE EpochTypes'
  BY <1>2 DEF Unregister
<1>3. ASSUME NEW t \in Threads, LoadEpoche(t) PROVE EpochTypes'
  BY <1>3 DEF LoadEpoche
<1>4. ASSUME NEW t \in Threads, Announce(t) PROVE EpochTypes'
  BY <1>4 DEF Announce
<1>5. ASSUME NEW t \in Threads, Flush(t) PROVE EpochTypes'
  <2> HIDE DEF EpochTypes, Announced, MAX, None, Locations, Goto, LeaveGuard,
               epochs, lists, sweep, history
  <2>1. unflushed[t] \in 0..MaxEpoch
    BY <1>5, Sizes DEF Flush, Drained, None, EpochTypes
  <2>2. localEpoche' \in [Threads -> 0..MAX] /\ unflushed' \in [Threads -> -1..MaxEpoch]
    BY <1>5, <2>1, Sizes DEF Flush, EpochTypes, MAX, None
  <2> QED
    BY <1>5, <2>2 DEF Flush, EpochTypes, lists, sweep, history
<1>6. ASSUME NEW t \in Threads, UnclaimNode(t) PROVE EpochTypes'
  BY <1>6 DEF UnclaimNode
<1>7. ASSUME NEW t \in Threads, Mark(t) PROVE EpochTypes'
  BY <1>7 DEF Mark
<1>8. ASSUME NEW t \in Threads, UnlinkNode(t) PROVE EpochTypes'
  BY <1>8 DEF UnlinkNode
<1>9. ASSUME NEW t \in Threads, ExitReadonly(t) PROVE EpochTypes'
  BY <1>9 DEF ExitReadonly
<1>10. ASSUME NEW t \in Threads, ExitEpoche(t) PROVE EpochTypes'
  BY <1>10 DEF ExitEpoche
<1>11. ASSUME NEW t \in Threads, DecideCleanup(t) PROVE EpochTypes'
  BY <1>11 DEF DecideCleanup
<1>12. ASSUME NEW t \in Threads, Withdraw(t) PROVE EpochTypes'
  BY <1>12 DEF Withdraw
<1>13. ASSUME NEW t \in Threads, BeginWalk(t) PROVE EpochTypes'
  BY <1>13 DEF BeginWalk
<1>14. ASSUME NEW t \in Threads, SkipLabel(t) PROVE EpochTypes'
  BY <1>14 DEF SkipLabel
<1>15. ASSUME NEW t \in Threads, OpenLabel(t) PROVE EpochTypes'
  BY <1>15 DEF OpenLabel
<1>16. ASSUME NEW t \in Threads, RemoveLabel(t) PROVE EpochTypes'
  BY <1>16 DEF RemoveLabel
<1>17. ASSUME NEW t \in Threads, EndWalk(t) PROVE EpochTypes'
  BY <1>17 DEF EndWalk
<1>18. ASSUME NEW t \in Threads, NEW n \in Nodes, LinkNode(t, n)
      PROVE  EpochTypes'
  BY <1>18 DEF LinkNode
<1>19. ASSUME NEW t \in Threads, NEW n \in Nodes, ClaimNode(t, n)
      PROVE  EpochTypes'
  BY <1>19 DEF ClaimNode
<1>20. ASSUME NEW t \in Threads, NEW u \in Threads, ScanLocal(t, u)
      PROVE  EpochTypes'
  BY <1>20 DEF ScanLocal
<1>21. ASSUME NEW t \in Threads, NEW n \in Nodes, FreeNode(t, n)
      PROVE  EpochTypes'
  BY <1>21 DEF FreeNode
<1>22. CASE Destroy
  BY <1>22 DEF Destroy
<1>23. CASE UNCHANGED vars
  BY <1>23 DEF vars
<1> QED
  BY <1>1, <1>2, <1>3, <1>4, <1>5, <1>6, <1>7, <1>8, <1>9, <1>10, <1>11,
     <1>12, <1>13, <1>14, <1>15, <1>16, <1>17, <1>18, <1>19, <1>20, <1>21, <1>22,
     <1>23
  DEF Next, Guard, Removal, Cleanup

LEMMA ListTypesStep ==
  ASSUME IInv, [Next]_vars
  PROVE  ListTypes'
<1> USE Sizes DEF IInv, TypeOK, ListTypes, epochs, lists, sweep, history
<1>1. ASSUME NEW t \in Threads, Register(t) PROVE ListTypes'
  BY <1>1 DEF Register
<1>2. ASSUME NEW t \in Threads, Unregister(t) PROVE ListTypes'
  BY <1>2 DEF Unregister
<1>3. ASSUME NEW t \in Threads, LoadEpoche(t) PROVE ListTypes'
  BY <1>3 DEF LoadEpoche
<1>4. ASSUME NEW t \in Threads, Announce(t) PROVE ListTypes'
  BY <1>4 DEF Announce
<1>5. ASSUME NEW t \in Threads, Flush(t) PROVE ListTypes'
  BY <1>5 DEF Flush
<1>6. ASSUME NEW t \in Threads, UnclaimNode(t) PROVE ListTypes'
  BY <1>6 DEF UnclaimNode
<1>7. ASSUME NEW t \in Threads, Mark(t) PROVE ListTypes'
  <2> HIDE DEF ListTypes, epochs, lists, sweep, history
  <2>1. held[t] \in Nodes
    BY <1>7, Sizes DEF Mark, Holders, EpochTypes
  <2>2. thresholdCounter' \in [Threads -> Nat] /\ count' \in [Threads -> Int]
    BY <1>7 DEF Mark, ListTypes
  <2>3. CASE AddToHead(t, held[t])
    BY <2>1, <2>2, <2>3 DEF AddToHead, ListTypes, EpochTypes
  <2>4. CASE AddLabel(t, held[t])
    <3>1. PICK l \in Labels :
             /\ IF spare[t] # Nil
                THEN l = spare[t] /\ spare' = [spare EXCEPT ![t] = label[l].next]
                ELSE l \notin UNION {made[u] : u \in Threads} /\ UNCHANGED spare
             /\ label' = [label EXCEPT ![l] =
                    [nodes |-> {held[t]}, epoche |-> currentEpoche, next |-> head[t]]]
             /\ head' = [head EXCEPT ![t] = l]
             /\ made' = [made EXCEPT ![t] = @ \cup {l}]
             /\ chained' = [chained EXCEPT ![t] = @ \cup {l}]
      BY <2>4 DEF AddLabel
    <3>2. spare' \in [Threads -> Labels \cup {Nil}]
      BY <3>1 DEF ListTypes
    <3>3. {made', chained'} \subseteq [Threads -> SUBSET Labels]
      BY <3>1 DEF ListTypes
    <3>4. head' \in [Threads -> Labels \cup {Nil}]
      BY <3>1 DEF ListTypes
    <3>5. label' \in [Labels -> [nodes : SUBSET Nodes, epoche : 0..MaxEpoch,
                                 next : Labels \cup {Nil}]]
      BY <2>1, <3>1 DEF ListTypes, EpochTypes
    <3> QED
      BY <2>2, <3>2, <3>3, <3>4, <3>5 DEF ListTypes
  <2> QED
    BY <1>7, <2>3, <2>4 DEF Mark
<1>8. ASSUME NEW t \in Threads, UnlinkNode(t) PROVE ListTypes'
  BY <1>8 DEF UnlinkNode
<1>9. ASSUME NEW t \in Threads, ExitReadonly(t) PROVE ListTypes'
  BY <1>9 DEF ExitReadonly
<1>10. ASSUME NEW t \in Threads, ExitEpoche(t) PROVE ListTypes'
  BY <1>10 DEF ExitEpoche
<1>11. ASSUME NEW t \in Threads, DecideCleanup(t) PROVE ListTypes'
  BY <1>11 DEF DecideCleanup
<1>12. ASSUME NEW t \in Threads, Withdraw(t) PROVE ListTypes'
  BY <1>12 DEF Withdraw
<1>13. ASSUME NEW t \in Threads, BeginWalk(t) PROVE ListTypes'
  BY <1>13 DEF BeginWalk
<1>14. ASSUME NEW t \in Threads, SkipLabel(t) PROVE ListTypes'
  BY <1>14 DEF SkipLabel
<1>15. ASSUME NEW t \in Threads, OpenLabel(t) PROVE ListTypes'
  BY <1>15 DEF OpenLabel
<1>16. ASSUME NEW t \in Threads, RemoveLabel(t) PROVE ListTypes'
  <2> HIDE DEF ListTypes, epochs, lists, sweep, history
  <2>1. cur[t] \in Labels
    BY <1>16, Sizes DEF RemoveLabel, Walks, SweepTypes
  <2>2. IsFiniteSet(label[cur[t]].nodes)
    BY <2>1, Sizes, FS_Subset DEF ListTypes
  <2>3. Cardinality(label[cur[t]].nodes) \in Nat
    BY <2>2, FS_CardinalityType
  <2>4. count' \in [Threads -> Int]
    BY <1>16, <2>3 DEF RemoveLabel, ListTypes
  <2>5. label' \in [Labels -> [nodes : SUBSET Nodes, epoche : 0..MaxEpoch,
                               next : Labels \cup {Nil}]]
    BY <1>16, <2>1 DEF RemoveLabel, ListTypes
  <2> QED
    BY <1>16, <2>1, <2>4, <2>5 DEF RemoveLabel, ListTypes
<1>17. ASSUME NEW t \in Threads, EndWalk(t) PROVE ListTypes'
  BY <1>17 DEF EndWalk
<1>18. ASSUME NEW t \in Threads, NEW n \in Nodes, LinkNode(t, n)
      PROVE  ListTypes'
  BY <1>18 DEF LinkNode
<1>19. ASSUME NEW t \in Threads, NEW n \in Nodes, ClaimNode(t, n)
      PROVE  ListTypes'
  BY <1>19 DEF ClaimNode
<1>20. ASSUME NEW t \in Threads, NEW u \in Threads, ScanLocal(t, u)
      PROVE  ListTypes'
  BY <1>20 DEF ScanLocal
<1>21. ASSUME NEW t \in Threads, NEW n \in Nodes, FreeNode(t, n)
      PROVE  ListTypes'
  BY <1>21 DEF FreeNode
<1>22. CASE Destroy
  BY <1>22 DEF Destroy
<1>23. CASE UNCHANGED vars
  BY <1>23 DEF vars
<1> QED
  BY <1>1, <1>2, <1>3, <1>4, <1>5, <1>6, <1>7, <1>8, <1>9, <1>10, <1>11,
     <1>12, <1>13, <1>14, <1>15, <1>16, <1>17, <1>18, <1>19, <1>20, <1>21, <1>22,
     <1>23
  DEF Next, Guard, Removal, Cleanup

LEMMA SweepTypesStep ==
  ASSUME IInv, [Next]_vars
  PROVE  SweepTypes'
<1> USE Sizes DEF IInv, TypeOK, SweepTypes, ListTypes, EpochTypes, MAX,
       epochs, lists, sweep, history
<1>1. ASSUME NEW t \in Threads, Register(t) PROVE SweepTypes'
  BY <1>1 DEF Register
<1>2. ASSUME NEW t \in Threads, Unregister(t) PROVE SweepTypes'
  BY <1>2 DEF Unregister
<1>3. ASSUME NEW t \in Threads, LoadEpoche(t) PROVE SweepTypes'
  BY <1>3 DEF LoadEpoche
<1>4. ASSUME NEW t \in Threads, Announce(t) PROVE SweepTypes'
  BY <1>4 DEF Announce
<1>5. ASSUME NEW t \in Threads, Flush(t) PROVE SweepTypes'
  BY <1>5 DEF Flush
<1>6. ASSUME NEW t \in Threads, UnclaimNode(t) PROVE SweepTypes'
  BY <1>6 DEF UnclaimNode
<1>7. ASSUME NEW t \in Threads, Mark(t) PROVE SweepTypes'
  BY <1>7 DEF Mark
<1>8. ASSUME NEW t \in Threads, UnlinkNode(t) PROVE SweepTypes'
  BY <1>8 DEF UnlinkNode
<1>9. ASSUME NEW t \in Threads, ExitReadonly(t) PROVE SweepTypes'
  BY <1>9 DEF ExitReadonly
<1>10. ASSUME NEW t \in Threads, ExitEpoche(t) PROVE SweepTypes'
  BY <1>10 DEF ExitEpoche
<1>11. ASSUME NEW t \in Threads, DecideCleanup(t) PROVE SweepTypes'
  BY <1>11 DEF DecideCleanup
<1>12. ASSUME NEW t \in Threads, Withdraw(t) PROVE SweepTypes'
  BY <1>12 DEF Withdraw
<1>13. ASSUME NEW t \in Threads, BeginWalk(t) PROVE SweepTypes'
  BY <1>13 DEF BeginWalk
<1>14. ASSUME NEW t \in Threads, SkipLabel(t) PROVE SweepTypes'
  BY <1>14 DEF SkipLabel
<1>15. ASSUME NEW t \in Threads, OpenLabel(t) PROVE SweepTypes'
  BY <1>15 DEF OpenLabel
<1>16. ASSUME NEW t \in Threads, RemoveLabel(t) PROVE SweepTypes'
  <2> HIDE DEF SweepTypes, ListTypes, EpochTypes, MAX, epochs, lists, sweep,
               history
  <2>1. cur[t] \in Labels
    BY <1>16, Sizes DEF RemoveLabel, Walks, SweepTypes
  <2> QED
    BY <1>16, <2>1 DEF RemoveLabel, SweepTypes, ListTypes
<1>17. ASSUME NEW t \in Threads, EndWalk(t) PROVE SweepTypes'
  BY <1>17 DEF EndWalk
<1>18. ASSUME NEW t \in Threads, NEW n \in Nodes, LinkNode(t, n)
      PROVE  SweepTypes'
  BY <1>18 DEF LinkNode
<1>19. ASSUME NEW t \in Threads, NEW n \in Nodes, ClaimNode(t, n)
      PROVE  SweepTypes'
  BY <1>19 DEF ClaimNode
<1>20. ASSUME NEW t \in Threads, NEW u \in Threads, ScanLocal(t, u)
      PROVE  SweepTypes'
  BY <1>20 DEF ScanLocal
<1>21. ASSUME NEW t \in Threads, NEW n \in Nodes, FreeNode(t, n)
      PROVE  SweepTypes'
  BY <1>21 DEF FreeNode
<1>22. CASE Destroy
  BY <1>22 DEF Destroy
<1>23. CASE UNCHANGED vars
  BY <1>23 DEF vars
<1> QED
  BY <1>1, <1>2, <1>3, <1>4, <1>5, <1>6, <1>7, <1>8, <1>9, <1>10, <1>11,
     <1>12, <1>13, <1>14, <1>15, <1>16, <1>17, <1>18, <1>19, <1>20, <1>21, <1>22,
     <1>23
  DEF Next, Guard, Removal, Cleanup

LEMMA HistoryTypesStep ==
  ASSUME IInv, [Next]_vars
  PROVE  HistoryTypes'
<1> USE Sizes DEF IInv, TypeOK, HistoryTypes, EpochTypes, SweepTypes,
       LeaveGuard, epochs, lists, sweep, history
<1>1. ASSUME NEW t \in Threads, Register(t) PROVE HistoryTypes'
  BY <1>1 DEF Register
<1>2. ASSUME NEW t \in Threads, Unregister(t) PROVE HistoryTypes'
  BY <1>2 DEF Unregister
<1>3. ASSUME NEW t \in Threads, LoadEpoche(t) PROVE HistoryTypes'
  BY <1>3 DEF LoadEpoche
<1>4. ASSUME NEW t \in Threads, Announce(t) PROVE HistoryTypes'
  BY <1>4 DEF Announce
<1>5. ASSUME NEW t \in Threads, Flush(t) PROVE HistoryTypes'
  BY <1>5 DEF Flush
<1>6. ASSUME NEW t \in Threads, UnclaimNode(t) PROVE HistoryTypes'
  BY <1>6 DEF UnclaimNode
<1>7. ASSUME NEW t \in Threads, Mark(t) PROVE HistoryTypes'
  BY <1>7 DEF Mark
<1>8. ASSUME NEW t \in Threads, UnlinkNode(t) PROVE HistoryTypes'
  BY <1>8 DEF UnlinkNode
<1>9. ASSUME NEW t \in Threads, ExitReadonly(t) PROVE HistoryTypes'
  BY <1>9 DEF ExitReadonly
<1>10. ASSUME NEW t \in Threads, ExitEpoche(t) PROVE HistoryTypes'
  BY <1>10 DEF ExitEpoche
<1>11. ASSUME NEW t \in Threads, DecideCleanup(t) PROVE HistoryTypes'
  BY <1>11 DEF DecideCleanup
<1>12. ASSUME NEW t \in Threads, Withdraw(t) PROVE HistoryTypes'
  BY <1>12 DEF Withdraw
<1>13. ASSUME NEW t \in Threads, BeginWalk(t) PROVE HistoryTypes'
  BY <1>13 DEF BeginWalk
<1>14. ASSUME NEW t \in Threads, SkipLabel(t) PROVE HistoryTypes'
  BY <1>14 DEF SkipLabel
<1>15. ASSUME NEW t \in Threads, OpenLabel(t) PROVE HistoryTypes'
  BY <1>15 DEF OpenLabel
<1>16. ASSUME NEW t \in Threads, RemoveLabel(t) PROVE HistoryTypes'
  BY <1>16 DEF RemoveLabel
<1>17. ASSUME NEW t \in Threads, EndWalk(t) PROVE HistoryTypes'
  BY <1>17 DEF EndWalk
<1>18. ASSUME NEW t \in Threads, NEW n \in Nodes, LinkNode(t, n)
      PROVE  HistoryTypes'
  BY <1>18 DEF LinkNode
<1>19. ASSUME NEW t \in Threads, NEW n \in Nodes, ClaimNode(t, n)
      PROVE  HistoryTypes'
  BY <1>19 DEF ClaimNode
<1>20. ASSUME NEW t \in Threads, NEW u \in Threads, ScanLocal(t, u)
      PROVE  HistoryTypes'
  BY <1>20 DEF ScanLocal
<1>21. ASSUME NEW t \in Threads, NEW n \in Nodes, FreeNode(t, n)
      PROVE  HistoryTypes'
  BY <1>21 DEF FreeNode
<1>22. CASE Destroy
  BY <1>22 DEF Destroy
<1>23. CASE UNCHANGED vars
  BY <1>23 DEF vars
<1> QED
  BY <1>1, <1>2, <1>3, <1>4, <1>5, <1>6, <1>7, <1>8, <1>9, <1>10, <1>11,
     <1>12, <1>13, <1>14, <1>15, <1>16, <1>17, <1>18, <1>19, <1>20, <1>21, <1>22,
     <1>23
  DEF Next, Guard, Removal, Cleanup

LEMMA TypeStep ==
  ASSUME IInv, [Next]_vars
  PROVE  TypeOK'
  BY EpochTypesStep, ListTypesStep, SweepTypesStep, HistoryTypesStep DEF TypeOK

-----------------------------------------------------------------------------
LEMMA AddCases ==
  ASSUME IInv, NEW t \in Threads, NEW n \in Nodes, AddToHead(t, n) \/ AddLabel(t, n)
  PROVE  \E l \in Labels :
            /\ \A u \in Threads : u # t => l \notin made[u]
            /\ chained' = [chained EXCEPT ![t] = @ \cup {l}]
            /\ \A k \in Labels \ {l} : label'[k] = label[k]
            /\ label'[l].nodes = {n} \cup (IF l \in chained[t] THEN label[l].nodes ELSE {})
            /\ label'[l].epoche = currentEpoche
<1> USE DEF IInv, TypeOK, ListTypes, Apart
<1>1. CASE AddToHead(t, n)
  <2>1. head[t] \in chained[t] /\ head[t] \in Labels
    BY <1>1, Sizes DEF AddToHead
  <2>2. chained' = [chained EXCEPT ![t] = @ \cup {head[t]}]
    BY <1>1, <2>1 DEF AddToHead
  <2>3. label' = [label EXCEPT ![head[t]] =
           [nodes |-> @.nodes \cup {n}, epoche |-> currentEpoche, next |-> @.next]]
    BY <1>1 DEF AddToHead
  <2>4. /\ label'[head[t]].nodes = {n} \cup label[head[t]].nodes
        /\ label'[head[t]].epoche = currentEpoche
        /\ \A k \in Labels \ {head[t]} : label'[k] = label[k]
    BY <2>1, <2>3
  <2>5. \A u \in Threads : u # t => head[t] \notin made[u]
    BY <2>1
  <2> QED
    BY <2>1, <2>2, <2>4, <2>5
<1>2. CASE AddLabel(t, n)
  <2>1. PICK l \in Labels :
          /\ \/ spare[t] # Nil /\ l = spare[t]
             \/ l \notin UNION {made[u] : u \in Threads}
          /\ label' = [label EXCEPT ![l] =
                 [nodes |-> {n}, epoche |-> currentEpoche, next |-> head[t]]]
          /\ chained' = [chained EXCEPT ![t] = @ \cup {l}]
    BY <1>2 DEF AddLabel
  <2>2. l \notin chained[t] /\ \A u \in Threads : u # t => l \notin made[u]
    BY <2>1
  <2>3. /\ label'[l].nodes = {n} /\ label'[l].nodes = {n} \cup {}
        /\ label'[l].epoche = currentEpoche
        /\ \A k \in Labels \ {l} : label'[k] = label[k]
    BY <2>1
  <2> QED
    BY <2>1, <2>2, <2>3
<1> QED
  BY <1>1, <1>2

LEMMA MarkEffect ==
  ASSUME IInv, NEW t \in Threads, Mark(t)
  PROVE  \E l \in Labels :
            /\ \A u \in Threads, k \in Labels, n \in Nodes :
                 Waits(u, k, n)' <=> Waits(u, k, n) \/ (u = t /\ k = l /\ n = held[t])
            /\ label'[l].epoche = currentEpoche
            /\ \A k \in Labels \ {l} : label'[k] = label[k]
<1> USE DEF IInv, TypeOK, EpochTypes, ListTypes
<1>1. held[t] \in Nodes
  BY Sizes DEF Mark, Holders
<1>2. PICK l \in Labels :
            /\ \A u \in Threads : u # t => l \notin made[u]
            /\ chained' = [chained EXCEPT ![t] = @ \cup {l}]
            /\ \A k \in Labels \ {l} : label'[k] = label[k]
            /\ label'[l].nodes = {held[t]} \cup (IF l \in chained[t] THEN label[l].nodes ELSE {})
            /\ label'[l].epoche = currentEpoche
  BY <1>1, AddCases DEF Mark
<1>3. ASSUME NEW u \in Threads, NEW k \in Labels, NEW n \in Nodes
      PROVE  Waits(u, k, n)' <=> Waits(u, k, n) \/ (u = t /\ k = l /\ n = held[t])
  BY <1>2, <1>3 DEF Waits, Mark, Goto, sweep, Apart
<1> QED
  BY <1>2, <1>3

LEMMA WaitsAfter ==
  ASSUME IInv, [Next]_vars, NEW x \in Threads, NEW l \in Labels, NEW m \in Nodes,
         Waits(x, l, m)'
  PROVE  Waits(x, l, m) \/ (Mark(x) /\ m = held[x])
<1> USE Sizes DEF IInv, Waits, Walks, Apart, TypeOK, EpochTypes, ListTypes,
       SweepTypes, HistoryTypes, epochs, lists, sweep, history, LeaveGuard, Goto
<1>1. ASSUME NEW t \in Threads, Register(t)
      PROVE  Waits(x, l, m) \/ (Mark(x) /\ m = held[x])
  BY <1>1 DEF Register
<1>2. ASSUME NEW t \in Threads, Unregister(t)
      PROVE  Waits(x, l, m) \/ (Mark(x) /\ m = held[x])
  BY <1>2 DEF Unregister
<1>3. ASSUME NEW t \in Threads, LoadEpoche(t)
      PROVE  Waits(x, l, m) \/ (Mark(x) /\ m = held[x])
  BY <1>3 DEF LoadEpoche
<1>4. ASSUME NEW t \in Threads, Announce(t)
      PROVE  Waits(x, l, m) \/ (Mark(x) /\ m = held[x])
  BY <1>4 DEF Announce
<1>5. ASSUME NEW t \in Threads, Flush(t)
      PROVE  Waits(x, l, m) \/ (Mark(x) /\ m = held[x])
  BY <1>5 DEF Flush
<1>6. ASSUME NEW t \in Threads, UnclaimNode(t)
      PROVE  Waits(x, l, m) \/ (Mark(x) /\ m = held[x])
  BY <1>6 DEF UnclaimNode
<1>7. ASSUME NEW t \in Threads, Mark(t)
      PROVE  Waits(x, l, m) \/ (Mark(x) /\ m = held[x])
  BY <1>7, MarkEffect
<1>8. ASSUME NEW t \in Threads, UnlinkNode(t)
      PROVE  Waits(x, l, m) \/ (Mark(x) /\ m = held[x])
  BY <1>8 DEF UnlinkNode
<1>9. ASSUME NEW t \in Threads, ExitReadonly(t)
      PROVE  Waits(x, l, m) \/ (Mark(x) /\ m = held[x])
  BY <1>9 DEF ExitReadonly
<1>10. ASSUME NEW t \in Threads, ExitEpoche(t)
      PROVE  Waits(x, l, m) \/ (Mark(x) /\ m = held[x])
  BY <1>10 DEF ExitEpoche
<1>11. ASSUME NEW t \in Threads, DecideCleanup(t)
      PROVE  Waits(x, l, m) \/ (Mark(x) /\ m = held[x])
  BY <1>11 DEF DecideCleanup
<1>12. ASSUME NEW t \in Threads, Withdraw(t)
      PROVE  Waits(x, l, m) \/ (Mark(x) /\ m = held[x])
  BY <1>12 DEF Withdraw
<1>13. ASSUME NEW t \in Threads, BeginWalk(t)
      PROVE  Waits(x, l, m) \/ (Mark(x) /\ m = held[x])
  BY <1>13 DEF BeginWalk
<1>14. ASSUME NEW t \in Threads, SkipLabel(t)
      PROVE  Waits(x, l, m) \/ (Mark(x) /\ m = held[x])
  BY <1>14 DEF SkipLabel
<1>15. ASSUME NEW t \in Threads, OpenLabel(t)
      PROVE  Waits(x, l, m) \/ (Mark(x) /\ m = held[x])
  BY <1>15 DEF OpenLabel
<1>16. ASSUME NEW t \in Threads, RemoveLabel(t)
      PROVE  Waits(x, l, m) \/ (Mark(x) /\ m = held[x])
  BY <1>16 DEF RemoveLabel
<1>17. ASSUME NEW t \in Threads, EndWalk(t)
      PROVE  Waits(x, l, m) \/ (Mark(x) /\ m = held[x])
  BY <1>17 DEF EndWalk
<1>18. ASSUME NEW t \in Threads, NEW n \in Nodes, LinkNode(t, n)
      PROVE  Waits(x, l, m) \/ (Mark(x) /\ m = held[x])
  BY <1>18 DEF LinkNode
<1>19. ASSUME NEW t \in Threads, NEW n \in Nodes, ClaimNode(t, n)
      PROVE  Waits(x, l, m) \/ (Mark(x) /\ m = held[x])
  BY <1>19 DEF ClaimNode
<1>20. ASSUME NEW t \in Threads, NEW u \in Threads, ScanLocal(t, u)
      PROVE  Waits(x, l, m) \/ (Mark(x) /\ m = held[x])
  BY <1>20 DEF ScanLocal
<1>21. ASSUME NEW t \in Threads, NEW n \in Nodes, FreeNode(t, n)
      PROVE  Waits(x, l, m) \/ (Mark(x) /\ m = held[x])
  BY <1>21 DEF FreeNode
<1>22. CASE Destroy
  BY <1>22 DEF Destroy
<1>23. CASE UNCHANGED vars
  BY <1>23 DEF vars
<1> QED
  BY <1>1, <1>2, <1>3, <1>4, <1>5, <1>6, <1>7, <1>8, <1>9, <1>10, <1>11,
     <1>12, <1>13, <1>14, <1>15, <1>16, <1>17, <1>18, <1>19, <1>20, <1>21,
     <1>22, <1>23
  DEF Next, Guard, Removal, Cleanup

LEMMA WaitsBefore ==
  ASSUME IInv, [Next]_vars, NEW x \in Threads, NEW l \in Labels, NEW m \in Nodes,
         Waits(x, l, m)
  PROVE  Waits(x, l, m)' \/ phase'[m] = "free"
<1> USE Sizes DEF IInv, Waits, Walks, Apart, TypeOK, EpochTypes, ListTypes,
       SweepTypes, HistoryTypes, epochs, lists, sweep, history, LeaveGuard, Goto
<1>1. ASSUME NEW t \in Threads, Register(t)
      PROVE  Waits(x, l, m)' \/ phase'[m] = "free"
  BY <1>1 DEF Register
<1>2. ASSUME NEW t \in Threads, Unregister(t)
      PROVE  Waits(x, l, m)' \/ phase'[m] = "free"
  BY <1>2 DEF Unregister
<1>3. ASSUME NEW t \in Threads, LoadEpoche(t)
      PROVE  Waits(x, l, m)' \/ phase'[m] = "free"
  BY <1>3 DEF LoadEpoche
<1>4. ASSUME NEW t \in Threads, Announce(t)
      PROVE  Waits(x, l, m)' \/ phase'[m] = "free"
  BY <1>4 DEF Announce
<1>5. ASSUME NEW t \in Threads, Flush(t)
      PROVE  Waits(x, l, m)' \/ phase'[m] = "free"
  BY <1>5 DEF Flush
<1>6. ASSUME NEW t \in Threads, UnclaimNode(t)
      PROVE  Waits(x, l, m)' \/ phase'[m] = "free"
  BY <1>6 DEF UnclaimNode
<1>7. ASSUME NEW t \in Threads, Mark(t)
      PROVE  Waits(x, l, m)' \/ phase'[m] = "free"
  BY <1>7, MarkEffect
<1>8. ASSUME NEW t \in Threads, UnlinkNode(t)
      PROVE  Waits(x, l, m)' \/ phase'[m] = "free"
  BY <1>8 DEF UnlinkNode
<1>9. ASSUME NEW t \in Threads, ExitReadonly(t)
      PROVE  Waits(x, l, m)' \/ phase'[m] = "free"
  BY <1>9 DEF ExitReadonly
<1>10. ASSUME NEW t \in Threads, ExitEpoche(t)
      PROVE  Waits(x, l, m)' \/ phase'[m] = "free"
  BY <1>10 DEF ExitEpoche
<1>11. ASSUME NEW t \in Threads, DecideCleanup(t)
      PROVE  Waits(x, l, m)' \/ phase'[m] = "free"
  BY <1>11 DEF DecideCleanup
<1>12. ASSUME NEW t \in Threads, Withdraw(t)
      PROVE  Waits(x, l, m)' \/ phase'[m] = "free"
  BY <1>12 DEF Withdraw
<1>13. ASSUME NEW t \in Threads, BeginWalk(t)
      PROVE  Waits(x, l, m)' \/ phase'[m] = "free"
  BY <1>13 DEF BeginWalk
<1>14. ASSUME NEW t \in Threads, SkipLabel(t)
      PROVE  Waits(x, l, m)' \/ phase'[m] = "free"
  BY <1>14 DEF SkipLabel
<1>15. ASSUME NEW t \in Threads, OpenLabel(t)
      PROVE  Waits(x, l, m)' \/ phase'[m] = "free"
  BY <1>15 DEF OpenLabel
<1>16. ASSUME NEW t \in Threads, RemoveLabel(t)
      PROVE  Waits(x, l, m)' \/ phase'[m] = "free"
  BY <1>16 DEF RemoveLabel
<1>17. ASSUME NEW t \in Threads, EndWalk(t)
      PROVE  Waits(x, l, m)' \/ phase'[m] = "free"
  BY <1>17 DEF EndWalk
<1>18. ASSUME NEW t \in Threads, NEW n \in Nodes, LinkNode(t, n)
      PROVE  Waits(x, l, m)' \/ phase'[m] = "free"
  BY <1>18 DEF LinkNode
<1>19. ASSUME NEW t \in Threads, NEW n \in Nodes, ClaimNode(t, n)
      PROVE  Waits(x, l, m)' \/ phase'[m] = "free"
  BY <1>19 DEF ClaimNode
<1>20. ASSUME NEW t \in Threads, NEW u \in Threads, ScanLocal(t, u)
      PROVE  Waits(x, l, m)' \/ phase'[m] = "free"
  BY <1>20 DEF ScanLocal
<1>21. ASSUME NEW t \in Threads, NEW n \in Nodes, FreeNode(t, n)
      PROVE  Waits(x, l, m)' \/ phase'[m] = "free"
  <2>1. CASE m = n
    BY <1>21, <2>1 DEF FreeNode, TypeOK, HistoryTypes
  <2>2. CASE m # n
    BY <1>21, <2>2 DEF FreeNode, Waits, lists, TypeOK, SweepTypes
  <2> QED
    BY <2>1, <2>2
<1>22. CASE Destroy
  BY <1>22 DEF Destroy, Waits
<1>23. CASE UNCHANGED vars
  BY <1>23 DEF vars
<1> QED
  BY <1>1, <1>2, <1>3, <1>4, <1>5, <1>6, <1>7, <1>8, <1>9, <1>10, <1>11,
     <1>12, <1>13, <1>14, <1>15, <1>16, <1>17, <1>18, <1>19, <1>20, <1>21,
     <1>22, <1>23
  DEF Next, Guard, Removal, Cleanup


-----------------------------------------------------------------------------
(* Only marking a node, removing a label and the destructor relink labels. *)
LEMMA ListSteps ==
  ASSUME [Next]_vars
  PROVE  \/ UNCHANGED <<head, spare, count, label, made, chained>>
         \/ \E t \in Threads : Mark(t) \/ RemoveLabel(t)
         \/ Destroy
<1> DEFINE Kept == UNCHANGED <<head, spare, count, label, made, chained>>
<1> USE Sizes DEF lists, vars
<1>1. ASSUME NEW t \in Threads, Register(t)
      PROVE  Kept \/ (\E z \in Threads : Mark(z) \/ RemoveLabel(z)) \/ Destroy
  BY <1>1 DEF Register
<1>2. ASSUME NEW t \in Threads, Unregister(t)
      PROVE  Kept \/ (\E z \in Threads : Mark(z) \/ RemoveLabel(z)) \/ Destroy
  BY <1>2 DEF Unregister
<1>3. ASSUME NEW t \in Threads, LoadEpoche(t)
      PROVE  Kept \/ (\E z \in Threads : Mark(z) \/ RemoveLabel(z)) \/ Destroy
  BY <1>3 DEF LoadEpoche
<1>4. ASSUME NEW t \in Threads, Announce(t)
      PROVE  Kept \/ (\E z \in Threads : Mark(z) \/ RemoveLabel(z)) \/ Destroy
  BY <1>4 DEF Announce
<1>5. ASSUME NEW t \in Threads, Flush(t)
      PROVE  Kept \/ (\E z \in Threads : Mark(z) \/ RemoveLabel(z)) \/ Destroy
  BY <1>5 DEF Flush
<1>6. ASSUME NEW t \in Threads, UnclaimNode(t)
      PROVE  Kept \/ (\E z \in Threads : Mark(z) \/ RemoveLabel(z)) \/ Destroy
  BY <1>6 DEF UnclaimNode
<1>7. ASSUME NEW t \in Threads, Mark(t)
      PROVE  Kept \/ (\E z \in Threads : Mark(z) \/ RemoveLabel(z)) \/ Destroy
  BY <1>7
<1>8. ASSUME NEW t \in Threads, UnlinkNode(t)
      PROVE  Kept \/ (\E z \in Threads : Mark(z) \/ RemoveLabel(z)) \/ Destroy
  BY <1>8 DEF UnlinkNode
<1>9. ASSUME NEW t \in Threads, ExitReadonly(t)
      PROVE  Kept \/ (\E z \in Threads : Mark(z) \/ RemoveLabel(z)) \/ Destroy
  BY <1>9 DEF ExitReadonly
<1>10. ASSUME NEW t \in Threads, ExitEpoche(t)
      PROVE  Kept \/ (\E z \in Threads : Mark(z) \/ RemoveLabel(z)) \/ Destroy
  BY <1>10 DEF ExitEpoche
<1>11. ASSUME NEW t \in Threads, DecideCleanup(t)
      PROVE  Kept \/ (\E z \in Threads : Mark(z) \/ RemoveLabel(z)) \/ Destroy
  BY <1>11 DEF DecideCleanup
<1>12. ASSUME NEW t \in Threads, Withdraw(t)
      PROVE  Kept \/ (\E z \in Threads : Mark(z) \/ RemoveLabel(z)) \/ Destroy
  BY <1>12 DEF Withdraw
<1>13. ASSUME NEW t \in Threads, BeginWalk(t)
      PROVE  Kept \/ (\E z \in Threads : Mark(z) \/ RemoveLabel(z)) \/ Destroy
  BY <1>13 DEF BeginWalk
<1>14. ASSUME NEW t \in Threads, SkipLabel(t)
      PROVE  Kept \/ (\E z \in Threads : Mark(z) \/ RemoveLabel(z)) \/ Destroy
  BY <1>14 DEF SkipLabel
<1>15. ASSUME NEW t \in Threads, OpenLabel(t)
      PROVE  Kept \/ (\E z \in Threads : Mark(z) \/ RemoveLabel(z)) \/ Destroy
  BY <1>15 DEF OpenLabel
<1>16. ASSUME NEW t \in Threads, RemoveLabel(t)
      PROVE  Kept \/ (\E z \in Threads : Mark(z) \/ RemoveLabel(z)) \/ Destroy
  BY <1>16
<1>17. ASSUME NEW t \in Threads, EndWalk(t)
      PROVE  Kept \/ (\E z \in Threads : Mark(z) \/ RemoveLabel(z)) \/ Destroy
  BY <1>17 DEF EndWalk
<1>18. ASSUME NEW t \in Threads, NEW n \in Nodes, LinkNode(t, n)
      PROVE  Kept \/ (\E z \in Threads : Mark(z) \/ RemoveLabel(z)) \/ Destroy
  BY <1>18 DEF LinkNode
<1>19. ASSUME NEW t \in Threads, NEW n \in Nodes, ClaimNode(t, n)
      PROVE  Kept \/ (\E z \in Threads : Mark(z) \/ RemoveLabel(z)) \/ Destroy
  BY <1>19 DEF ClaimNode
<1>20. ASSUME NEW t \in Threads, NEW u \in Threads, ScanLocal(t, u)
      PROVE  Kept \/ (\E z \in Threads : Mark(z) \/ RemoveLabel(z)) \/ Destroy
  BY <1>20 DEF ScanLocal
<1>21. ASSUME NEW t \in Threads, NEW n \in Nodes, FreeNode(t, n)
      PROVE  Kept \/ (\E z \in Threads : Mark(z) \/ RemoveLabel(z)) \/ Destroy
  BY <1>21 DEF FreeNode
<1>22. CASE Destroy
  BY <1>22
<1>23. CASE UNCHANGED vars
  BY <1>23 DEF vars
<1> QED
  BY <1>1, <1>2, <1>3, <1>4, <1>5, <1>6, <1>7, <1>8, <1>9, <1>10, <1>11,
     <1>12, <1>13, <1>14, <1>15, <1>16, <1>17, <1>18, <1>19, <1>20, <1>21, <1>22,
     <1>23
  DEF Next, Guard, Removal, Cleanup

LEMMA Relabelled ==
  ASSUME IInv, NEW t \in Threads, RemoveLabel(t)
  PROVE  LET l == cur[t]
             p == prev[t]
         IN  /\ l \in Labels /\ l \in chained[t]
             /\ chained' = [chained EXCEPT ![t] = @ \ {l}]
             /\ head' = IF p = Nil THEN [head EXCEPT ![t] = label[l].next] ELSE head
             /\ spare' = [spare EXCEPT ![t] = l]
             /\ label'[l].next = spare[t]
             /\ p # Nil => /\ p \in chained[t] /\ p # l /\ label[p].next = l
                           /\ label'[p].next = label[l].next
             /\ \A k \in Labels : label'[k].nodes = label[k].nodes
             /\ \A k \in Labels : label'[k].epoche = label[k].epoche
             /\ \A k \in Labels \ {l, p} : label'[k] = label[k]
             /\ p = Nil => l = head[t]
             /\ made' = made
<1> DEFINE l == cur[t]
           p == prev[t]
<1>1. l \in Labels /\ l \in chained[t] /\ chained[t] \subseteq made[t]
  BY Sizes DEF RemoveLabel, IInv, Walks, TypeOK, SweepTypes, Apart
<1>2. p = Nil => l = head[t]
  BY DEF RemoveLabel, IInv, Walks
<1>3. ASSUME p # Nil PROVE p \in chained[t] /\ p \in Labels /\ p # l /\ label[p].next = l
  <2>1. p \in chained[t] /\ label[p].next = l
    BY <1>3 DEF RemoveLabel, IInv, Walks
  <2>2. p \in made[t] /\ p \in Labels
    BY <2>1 DEF IInv, Apart, TypeOK, ListTypes
  <2>3. PICK f \in [Labels -> Nat] : Descending(f, t)
    BY DEF IInv, Acyclic
  <2>4. f[l] < f[p]
    BY <1>1, <2>1, <2>2, <2>3, Sizes DEF Descending
  <2> QED
    BY <1>1, <2>1, <2>2, <2>4
<1>4. label' = [k \in Labels |->
                  CASE k = l -> [label[k] EXCEPT !.next = spare[t]]
                    [] k = p /\ k # l -> [label[k] EXCEPT !.next = label[l].next]
                    [] OTHER -> label[k]]
  BY DEF RemoveLabel
<1>5. \A k \in Labels : label[k] = [nodes |-> label[k].nodes, epoche |-> label[k].epoche,
                                    next |-> label[k].next]
  BY DEF IInv, TypeOK, ListTypes
<1>6. label'[l] = [label[l] EXCEPT !.next = spare[t]]
  BY <1>1, <1>4
<1>7. p # Nil => label'[p] = [label[p] EXCEPT !.next = label[l].next]
  BY <1>3, <1>4
<1>8. \A k \in Labels : k # l /\ k # p => label'[k] = label[k]
  BY <1>4
<1>9. \A k \in Labels : label'[k].nodes = label[k].nodes /\ label'[k].epoche = label[k].epoche
  <2>1. label'[l].nodes = label[l].nodes /\ label'[l].epoche = label[l].epoche
    BY <1>1, <1>5, <1>6
  <2>2. p # Nil => label'[p].nodes = label[p].nodes /\ label'[p].epoche = label[p].epoche
    BY <1>3, <1>5, <1>7
  <2> QED
    BY <1>8, <2>1, <2>2, Sizes
<1>10. label'[l].next = spare[t] /\ (p # Nil => label'[p].next = label[l].next)
  BY <1>1, <1>3, <1>5, <1>6, <1>7
<1> QED
  BY <1>1, <1>2, <1>3, <1>8, <1>9, <1>10 DEF RemoveLabel

(* The label that a node is entered in, as the pointers have it.           *)
LEMMA Entering ==
  ASSUME IInv, NEW t \in Threads, NEW n \in Nodes, AddToHead(t, n) \/ AddLabel(t, n)
  PROVE  \/ /\ UNCHANGED <<head, spare, made, chained>>
            /\ \A k \in Labels : label'[k].next = label[k].next
         \/ \E l \in Labels :
            /\ l \notin chained[t]
            /\ \A u \in Threads : u # t => l \notin made[u]
            /\ \/ l = spare[t] /\ l \in made[t] /\ spare' = [spare EXCEPT ![t] = label[l].next]
               \/ l \notin made[t] /\ spare' = spare
            /\ \A k \in Labels \ {l} : label'[k] = label[k]
            /\ label'[l].next = head[t]
            /\ head' = [head EXCEPT ![t] = l]
            /\ made' = [made EXCEPT ![t] = @ \cup {l}]
            /\ chained' = [chained EXCEPT ![t] = @ \cup {l}]
<1> USE DEF IInv, TypeOK, ListTypes, Apart
<1>1. CASE AddToHead(t, n)
  BY <1>1, Sizes DEF AddToHead
<1>2. CASE AddLabel(t, n)
  <2>1. PICK l \in Labels :
          /\ IF spare[t] # Nil
             THEN l = spare[t] /\ spare' = [spare EXCEPT ![t] = label[l].next]
             ELSE l \notin UNION {made[u] : u \in Threads} /\ UNCHANGED spare
          /\ label' = [label EXCEPT ![l] =
                 [nodes |-> {n}, epoche |-> currentEpoche, next |-> head[t]]]
          /\ head' = [head EXCEPT ![t] = l]
          /\ made' = [made EXCEPT ![t] = @ \cup {l}]
          /\ chained' = [chained EXCEPT ![t] = @ \cup {l}]
    BY <1>2 DEF AddLabel
  <2>2. l \notin chained[t] /\ \A u \in Threads : u # t => l \notin made[u]
    BY <2>1
  <2>3. \/ l = spare[t] /\ l \in made[t] /\ spare' = [spare EXCEPT ![t] = label[l].next]
        \/ l \notin made[t] /\ spare' = spare
    BY <2>1
  <2>4. label'[l].next = head[t] /\ \A k \in Labels \ {l} : label'[k] = label[k]
    BY <2>1
  <2> QED
    BY <2>1, <2>2, <2>3, <2>4
<1> QED
  BY <1>1, <1>2

LEMMA ApartStep ==
  ASSUME IInv, [Next]_vars
  PROVE  Apart'
<1> USE DEF IInv, Apart
<1>1. CASE UNCHANGED <<head, spare, label, made, chained>>
  BY <1>1
<1>2. ASSUME NEW t \in Threads, Mark(t) PROVE Apart'
  <2>1. held[t] \in Nodes
    BY <1>2, Sizes DEF Mark, Holders, TypeOK, EpochTypes
  <2>2. AddToHead(t, held[t]) \/ AddLabel(t, held[t])
    BY <1>2 DEF Mark
  <2>3. CASE /\ UNCHANGED <<head, spare, made, chained>>
             /\ \A k \in Labels : label'[k].next = label[k].next
    BY <2>3 DEF TypeOK, ListTypes
  <2>4. ASSUME NEW l \in Labels,
               l \notin chained[t],
               \A u \in Threads : u # t => l \notin made[u],
               \/ l = spare[t] /\ l \in made[t] /\ spare' = [spare EXCEPT ![t] = label[l].next]
               \/ l \notin made[t] /\ spare' = spare,
               \A k \in Labels \ {l} : label'[k] = label[k],
               label'[l].next = head[t],
               head' = [head EXCEPT ![t] = l],
               made' = [made EXCEPT ![t] = @ \cup {l}],
               chained' = [chained EXCEPT ![t] = @ \cup {l}]
        PROVE  Apart'
    BY <2>4, Sizes DEF TypeOK, ListTypes
  <2> QED
    BY <2>1, <2>2, <2>3, <2>4, Entering
<1>3. ASSUME NEW t \in Threads, RemoveLabel(t) PROVE Apart'
  <2> DEFINE l == cur[t]
             p == prev[t]
  <2>1. /\ l \in Labels /\ l \in chained[t] /\ l \in made[t]
        /\ p # Nil => /\ p \in chained[t] /\ p \in made[t] /\ p # l /\ label[p].next = l
                      /\ label'[p].next = label[l].next
        /\ label'[l].next = spare[t]
        /\ \A k \in Labels \ {l, p} : label'[k] = label[k]
        /\ p = Nil => l = head[t]
        /\ made \in [Threads -> SUBSET Labels]
    BY <1>3, Relabelled DEF TypeOK, ListTypes
  <2>2. /\ chained' = [chained EXCEPT ![t] = @ \ {l}]
        /\ chained'[t] = chained[t] \ {l}
        /\ head' = IF p = Nil THEN [head EXCEPT ![t] = label[l].next] ELSE head
        /\ head'[t] = IF p = Nil THEN label[l].next ELSE head[t]
        /\ spare' = [spare EXCEPT ![t] = l] /\ spare'[t] = l
        /\ made' = made
    BY <1>3, Relabelled DEF TypeOK, ListTypes
  <2>3. ASSUME NEW u \in Threads, u # t
        PROVE  /\ \A k \in made[u] : label'[k] = label[k]
               /\ chained'[u] = chained[u] /\ head'[u] = head[u] /\ spare'[u] = spare[u]
    BY <2>1, <2>2, <2>3, Sizes DEF TypeOK, ListTypes
  <2>4. label[l].next # Nil => label[l].next \in chained[t] \ {l}
    BY <2>1, Sizes
  <2>5. /\ chained'[t] \subseteq made[t]
        /\ head'[t] \in chained'[t] \cup {Nil}
        /\ spare'[t] \in made[t] \ chained'[t]
    BY <2>1, <2>2, <2>4, Sizes
  <2>6. ASSUME NEW k \in made[t], label'[k].next # Nil
        PROVE  /\ label'[k].next \in made[t] \ {head'[t], spare'[t]}
               /\ label'[k].next \in chained'[t] <=> k \in chained'[t]
    <3>1. CASE k = l
      BY <2>1, <2>2, <2>5, <2>6, <3>1, Sizes
    <3>2. CASE k # l /\ k = p
      BY <2>1, <2>2, <2>4, <2>5, <2>6, <3>2, Sizes
    <3>3. CASE k # l /\ k # p
      BY <2>1, <2>2, <2>4, <2>5, <2>6, <3>3, Sizes
    <3> QED
      BY <3>1, <3>2, <3>3
  <2>7. ASSUME NEW j \in made[t], NEW k \in made[t],
               label'[k].next # Nil, label'[j].next = label'[k].next
        PROVE  j = k
    BY <2>1, <2>4, <2>7, Sizes
  <2> QED
    BY <2>2, <2>3, <2>5, <2>6, <2>7
<1>4. CASE Destroy
  BY <1>4 DEF Destroy
<1> QED
  BY <1>1, <1>2, <1>3, <1>4, ListSteps

LEMMA AcyclicStep ==
  ASSUME IInv, [Next]_vars
  PROVE  Acyclic'
<1> USE DEF IInv, Acyclic
<1>1. CASE UNCHANGED <<head, spare, label, made, chained>>
  BY <1>1 DEF Descending
<1>2. ASSUME NEW t \in Threads, Mark(t) PROVE Acyclic'
  <2>1. held[t] \in Nodes
    BY <1>2, Sizes DEF Mark, Holders, TypeOK, EpochTypes
  <2>2. AddToHead(t, held[t]) \/ AddLabel(t, held[t])
    BY <1>2 DEF Mark
  <2>3. CASE /\ UNCHANGED <<head, spare, made, chained>>
             /\ \A k \in Labels : label'[k].next = label[k].next
    BY <2>3 DEF TypeOK, ListTypes, Descending
  <2>4. ASSUME NEW l \in Labels,
               l \notin chained[t],
               \A u \in Threads : u # t => l \notin made[u],
               \/ l = spare[t] /\ l \in made[t] /\ spare' = [spare EXCEPT ![t] = label[l].next]
               \/ l \notin made[t] /\ spare' = spare,
               \A k \in Labels \ {l} : label'[k] = label[k],
               label'[l].next = head[t],
               head' = [head EXCEPT ![t] = l],
               made' = [made EXCEPT ![t] = @ \cup {l}],
               chained' = [chained EXCEPT ![t] = @ \cup {l}],
               NEW u \in Threads
        PROVE  \E f \in [Labels -> Nat] : Descending(f, u)'
    <3>1. PICK f \in [Labels -> Nat] : Descending(f, u)
      OBVIOUS
    <3>2. CASE u # t
      <4>1. \A k \in made'[u] : k \in Labels \ {l} /\ k \in made[u]
        BY <2>4, <3>2 DEF TypeOK, ListTypes
      <4> QED
        BY <2>4, <3>1, <4>1 DEF Descending
    <3>3. CASE u = t
      <4> DEFINE g == [f EXCEPT ![l] = IF head[t] = Nil THEN 0 ELSE f[head[t]] + 1]
      <4>1. head[t] # Nil => head[t] \in Labels /\ head[t] # l /\ head[t] \in chained[t]
        BY <2>4 DEF Apart, TypeOK, ListTypes
      <4>2. g \in [Labels -> Nat] /\ g[l] = IF head[t] = Nil THEN 0 ELSE f[head[t]] + 1
        BY <4>1
      <4>3. \A k \in Labels \ {l} : g[k] = f[k]
        OBVIOUS
      <4>4. ASSUME NEW k \in made'[u], label'[k].next # Nil
            PROVE  g[label'[k].next] < g[k]
        <5>1. CASE k = l
          BY <2>4, <4>1, <4>2, <4>3, <4>4, <5>1
        <5>2. CASE k # l
          <6>1. k \in made[t] /\ k \in Labels /\ label'[k].next = label[k].next
            BY <2>4, <3>3, <5>2 DEF TypeOK, ListTypes
          <6>2. label[k].next \in made[t] /\ label[k].next # l
            BY <2>4, <4>4, <6>1 DEF Apart
          <6>3. label[k].next \in Labels /\ f[label[k].next] < f[k]
            BY <3>1, <3>3, <4>4, <6>1, <6>2 DEF Descending, TypeOK, ListTypes
          <6> QED
            BY <4>3, <5>2, <6>1, <6>2, <6>3
        <5> QED
          BY <5>1, <5>2
      <4> HIDE DEF g
      <4> QED
        BY <4>2, <4>4 DEF Descending
    <3> QED
      BY <3>2, <3>3
  <2> QED
    BY <2>1, <2>2, <2>3, <2>4, Entering
<1>3. ASSUME NEW t \in Threads, RemoveLabel(t), NEW u \in Threads
      PROVE  \E f \in [Labels -> Nat] : Descending(f, u)'
  <2> DEFINE l == cur[t]
             p == prev[t]
  <2>1. /\ l \in Labels /\ l \in chained[t] /\ l \in made[t]
        /\ p # Nil => p \in made[t] /\ p # l /\ label[p].next = l /\ label'[p].next = label[l].next
        /\ label'[l].next = spare[t]
        /\ \A k \in Labels \ {l, p} : label'[k] = label[k]
        /\ p = Nil => l = head[t]
        /\ made' = made /\ made \in [Threads -> SUBSET Labels]
    BY <1>3, Relabelled DEF TypeOK, ListTypes, Apart
  <2>2. PICK f \in [Labels -> Nat] : Descending(f, u)
    OBVIOUS
  <2>3. CASE u # t
    <3>1. \A k \in made[u] : k \in Labels \ {l, p}
      BY <2>1, <2>3, Sizes DEF Apart
    <3> QED
      BY <2>1, <2>2, <3>1 DEF Descending
  <2>4. CASE u = t
    <3> DEFINE g == [f EXCEPT ![l] = IF spare[t] = Nil THEN 0 ELSE f[spare[t]] + 1]
    <3>1. spare[t] # Nil => spare[t] \in Labels /\ spare[t] # l
      BY <2>1 DEF Apart, TypeOK, ListTypes
    <3>2. g \in [Labels -> Nat] /\ g[l] = IF spare[t] = Nil THEN 0 ELSE f[spare[t]] + 1
      BY <2>1, <3>1
    <3>3. \A k \in Labels \ {l} : g[k] = f[k]
      OBVIOUS
    <3>4. ASSUME NEW k \in made[t], label'[k].next # Nil
          PROVE  g[label'[k].next] < g[k]
      <4>1. k \in Labels /\ \A j \in made[t] : label[j].next # Nil =>
                                label[j].next \in Labels /\ f[label[j].next] < f[j]
        BY <2>1, <2>2, <2>4 DEF Descending, Apart
      <4>2. CASE k = l
        BY <2>1, <3>1, <3>2, <3>3, <3>4, <4>2
      <4>3. CASE k # l /\ k = p
        <5>1. /\ label'[k].next = label[l].next /\ label[l].next # Nil
              /\ label[l].next \in Labels /\ label[k].next = l
              /\ f[label[l].next] < f[l] /\ f[l] < f[k]
          BY <2>1, <3>4, <4>1, <4>3, Sizes
        <5>2. label[l].next # l
          BY <5>1
        <5> QED
          BY <2>1, <3>3, <4>1, <4>3, <5>1, <5>2
      <4>4. CASE k # l /\ k # p
        <5>1. label'[k].next = label[k].next
          BY <2>1, <4>1, <4>4
        <5>2. label[k].next # l
          BY <2>1, <3>4, <4>4, <5>1, Sizes DEF Apart
        <5> QED
          BY <3>3, <3>4, <4>1, <4>4, <5>1, <5>2
      <4> QED
        BY <4>2, <4>3, <4>4
    <3> HIDE DEF g
    <3> QED
      BY <2>1, <2>4, <3>2, <3>4 DEF Descending
  <2> QED
    BY <2>3, <2>4
<1>4. CASE Destroy
  BY <1>4 DEF Destroy, Descending
<1> QED
  BY <1>1, <1>2, <1>3, <1>4, ListSteps

LEMMA WalksStep ==
  ASSUME IInv, [Next]_vars
  PROVE  Walks'
<1> USE Sizes DEF IInv, Walks, Apart, TypeOK, EpochTypes, ListTypes,
       SweepTypes, HistoryTypes, epochs, lists, sweep, history, LeaveGuard, Goto
<1>1. ASSUME NEW t \in Threads, Register(t) PROVE Walks'
  BY <1>1 DEF Register
<1>2. ASSUME NEW t \in Threads, Unregister(t) PROVE Walks'
  BY <1>2 DEF Unregister
<1>3. ASSUME NEW t \in Threads, LoadEpoche(t) PROVE Walks'
  BY <1>3 DEF LoadEpoche
<1>4. ASSUME NEW t \in Threads, Announce(t) PROVE Walks'
  BY <1>4 DEF Announce
<1>5. ASSUME NEW t \in Threads, Flush(t) PROVE Walks'
  BY <1>5 DEF Flush
<1>6. ASSUME NEW t \in Threads, UnclaimNode(t) PROVE Walks'
  BY <1>6 DEF UnclaimNode
<1>7. ASSUME NEW t \in Threads, Mark(t) PROVE Walks'
  <2> HIDE DEF Walks, Apart, EpochTypes, ListTypes, SweepTypes, HistoryTypes,
               epochs, lists, sweep, history, LeaveGuard, Goto
  <2>1. held[t] \in Nodes
    BY <1>7, Sizes DEF Mark, Holders, TypeOK, EpochTypes
  <2>2. AddToHead(t, held[t]) \/ AddLabel(t, held[t])
    BY <1>7 DEF Mark
  <2>3. PICK l \in Labels :
           /\ \A u \in Threads : u # t => l \notin made[u]
           /\ chained' = [chained EXCEPT ![t] = @ \cup {l}]
           /\ \A k \in Labels \ {l} : label'[k] = label[k]
    BY <2>1, <2>2, AddCases
  <2>4. \A u \in Threads : u # t => head'[u] = head[u]
    BY <2>2 DEF AddToHead, AddLabel, TypeOK, ListTypes
  <2>5. \A u \in Threads : u # t => \A k \in chained[u] : label'[k] = label[k]
    BY <2>3 DEF Apart, TypeOK, ListTypes
  <2>6. \A u \in Threads : u # t => chained'[u] = chained[u]
    BY <2>3 DEF TypeOK, ListTypes
  <2>7. ASSUME NEW u \in Threads, u # t PROVE pc'[u] = pc[u]
    BY <1>7, <2>7 DEF Mark, Goto, TypeOK, EpochTypes
  <2>8. pc[t] \in {"claimed", "unlinked"} /\ pc'[t] \in {"marked", "in"} /\ UNCHANGED sweep
    BY <1>7 DEF Mark, Goto, TypeOK, EpochTypes
  <2> QED
    BY <2>4, <2>5, <2>6, <2>7, <2>8, Sizes DEF Walks, sweep
<1>8. ASSUME NEW t \in Threads, UnlinkNode(t) PROVE Walks'
  BY <1>8 DEF UnlinkNode
<1>9. ASSUME NEW t \in Threads, ExitReadonly(t) PROVE Walks'
  BY <1>9 DEF ExitReadonly
<1>10. ASSUME NEW t \in Threads, ExitEpoche(t) PROVE Walks'
  BY <1>10 DEF ExitEpoche
<1>11. ASSUME NEW t \in Threads, DecideCleanup(t) PROVE Walks'
  BY <1>11 DEF DecideCleanup
<1>12. ASSUME NEW t \in Threads, Withdraw(t) PROVE Walks'
  BY <1>12 DEF Withdraw
<1>13. ASSUME NEW t \in Threads, BeginWalk(t) PROVE Walks'
  BY <1>13 DEF BeginWalk
<1>14. ASSUME NEW t \in Threads, SkipLabel(t) PROVE Walks'
  BY <1>14 DEF SkipLabel
<1>15. ASSUME NEW t \in Threads, OpenLabel(t) PROVE Walks'
  BY <1>15 DEF OpenLabel
<1>16. ASSUME NEW t \in Threads, RemoveLabel(t) PROVE Walks'
  <2> HIDE DEF Walks, Apart, EpochTypes, ListTypes, SweepTypes, HistoryTypes,
               epochs, lists, sweep, history, LeaveGuard, Goto
  <2> DEFINE l == cur[t]
             p == prev[t]
  <2>1. /\ l \in Labels /\ l \in chained[t] /\ l \in made[t]
        /\ p # Nil => /\ p \in chained[t] /\ p # l /\ label[p].next = l
                      /\ label'[p].next = label[l].next
        /\ \A k \in Labels \ {l, p} : label'[k] = label[k]
        /\ p = Nil => l = head[t]
    BY <1>16, Relabelled DEF Apart
  <2>2. /\ chained' = [chained EXCEPT ![t] = @ \ {l}]
        /\ head' = IF p = Nil THEN [head EXCEPT ![t] = label[l].next] ELSE head
        /\ cur' = [cur EXCEPT ![t] = label[l].next]
        /\ pc' = [pc EXCEPT ![t] = "walk"]
        /\ prev' = prev /\ unscanned' = unscanned /\ pending' = pending /\ oldest' = oldest
        /\ pc[t] = "free" /\ pending[t] = {}
    BY <1>16, Relabelled DEF RemoveLabel, Goto, sweep
  <2>3. label[l].next # Nil => label[l].next \in chained[t] /\ label[l].next # l
    <3>1. ASSUME label[l].next = l, l # Nil PROVE FALSE
      BY <2>1, <3>1, Sizes DEF Apart
    <3> QED
      BY <2>1, <3>1, Sizes DEF Apart
  <2>4. ASSUME NEW u \in Threads, u # t
        PROVE  /\ \A k \in chained[u] : label'[k] = label[k]
               /\ chained'[u] = chained[u] /\ head'[u] = head[u] /\ cur'[u] = cur[u]
               /\ pc'[u] = pc[u]
    <3>1. /\ chained'[u] = chained[u] /\ head'[u] = head[u] /\ cur'[u] = cur[u]
          /\ pc'[u] = pc[u]
      BY <2>2, <2>4 DEF TypeOK, ListTypes, SweepTypes, EpochTypes
    <3>2. ASSUME NEW k \in chained[u] PROVE k \in Labels /\ k \notin made[t]
      BY <2>4, <3>2 DEF Apart, TypeOK, ListTypes
    <3>3. p # Nil => p \in made[t]
      BY <2>1 DEF Apart
    <3>4. \A k \in chained[u] : label'[k] = label[k]
      BY <2>1, <3>2, <3>3, Sizes
    <3> QED
      BY <3>1, <3>4
  <2>5. /\ chained'[t] = chained[t] \ {l} /\ cur'[t] = label[l].next /\ pc'[t] = "walk"
        /\ head'[t] = IF p = Nil THEN label[l].next ELSE head[t]
    BY <2>2 DEF TypeOK, ListTypes, SweepTypes, EpochTypes
  <2> QED
    BY <2>1, <2>2, <2>3, <2>4, <2>5, Sizes DEF Walks
<1>17. ASSUME NEW t \in Threads, EndWalk(t) PROVE Walks'
  BY <1>17 DEF EndWalk
<1>18. ASSUME NEW t \in Threads, NEW n \in Nodes, LinkNode(t, n) PROVE Walks'
  BY <1>18 DEF LinkNode
<1>19. ASSUME NEW t \in Threads, NEW n \in Nodes, ClaimNode(t, n) PROVE Walks'
  BY <1>19 DEF ClaimNode
<1>20. ASSUME NEW t \in Threads, NEW u \in Threads, ScanLocal(t, u) PROVE Walks'
  BY <1>20 DEF ScanLocal
<1>21. ASSUME NEW t \in Threads, NEW n \in Nodes, FreeNode(t, n) PROVE Walks'
  BY <1>21 DEF FreeNode
<1>22. CASE Destroy
  BY <1>22 DEF Destroy
<1>23. CASE UNCHANGED vars
  BY <1>23 DEF vars
<1> QED
  BY <1>1, <1>2, <1>3, <1>4, <1>5, <1>6, <1>7, <1>8, <1>9, <1>10, <1>11,
     <1>12, <1>13, <1>14, <1>15, <1>16, <1>17, <1>18, <1>19, <1>20, <1>21, <1>22,
     <1>23
  DEF Next, Guard, Removal, Cleanup

LEMMA GuardsStep ==
  ASSUME IInv, [Next]_vars
  PROVE  Guards'
<1> USE Sizes DEF IInv, Guards, Working, Announced, Drained, None, MAX,
       TypeOK, EpochTypes, ListTypes, SweepTypes, HistoryTypes, epochs, lists,
       sweep, history, LeaveGuard, Goto
<1>1. ASSUME NEW t \in Threads, Register(t) PROVE Guards'
  BY <1>1 DEF Register
<1>2. ASSUME NEW t \in Threads, Unregister(t) PROVE Guards'
  BY <1>2 DEF Unregister
<1>3. ASSUME NEW t \in Threads, LoadEpoche(t) PROVE Guards'
  BY <1>3 DEF LoadEpoche
<1>4. ASSUME NEW t \in Threads, Announce(t) PROVE Guards'
  BY <1>4 DEF Announce
<1>5. ASSUME NEW t \in Threads, Flush(t) PROVE Guards'
  BY <1>5 DEF Flush
<1>6. ASSUME NEW t \in Threads, UnclaimNode(t) PROVE Guards'
  BY <1>6 DEF UnclaimNode
<1>7. ASSUME NEW t \in Threads, Mark(t) PROVE Guards'
  BY <1>7, SMTT(30) DEF Mark
<1>8. ASSUME NEW t \in Threads, UnlinkNode(t) PROVE Guards'
  BY <1>8 DEF UnlinkNode
<1>9. ASSUME NEW t \in Threads, ExitReadonly(t) PROVE Guards'
  BY <1>9 DEF ExitReadonly
<1>10. ASSUME NEW t \in Threads, ExitEpoche(t) PROVE Guards'
  BY <1>10 DEF ExitEpoche
<1>11. ASSUME NEW t \in Threads, DecideCleanup(t) PROVE Guards'
  BY <1>11 DEF DecideCleanup
<1>12. ASSUME NEW t \in Threads, Withdraw(t) PROVE Guards'
  BY <1>12 DEF Withdraw
<1>13. ASSUME NEW t \in Threads, BeginWalk(t) PROVE Guards'
  BY <1>13 DEF BeginWalk
<1>14. ASSUME NEW t \in Threads, SkipLabel(t) PROVE Guards'
  BY <1>14 DEF SkipLabel
<1>15. ASSUME NEW t \in Threads, OpenLabel(t) PROVE Guards'
  BY <1>15 DEF OpenLabel
<1>16. ASSUME NEW t \in Threads, RemoveLabel(t) PROVE Guards'
  BY <1>16 DEF RemoveLabel
<1>17. ASSUME NEW t \in Threads, EndWalk(t) PROVE Guards'
  BY <1>17 DEF EndWalk
<1>18. ASSUME NEW t \in Threads, NEW n \in Nodes, LinkNode(t, n) PROVE Guards'
  BY <1>18 DEF LinkNode
<1>19. ASSUME NEW t \in Threads, NEW n \in Nodes, ClaimNode(t, n) PROVE Guards'
  BY <1>19 DEF ClaimNode
<1>20. ASSUME NEW t \in Threads, NEW u \in Threads, ScanLocal(t, u)
      PROVE  Guards'
  BY <1>20 DEF ScanLocal
<1>21. ASSUME NEW t \in Threads, NEW n \in Nodes, FreeNode(t, n) PROVE Guards'
  BY <1>21 DEF FreeNode
<1>22. CASE Destroy
  BY <1>22 DEF Destroy
<1>23. CASE UNCHANGED vars
  BY <1>23 DEF vars
<1> QED
  BY <1>1, <1>2, <1>3, <1>4, <1>5, <1>6, <1>7, <1>8, <1>9, <1>10, <1>11,
     <1>12, <1>13, <1>14, <1>15, <1>16, <1>17, <1>18, <1>19, <1>20, <1>21, <1>22,
     <1>23
  DEF Next, Guard, Removal, Cleanup

LEMMA HoldersStep ==
  ASSUME IInv, [Next]_vars
  PROVE  Holders'
<1> USE Sizes DEF IInv, Holders, TypeOK, EpochTypes, ListTypes, SweepTypes,
       HistoryTypes, epochs, lists, sweep, history, LeaveGuard, Goto
<1>1. ASSUME NEW t \in Threads, Register(t) PROVE Holders'
  BY <1>1 DEF Register
<1>2. ASSUME NEW t \in Threads, Unregister(t) PROVE Holders'
  BY <1>2 DEF Unregister
<1>3. ASSUME NEW t \in Threads, LoadEpoche(t) PROVE Holders'
  BY <1>3 DEF LoadEpoche
<1>4. ASSUME NEW t \in Threads, Announce(t) PROVE Holders'
  BY <1>4 DEF Announce
<1>5. ASSUME NEW t \in Threads, Flush(t) PROVE Holders'
  BY <1>5 DEF Flush
<1>6. ASSUME NEW t \in Threads, UnclaimNode(t) PROVE Holders'
  BY <1>6 DEF UnclaimNode
<1>7. ASSUME NEW t \in Threads, Mark(t) PROVE Holders'
  BY <1>7 DEF Mark
<1>8. ASSUME NEW t \in Threads, UnlinkNode(t) PROVE Holders'
  BY <1>8 DEF UnlinkNode
<1>9. ASSUME NEW t \in Threads, ExitReadonly(t) PROVE Holders'
  BY <1>9 DEF ExitReadonly
<1>10. ASSUME NEW t \in Threads, ExitEpoche(t) PROVE Holders'
  BY <1>10 DEF ExitEpoche
<1>11. ASSUME NEW t \in Threads, DecideCleanup(t) PROVE Holders'
  BY <1>11 DEF DecideCleanup
<1>12. ASSUME NEW t \in Threads, Withdraw(t) PROVE Holders'
  BY <1>12 DEF Withdraw
<1>13. ASSUME NEW t \in Threads, BeginWalk(t) PROVE Holders'
  BY <1>13 DEF BeginWalk
<1>14. ASSUME NEW t \in Threads, SkipLabel(t) PROVE Holders'
  BY <1>14 DEF SkipLabel
<1>15. ASSUME NEW t \in Threads, OpenLabel(t) PROVE Holders'
  BY <1>15 DEF OpenLabel
<1>16. ASSUME NEW t \in Threads, RemoveLabel(t) PROVE Holders'
  BY <1>16 DEF RemoveLabel
<1>17. ASSUME NEW t \in Threads, EndWalk(t) PROVE Holders'
  BY <1>17 DEF EndWalk
<1>18. ASSUME NEW t \in Threads, NEW n \in Nodes, LinkNode(t, n) PROVE Holders'
  BY <1>18 DEF LinkNode
<1>19. ASSUME NEW t \in Threads, NEW n \in Nodes, ClaimNode(t, n) PROVE Holders'
  BY <1>19, SMTT(30) DEF ClaimNode
<1>20. ASSUME NEW t \in Threads, NEW u \in Threads, ScanLocal(t, u)
      PROVE  Holders'
  BY <1>20 DEF ScanLocal
<1>21. ASSUME NEW t \in Threads, NEW n \in Nodes, FreeNode(t, n) PROVE Holders'
  <2> HIDE DEF Holders, EpochTypes, ListTypes, SweepTypes, HistoryTypes,
               epochs, lists, sweep, history, LeaveGuard, Goto
  <2>1. pc[t] = "free" /\ n \in pending[t] /\ n \in label[cur[t]].nodes
        /\ cur[t] \in chained[t] /\ cur[t] \in Labels
    BY <1>21, Sizes DEF FreeNode, Walks, TypeOK, SweepTypes
  <2>2. Waits(t, cur[t], n)
    BY <2>1 DEF Waits
  <2>3. phase[n] = "unlinked" /\ \A u \in Threads : held[u] = n => pc[u] = "marked"
    BY <2>1, <2>2 DEF Queued
  <2>4. \A u \in Threads : held[u] # n
    BY <2>3, Sizes DEF Holders
  <2>5. \A m \in Nodes : phase'[m] = IF m = n THEN "free" ELSE phase[m]
    BY <1>21 DEF FreeNode, TypeOK, HistoryTypes
  <2>6. \A u \in Threads : held[u] # Nil => held[u] \in Nodes
    BY DEF TypeOK, EpochTypes
  <2>7. UNCHANGED <<pc, held>>
    BY <1>21 DEF FreeNode, epochs
  <2> QED
    BY <2>3, <2>4, <2>5, <2>6, <2>7 DEF Holders
<1>22. CASE Destroy
  BY <1>22 DEF Destroy
<1>23. CASE UNCHANGED vars
  BY <1>23 DEF vars
<1> QED
  BY <1>1, <1>2, <1>3, <1>4, <1>5, <1>6, <1>7, <1>8, <1>9, <1>10, <1>11,
     <1>12, <1>13, <1>14, <1>15, <1>16, <1>17, <1>18, <1>19, <1>20, <1>21, <1>22,
     <1>23
  DEF Next, Guard, Removal, Cleanup

LEMMA QueuedStep ==
  ASSUME IInv, [Next]_vars
  PROVE  Queued'
<1> USE Sizes DEF IInv, Queued, Holders, Walks, Waits, TypeOK, EpochTypes,
       ListTypes, SweepTypes, HistoryTypes, epochs, lists, sweep, history,
       LeaveGuard, Goto
<1>1. ASSUME NEW t \in Threads, Register(t) PROVE Queued'
  BY <1>1 DEF Register
<1>2. ASSUME NEW t \in Threads, Unregister(t) PROVE Queued'
  BY <1>2 DEF Unregister
<1>3. ASSUME NEW t \in Threads, LoadEpoche(t) PROVE Queued'
  BY <1>3 DEF LoadEpoche
<1>4. ASSUME NEW t \in Threads, Announce(t) PROVE Queued'
  BY <1>4 DEF Announce
<1>5. ASSUME NEW t \in Threads, Flush(t) PROVE Queued'
  BY <1>5 DEF Flush
<1>6. ASSUME NEW t \in Threads, UnclaimNode(t) PROVE Queued'
  BY <1>6 DEF UnclaimNode
<1>7. ASSUME NEW t \in Threads, Mark(t) PROVE Queued'
  <2> HIDE DEF Queued, Holders, Walks, Waits, EpochTypes, ListTypes,
               SweepTypes, HistoryTypes, epochs, lists, sweep, history,
               LeaveGuard, Goto
  <2>1. PICK l \in Labels :
           \A u \in Threads, k \in Labels, n \in Nodes :
              Waits(u, k, n)' <=> Waits(u, k, n) \/ (u = t /\ k = l /\ n = held[t])
    BY <1>7, MarkEffect
  <2>2. /\ held[t] \in Nodes /\ phase' = phase
        /\ \A u \in Threads : u # t => pc'[u] = pc[u] /\ held'[u] = held[u]
        /\ \/ pc[t] = "claimed" /\ pc'[t] = "marked" /\ held'[t] = held[t]
           \/ pc[t] = "unlinked" /\ pc'[t] = "in" /\ held'[t] = Nil
    BY <1>7, Sizes DEF Mark, Goto, Holders, TypeOK, EpochTypes, history
  <2>3. \A u \in Threads, k \in Labels : ~ Waits(u, k, held[t])
    BY <2>2 DEF Queued
  <2>4. \A u \in Threads : u # t => held[u] # held[t]
    BY <2>2, Sizes DEF Holders
  <2>5. ASSUME NEW x \in Threads, NEW k \in Labels, NEW n \in Nodes, Waits(x, k, n)'
        PROVE  /\ phase'[n] = "unlinked" \/ (held'[x] = n /\ pc'[x] = "marked")
               /\ \A u \in Threads : held'[u] = n => pc'[u] = "marked"
    <3>1. CASE Waits(x, k, n)
      BY <2>2, <2>3, <3>1, Sizes DEF Queued
    <3>2. CASE x = t /\ n = held[t]
      BY <2>2, <2>4, <3>2, Sizes DEF Holders
    <3> QED
      BY <2>1, <2>5, <3>1, <3>2
  <2>6. ASSUME NEW x \in Threads, NEW k \in Labels, NEW n \in Nodes, Waits(x, k, n)',
               NEW u \in Threads, NEW j \in Labels, Waits(u, j, n)'
        PROVE  x = u /\ j = k
    BY <2>1, <2>3, <2>6 DEF Queued
  <2> QED
    BY <2>5, <2>6 DEF Queued
<1>8. ASSUME NEW t \in Threads, UnlinkNode(t) PROVE Queued'
  <2> HIDE DEF Queued, Holders, Walks, Waits, EpochTypes, ListTypes,
               SweepTypes, HistoryTypes, epochs, lists, sweep, history,
               LeaveGuard, Goto
  <2>1. /\ held[t] \in Nodes
        /\ phase' = [phase EXCEPT ![held[t]] = "unlinked"] /\ phase'[held[t]] = "unlinked"
        /\ \A n \in Nodes \ {held[t]} : phase'[n] = phase[n]
        /\ \A u \in Threads : u # t => pc'[u] = pc[u] /\ held'[u] = held[u]
        /\ \/ pc[t] = "claimed" /\ pc'[t] = "unlinked" /\ held'[t] = held[t]
           \/ pc[t] = "marked" /\ pc'[t] = "in" /\ held'[t] = Nil
    BY <1>8, Sizes DEF UnlinkNode, Goto, Holders, TypeOK, EpochTypes, HistoryTypes
  <2>2. ASSUME NEW x \in Threads, NEW k \in Labels, NEW n \in Nodes, Waits(x, k, n)'
        PROVE  Waits(x, k, n)
    BY <1>8, <2>1, <2>2 DEF UnlinkNode, Waits, lists, sweep, Walks, TypeOK, EpochTypes
  <2> QED
    BY <2>1, <2>2, Sizes DEF Queued
<1>9. ASSUME NEW t \in Threads, ExitReadonly(t) PROVE Queued'
  BY <1>9 DEF ExitReadonly
<1>10. ASSUME NEW t \in Threads, ExitEpoche(t) PROVE Queued'
  BY <1>10 DEF ExitEpoche
<1>11. ASSUME NEW t \in Threads, DecideCleanup(t) PROVE Queued'
  BY <1>11 DEF DecideCleanup
<1>12. ASSUME NEW t \in Threads, Withdraw(t) PROVE Queued'
  BY <1>12 DEF Withdraw
<1>13. ASSUME NEW t \in Threads, BeginWalk(t) PROVE Queued'
  BY <1>13 DEF BeginWalk
<1>14. ASSUME NEW t \in Threads, SkipLabel(t) PROVE Queued'
  BY <1>14 DEF SkipLabel
<1>15. ASSUME NEW t \in Threads, OpenLabel(t) PROVE Queued'
  BY <1>15 DEF OpenLabel
<1>16. ASSUME NEW t \in Threads, RemoveLabel(t) PROVE Queued'
  BY <1>16 DEF RemoveLabel
<1>17. ASSUME NEW t \in Threads, EndWalk(t) PROVE Queued'
  BY <1>17 DEF EndWalk
<1>18. ASSUME NEW t \in Threads, NEW n \in Nodes, LinkNode(t, n) PROVE Queued'
  BY <1>18 DEF LinkNode
<1>19. ASSUME NEW t \in Threads, NEW n \in Nodes, ClaimNode(t, n) PROVE Queued'
  BY <1>19 DEF ClaimNode
<1>20. ASSUME NEW t \in Threads, NEW u \in Threads, ScanLocal(t, u)
      PROVE  Queued'
  BY <1>20 DEF ScanLocal
<1>21. ASSUME NEW t \in Threads, NEW n \in Nodes, FreeNode(t, n) PROVE Queued'
  BY <1>21 DEF FreeNode
<1>22. CASE Destroy
  BY <1>22 DEF Destroy
<1>23. CASE UNCHANGED vars
  BY <1>23 DEF vars
<1> QED
  BY <1>1, <1>2, <1>3, <1>4, <1>5, <1>6, <1>7, <1>8, <1>9, <1>10, <1>11,
     <1>12, <1>13, <1>14, <1>15, <1>16, <1>17, <1>18, <1>19, <1>20, <1>21, <1>22,
     <1>23
  DEF Next, Guard, Removal, Cleanup

LEMMA Unlinking ==
  ASSUME IInv, [Next]_vars, NEW n \in Nodes, phase'[n] = "unlinked", phase[n] # "unlinked"
  PROVE  \E z \in Threads : UnlinkNode(z) /\ held[z] = n
<1> USE Sizes DEF IInv, TypeOK, EpochTypes, HistoryTypes, epochs, lists,
       sweep, history, LeaveGuard, Goto
<1>1. ASSUME NEW t \in Threads, Register(t)
      PROVE  \E z \in Threads : UnlinkNode(z) /\ held[z] = n
  BY <1>1 DEF Register
<1>2. ASSUME NEW t \in Threads, Unregister(t)
      PROVE  \E z \in Threads : UnlinkNode(z) /\ held[z] = n
  BY <1>2 DEF Unregister
<1>3. ASSUME NEW t \in Threads, LoadEpoche(t)
      PROVE  \E z \in Threads : UnlinkNode(z) /\ held[z] = n
  BY <1>3 DEF LoadEpoche
<1>4. ASSUME NEW t \in Threads, Announce(t)
      PROVE  \E z \in Threads : UnlinkNode(z) /\ held[z] = n
  BY <1>4 DEF Announce
<1>5. ASSUME NEW t \in Threads, Flush(t)
      PROVE  \E z \in Threads : UnlinkNode(z) /\ held[z] = n
  BY <1>5 DEF Flush
<1>6. ASSUME NEW t \in Threads, UnclaimNode(t)
      PROVE  \E z \in Threads : UnlinkNode(z) /\ held[z] = n
  BY <1>6 DEF UnclaimNode
<1>7. ASSUME NEW t \in Threads, Mark(t)
      PROVE  \E z \in Threads : UnlinkNode(z) /\ held[z] = n
  BY <1>7 DEF Mark
<1>8. ASSUME NEW t \in Threads, UnlinkNode(t)
      PROVE  \E z \in Threads : UnlinkNode(z) /\ held[z] = n
  BY <1>8 DEF UnlinkNode
<1>9. ASSUME NEW t \in Threads, ExitReadonly(t)
      PROVE  \E z \in Threads : UnlinkNode(z) /\ held[z] = n
  BY <1>9 DEF ExitReadonly
<1>10. ASSUME NEW t \in Threads, ExitEpoche(t)
      PROVE  \E z \in Threads : UnlinkNode(z) /\ held[z] = n
  BY <1>10 DEF ExitEpoche
<1>11. ASSUME NEW t \in Threads, DecideCleanup(t)
      PROVE  \E z \in Threads : UnlinkNode(z) /\ held[z] = n
  BY <1>11 DEF DecideCleanup
<1>12. ASSUME NEW t \in Threads, Withdraw(t)
      PROVE  \E z \in Threads : UnlinkNode(z) /\ held[z] = n
  BY <1>12 DEF Withdraw
<1>13. ASSUME NEW t \in Threads, BeginWalk(t)
      PROVE  \E z \in Threads : UnlinkNode(z) /\ held[z] = n
  BY <1>13 DEF BeginWalk
<1>14. ASSUME NEW t \in Threads, SkipLabel(t)
      PROVE  \E z \in Threads : UnlinkNode(z) /\ held[z] = n
  BY <1>14 DEF SkipLabel
<1>15. ASSUME NEW t \in Threads, OpenLabel(t)
      PROVE  \E z \in Threads : UnlinkNode(z) /\ held[z] = n
  BY <1>15 DEF OpenLabel
<1>16. ASSUME NEW t \in Threads, RemoveLabel(t)
      PROVE  \E z \in Threads : UnlinkNode(z) /\ held[z] = n
  BY <1>16 DEF RemoveLabel
<1>17. ASSUME NEW t \in Threads, EndWalk(t)
      PROVE  \E z \in Threads : UnlinkNode(z) /\ held[z] = n
  BY <1>17 DEF EndWalk
<1>18. ASSUME NEW t \in Threads, NEW m \in Nodes, LinkNode(t, m)
      PROVE  \E z \in Threads : UnlinkNode(z) /\ held[z] = n
  BY <1>18 DEF LinkNode
<1>19. ASSUME NEW t \in Threads, NEW m \in Nodes, ClaimNode(t, m)
      PROVE  \E z \in Threads : UnlinkNode(z) /\ held[z] = n
  BY <1>19 DEF ClaimNode
<1>20. ASSUME NEW t \in Threads, NEW u \in Threads, ScanLocal(t, u)
      PROVE  \E z \in Threads : UnlinkNode(z) /\ held[z] = n
  BY <1>20 DEF ScanLocal
<1>21. ASSUME NEW t \in Threads, NEW m \in Nodes, FreeNode(t, m)
      PROVE  \E z \in Threads : UnlinkNode(z) /\ held[z] = n
  BY <1>21 DEF FreeNode
<1>22. CASE Destroy
  BY <1>22 DEF Destroy
<1>23. CASE UNCHANGED vars
  BY <1>23 DEF vars
<1> QED
  BY <1>1, <1>2, <1>3, <1>4, <1>5, <1>6, <1>7, <1>8, <1>9, <1>10, <1>11,
     <1>12, <1>13, <1>14, <1>15, <1>16, <1>17, <1>18, <1>19, <1>20, <1>21, <1>22,
     <1>23
  DEF Next, Guard, Removal, Cleanup

LEMMA Holding ==
  ASSUME IInv, [Next]_vars, NEW x \in Threads
  PROVE  \/ Mark(x)
         \/ UnlinkNode(x)
         \/ /\ pc[x] = "unlinked" => pc'[x] = "unlinked" /\ held'[x] = held[x]
            /\ pc'[x] = "marked" => pc[x] = "marked" /\ held'[x] = held[x]
<1> USE Sizes DEF IInv, TypeOK, EpochTypes, epochs, lists, sweep, history,
       LeaveGuard, Goto
<1>1. ASSUME NEW t \in Threads, Register(t)
      PROVE  \/ Mark(x)
         \/ UnlinkNode(x)
         \/ /\ pc[x] = "unlinked" => pc'[x] = "unlinked" /\ held'[x] = held[x]
            /\ pc'[x] = "marked" => pc[x] = "marked" /\ held'[x] = held[x]
  BY <1>1 DEF Register
<1>2. ASSUME NEW t \in Threads, Unregister(t)
      PROVE  \/ Mark(x)
         \/ UnlinkNode(x)
         \/ /\ pc[x] = "unlinked" => pc'[x] = "unlinked" /\ held'[x] = held[x]
            /\ pc'[x] = "marked" => pc[x] = "marked" /\ held'[x] = held[x]
  BY <1>2 DEF Unregister
<1>3. ASSUME NEW t \in Threads, LoadEpoche(t)
      PROVE  \/ Mark(x)
         \/ UnlinkNode(x)
         \/ /\ pc[x] = "unlinked" => pc'[x] = "unlinked" /\ held'[x] = held[x]
            /\ pc'[x] = "marked" => pc[x] = "marked" /\ held'[x] = held[x]
  BY <1>3 DEF LoadEpoche
<1>4. ASSUME NEW t \in Threads, Announce(t)
      PROVE  \/ Mark(x)
         \/ UnlinkNode(x)
         \/ /\ pc[x] = "unlinked" => pc'[x] = "unlinked" /\ held'[x] = held[x]
            /\ pc'[x] = "marked" => pc[x] = "marked" /\ held'[x] = held[x]
  BY <1>4 DEF Announce
<1>5. ASSUME NEW t \in Threads, Flush(t)
      PROVE  \/ Mark(x)
         \/ UnlinkNode(x)
         \/ /\ pc[x] = "unlinked" => pc'[x] = "unlinked" /\ held'[x] = held[x]
            /\ pc'[x] = "marked" => pc[x] = "marked" /\ held'[x] = held[x]
  BY <1>5 DEF Flush
<1>6. ASSUME NEW t \in Threads, UnclaimNode(t)
      PROVE  \/ Mark(x)
         \/ UnlinkNode(x)
         \/ /\ pc[x] = "unlinked" => pc'[x] = "unlinked" /\ held'[x] = held[x]
            /\ pc'[x] = "marked" => pc[x] = "marked" /\ held'[x] = held[x]
  BY <1>6 DEF UnclaimNode
<1>7. ASSUME NEW t \in Threads, Mark(t)
      PROVE  \/ Mark(x)
         \/ UnlinkNode(x)
         \/ /\ pc[x] = "unlinked" => pc'[x] = "unlinked" /\ held'[x] = held[x]
            /\ pc'[x] = "marked" => pc[x] = "marked" /\ held'[x] = held[x]
  BY <1>7 DEF Mark
<1>8. ASSUME NEW t \in Threads, UnlinkNode(t)
      PROVE  \/ Mark(x)
         \/ UnlinkNode(x)
         \/ /\ pc[x] = "unlinked" => pc'[x] = "unlinked" /\ held'[x] = held[x]
            /\ pc'[x] = "marked" => pc[x] = "marked" /\ held'[x] = held[x]
  BY <1>8 DEF UnlinkNode
<1>9. ASSUME NEW t \in Threads, ExitReadonly(t)
      PROVE  \/ Mark(x)
         \/ UnlinkNode(x)
         \/ /\ pc[x] = "unlinked" => pc'[x] = "unlinked" /\ held'[x] = held[x]
            /\ pc'[x] = "marked" => pc[x] = "marked" /\ held'[x] = held[x]
  BY <1>9 DEF ExitReadonly
<1>10. ASSUME NEW t \in Threads, ExitEpoche(t)
      PROVE  \/ Mark(x)
         \/ UnlinkNode(x)
         \/ /\ pc[x] = "unlinked" => pc'[x] = "unlinked" /\ held'[x] = held[x]
            /\ pc'[x] = "marked" => pc[x] = "marked" /\ held'[x] = held[x]
  BY <1>10 DEF ExitEpoche
<1>11. ASSUME NEW t \in Threads, DecideCleanup(t)
      PROVE  \/ Mark(x)
         \/ UnlinkNode(x)
         \/ /\ pc[x] = "unlinked" => pc'[x] = "unlinked" /\ held'[x] = held[x]
            /\ pc'[x] = "marked" => pc[x] = "marked" /\ held'[x] = held[x]
  BY <1>11 DEF DecideCleanup
<1>12. ASSUME NEW t \in Threads, Withdraw(t)
      PROVE  \/ Mark(x)
         \/ UnlinkNode(x)
         \/ /\ pc[x] = "unlinked" => pc'[x] = "unlinked" /\ held'[x] = held[x]
            /\ pc'[x] = "marked" => pc[x] = "marked" /\ held'[x] = held[x]
  BY <1>12 DEF Withdraw
<1>13. ASSUME NEW t \in Threads, BeginWalk(t)
      PROVE  \/ Mark(x)
         \/ UnlinkNode(x)
         \/ /\ pc[x] = "unlinked" => pc'[x] = "unlinked" /\ held'[x] = held[x]
            /\ pc'[x] = "marked" => pc[x] = "marked" /\ held'[x] = held[x]
  BY <1>13 DEF BeginWalk
<1>14. ASSUME NEW t \in Threads, SkipLabel(t)
      PROVE  \/ Mark(x)
         \/ UnlinkNode(x)
         \/ /\ pc[x] = "unlinked" => pc'[x] = "unlinked" /\ held'[x] = held[x]
            /\ pc'[x] = "marked" => pc[x] = "marked" /\ held'[x] = held[x]
  BY <1>14 DEF SkipLabel
<1>15. ASSUME NEW t \in Threads, OpenLabel(t)
      PROVE  \/ Mark(x)
         \/ UnlinkNode(x)
         \/ /\ pc[x] = "unlinked" => pc'[x] = "unlinked" /\ held'[x] = held[x]
            /\ pc'[x] = "marked" => pc[x] = "marked" /\ held'[x] = held[x]
  BY <1>15 DEF OpenLabel
<1>16. ASSUME NEW t \in Threads, RemoveLabel(t)
      PROVE  \/ Mark(x)
         \/ UnlinkNode(x)
         \/ /\ pc[x] = "unlinked" => pc'[x] = "unlinked" /\ held'[x] = held[x]
            /\ pc'[x] = "marked" => pc[x] = "marked" /\ held'[x] = held[x]
  BY <1>16 DEF RemoveLabel
<1>17. ASSUME NEW t \in Threads, EndWalk(t)
      PROVE  \/ Mark(x)
         \/ UnlinkNode(x)
         \/ /\ pc[x] = "unlinked" => pc'[x] = "unlinked" /\ held'[x] = held[x]
            /\ pc'[x] = "marked" => pc[x] = "marked" /\ held'[x] = held[x]
  BY <1>17 DEF EndWalk
<1>18. ASSUME NEW t \in Threads, NEW n \in Nodes, LinkNode(t, n)
      PROVE  \/ Mark(x)
         \/ UnlinkNode(x)
         \/ /\ pc[x] = "unlinked" => pc'[x] = "unlinked" /\ held'[x] = held[x]
            /\ pc'[x] = "marked" => pc[x] = "marked" /\ held'[x] = held[x]
  BY <1>18 DEF LinkNode
<1>19. ASSUME NEW t \in Threads, NEW n \in Nodes, ClaimNode(t, n)
      PROVE  \/ Mark(x)
         \/ UnlinkNode(x)
         \/ /\ pc[x] = "unlinked" => pc'[x] = "unlinked" /\ held'[x] = held[x]
            /\ pc'[x] = "marked" => pc[x] = "marked" /\ held'[x] = held[x]
  BY <1>19 DEF ClaimNode
<1>20. ASSUME NEW t \in Threads, NEW u \in Threads, ScanLocal(t, u)
      PROVE  \/ Mark(x)
         \/ UnlinkNode(x)
         \/ /\ pc[x] = "unlinked" => pc'[x] = "unlinked" /\ held'[x] = held[x]
            /\ pc'[x] = "marked" => pc[x] = "marked" /\ held'[x] = held[x]
  BY <1>20 DEF ScanLocal
<1>21. ASSUME NEW t \in Threads, NEW n \in Nodes, FreeNode(t, n)
      PROVE  \/ Mark(x)
         \/ UnlinkNode(x)
         \/ /\ pc[x] = "unlinked" => pc'[x] = "unlinked" /\ held'[x] = held[x]
            /\ pc'[x] = "marked" => pc[x] = "marked" /\ held'[x] = held[x]
  BY <1>21 DEF FreeNode
<1>22. CASE Destroy
  BY <1>22 DEF Destroy
<1>23. CASE UNCHANGED vars
  BY <1>23 DEF vars
<1> QED
  BY <1>1, <1>2, <1>3, <1>4, <1>5, <1>6, <1>7, <1>8, <1>9, <1>10, <1>11,
     <1>12, <1>13, <1>14, <1>15, <1>16, <1>17, <1>18, <1>19, <1>20, <1>21, <1>22,
     <1>23
  DEF Next, Guard, Removal, Cleanup

LEMMA EnteredStep ==
  ASSUME IInv, [Next]_vars
  PROVE  Entered'
<1> USE DEF IInv
<1>1. ASSUME NEW n \in Nodes, phase'[n] = "unlinked", phase[n] = "unlinked"
      PROVE  \/ \E t \in Threads : held'[t] = n /\ pc'[t] = "unlinked"
             \/ \E t \in Threads : \E l \in Labels : Waits(t, l, n)'
  <2>1. ASSUME NEW t \in Threads, held[t] = n, pc[t] = "unlinked"
        PROVE  \/ held'[t] = n /\ pc'[t] = "unlinked"
               \/ \E l \in Labels : Waits(t, l, n)'
    <3>1. CASE Mark(t)
      BY <2>1, <3>1, MarkEffect
    <3>2. ~ UnlinkNode(t)
      BY <2>1 DEF UnlinkNode
    <3> QED
      BY <2>1, <3>1, <3>2, Holding
  <2>2. ASSUME NEW t \in Threads, NEW l \in Labels, Waits(t, l, n)
        PROVE  Waits(t, l, n)'
    BY <1>1, <2>2, WaitsBefore
  <2> QED
    BY <1>1, <2>1, <2>2 DEF Entered
<1>2. ASSUME NEW n \in Nodes, phase'[n] = "unlinked", phase[n] # "unlinked"
      PROVE  \/ \E t \in Threads : held'[t] = n /\ pc'[t] = "unlinked"
             \/ \E t \in Threads : \E l \in Labels : Waits(t, l, n)'
  <2>1. PICK t \in Threads : UnlinkNode(t) /\ held[t] = n
    BY <1>2, Unlinking
  <2>2. CASE pc[t] = "claimed"
    BY <2>1, <2>2 DEF UnlinkNode, Goto, TypeOK, EpochTypes
  <2>3. CASE pc[t] = "marked"
    <3>1. PICK l \in Labels : Waits(t, l, n)
      BY <2>1, <2>3 DEF Entered
    <3> QED
      BY <1>2, <3>1, WaitsBefore
  <2> QED
    BY <2>1, <2>2, <2>3 DEF UnlinkNode
<1>3. ASSUME NEW t \in Threads, pc'[t] = "marked"
      PROVE  \E l \in Labels : Waits(t, l, held[t])' /\ held'[t] = held[t]
  <2>1. CASE Mark(t)
    <3>1. held'[t] = held[t] /\ held[t] \in Nodes
      BY <1>3, <2>1, Sizes DEF Mark, Goto, Holders, TypeOK, EpochTypes
    <3> QED
      BY <2>1, <3>1, MarkEffect
  <2>2. ~ UnlinkNode(t)
    BY <1>3 DEF UnlinkNode, Goto, TypeOK, EpochTypes
  <2>3. CASE pc[t] = "marked" /\ held'[t] = held[t]
    <3>1. held[t] \in Nodes /\ phase'[held[t]] = "claimed"
      BY <1>3, <2>3, HoldersStep, Sizes DEF Holders, TypeOK, EpochTypes
    <3>2. PICK n \in Nodes : n = held[t] /\ n = held'[t]
      BY <2>3, <3>1
    <3>3. PICK l \in Labels : Waits(t, l, n)
      BY <2>3, <3>2 DEF Entered
    <3>4. Waits(t, l, n)'
      BY <3>1, <3>2, <3>3, WaitsBefore
    <3> QED
      BY <2>3, <3>2, <3>4
  <2> QED
    BY <1>3, <2>1, <2>2, <2>3, Holding
<1> QED
  BY <1>1, <1>2, <1>3 DEF Entered

LEMMA StampedStep ==
  ASSUME IInv, [Next]_vars
  PROVE  Stamped'
<1> USE Sizes DEF IInv, Stamped, Queued, Guards, Walks, Waits, Announced,
       Working, Sweeping, None, TypeOK, EpochTypes, ListTypes, SweepTypes,
       HistoryTypes, epochs, lists, sweep, history, LeaveGuard, Goto
<1>1. ASSUME NEW t \in Threads, Register(t) PROVE Stamped'
  BY <1>1 DEF Register
<1>2. ASSUME NEW t \in Threads, Unregister(t) PROVE Stamped'
  <2> HIDE DEF Stamped, Queued, Guards, Walks, Waits, Announced, Working,
               Sweeping, None, EpochTypes, ListTypes, SweepTypes,
               HistoryTypes, epochs, lists, sweep, history, LeaveGuard, Goto
  <2>1. ASSUME NEW m \in Nodes, NEW u \in waiting[m]
        PROVE  Announced(u)' = Announced(u)
    <3>1. u \in Threads /\ u # t
      BY <1>2 DEF Unregister, Guards, Working, TypeOK, HistoryTypes
    <3> QED
      BY <1>2, <3>1 DEF Unregister, Announced, TypeOK, EpochTypes
  <2>2. ASSUME NEW x \in Threads, NEW l \in Labels, NEW m \in Nodes, Waits(x, l, m)'
        PROVE  Waits(x, l, m)
    BY <1>2, <2>2 DEF Unregister, Waits, Goto, lists, sweep, TypeOK, EpochTypes
  <2>3. /\ waiting' = waiting /\ label' = label /\ unscanned' = unscanned /\ oldest' = oldest
        /\ \A x \in Threads : pc'[x] \in Sweeping => pc'[x] = pc[x]
    BY <1>2 DEF Unregister, lists, sweep, history, Sweeping, Goto, TypeOK, EpochTypes
  <2> QED
    BY <2>1, <2>2, <2>3 DEF Stamped
<1>3. ASSUME NEW t \in Threads, LoadEpoche(t) PROVE Stamped'
  BY <1>3 DEF LoadEpoche
<1>4. ASSUME NEW t \in Threads, Announce(t) PROVE Stamped'
  <2> HIDE DEF Stamped, Queued, Guards, Walks, Waits, Announced, Working,
               Sweeping, None, EpochTypes, ListTypes, SweepTypes,
               HistoryTypes, epochs, lists, sweep, history, LeaveGuard, Goto
  <2>1. ASSUME NEW m \in Nodes, NEW u \in waiting[m]
        PROVE  Announced(u)' = Announced(u)
    <3>1. u \in Threads /\ u # t
      BY <1>4 DEF Announce, Guards, Working, TypeOK, HistoryTypes
    <3> QED
      BY <1>4, <3>1 DEF Announce, Announced, TypeOK, EpochTypes
  <2>2. ASSUME NEW x \in Threads, NEW l \in Labels, NEW m \in Nodes, Waits(x, l, m)'
        PROVE  Waits(x, l, m)
    BY <1>4, <2>2 DEF Announce, Waits, Goto, lists, sweep, TypeOK, EpochTypes
  <2>3. /\ waiting' = waiting /\ label' = label /\ unscanned' = unscanned /\ oldest' = oldest
        /\ \A x \in Threads : pc'[x] \in Sweeping => pc'[x] = pc[x]
    BY <1>4 DEF Announce, lists, sweep, Sweeping, Goto, TypeOK, EpochTypes
  <2> QED
    BY <2>1, <2>2, <2>3 DEF Stamped
<1>5. ASSUME NEW t \in Threads, Flush(t) PROVE Stamped'
  <2> HIDE DEF Stamped, Queued, Guards, Walks, Waits, Announced, Working,
               Sweeping, None, EpochTypes, ListTypes, SweepTypes,
               HistoryTypes, epochs, lists, sweep, history, LeaveGuard, Goto
  <2>1. ASSUME NEW u \in Threads PROVE Announced(u)' = Announced(u)
    BY <1>5, <2>1, Sizes DEF Flush, Drained, Announced, None, TypeOK, EpochTypes
  <2>2. ASSUME NEW x \in Threads, NEW l \in Labels, NEW m \in Nodes, Waits(x, l, m)'
        PROVE  Waits(x, l, m)
    BY <1>5, <2>2 DEF Flush, Waits, lists, sweep
  <2>3. UNCHANGED <<waiting, label, pc, unscanned, oldest>>
    BY <1>5 DEF Flush, lists, sweep, history
  <2> QED
    BY <2>1, <2>2, <2>3 DEF Stamped, TypeOK, HistoryTypes
<1>6. ASSUME NEW t \in Threads, UnclaimNode(t) PROVE Stamped'
  BY <1>6 DEF UnclaimNode
<1>7. ASSUME NEW t \in Threads, Mark(t) PROVE Stamped'
  <2> HIDE DEF Stamped, Queued, Guards, Walks, Waits, Announced, Working,
               Sweeping, None, EpochTypes, ListTypes, SweepTypes,
               HistoryTypes, epochs, lists, sweep, history, LeaveGuard, Goto
  <2>1. PICK l \in Labels :
           /\ \A u \in Threads, k \in Labels, n \in Nodes :
                Waits(u, k, n)' <=> Waits(u, k, n) \/ (u = t /\ k = l /\ n = held[t])
           /\ label'[l].epoche = currentEpoche
           /\ \A k \in Labels \ {l} : label'[k] = label[k]
    BY <1>7, MarkEffect
  <2>2. /\ UNCHANGED <<waiting, unscanned, oldest, unflushed, localEpoche>>
        /\ pc[t] \notin Sweeping /\ pc'[t] \notin Sweeping
        /\ \A x \in Threads : x # t => pc'[x] = pc[x]
    BY <1>7 DEF Mark, Sweeping, Goto, epochs, sweep, history, TypeOK, EpochTypes
  <2>3. \A u \in Threads : Announced(u)' = Announced(u)
    BY <2>2 DEF Announced
  <2>4. \A n \in Nodes : \A u \in waiting[n] : u \in Threads /\ Announced(u) <= currentEpoche
    BY DEF Guards, TypeOK, HistoryTypes
  <2>5. ASSUME NEW x \in Threads, NEW k \in Labels, NEW n \in Nodes, Waits(x, k, n)',
               NEW u \in waiting'[n]
        PROVE  /\ Announced(u)' <= label'[k].epoche
               /\ pc'[x] \in Sweeping /\ u \notin unscanned'[x] => oldest'[x] <= Announced(u)'
    <3>1. u \in waiting[n] /\ u \in Threads /\ Announced(u)' = Announced(u)
      BY <2>2, <2>3, <2>4, <2>5
    <3>2. Announced(u)' <= label'[k].epoche
      <4>1. CASE k = l
        BY <2>1, <2>4, <3>1, <4>1
      <4>2. CASE k # l
        BY <2>1, <2>5, <3>1, <4>2 DEF Stamped
      <4> QED
        BY <4>1, <4>2
    <3>3. CASE x = t
      BY <2>2, <3>2, <3>3
    <3>4. CASE x # t
      BY <2>1, <2>2, <2>5, <3>1, <3>2, <3>4 DEF Stamped
    <3> QED
      BY <3>3, <3>4
  <2> QED
    BY <2>5 DEF Stamped
<1>8. ASSUME NEW t \in Threads, UnlinkNode(t) PROVE Stamped'
  BY <1>8 DEF UnlinkNode
<1>9. ASSUME NEW t \in Threads, ExitReadonly(t) PROVE Stamped'
  BY <1>9 DEF ExitReadonly
<1>10. ASSUME NEW t \in Threads, ExitEpoche(t) PROVE Stamped'
  BY <1>10 DEF ExitEpoche
<1>11. ASSUME NEW t \in Threads, DecideCleanup(t) PROVE Stamped'
  BY <1>11 DEF DecideCleanup
<1>12. ASSUME NEW t \in Threads, Withdraw(t) PROVE Stamped'
  <2> HIDE DEF Stamped, Queued, Guards, Walks, Waits, Announced, Working,
               Sweeping, None, EpochTypes, ListTypes, SweepTypes,
               HistoryTypes, epochs, lists, sweep, history, LeaveGuard, Goto
  <2>1. ASSUME NEW m \in Nodes, NEW u \in waiting[m]
        PROVE  u \in created /\ Announced(u)' = Announced(u)
    <3>1. u \in Threads /\ u # t /\ u \in created
      BY <1>12 DEF Withdraw, Guards, Working, TypeOK, HistoryTypes
    <3> QED
      BY <1>12, <3>1 DEF Withdraw, Announced, TypeOK, EpochTypes
  <2>2. ASSUME NEW x \in Threads, NEW l \in Labels, NEW m \in Nodes, Waits(x, l, m)'
        PROVE  Waits(x, l, m)
    BY <1>12, <2>2 DEF Withdraw, Waits, Goto, lists, TypeOK, EpochTypes
  <2>3. /\ waiting' = waiting /\ label' = label /\ unscanned'[t] = created
        /\ \A x \in Threads : x # t =>
              pc'[x] = pc[x] /\ unscanned'[x] = unscanned[x] /\ oldest'[x] = oldest[x]
    BY <1>12 DEF Withdraw, lists, history, Goto, TypeOK, EpochTypes, SweepTypes
  <2> QED
    BY <2>1, <2>2, <2>3 DEF Stamped
<1>13. ASSUME NEW t \in Threads, BeginWalk(t) PROVE Stamped'
  BY <1>13 DEF BeginWalk
<1>14. ASSUME NEW t \in Threads, SkipLabel(t) PROVE Stamped'
  BY <1>14 DEF SkipLabel
<1>15. ASSUME NEW t \in Threads, OpenLabel(t) PROVE Stamped'
  BY <1>15 DEF OpenLabel
<1>16. ASSUME NEW t \in Threads, RemoveLabel(t) PROVE Stamped'
  BY <1>16 DEF RemoveLabel
<1>17. ASSUME NEW t \in Threads, EndWalk(t) PROVE Stamped'
  BY <1>17 DEF EndWalk
<1>18. ASSUME NEW t \in Threads, NEW n \in Nodes, LinkNode(t, n) PROVE Stamped'
  BY <1>18 DEF LinkNode
<1>19. ASSUME NEW t \in Threads, NEW n \in Nodes, ClaimNode(t, n) PROVE Stamped'
  <2> HIDE DEF Stamped, Queued, Guards, Walks, Waits, Announced, Working,
               Sweeping, None, EpochTypes, ListTypes, SweepTypes,
               HistoryTypes, epochs, lists, sweep, history, LeaveGuard, Goto
  <2>1. \A x \in Threads, l \in Labels : ~ Waits(x, l, n)
    BY <1>19 DEF ClaimNode, Queued, Holders
  <2>2. ASSUME NEW x \in Threads, NEW l \in Labels, NEW m \in Nodes, Waits(x, l, m)'
        PROVE  Waits(x, l, m)
    BY <1>19, <2>2 DEF ClaimNode, Waits, Goto, lists, sweep, TypeOK, EpochTypes
  <2>3. /\ \A m \in Nodes : m # n => waiting'[m] = waiting[m]
        /\ UNCHANGED <<label, unscanned, oldest, unflushed, localEpoche>>
        /\ \A x \in Threads : pc'[x] \in Sweeping => pc'[x] = pc[x]
    BY <1>19 DEF ClaimNode, lists, sweep, epochs, Sweeping, Goto, TypeOK, EpochTypes, HistoryTypes
  <2>4. \A u : Announced(u)' = Announced(u)
    BY <2>3 DEF Announced
  <2> QED
    BY <2>1, <2>2, <2>3, <2>4 DEF Stamped
<1>20. ASSUME NEW t \in Threads, NEW u \in Threads, ScanLocal(t, u)
      PROVE  Stamped'
  BY <1>20 DEF ScanLocal
<1>21. ASSUME NEW t \in Threads, NEW n \in Nodes, FreeNode(t, n) PROVE Stamped'
  BY <1>21 DEF FreeNode
<1>22. CASE Destroy
  BY <1>22 DEF Destroy
<1>23. CASE UNCHANGED vars
  BY <1>23 DEF vars
<1> QED
  BY <1>1, <1>2, <1>3, <1>4, <1>5, <1>6, <1>7, <1>8, <1>9, <1>10, <1>11,
     <1>12, <1>13, <1>14, <1>15, <1>16, <1>17, <1>18, <1>19, <1>20, <1>21, <1>22,
     <1>23
  DEF Next, Guard, Removal, Cleanup

-----------------------------------------------------------------------------
LEMMA InitIInv == Init => IInv
<1> SUFFICES ASSUME Init PROVE IInv
  OBVIOUS
<1>1. TypeOK
  BY TypeInit
<1>2. \A t \in Threads : /\ pc[t] = "absent" /\ held[t] = Nil /\ head[t] = Nil /\ spare[t] = Nil
                         /\ made[t] = {} /\ chained[t] = {} /\ pending[t] = {}
  BY DEF Init
<1>3. Apart /\ Acyclic /\ Walks
  <2>1. [l \in Labels |-> 0] \in [Labels -> Nat]
    OBVIOUS
  <2> QED
    BY <1>2, <2>1 DEF Apart, Acyclic, Descending, Walks
<1>4. Guards /\ Holders
  BY <1>2, Sizes DEF Init, Guards, Holders, Working
<1>5. Queued /\ Entered /\ Stamped
  BY <1>2, Sizes DEF Init, Queued, Entered, Stamped, Waits
<1> QED
  BY <1>1, <1>3, <1>4, <1>5 DEF IInv

LEMMA Inductive ==
  ASSUME IInv, [Next]_vars
  PROVE  IInv'
  BY TypeStep, ApartStep, AcyclicStep, WalksStep, GuardsStep, HoldersStep, QueuedStep,
     EnteredStep, StampedStep
  DEF IInv

LEMMA Invariant == Spec => []IInv
  BY InitIInv, Inductive, PTL DEF Spec

(* Every variable keeps its type.                                          *)
THEOREM TypeCorrect == Spec => []TypeOK
<1>1. IInv => TypeOK
  BY DEF IInv
<1> QED
  BY <1>1, Invariant, PTL

LEMMA GraceHolds == IInv => GraceRespected
<1> SUFFICES ASSUME IInv, NEW t \in Threads, NEW n \in pending[t]
             PROVE  phase[n] = "unlinked" /\ waiting[n] = {}
  BY DEF GraceRespected
<1> USE DEF IInv
<1>1. /\ pc[t] = "free" /\ n \in Nodes /\ n \in label[cur[t]].nodes /\ unscanned[t] = {}
      /\ cur[t] \in chained[t] /\ cur[t] \in Labels /\ label[cur[t]].epoche < oldest[t]
  BY Sizes DEF Walks, TypeOK, SweepTypes
<1>2. Waits(t, cur[t], n)
  BY <1>1 DEF Waits
<1>3. phase[n] = "unlinked"
  BY <1>1, <1>2 DEF Queued
<1>4. ASSUME NEW u \in waiting[n] PROVE FALSE
  <2>1. Announced(u) <= label[cur[t]].epoche /\ oldest[t] <= Announced(u)
    BY <1>1, <1>2, <1>4 DEF Stamped, Sweeping
  <2>2. Announced(u) \in Int /\ oldest[t] \in Int /\ label[cur[t]].epoche \in Int
    BY <1>1, <1>4, Sizes DEF Announced, None, MAX, TypeOK, EpochTypes, ListTypes, SweepTypes,
                             HistoryTypes
  <2> QED
    BY <1>1, <2>1, <2>2
<1> QED
  BY <1>3, <1>4

(* The assertions of the destructor hold (Epoche.cpp:128).                 *)
THEOREM DestructorSafe == Spec => []DestructorAsserts
<1>1. IInv => DestructorAsserts
  <2> SUFFICES ASSUME IInv, \A t \in Threads : pc[t] = "absent",
                      NEW t \in Threads, NEW l \in chained[t], NEW u \in created
               PROVE  label[l].epoche < localEpoche[u]
    BY DEF DestructorAsserts
  <2>1. localEpoche[u] = MAX
    BY DEF IInv, Guards, TypeOK, EpochTypes
  <2>2. label[l].epoche \in 0..MaxEpoch
    BY DEF IInv, TypeOK, ListTypes
  <2> QED
    BY <2>1, <2>2, Sizes DEF MAX
<1> QED
  BY <1>1, Invariant, PTL

(* A node is given back only when no operation whose announcement the scan *)
(* could see may still hold it (Epoche.cpp:77).                            *)
THEOREM GraceSafe == Spec => []GraceRespected
  BY Invariant, GraceHolds, PTL

LEMMA StepMaps ==
  ASSUME IInv, [Next]_vars
  PROVE  [Grace!Next]_(Grace!gvars)
<1>1. ASSUME NEW t \in Threads, Register(t) PROVE [Grace!Next]_(Grace!gvars)
  BY <1>1 DEF Register, history, epochs, Grace!gvars
<1>2. ASSUME NEW t \in Threads, Unregister(t) PROVE [Grace!Next]_(Grace!gvars)
  BY <1>2 DEF Unregister, history, epochs, Grace!gvars
<1>3. ASSUME NEW t \in Threads, LoadEpoche(t) PROVE [Grace!Next]_(Grace!gvars)
  BY <1>3 DEF LoadEpoche, history, epochs, Grace!gvars
<1>4. ASSUME NEW t \in Threads, Announce(t) PROVE [Grace!Next]_(Grace!gvars)
  <2>1. t \notin inside
    BY <1>4 DEF IInv, Guards, Announce, Working
  <2>2. Grace!Enter(t)
    BY <1>4, <2>1 DEF Announce, Grace!Enter
  <2> QED
    BY <2>2 DEF Grace!Next
<1>5. ASSUME NEW t \in Threads, Flush(t) PROVE [Grace!Next]_(Grace!gvars)
  BY <1>5 DEF Flush, history, epochs, Grace!gvars
<1>6. ASSUME NEW t \in Threads, UnclaimNode(t) PROVE [Grace!Next]_(Grace!gvars)
  <2>1. held[t] \in Nodes /\ phase[held[t]] = "claimed"
    BY <1>6, Sizes DEF UnclaimNode, IInv, Holders, TypeOK, EpochTypes
  <2>2. Grace!Unclaim(held[t])
    BY <1>6, <2>1 DEF UnclaimNode, Grace!Unclaim
  <2> QED
    BY <2>1, <2>2 DEF Grace!Next
<1>7. ASSUME NEW t \in Threads, Mark(t) PROVE [Grace!Next]_(Grace!gvars)
  BY <1>7 DEF Mark, history, epochs, Grace!gvars
<1>8. ASSUME NEW t \in Threads, UnlinkNode(t) PROVE [Grace!Next]_(Grace!gvars)
  <2>1. held[t] \in Nodes /\ phase[held[t]] = "claimed"
    BY <1>8, Sizes DEF UnlinkNode, IInv, Holders, TypeOK, EpochTypes
  <2>2. Grace!Unlink(held[t])
    BY <1>8, <2>1 DEF UnlinkNode, Grace!Unlink
  <2> QED
    BY <2>1, <2>2 DEF Grace!Next
<1>9. ASSUME NEW t \in Threads, ExitReadonly(t) PROVE [Grace!Next]_(Grace!gvars)
  <2>1. t \in inside
    BY <1>9 DEF IInv, Guards, ExitReadonly, Working
  <2>2. Grace!Leave(t)
    BY <1>9, <2>1 DEF ExitReadonly, LeaveGuard, Grace!Leave
  <2> QED
    BY <2>2 DEF Grace!Next
<1>10. ASSUME NEW t \in Threads, ExitEpoche(t) PROVE [Grace!Next]_(Grace!gvars)
  <2>1. t \in inside
    BY <1>10 DEF IInv, Guards, ExitEpoche, Working
  <2>2. Grace!Leave(t)
    BY <1>10, <2>1 DEF ExitEpoche, LeaveGuard, Grace!Leave
  <2> QED
    BY <2>2 DEF Grace!Next
<1>11. ASSUME NEW t \in Threads, DecideCleanup(t)
      PROVE  [Grace!Next]_(Grace!gvars)
  BY <1>11 DEF DecideCleanup, history, epochs, Grace!gvars
<1>12. ASSUME NEW t \in Threads, Withdraw(t) PROVE [Grace!Next]_(Grace!gvars)
  BY <1>12 DEF Withdraw, history, epochs, Grace!gvars
<1>13. ASSUME NEW t \in Threads, BeginWalk(t) PROVE [Grace!Next]_(Grace!gvars)
  BY <1>13 DEF BeginWalk, history, epochs, Grace!gvars
<1>14. ASSUME NEW t \in Threads, SkipLabel(t) PROVE [Grace!Next]_(Grace!gvars)
  BY <1>14 DEF SkipLabel, history, epochs, Grace!gvars
<1>15. ASSUME NEW t \in Threads, OpenLabel(t) PROVE [Grace!Next]_(Grace!gvars)
  BY <1>15 DEF OpenLabel, history, epochs, Grace!gvars
<1>16. ASSUME NEW t \in Threads, RemoveLabel(t) PROVE [Grace!Next]_(Grace!gvars)
  BY <1>16 DEF RemoveLabel, history, epochs, Grace!gvars
<1>17. ASSUME NEW t \in Threads, EndWalk(t) PROVE [Grace!Next]_(Grace!gvars)
  BY <1>17 DEF EndWalk, history, epochs, Grace!gvars
<1>18. ASSUME NEW t \in Threads, NEW n \in Nodes, LinkNode(t, n)
      PROVE  [Grace!Next]_(Grace!gvars)
  <2>1. Grace!Link(n)
    BY <1>18 DEF LinkNode, Grace!Link
  <2> QED
    BY <2>1 DEF Grace!Next
<1>19. ASSUME NEW t \in Threads, NEW n \in Nodes, ClaimNode(t, n)
      PROVE  [Grace!Next]_(Grace!gvars)
  <2>1. inside \ overlooked \in SUBSET Threads
    BY DEF IInv, TypeOK, HistoryTypes
  <2>2. Grace!Claim(n, inside \ overlooked)
    BY <1>19 DEF ClaimNode, Grace!Claim
  <2> QED
    BY <2>1, <2>2 DEF Grace!Next
<1>20. ASSUME NEW t \in Threads, NEW u \in Threads, ScanLocal(t, u)
      PROVE  [Grace!Next]_(Grace!gvars)
  <2>1. Grace!Overlook(u) \/ UNCHANGED Grace!gvars
    BY <1>20 DEF ScanLocal, Grace!Overlook, Grace!gvars
  <2> QED
    BY <2>1 DEF Grace!Next
<1>21. ASSUME NEW t \in Threads, NEW n \in Nodes, FreeNode(t, n)
      PROVE  [Grace!Next]_(Grace!gvars)
  <2>1. phase[n] = "unlinked" /\ waiting[n] = {}
    BY <1>21, GraceHolds DEF FreeNode, GraceRespected
  <2>2. Grace!Free(n)
    BY <1>21, <2>1 DEF FreeNode, Grace!Free
  <2> QED
    BY <2>2 DEF Grace!Next
<1>22. CASE Destroy
  <2>1. inside = {}
    BY <1>22 DEF Destroy, IInv, Guards, Working, TypeOK, HistoryTypes
  <2>2. ASSUME NEW n \in Nodes
        PROVE  phase[n] = "unlinked" <=>
                 \E t \in Threads : \E l \in chained[t] : n \in label[l].nodes
    <3>1. ASSUME phase[n] = "unlinked"
          PROVE  \E t \in Threads : \E l \in chained[t] : n \in label[l].nodes
      BY <1>22, <2>2, <3>1 DEF Destroy, IInv, Entered, Waits
    <3>2. ASSUME NEW t \in Threads, NEW l \in chained[t], n \in label[l].nodes
          PROVE  phase[n] = "unlinked"
      <4>1. l \in Labels
        BY DEF IInv, TypeOK, ListTypes
      <4>2. Waits(t, l, n)
        BY <1>22, <3>2 DEF Destroy, Waits
      <4> QED
        BY <1>22, <2>2, <4>1, <4>2 DEF Destroy, IInv, Queued
    <3> QED
      BY <3>1, <3>2
  <2>3. Grace!Destroy
    BY <1>22, <2>1, <2>2 DEF Destroy, Grace!Destroy
  <2> QED
    BY <2>3 DEF Grace!Next
<1>23. CASE UNCHANGED vars
  BY <1>23 DEF vars, Grace!gvars
<1> QED
  BY <1>1, <1>2, <1>3, <1>4, <1>5, <1>6, <1>7, <1>8, <1>9, <1>10, <1>11,
     <1>12, <1>13, <1>14, <1>15, <1>16, <1>17, <1>18, <1>19, <1>20, <1>21, <1>22,
     <1>23
  DEF Next, Guard, Removal, Cleanup

(* The epochs implement the grace period that the trees rely on.           *)
THEOREM Refines == Spec => ImplementsGracePeriod
<1>1. Init => Grace!Init
  BY DEF Init, Grace!Init
<1>2. IInv /\ [Next]_vars => [Grace!Next]_(Grace!gvars)
  BY StepMaps
<1> QED
  BY <1>1, <1>2, Invariant, PTL DEF Spec, ImplementsGracePeriod, Grace!Spec
-----------------------------------------------------------------------------
(* The deletion lists of the epochs: they are chains that nothing falls out  *)
(* of, their counts are right, and every removed node waits in one of them,  *)
(* in one place.                                                             *)

(* Every node waits in at most one place (Queued), and the places are those *)
(* the invariant speaks about.                                              *)
LEMMA EntriesWait ==
  ASSUME IInv, NEW n \in Nodes
  PROVE  /\ \A t \in Threads, l \in Labels : <<t, l>> \in Entries(n) <=> Waits(t, l, n)
         /\ Cardinality(Entries(n)) =
              IF \E t \in Threads, l \in Labels : Waits(t, l, n) THEN 1 ELSE 0
<1>1. \A t \in Threads, l \in Labels : <<t, l>> \in Entries(n) <=> Waits(t, l, n)
  BY DEF Entries, Waits
<1>2. \A e \in Entries(n) : /\ e[1] \in Threads /\ e[2] \in Labels
                            /\ e = <<e[1], e[2]>> /\ Waits(e[1], e[2], n)
  BY DEF Entries, Waits
<1>3. CASE \E t \in Threads, l \in Labels : Waits(t, l, n)
  <2>1. PICK t \in Threads, l \in Labels : Waits(t, l, n)
    BY <1>3
  <2>2. \A e \in Entries(n) : e = <<t, l>>
    BY <1>2, <2>1 DEF IInv, Queued
  <2>3. Entries(n) = {<<t, l>>}
    BY <1>1, <2>1, <2>2
  <2> QED
    BY <1>1, <1>3, <2>3, FS_Singleton
<1>4. CASE ~ \E t \in Threads, l \in Labels : Waits(t, l, n)
  <2>1. Entries(n) = {}
    BY <1>2, <1>4
  <2> QED
    BY <1>1, <1>4, <2>1, FS_EmptySet
<1> QED
  BY <1>3, <1>4

(* The threads that hold a node are none, or one.                          *)
LEMMA OneHolder ==
  ASSUME IInv, NEW n \in Nodes, NEW l
  PROVE  Cardinality({t \in Threads : held[t] = n /\ pc[t] = l}) =
           IF \E t \in Threads : held[t] = n /\ pc[t] = l THEN 1 ELSE 0
<1> DEFINE H == {t \in Threads : held[t] = n /\ pc[t] = l}
<1>1. CASE \E t \in Threads : held[t] = n /\ pc[t] = l
  <2>1. PICK t \in Threads : held[t] = n /\ pc[t] = l
    BY <1>1
  <2>2. H = {t}
    BY <2>1, Sizes DEF IInv, Holders
  <2> QED
    BY <1>1, <2>2, FS_Singleton
<1>2. CASE ~ \E t \in Threads : held[t] = n /\ pc[t] = l
  <2>1. H = {}
    BY <1>2
  <2> QED
    BY <1>2, <2>1, FS_EmptySet
<1> QED
  BY <1>1, <1>2

(* Every node taken out of the tree is entered once, and a node that is in *)
(* the tree or free is entered nowhere (Epoche.cpp:25, Epoche.cpp:77).     *)
THEOREM NoneForgottenHolds == Spec => []NoneForgotten
<1>1. ASSUME IInv PROVE NoneForgotten
  <2> SUFFICES ASSUME NEW n \in Nodes
               PROVE  /\ phase[n] \in {"free", "linked"} => Cardinality(Entries(n)) = 0
                      /\ phase[n] = "claimed" =>
                           Cardinality(Entries(n)) =
                             Cardinality({t \in Threads : held[t] = n /\ pc[t] = "marked"})
                      /\ phase[n] = "unlinked" =>
                           Cardinality(Entries(n)) =
                             1 - Cardinality({t \in Threads : held[t] = n /\ pc[t] = "unlinked"})
    BY DEF NoneForgotten
  <2> DEFINE Waiting == \E t \in Threads, l \in Labels : Waits(t, l, n)
             HeldAt(p) == \E t \in Threads : held[t] = n /\ pc[t] = p
  <2>1. /\ Cardinality(Entries(n)) = IF Waiting THEN 1 ELSE 0
        /\ Cardinality({t \in Threads : held[t] = n /\ pc[t] = "marked"}) =
             IF HeldAt("marked") THEN 1 ELSE 0
        /\ Cardinality({t \in Threads : held[t] = n /\ pc[t] = "unlinked"}) =
             IF HeldAt("unlinked") THEN 1 ELSE 0
    BY <1>1, EntriesWait, OneHolder
  <2>2. ASSUME phase[n] \in {"free", "linked"} PROVE ~ Waiting
    BY <1>1, <2>2 DEF IInv, Queued, Holders
  <2>3. ASSUME phase[n] = "claimed" PROVE Waiting <=> HeldAt("marked")
    <3>1. ASSUME HeldAt("marked") PROVE Waiting
      BY <1>1, <3>1 DEF IInv, Entered
    <3>2. ASSUME Waiting PROVE HeldAt("marked")
      BY <1>1, <2>3, <3>2 DEF IInv, Queued
    <3> QED
      BY <3>1, <3>2
  <2>4. ASSUME phase[n] = "unlinked" PROVE Waiting <=> ~ HeldAt("unlinked")
    <3>1. ASSUME ~ HeldAt("unlinked") PROVE Waiting
      BY <1>1, <2>4, <3>1, Sizes DEF IInv, Entered, TypeOK, ListTypes
    <3>2. ASSUME Waiting PROVE ~ HeldAt("unlinked")
      BY <1>1, <2>4, <3>2 DEF IInv, Queued
    <3> QED
      BY <3>1, <3>2
  <2> HIDE DEF Waiting, HeldAt
  <2> QED
    BY <2>1, <2>2, <2>3, <2>4
<1> QED
  BY <1>1, Invariant, PTL

-----------------------------------------------------------------------------
(* Chains, with the pointers as a function of the label.                   *)
Ranked(next, first, S, left) ==
  /\ IF S = {} THEN first = Nil ELSE first \in S /\ left[first] = Cardinality(S)
  /\ \A l \in S : IF left[l] = 1 THEN next[l] = Nil
                  ELSE next[l] \in S /\ left[next[l]] = left[l] - 1
  /\ \A k, l \in S : left[k] = left[l] => k = l

Links(next, first, S) ==
  \E left \in [S -> 1..Cardinality(S)] : Ranked(next, first, S, left)

(* A label put before the first.                                           *)
LEMMA ChainPush ==
  ASSUME NEW next, NEW now, NEW first, NEW S, IsFiniteSet(S), Links(next, first, S),
         NEW x, x \notin S, now[x] = first, \A k \in S : now[k] = next[k], Nil \notin S
  PROVE  Links(now, x, S \cup {x})
<1> DEFINE n == Cardinality(S)
<1>1. n \in Nat /\ Cardinality(S \cup {x}) = n + 1 /\ (n = 0 <=> S = {})
  BY FS_CardinalityType, FS_AddElement, FS_EmptySet
<1>2. PICK left \in [S -> 1..n] : Ranked(next, first, S, left)
  BY DEF Links
<1>3. PICK more \in [S \cup {x} -> 1..(n + 1)] :
         more[x] = n + 1 /\ \A k \in S : more[k] = left[k]
  <2> DEFINE m == [k \in S \cup {x} |-> IF k = x THEN n + 1 ELSE left[k]]
  <2>1. m \in [S \cup {x} -> 1..(n + 1)]
    BY <1>1, <1>2
  <2>2. m[x] = n + 1 /\ \A k \in S : m[k] = left[k]
    OBVIOUS
  <2> QED
    BY <2>1, <2>2
<1>4. \A k \in S : left[k] \in 1..n
  BY <1>2
<1>5. ASSUME NEW l \in S \cup {x}
      PROVE  IF more[l] = 1 THEN now[l] = Nil
             ELSE now[l] \in S \cup {x} /\ more[now[l]] = more[l] - 1
  <2>1. CASE l = x
    BY <1>1, <1>2, <1>3, <2>1 DEF Ranked
  <2>2. CASE l \in S
    BY <1>1, <1>2, <1>3, <2>2 DEF Ranked
  <2> QED
    BY <2>1, <2>2
<1>6. \A k, l \in S \cup {x} : more[k] = more[l] => k = l
  BY <1>1, <1>2, <1>3, <1>4 DEF Ranked
<1>7. Ranked(now, x, S \cup {x}, more)
  BY <1>1, <1>3, <1>5, <1>6 DEF Ranked
<1> QED
  BY <1>1, <1>7 DEF Links

(* The first label taken off.                                              *)
LEMMA ChainPop ==
  ASSUME NEW next, NEW now, NEW first, NEW S, IsFiniteSet(S), Links(next, first, S),
         first # Nil, \A k \in S \ {first} : now[k] = next[k], Nil \notin S
  PROVE  first \in S /\ Links(now, next[first], S \ {first})
<1> DEFINE n == Cardinality(S)
           T == S \ {first}
<1>1. PICK left \in [S -> 1..n] : Ranked(next, first, S, left)
  BY DEF Links
<1>2. first \in S /\ left[first] = n
  BY <1>1 DEF Ranked
<1>3. /\ n \in Nat /\ Cardinality(T) = n - 1 /\ (n - 1 = 0 <=> T = {})
      /\ IsFiniteSet(T)
  <2>1. IsFiniteSet(T) /\ Cardinality(T) = n - 1 /\ n \in Nat
    BY <1>2, FS_CardinalityType, FS_RemoveElement
  <2> QED
    BY <2>1, FS_EmptySet
<1>4. \A k \in T : left[k] \in 1..(n - 1)
  BY <1>1, <1>2, <1>3 DEF Ranked
<1>5. [k \in T |-> left[k]] \in [T -> 1..(n - 1)]
  BY <1>4
<1>6. PICK less \in [T -> 1..(n - 1)] : \A k \in T : less[k] = left[k]
  BY <1>5
<1>7. IF T = {} THEN next[first] = Nil
      ELSE next[first] \in T /\ less[next[first]] = n - 1
  <2>1. CASE T = {}
    BY <1>1, <1>2, <1>3, <2>1 DEF Ranked
  <2>2. CASE T # {}
    <3>1. n # 1
      BY <1>3, <2>2
    <3>2. next[first] \in S /\ left[next[first]] = n - 1
      BY <1>1, <1>2, <3>1 DEF Ranked
    <3>3. next[first] \in T
      BY <1>2, <1>3, <3>2
    <3> QED
      BY <1>6, <2>2, <3>2, <3>3
  <2> QED
    BY <2>1, <2>2
<1>8. ASSUME NEW l \in T
      PROVE  IF less[l] = 1 THEN now[l] = Nil
             ELSE now[l] \in T /\ less[now[l]] = less[l] - 1
  <2>1. CASE less[l] = 1
    BY <1>1, <1>6, <2>1 DEF Ranked
  <2>2. CASE less[l] # 1
    <3>1. next[l] \in S /\ left[next[l]] = left[l] - 1 /\ now[l] = next[l]
      BY <1>1, <1>6, <2>2 DEF Ranked
    <3>2. next[l] # first
      BY <1>2, <1>3, <1>4, <3>1
    <3> QED
      BY <1>6, <2>2, <3>1, <3>2
  <2> QED
    BY <2>1, <2>2
<1>9. \A k, l \in T : less[k] = less[l] => k = l
  BY <1>1, <1>6 DEF Ranked
<1>10. Ranked(now, next[first], T, less)
  BY <1>3, <1>7, <1>8, <1>9 DEF Ranked
<1> QED
  BY <1>2, <1>3, <1>10 DEF Links

(* Numbers without a gap at c stay different when it is closed.            *)
LEMMA GapClosed ==
  ASSUME NEW a \in Int, NEW b \in Int, NEW c \in Int, a # c, b # c,
         (IF a > c THEN a - 1 ELSE a) = (IF b > c THEN b - 1 ELSE b)
  PROVE  a = b
  OBVIOUS

(* A label taken out behind another one.                                   *)
LEMMA ChainCut ==
  ASSUME NEW next, NEW now, NEW first, NEW S, IsFiniteSet(S), Links(next, first, S),
         NEW l \in S, NEW p \in S, next[p] = l, now[p] = next[l], p # l,
         \A k \in S \ {l, p} : now[k] = next[k], Nil \notin S
  PROVE  Links(now, first, S \ {l})
<1> DEFINE n == Cardinality(S)
           T == S \ {l}
<1>1. PICK left \in [S -> 1..n] : Ranked(next, first, S, left)
  BY DEF Links
<1>2. n \in Nat /\ Cardinality(T) = n - 1 /\ p \in T
  BY FS_CardinalityType, FS_RemoveElement
<1>3. /\ \A k \in S : left[k] \in 1..n
      /\ \A j, k \in S : left[j] = left[k] => j = k
      /\ first \in S /\ left[first] = n
  BY <1>1 DEF Ranked
<1>4. \A k \in S : left[k] # 1 => next[k] \in S /\ left[next[k]] = left[k] - 1
  BY <1>1 DEF Ranked
<1>5. \A k \in S : left[k] = 1 => next[k] = Nil
  BY <1>1 DEF Ranked
<1>6. left[p] = left[l] + 1
  BY <1>2, <1>3, <1>4, <1>5
<1> DEFINE m == [k \in T |-> IF left[k] > left[l] THEN left[k] - 1 ELSE left[k]]
<1>7. m \in [T -> 1..(n - 1)]
  BY <1>2, <1>3
<1>8. PICK less \in [T -> 1..(n - 1)] :
         \A k \in T : less[k] = IF left[k] > left[l] THEN left[k] - 1 ELSE left[k]
  BY <1>7
<1> HIDE DEF m
<1>9. first \in T /\ less[first] = n - 1
  <2>1. left[first] > left[l]
    BY <1>2, <1>3, <1>6
  <2> QED
    BY <1>3, <1>8, <2>1
<1>10. ASSUME NEW k \in T
       PROVE  IF less[k] = 1 THEN now[k] = Nil
              ELSE now[k] \in T /\ less[now[k]] = less[k] - 1
  <2>1. CASE k = p
    <3>1. less[k] = left[l]
      BY <1>2, <1>3, <1>6, <1>8, <2>1
    <3>2. CASE left[l] = 1
      BY <1>5, <2>1, <3>1, <3>2
    <3>3. CASE left[l] # 1
      <4>1. next[l] \in T /\ left[next[l]] = left[l] - 1
        BY <1>3, <1>4, <3>3
      <4>2. less[next[l]] = left[l] - 1
        BY <1>3, <1>8, <4>1
      <4> QED
        BY <2>1, <3>1, <3>3, <4>1, <4>2
    <3> QED
      BY <3>2, <3>3
  <2>2. CASE k # p
    <3>1. now[k] = next[k] /\ k \in S /\ k # l
      BY <2>2
    <3>2. CASE left[k] = 1
      BY <1>3, <1>5, <1>8, <3>1, <3>2
    <3>3. CASE left[k] # 1
      <4>1. next[k] \in S /\ left[next[k]] = left[k] - 1
        BY <1>4, <3>1, <3>3
      <4>2. next[k] # l
        BY <1>3, <1>6, <2>2, <3>1, <4>1
      <4>3. left[next[k]] # left[l] /\ left[k] # left[l]
        BY <1>3, <3>1, <4>1, <4>2
      <4>4. next[k] \in T
        BY <4>1, <4>2
      <4>5. /\ left[k] \in 1..n /\ left[l] \in 1..n
            /\ less[next[k]] = IF left[next[k]] > left[l] THEN left[next[k]] - 1
                                                          ELSE left[next[k]]
            /\ less[k] = IF left[k] > left[l] THEN left[k] - 1 ELSE left[k]
        BY <1>3, <1>8, <3>1, <4>4
      <4>6. less[k] # 1 /\ less[next[k]] = less[k] - 1
        BY <1>2, <3>3, <4>1, <4>3, <4>5
      <4> QED
        BY <3>1, <4>4, <4>6
    <3> QED
      BY <3>2, <3>3
  <2> QED
    BY <2>1, <2>2
<1>11. \A j, k \in T : less[j] = less[k] => j = k
  <2> SUFFICES ASSUME NEW j \in T, NEW k \in T, less[j] = less[k] PROVE j = k
    OBVIOUS
  <2>1. /\ left[j] \in 1..n /\ left[k] \in 1..n /\ left[l] \in 1..n
        /\ left[j] # left[l] /\ left[k] # left[l]
    BY <1>3
  <2>2. /\ less[j] = IF left[j] > left[l] THEN left[j] - 1 ELSE left[j]
        /\ less[k] = IF left[k] > left[l] THEN left[k] - 1 ELSE left[k]
    BY <1>8
  <2>3. left[j] = left[k]
    <3>1. left[j] \in Int /\ left[k] \in Int /\ left[l] \in Int
      BY <2>1
    <3> QED
      BY <2>1, <2>2, <3>1, GapClosed
  <2> QED
    BY <1>3, <2>3
<1>12. Ranked(now, first, T, less)
  BY <1>2, <1>9, <1>10, <1>11 DEF Ranked
<1> QED
  BY <1>2, <1>8, <1>12 DEF Links

LEMMA ChainSame ==
  ASSUME NEW next, NEW now, NEW first, NEW S, Links(next, first, S),
         \A k \in S : now[k] = next[k]
  PROVE  Links(now, first, S)
  BY DEF Links, Ranked

Pointers == [l \in Labels |-> label[l].next]

LEMMA ChainLinks ==
  ASSUME NEW first, NEW S, S \subseteq Labels
  PROVE  Chain(first, S) <=> Links(Pointers, first, S)
<1>1. \A l \in S : Pointers[l] = label[l].next
  BY DEF Pointers
<1> QED
  BY <1>1 DEF Chain, Links, Ranked

-----------------------------------------------------------------------------
(* The lists of a thread.                                                  *)
Listing(t) ==
  /\ Links(Pointers, head[t], chained[t])
  /\ Links(Pointers, spare[t], made[t] \ chained[t])
  /\ count[t] = Cardinality(Listed(t))

LEMMA ListingIntact ==
  ASSUME ListTypes
  PROVE  ListIntact <=> \A t \in Threads : ~ destroyed => Listing(t)
  BY ChainLinks DEF ListTypes, ListIntact, Listing

LEMMA ListingIntactNext ==
  ASSUME ListTypes', \A t \in Threads : ~ destroyed' => Listing(t)'
  PROVE  ListIntact'
<1> SUFFICES ASSUME NEW t \in Threads, ~ destroyed'
             PROVE  /\ Chain(head[t], chained[t])'
                    /\ Chain(spare[t], made[t] \ chained[t])'
                    /\ (count[t] = Cardinality(Listed(t)))'
  BY DEF ListIntact
<1>1. Listing(t)' /\ chained'[t] \subseteq Labels /\ made'[t] \subseteq Labels
  BY DEF ListTypes
<1>2. \A l \in Labels : Pointers'[l] = label'[l].next
  BY DEF Pointers
<1>3. Chain(head[t], chained[t])'
  <2>1. Links(Pointers, head[t], chained[t])'
    BY <1>1 DEF Listing
  <2> QED
    BY <1>1, <1>2, <2>1 DEF Chain, Links, Ranked
<1>4. Chain(spare[t], made[t] \ chained[t])'
  <2> DEFINE R == made'[t] \ chained'[t]
  <2>1. PICK left \in [R -> 1..Cardinality(R)] : Ranked(Pointers', spare'[t], R, left)
    BY <1>1 DEF Listing, Links
  <2>2. /\ IF R = {} THEN spare'[t] = Nil
           ELSE spare'[t] \in R /\ left[spare'[t]] = Cardinality(R)
        /\ \A l \in R : IF left[l] = 1 THEN label'[l].next = Nil
                        ELSE /\ label'[l].next \in R
                             /\ left[label'[l].next] = left[l] - 1
        /\ \A k, l \in R : left[k] = left[l] => k = l
    <3>1. \A l \in R : Pointers'[l] = label'[l].next
      BY <1>1, <1>2
    <3> HIDE DEF R
    <3> QED
      BY <2>1, <3>1 DEF Ranked
  <2> QED
    BY <2>1, <2>2 DEF Chain
<1> QED
  BY <1>1, <1>3, <1>4 DEF Listing

-----------------------------------------------------------------------------
(* What entering a node and removing a label do to the lists.              *)
LEMMA OwnLabels ==
  ASSUME IInv, NEW t \in Threads
  PROVE  /\ chained[t] \subseteq made[t] /\ made[t] \subseteq Labels
         /\ IsFiniteSet(chained[t]) /\ IsFiniteSet(made[t] \ chained[t])
         /\ Nil \notin made[t]
         /\ IsFiniteSet(Listed(t))
         /\ \A u \in Threads : u # t => made[t] \cap made[u] = {}
<1>1. chained[t] \subseteq made[t] /\ made[t] \subseteq Labels
  BY DEF IInv, Apart, TypeOK, ListTypes
<1>2. IsFiniteSet(chained[t]) /\ IsFiniteSet(made[t] \ chained[t])
  <2>1. chained[t] \in SUBSET Labels /\ made[t] \ chained[t] \in SUBSET Labels
    BY <1>1
  <2> QED
    BY <2>1, FS_Subset, Sizes
<1>3. IsFiniteSet(Listed(t))
  <2>1. IsFiniteSet(chained[t] \X Nodes)
    BY <1>2, FS_Product, Sizes
  <2>2. Listed(t) \in SUBSET (chained[t] \X Nodes)
    BY DEF Listed
  <2> QED
    BY <2>1, <2>2, FS_Subset
<1> QED
  BY <1>1, <1>2, <1>3, Sizes DEF IInv, Apart

(* A step of one thread on its own labels is nothing to another's lists.   *)
LEMMA OtherListings ==
  ASSUME NEW u \in Threads, Listing(u), made[u] \subseteq Labels,
         chained[u] \subseteq made[u],
         head'[u] = head[u], spare'[u] = spare[u], count'[u] = count[u],
         made'[u] = made[u], chained'[u] = chained[u],
         \A k \in made[u] : label'[k] = label[k]
  PROVE  Listing(u)'
<1>1. \A k \in made[u] : Pointers'[k] = Pointers[k]
  BY DEF Pointers
<1>2. Links(Pointers', head[u], chained[u])
  BY <1>1, ChainSame DEF Listing
<1>3. Links(Pointers', spare[u], made[u] \ chained[u])
  BY <1>1, ChainSame DEF Listing
<1>4. Listed(u)' = Listed(u)
  BY DEF Listed
<1>5. /\ Links(Pointers', head'[u], chained'[u])
      /\ Links(Pointers', spare'[u], made'[u] \ chained'[u])
      /\ count'[u] = Cardinality(Listed(u)')
  BY <1>2, <1>3, <1>4 DEF Listing
<1> QED
  BY <1>5 DEF Listing, Links, Ranked

LEMMA MarkCounts ==
  ASSUME IInv, NEW t \in Threads, Mark(t), Listing(t)
  PROVE  /\ count'[t] = Cardinality(Listed(t)')
         /\ \A u \in Threads : u # t => count'[u] = count[u]
<1>1. /\ held[t] \in Nodes /\ pc[t] # "free" /\ pc[t] # "marked"
      /\ count \in [Threads -> Int]
  BY Sizes DEF Mark, IInv, Holders, TypeOK, EpochTypes, ListTypes
<1>2. PICK l \in Labels :
            /\ \A u \in Threads : u # t => l \notin made[u]
            /\ chained' = [chained EXCEPT ![t] = @ \cup {l}]
            /\ \A k \in Labels \ {l} : label'[k] = label[k]
            /\ label'[l].nodes = {held[t]} \cup (IF l \in chained[t] THEN label[l].nodes ELSE {})
            /\ label'[l].epoche = currentEpoche
  BY <1>1, AddCases DEF Mark
<1>3. chained'[t] = chained[t] \cup {l} /\ chained[t] \subseteq Labels
  BY <1>2 DEF IInv, TypeOK, ListTypes
<1>4. Listed(t)' = Listed(t) \cup {<<l, held[t]>>}
  BY <1>1, <1>2, <1>3 DEF Listed
<1>5. <<l, held[t]>> \notin Listed(t)
  <2>1. ASSUME l \in chained[t], held[t] \in label[l].nodes PROVE FALSE
    <3>1. Waits(t, l, held[t])
      BY <1>1, <2>1 DEF Waits
    <3> QED
      BY <1>1, <3>1 DEF IInv, Queued
  <2> QED
    BY <2>1 DEF Listed
<1>6. Cardinality(Listed(t)') = Cardinality(Listed(t)) + 1
  BY <1>4, <1>5, OwnLabels, FS_AddElement
<1>7. count'[t] = count[t] + 1 /\ \A u \in Threads : u # t => count'[u] = count[u]
  BY <1>1 DEF Mark
<1> QED
  BY <1>6, <1>7 DEF Listing

LEMMA MarkListing ==
  ASSUME IInv, IInv', NEW t \in Threads, Mark(t), \A u \in Threads : Listing(u)
  PROVE  \A u \in Threads : Listing(u)'
<1>1. held[t] \in Nodes /\ (AddToHead(t, held[t]) \/ AddLabel(t, held[t]))
  BY Sizes DEF Mark, IInv, Holders, TypeOK, EpochTypes
<1>2. /\ head \in [Threads -> Labels \cup {Nil}] /\ spare \in [Threads -> Labels \cup {Nil}]
      /\ made \in [Threads -> SUBSET Labels] /\ chained \in [Threads -> SUBSET Labels]
  BY DEF IInv, TypeOK, ListTypes
<1>3. count'[t] = Cardinality(Listed(t)') /\ \A u \in Threads : u # t => count'[u] = count[u]
  BY MarkCounts
<1>4. ASSUME NEW u \in Threads, u # t PROVE Listing(u)'
  <2>1. \A k \in made[u] : label'[k] = label[k]
    <3>1. PICK l \in Labels : /\ l \notin made[u]
                              /\ \A k \in Labels \ {l} : label'[k] = label[k]
      BY <1>1, <1>4, AddCases
    <3> QED
      BY <1>2, <3>1
  <2>2. /\ head'[u] = head[u] /\ spare'[u] = spare[u] /\ made'[u] = made[u]
        /\ chained'[u] = chained[u]
    BY <1>1, <1>2, <1>4, Entering
  <2> QED
    BY <1>2, <1>3, <1>4, <2>1, <2>2, OwnLabels, OtherListings
<1>5. /\ Links(Pointers', head'[t], chained'[t])
      /\ Links(Pointers', spare'[t], made'[t] \ chained'[t])
  <2>1. CASE /\ UNCHANGED <<head, spare, made, chained>>
             /\ \A k \in Labels : label'[k].next = label[k].next
    <3>1. Pointers' = Pointers
      BY <2>1 DEF Pointers
    <3> QED
      BY <2>1, <3>1 DEF Listing
  <2>2. ASSUME NEW l \in Labels,
               l \notin chained[t],
               \/ l = spare[t] /\ l \in made[t] /\ spare' = [spare EXCEPT ![t] = label[l].next]
               \/ l \notin made[t] /\ spare' = spare,
               \A k \in Labels \ {l} : label'[k] = label[k],
               label'[l].next = head[t],
               head' = [head EXCEPT ![t] = l],
               made' = [made EXCEPT ![t] = @ \cup {l}],
               chained' = [chained EXCEPT ![t] = @ \cup {l}]
        PROVE  /\ Links(Pointers', head'[t], chained'[t])
               /\ Links(Pointers', spare'[t], made'[t] \ chained'[t])
    <3>1. /\ Pointers'[l] = head[t]
          /\ \A k \in Labels \ {l} : Pointers'[k] = Pointers[k]
      BY <2>2 DEF Pointers
    <3>2. /\ head'[t] = l /\ chained'[t] = chained[t] \cup {l}
          /\ made'[t] = made[t] \cup {l}
      BY <1>2, <2>2
    <3>3. /\ Links(Pointers, head[t], chained[t])
          /\ Links(Pointers, spare[t], made[t] \ chained[t])
      BY DEF Listing
    <3>4. /\ IsFiniteSet(chained[t]) /\ IsFiniteSet(made[t] \ chained[t])
          /\ Nil \notin made[t] /\ chained[t] \subseteq made[t]
          /\ made[t] \subseteq Labels
      BY OwnLabels
    <3>5. Links(Pointers', l, chained[t] \cup {l})
      <4>1. \A k \in chained[t] : Pointers'[k] = Pointers[k]
        BY <2>2, <3>1, <3>4
      <4> QED
        BY <2>2, <3>1, <3>3, <3>4, <4>1, ChainPush
    <3>6. CASE l = spare[t] /\ l \in made[t] /\ spare' = [spare EXCEPT ![t] = label[l].next]
      <4>1. \A k \in (made[t] \ chained[t]) \ {l} : Pointers'[k] = Pointers[k]
        BY <3>1, <3>4
      <4>2. Links(Pointers', Pointers[l], (made[t] \ chained[t]) \ {l})
        BY <2>2, <3>3, <3>4, <3>6, <4>1, Sizes, ChainPop
      <4>3. spare'[t] = Pointers[l]
        BY <1>2, <3>6 DEF Pointers
      <4>4. made'[t] \ chained'[t] = (made[t] \ chained[t]) \ {l}
        BY <3>2, <3>6
      <4> QED
        BY <3>2, <3>5, <4>2, <4>3, <4>4
    <3>7. CASE l \notin made[t] /\ spare' = spare
      <4>1. \A k \in made[t] \ chained[t] : Pointers'[k] = Pointers[k]
        BY <3>1, <3>4, <3>7
      <4>2. Links(Pointers', spare[t], made[t] \ chained[t])
        BY <3>3, <4>1, ChainSame
      <4>3. made'[t] \ chained'[t] = made[t] \ chained[t]
        BY <3>2, <3>4, <3>7
      <4> QED
        BY <3>2, <3>5, <3>7, <4>2, <4>3
    <3> QED
      BY <2>2, <3>6, <3>7
  <2> QED
    BY <1>1, <2>1, <2>2, Entering
<1>6. Listing(t)'
  BY <1>3, <1>5 DEF Listing, Links, Ranked
<1> QED
  BY <1>4, <1>6

LEMMA RemoveCounts ==
  ASSUME IInv, NEW t \in Threads, RemoveLabel(t), Listing(t)
  PROVE  /\ count'[t] = Cardinality(Listed(t)')
         /\ \A u \in Threads : u # t => count'[u] = count[u]
<1> DEFINE l == cur[t]
           Nodes2 == label[l].nodes
<1>1. /\ l \in Labels /\ l \in chained[t]
      /\ chained'[t] = chained[t] \ {l}
      /\ \A k \in Labels : label'[k].nodes = label[k].nodes
      /\ chained[t] \subseteq Labels
  BY Relabelled DEF IInv, TypeOK, ListTypes
<1>2. Nodes2 \subseteq Nodes /\ IsFiniteSet(Nodes2) /\ Cardinality(Nodes2) \in Nat
  <2>1. Nodes2 \in SUBSET Nodes
    BY <1>1 DEF IInv, TypeOK, ListTypes
  <2> QED
    BY <2>1, Sizes, FS_Subset, FS_CardinalityType
<1> DEFINE Gone == {l} \X Nodes2
<1>3. Cardinality(Gone) = Cardinality(Nodes2)
  <2>1. IsFiniteSet({l}) /\ Cardinality({l}) = 1
    BY FS_Singleton
  <2>2. Cardinality(Gone) = 1 * Cardinality(Nodes2)
    BY <1>2, <2>1, FS_Product
  <2> HIDE DEF Gone, Nodes2
  <2> QED
    BY <1>2, <2>2
<1>4. Listed(t)' = Listed(t) \ Gone
  <2>1. Listed(t)' = {e \in chained'[t] \X Nodes : e[2] \in label'[e[1]].nodes}
    BY DEF Listed
  <2>2. ASSUME NEW k \in Labels, NEW n \in Nodes
        PROVE  <<k, n>> \in Listed(t)' <=> <<k, n>> \in Listed(t) \ Gone
    BY <1>1, <2>1, <2>2 DEF Listed
  <2>3. Listed(t)' \subseteq Labels \X Nodes /\ Listed(t) \ Gone \subseteq Labels \X Nodes
    BY <1>1, <2>1 DEF Listed
  <2> QED
    BY <2>2, <2>3
<1>5. Listed(t) \cap Gone = Gone
  BY <1>1, <1>2 DEF Listed
<1>6. Cardinality(Listed(t)') = Cardinality(Listed(t)) - Cardinality(Nodes2)
  <2> HIDE DEF Gone, Nodes2
  <2>1. IsFiniteSet(Listed(t)) /\ Cardinality(Listed(t) \ Gone) =
                                 Cardinality(Listed(t)) - Cardinality(Listed(t) \cap Gone)
    BY OwnLabels, FS_Difference
  <2> QED
    BY <1>3, <1>4, <1>5, <2>1
<1>7. /\ count'[t] = count[t] - Cardinality(Nodes2)
      /\ \A u \in Threads : u # t => count'[u] = count[u]
  BY DEF RemoveLabel, IInv, TypeOK, ListTypes
<1> QED
  BY <1>6, <1>7 DEF Listing

LEMMA RemoveListing ==
  ASSUME IInv, NEW t \in Threads, RemoveLabel(t), \A u \in Threads : Listing(u)
  PROVE  \A u \in Threads : Listing(u)'
<1> DEFINE l == cur[t]
           p == prev[t]
<1>1. /\ l \in Labels /\ l \in chained[t]
      /\ chained' = [chained EXCEPT ![t] = @ \ {l}]
      /\ head' = IF p = Nil THEN [head EXCEPT ![t] = label[l].next] ELSE head
      /\ spare' = [spare EXCEPT ![t] = l]
      /\ label'[l].next = spare[t]
      /\ p # Nil => /\ p \in chained[t] /\ p # l /\ label[p].next = l
                    /\ label'[p].next = label[l].next
      /\ \A k \in Labels \ {l, p} : label'[k] = label[k]
      /\ p = Nil => l = head[t]
      /\ made' = made
  BY Relabelled
<1>2. /\ head \in [Threads -> Labels \cup {Nil}] /\ spare \in [Threads -> Labels \cup {Nil}]
      /\ made \in [Threads -> SUBSET Labels] /\ chained \in [Threads -> SUBSET Labels]
  BY DEF IInv, TypeOK, ListTypes
<1>3. count'[t] = Cardinality(Listed(t)') /\ \A u \in Threads : u # t => count'[u] = count[u]
  BY RemoveCounts
<1>4. /\ IsFiniteSet(chained[t]) /\ IsFiniteSet(made[t] \ chained[t])
      /\ Nil \notin made[t] /\ chained[t] \subseteq made[t] /\ made[t] \subseteq Labels
  BY OwnLabels
<1>5. ASSUME NEW u \in Threads, u # t PROVE Listing(u)'
  <2>1. l \notin made[u] /\ p \notin made[u] /\ made[u] \subseteq Labels
    <3>1. made[t] \cap made[u] = {} /\ Nil \notin made[u] /\ made[u] \subseteq Labels
      BY <1>5, OwnLabels
    <3>2. l \in made[t] /\ (p = Nil \/ p \in made[t])
      BY <1>1, <1>4
    <3> QED
      BY <3>1, <3>2
  <2>2. \A k \in made[u] : label'[k] = label[k]
    BY <1>1, <2>1
  <2>3. /\ head'[u] = head[u] /\ spare'[u] = spare[u] /\ made'[u] = made[u]
        /\ chained'[u] = chained[u]
    BY <1>1, <1>2, <1>5
  <2> QED
    BY <1>3, <1>5, <2>2, <2>3, OwnLabels, OtherListings
<1>6. /\ chained'[t] = chained[t] \ {l} /\ spare'[t] = l /\ made'[t] = made[t]
      /\ Pointers'[l] = spare[t]
      /\ p # Nil => Pointers'[p] = Pointers[l] /\ Pointers[p] = l
      /\ \A k \in Labels \ {l, p} : Pointers'[k] = Pointers[k]
  BY <1>1, <1>2, <1>4 DEF Pointers
<1>7. Links(Pointers', head'[t], chained[t] \ {l})
  <2>1. Links(Pointers, head[t], chained[t])
    BY DEF Listing
  <2>2. CASE p = Nil
    <3>1. l = head[t] /\ head'[t] = Pointers[l] /\ l # Nil
      BY <1>1, <1>2, <2>2, Sizes DEF Pointers
    <3>2. \A k \in chained[t] \ {l} : Pointers'[k] = Pointers[k]
      BY <1>4, <1>6, <2>2
    <3> QED
      BY <1>4, <2>1, <3>1, <3>2, ChainPop
  <2>3. CASE p # Nil
    <3>1. head'[t] = head[t] /\ p \in chained[t] /\ p # l
      BY <1>1, <2>3
    <3>2. \A k \in chained[t] \ {l, p} : Pointers'[k] = Pointers[k]
      BY <1>4, <1>6
    <3> HIDE DEF l, p
    <3> QED
      BY <1>1, <1>4, <1>6, <2>1, <2>3, <3>1, <3>2, ChainCut
  <2> QED
    BY <2>2, <2>3
<1>8. Links(Pointers', l, made[t] \ (chained[t] \ {l}))
  <2> DEFINE S == made[t] \ chained[t]
  <2>1. Links(Pointers, spare[t], S) /\ l \notin S /\ Nil \notin S /\ IsFiniteSet(S)
    BY <1>1, <1>4 DEF Listing
  <2>2. \A k \in S : Pointers'[k] = Pointers[k]
    BY <1>1, <1>4, <1>6, Sizes
  <2>3. made[t] \ (chained[t] \ {l}) = S \cup {l}
    BY <1>1, <1>4
  <2> HIDE DEF S, l
  <2> QED
    BY <1>6, <2>1, <2>2, <2>3, ChainPush
<1>9. /\ Links(Pointers', head'[t], chained'[t])
      /\ Links(Pointers', spare'[t], made'[t] \ chained'[t])
  BY <1>6, <1>7, <1>8
<1>10. Listing(t)'
  BY <1>3, <1>9 DEF Listing, Links, Ranked
<1> QED
  BY <1>5, <1>10

-----------------------------------------------------------------------------
(* An Epoche object that is gone does not come back.                       *)
LEMMA Lasting == [Next]_vars /\ destroyed => destroyed'
<1>1. ASSUME NEW t \in Threads, Guard(t) PROVE UNCHANGED destroyed
  BY <1>1 DEF Guard, LoadEpoche, Announce, ExitReadonly, ExitEpoche
<1>2. ASSUME NEW t \in Threads, Removal(t) PROVE UNCHANGED destroyed
  BY <1>2 DEF Removal, UnclaimNode, Mark, UnlinkNode
<1>3. ASSUME NEW t \in Threads, Cleanup(t) PROVE UNCHANGED destroyed
  BY <1>3 DEF Cleanup, DecideCleanup, Withdraw, BeginWalk, SkipLabel, OpenLabel, RemoveLabel,
              EndWalk, ScanLocal, FreeNode
<1>4. ASSUME NEW t \in Threads,
             \/ Register(t) \/ Unregister(t) \/ Flush(t)
             \/ \E n \in Nodes : LinkNode(t, n) \/ ClaimNode(t, n)
      PROVE  UNCHANGED destroyed
  BY <1>4 DEF Register, Unregister, Flush, LinkNode, ClaimNode
<1> QED
  BY <1>1, <1>2, <1>3, <1>4 DEF Next, Destroy, vars

LEMMA InitListing == Init => ListIntact
<1> SUFFICES ASSUME Init, NEW t \in Threads
             PROVE  /\ Chain(head[t], chained[t])
                    /\ Chain(spare[t], made[t] \ chained[t])
                    /\ count[t] = Cardinality(Listed(t))
  BY DEF ListIntact
<1>1. /\ head[t] = Nil /\ spare[t] = Nil /\ chained[t] = {} /\ made[t] = {} /\ count[t] = 0
  BY DEF Init
<1>2. Chain(Nil, {})
  <2>1. [l \in {} |-> 0] \in [{} -> 1..Cardinality({})]
    OBVIOUS
  <2> QED
    BY <2>1 DEF Chain
<1>3. Listed(t) = {}
  BY <1>1 DEF Listed
<1> QED
  BY <1>1, <1>2, <1>3, FS_EmptySet

LEMMA ListStep ==
  ASSUME IInv, IInv', ListIntact, [Next]_vars
  PROVE  ListIntact'
<1>1. CASE Destroy
  <2>1. destroyed' = TRUE
    BY <1>1 DEF Destroy
  <2> QED
    BY <2>1 DEF ListIntact
<1>2. CASE destroyed'
  BY <1>2 DEF ListIntact
<1>3. CASE ~ destroyed' /\ ~ Destroy
  <2>1. ~ destroyed
    BY <1>3, Lasting
  <2>2. \A t \in Threads : Listing(t)
    BY <2>1, ListingIntact DEF IInv, TypeOK
  <2>3. \A t \in Threads : Listing(t)'
    <3>1. CASE UNCHANGED <<head, spare, count, label, made, chained>>
      <4>1. ASSUME NEW t \in Threads PROVE Listing(t)'
        BY <2>2, <3>1, OwnLabels, OtherListings
      <4> QED
        BY <4>1
    <3>2. ASSUME NEW t \in Threads, Mark(t) PROVE \A u \in Threads : Listing(u)'
      BY <2>2, <3>2, MarkListing
    <3>3. ASSUME NEW t \in Threads, RemoveLabel(t) PROVE \A u \in Threads : Listing(u)'
      BY <2>2, <3>3, RemoveListing
    <3> QED
      BY <1>3, <3>1, <3>2, <3>3, ListSteps
  <2> QED
    BY <2>3, ListingIntactNext DEF IInv, TypeOK
<1> QED
  BY <1>1, <1>2, <1>3

(* A label is in the deletion list or in the free list of the thread that  *)
(* made it, both are chains, and deletitionListCount counts the nodes      *)
(* entered (Epoche.cpp:25, Epoche.cpp:39).                                 *)
THEOREM ListIntactHolds == Spec => []ListIntact
<1>1. Init => ListIntact
  BY InitListing
<1>2. IInv /\ IInv' /\ ListIntact /\ [Next]_vars => ListIntact'
  BY ListStep
<1> QED
  BY <1>1, <1>2, Invariant, PTL DEF Spec
=============================================================================
