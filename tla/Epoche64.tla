---------------------------- MODULE Epoche64 ----------------------------
(***************************************************************************)
(* The epochs of art/tiny_art_64, whose Epoche.h and Epoche.cpp are a copy *)
(* of the files that EpochGC models, for their own tiny pointers.          *)
(***************************************************************************)
CONSTANTS Threads, Nodes, Labels, Nil, LabelSize, Period, Threshold, MaxEpoch

VARIABLES
    currentEpoche, localEpoche, unflushed, created, loaded, readonly, pc, held,
    thresholdCounter, head, spare, count, label, made, chained, unscanned, oldest,
    cur, prev, pending, inside, phase, waiting, overlooked, destroyed

GC == INSTANCE EpochGC

(* threads and guards *)

Register(t) == GC!Register(t)
Unregister(t) == GC!Unregister(t)
LoadEpoche(t) == GC!LoadEpoche(t)
Announce(t) == GC!Announce(t)
Flush(t) == GC!Flush(t)
ExitReadonly(t) == GC!ExitReadonly(t)
ExitEpoche(t) == GC!ExitEpoche(t)

(* what the tree does to a node *)

LinkNode(t, n) == GC!LinkNode(t, n)
ClaimNode(t, n) == GC!ClaimNode(t, n)
UnclaimNode(t) == GC!UnclaimNode(t)
UnlinkNode(t) == GC!UnlinkNode(t)
Mark(t) == GC!Mark(t)

(* cleanup *)

DecideCleanup(t) == GC!DecideCleanup(t)
Withdraw(t) == GC!Withdraw(t)
ScanLocal(t, u) == GC!ScanLocal(t, u)
BeginWalk(t) == GC!BeginWalk(t)
SkipLabel(t) == GC!SkipLabel(t)
OpenLabel(t) == GC!OpenLabel(t)
FreeNode(t, n) == GC!FreeNode(t, n)
RemoveLabel(t) == GC!RemoveLabel(t)
EndWalk(t) == GC!EndWalk(t)
Destroy == GC!Destroy

Next ==
    \/ \E t \in Threads :
          \/ Register(t) \/ Unregister(t) \/ LoadEpoche(t) \/ Announce(t) \/ Flush(t)
          \/ ExitReadonly(t) \/ ExitEpoche(t)
          \/ UnclaimNode(t) \/ UnlinkNode(t) \/ Mark(t)
          \/ DecideCleanup(t) \/ Withdraw(t) \/ BeginWalk(t) \/ SkipLabel(t)
          \/ OpenLabel(t) \/ RemoveLabel(t) \/ EndWalk(t)
          \/ \E n \in Nodes : LinkNode(t, n) \/ ClaimNode(t, n) \/ FreeNode(t, n)
          \/ \E u \in Threads : ScanLocal(t, u)
    \/ Destroy
=============================================================================
