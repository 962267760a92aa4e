----------------------------- MODULE MCEpochGC -----------------------------
(***************************************************************************)
(* EpochGC and its two copies side by side, the copies with sizes of their *)
(* own: another period of the epochs, no threshold for the clean-up, more  *)
(* than one node to a label.  For liveness, one thread that writes, in     *)
(* EpochGC alone.                                                          *)
(***************************************************************************)
EXTENDS EpochGC, TLC

CONSTANT Writers    \* in LiveSpec, the threads that do not only read

Symmetry == Permutations(Threads) \cup Permutations(Nodes) \cup Permutations(Labels)

VARIABLE copy       \* whose epochs the run uses

E64 == INSTANCE Epoche64 WITH Period <- 3, Threshold <- 0
E256 == INSTANCE Epoche256 WITH Threshold <- 2, LabelSize <- 2

CopiesInit == Init /\ copy \in {"tiny_art", "tiny_art_64", "tiny_art_256"}

CopiesNext ==
    /\ \/ copy = "tiny_art" /\ Next
       \/ copy = "tiny_art_64" /\ E64!Next
       \/ copy = "tiny_art_256" /\ E256!Next
    /\ UNCHANGED copy

CopiesSpec == CopiesInit /\ [][CopiesNext]_<<vars, copy>>
-----------------------------------------------------------------------------
(***************************************************************************)
(* Deletion lists belong to one thread each: to a clean-up the other       *)
(* threads are the epochs they announce.  So one writer and readers show   *)
(* whether its walk ends.  Addresses are used in a fixed order, which      *)
(* stands for every order: no step depends on an address.                  *)
(***************************************************************************)
Unmade == Labels \ UNION {made[t] : t \in Threads}
FreeNodes == {n \in Nodes : phase[n] = "free"}

MarkInOrder(t) ==
    /\ Mark(t)
    /\ \A l \in made'[t] \ made[t] : l = CHOOSE k \in Unmade : TRUE

LinkInOrder(t) == FreeNodes # {} /\ LinkNode(t, CHOOSE n \in FreeNodes : TRUE)

LiveNext ==
    /\ \/ \E t \in Threads :
             \/ Register(t) \/ Unregister(t) \/ Flush(t)
             \/ LoadEpoche(t) /\ (readonly'[t] <=> t \notin Writers)
             \/ Announce(t) \/ ExitReadonly(t) \/ ExitEpoche(t)
             \/ LinkInOrder(t) \/ UnclaimNode(t) \/ MarkInOrder(t) \/ UnlinkNode(t)
             \/ \E n \in Nodes : ClaimNode(t, n)
             \/ Cleanup(t)
       \/ Destroy
    /\ UNCHANGED copy

LiveInit == Init /\ copy = "tiny_art"

LiveSpec == LiveInit /\ [][LiveNext]_<<vars, copy>> /\ Fairness
=============================================================================
