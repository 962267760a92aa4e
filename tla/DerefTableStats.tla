-------------------------- MODULE DerefTableStats --------------------------
(***************************************************************************)
(* The statistics of the dereference table: size() and max_reached_size()  *)
(* sum thread-local counters, while free_slot_count is kept per bucket.    *)
(* A history variable follows the number of objects clients really own.    *)
(***************************************************************************)
EXTENDS DerefTable, FiniteSetsExt

(* Sums are sums of finitely many numbers. *)
ASSUME StatsAssumption == IsFiniteSet(Threads) /\ IsFiniteSet(Buckets)

VARIABLE peak  (* history: the most objects ever allocated at once *)

statVars == <<vars, peak>>

SumOf(f) == MapThenSumSet(LAMBDA x : f[x], DOMAIN f)

AllocatedIn(b) == SumOf(held[b])

Allocated == SumOf([b \in Buckets |-> AllocatedIn(b)])

Capacity == Entries * Cardinality(Buckets)

\* max_reached_size().
MaxReachedSize == SumOf(maxSize)

StatInit == Init /\ peak = 0

StatNext == Next /\ peak' = IF Allocated' > peak THEN Allocated' ELSE peak

StatSpec == StatInit /\ [][StatNext]_statVars

\* When no call is in progress, the thread-local counters, the counts of the
\* buckets and the objects in use agree: failed and retried attempts leave
\* no trace in them, and a thread may free what another has allocated.
CountersAgree ==
  Quiescent =>
    /\ SumOf(size) = Allocated
    /\ SumOf(freeCount) + Allocated = Capacity

\* max_reached_size() is an upper bound on the number of objects allocated at
\* once, though the threads reach their own peaks at different times, and is
\* exact while nothing has been freed (deref_table.h:275).
MaxBoundsPeak ==
  /\ peak <= MaxReachedSize
  /\ frees = 0 => MaxReachedSize = peak
===========================================================================
