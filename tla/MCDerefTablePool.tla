-------------------------- MODULE MCDerefTablePool --------------------------
(* Instances of DerefTable with its statistics, against the pool of slots. *)
EXTENDS DerefTableRefines, DerefTableStats, TLC

AllHashes == [Bits -> Buckets]

ThreadSymmetry == Permutations(Threads)
=============================================================================
