--------------------------- MODULE MCDerefTable ---------------------------
(* Instances of DerefTable: the keys hash to every pair of buckets, equal  *)
(* ones included.                                                          *)
EXTENDS DerefTableRefines, TLC

CONSTANT Stalled  \* the thread that StalledAttempt is about

AllHashes == [Bits -> Buckets]

ThreadSymmetry == Permutations(Threads)

(* The corner of the state space in which a version wraps: the first call  *)
(* makes its optimistic reads undisturbed and is then not scheduled until  *)
(* the version it remembers has come back.                                 *)
StalledAttempt ==
  \/ wrapped # {}
  \/ allocs <= 1 /\ \A t \in Threads \ {Stalled} : pc[t] = "idle"
  \/ pc[Stalled] = "validate"
===========================================================================
