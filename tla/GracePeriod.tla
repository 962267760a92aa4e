---------------------------- MODULE GracePeriod ----------------------------
(***************************************************************************)
(* What epoch-based reclamation promises to the trees: the memory of a     *)
(* node that was unlinked is given back only when no operation that might  *)
(* still hold a pointer to it is running.  A remover first claims a node   *)
(* (it locks the parent, so that an operation beginning later cannot come  *)
(* by the pointer), then unlinks it; the operations inside a guard at the  *)
(* claim are the ones the node has to wait for.                            *)
(***************************************************************************)
EXTENDS FiniteSets

CONSTANTS
    Threads,    \* threads that run operations
    Nodes       \* addresses of nodes

VARIABLES
    inside,     \* threads between the two ends of an epoch guard
    phase,      \* phase[n]: "free", "linked", "claimed" or "unlinked"
    waiting     \* waiting[n]: operations that may hold a pointer to n

gvars == <<inside, phase, waiting>>

Phases == {"free", "linked", "claimed", "unlinked"}

Init ==
    /\ inside = {}
    /\ phase = [n \in Nodes |-> "free"]
    /\ waiting = [n \in Nodes |-> {}]

Enter(t) ==
    /\ t \notin inside
    /\ inside' = inside \cup {t}
    /\ UNCHANGED <<phase, waiting>>

\* The operation of t ends: no node waits for it any longer.
Leave(t) ==
    /\ t \in inside
    /\ inside' = inside \ {t}
    /\ waiting' = [n \in Nodes |-> waiting[n] \ {t}]
    /\ UNCHANGED phase

\* An operation loses its protection while it runs: nodes stop waiting for it.
Overlook(t) ==
    /\ waiting' = [n \in Nodes |-> waiting[n] \ {t}]
    /\ UNCHANGED <<inside, phase>>

Link(n) ==
    /\ phase[n] = "free"
    /\ phase' = [phase EXCEPT ![n] = "linked"]
    /\ UNCHANGED <<inside, waiting>>

\* The set S of operations that may hold n: all that run, but the overlooked.
Claim(n, S) ==
    /\ phase[n] = "linked"
    /\ S \subseteq inside
    /\ phase' = [phase EXCEPT ![n] = "claimed"]
    /\ waiting' = [waiting EXCEPT ![n] = S]
    /\ UNCHANGED inside

Unclaim(n) ==
    /\ phase[n] = "claimed"
    /\ phase' = [phase EXCEPT ![n] = "linked"]
    /\ waiting' = [waiting EXCEPT ![n] = {}]
    /\ UNCHANGED inside

Unlink(n) ==
    /\ phase[n] = "claimed"
    /\ phase' = [phase EXCEPT ![n] = "unlinked"]
    /\ UNCHANGED <<inside, waiting>>

\* The promise: only an unlinked node nobody can still hold is given back.
Free(n) ==
    /\ phase[n] = "unlinked"
    /\ waiting[n] = {}
    /\ phase' = [phase EXCEPT ![n] = "free"]
    /\ UNCHANGED <<inside, waiting>>

\* The container is destroyed when no operation runs: all that is left goes.
Destroy ==
    /\ inside = {}
    /\ phase' = [n \in Nodes |-> IF phase[n] = "unlinked" THEN "free" ELSE phase[n]]
    /\ UNCHANGED <<inside, waiting>>

Next ==
    \/ \E t \in Threads : Enter(t) \/ Leave(t) \/ Overlook(t)
    \/ \E n \in Nodes :
          \/ Link(n) \/ Unclaim(n) \/ Unlink(n) \/ Free(n)
          \/ \E S \in SUBSET Threads : Claim(n, S)
    \/ Destroy

Spec == Init /\ [][Next]_gvars
=============================================================================
