---------------------------- MODULE MCArtCopies ----------------------------
(***************************************************************************)
(* The other two copies of the tree.  Two threads, a tree that was filled  *)
(* before; in the copy with 256 children the dereference table may run     *)
(* full at any allocation, in the other one it has room.                   *)
(***************************************************************************)
EXTENDS TLC

CONSTANTS t1, t2

VARIABLES mem, loc, todo, load, retired, copy

Threads == {t1, t2}
vars == <<mem, loc, todo, load, retired, copy>>

Call(operation, k) == [op |-> operation, key |-> k]
Scenario(keys, p, q) == [load |-> keys, ops |-> (t1 :> p) @@ (t2 :> q)]

\* A prefix to be split in two places, of which one byte is stored; a full node
\* that grows twice while an insertion and a lookup go through it; a leaf in the
\* way of two insertions; two insertions into the same place of an empty tree.
Scenarios ==
    {Scenario(<< <<0, 0, 0, 0>>, <<0, 0, 0, 1>> >>,
              <<Call("insert", <<0, 0, 1, 0>>), Call("lookup", <<0, 0, 0, 1>>)>>,
              <<Call("insert", <<0, 1, 0, 0>>), Call("lookup", <<0, 0, 1, 1>>)>>),
     Scenario(<< <<0, 0, 0, 0>>, <<0, 1, 0, 0>> >>,
              <<Call("insert", <<0, 2, 0, 0>>), Call("insert", <<0, 3, 0, 0>>)>>,
              <<Call("insert", <<0, 1, 1, 0>>), Call("lookup", <<0, 1, 0, 0>>)>>),
     Scenario(<< <<0, 0, 0, 0>> >>,
              <<Call("insert", <<0, 0, 1, 0>>), Call("lookup", <<0, 0, 0, 0>>)>>,
              <<Call("insert", <<0, 0, 0, 1>>), Call("lookup", <<0, 0, 1, 0>>)>>),
     Scenario(<<>>, <<Call("insert", <<0, 0, 0, 0>>)>>, <<Call("insert", <<0, 0, 0, 1>>)>>)}

Art64 == INSTANCE TinyArt64 WITH Ladder <- <<2, 3>>, MaxStored <- 1, MayOverflow <- FALSE
Art256 == INSTANCE TinyArt256 WITH MaxStored <- 1, MayOverflow <- TRUE

Init ==
    \/ copy = "64" /\ Art64!Tree
    \/ copy = "256" /\ Art256!Tree

Step(t) ==
    /\ \/ copy = "64" /\ Art64!Step(t)
       \/ copy = "256" /\ Art256!Step(t)
    /\ UNCHANGED copy

Next == \E t \in Threads : Step(t)

\* A thread that can go on does.
Spec == Init /\ [][Next]_vars /\ \A t \in Threads : WF_vars(Step(t))
-----------------------------------------------------------------------------
\* Every call returns where no allocation fails, though restarts are not
\* bounded: whoever holds a lock lets go of it, and only the progress of
\* another call makes one begin anew (Tree.cpp:533).
CallsReturn ==
    \A t \in Threads : (copy = "64" /\ loc[t].pc # "idle") ~> (loc[t].pc = "idle")

\* An exception out of the middle of an insertion (Tree.cpp:576) leaves locks
\* behind, but no key appears, disappears or is answered wrongly.
ImplementsMap == Art64!Art!ImplementsMap
=============================================================================
