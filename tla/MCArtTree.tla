----------------------------- MODULE MCArtTree -----------------------------
(***************************************************************************)
(* Instances of ArtTree.  Keys have four bytes; the tree holds one byte of *)
(* a prefix.  Two threads insert while a third looks a key up, in a tree   *)
(* that was filled before.                                                 *)
(***************************************************************************)
EXTENDS ArtTree, TLC

CONSTANTS t1, t2, t3

Get(k) == <<[op |-> "lookup", key |-> k]>>
Put(k) == <<[op |-> "insert", key |-> k]>>
Scenario(keys, p, q, r) ==
    [load |-> keys, ops |-> (t1 :> p) @@ (t2 :> q) @@ (t3 :> r)]

\* Below the root one node with the prefix 0,0 of which one byte is stored.  It
\* is split in two places, and read for a key that is there and for one that
\* differs only in the byte that is not stored.
Prefixes ==
    {Scenario(<< <<0, 0, 0, 0>>, <<0, 0, 0, 1>> >>,
              Put(<<0, 0, 1, 0>>), Put(<<0, 1, 0, 0>>), Get(k)) :
        k \in {<<0, 0, 0, 1>>, <<0, 0, 1, 1>>}}

\* A full node: one insertion makes it grow, another goes through it to a leaf.
Growth ==
    {Scenario(<< <<0, 0, 0, 0>>, <<0, 1, 0, 0>> >>,
              Put(<<0, 2, 0, 0>>), Put(<<0, 1, 1, 0>>), Get(<<0, 1, 0, 0>>))}

\* A single leaf that both insertions split.
Leaves ==
    {Scenario(<< <<0, 0, 0, 0>> >>,
              Put(<<0, 0, 1, 0>>), Put(<<0, 0, 0, 1>>), Get(<<0, 0, 0, 0>>))}

\* An empty tree, both insertions for the same place in it.
Empty ==
    {Scenario(<<>>, Put(<<0, 0, 0, 0>>), Put(<<0, 0, 0, 1>>), Get(<<0, 0, 0, 0>>))}

AllScenarios == Empty \cup Prefixes \cup Growth \cup Leaves
SmallLadder == <<2, 3>>
=============================================================================
