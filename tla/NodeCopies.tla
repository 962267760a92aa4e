----------------------------- MODULE NodeCopies -----------------------------
(***************************************************************************)
(* A node of one of the three copies of the tree, which have node classes  *)
(* and ladders of their own.                                               *)
(***************************************************************************)
EXTENDS Integers

CONSTANTS
    Base,                   \* values of a byte: 256
    Full4, Full16,          \* 4, 16, of tiny_art
    Under16, Under256,      \* 3, 13
    Room16, Room64,         \* 16, 64, of tiny_art_64
    Least64, Least256,      \* 12, 53
    Leaves, Inner

VARIABLES n, hasParent, children, copy

A == INSTANCE ArtNodes
A64 == INSTANCE ArtNodes64
    WITH Full16 <- Room16, Full64 <- Room64, Under64 <- Least64, Under256 <- Least256
A256 == INSTANCE ArtNodes256

ASSUME NodesAssumption == A!SizesFit /\ A64!SizesFit /\ A256!SizesFit

nodeVars == <<n, hasParent, children, copy>>

NodesInit ==
    \/ copy = "tiny_art" /\ A!Life!Init
    \/ copy = "tiny_art_64" /\ A64!Life!Init
    \/ copy = "tiny_art_256" /\ A256!Life!Init

NodesNext ==
    /\ \/ copy = "tiny_art" /\ A!Life!Next
       \/ copy = "tiny_art_64" /\ A64!Life!Next
       \/ copy = "tiny_art_256" /\ A256!Life!Next
    /\ UNCHANGED copy

NodesSpec == NodesInit /\ [][NodesNext]_nodeVars
-----------------------------------------------------------------------------
\* However it came to its class, a node reads as the map from bytes to children: one by
\* one (getChild), as a list of all or of those between two bytes (getChildren), and by
\* getAnyChild (N4.cpp, N16.cpp, N64.cpp, N256.cpp).
ReadsAsMap ==
    /\ copy = "tiny_art" => A!Life!ReadsAsMap
    /\ copy = "tiny_art_64" => A64!Life!ReadsAsMap
    /\ copy = "tiny_art_256" => A256!Life!ReadsAsMap

\* No array of a node is written past its end, not even while a node that shrinks is
\* copied, and what it counts is how many children it has, in eight bits (N.cpp:212,
\* N256.cpp count).
StaysInside ==
    /\ copy = "tiny_art" => A!Life!StaysInside
    /\ copy = "tiny_art_64" => A64!Life!StaysInside
    /\ copy = "tiny_art_256" => A256!Life!StaysInside
=============================================================================
