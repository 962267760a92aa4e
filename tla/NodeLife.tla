------------------------------ MODULE NodeLife ------------------------------
(***************************************************************************)
(* The life of one node of an adaptive radix tree, used by one thread under*)
(* its lock: children are inserted, changed and removed, and N.cpp replaces*)
(* the node by a bigger or a smaller one.  The operators are those of the  *)
(* node's class, found by its type.                                        *)
(***************************************************************************)
EXTENDS Integers, Sequences, FiniteSets, SequencesExt

CONSTANTS
    Base,           \* how many values a byte has: 256 in the code
    Leaves,         \* tiny pointers to leaves
    Inner,          \* tiny pointers to other nodes
    null,
    Smallest,       \* the node that Tree::insert creates, empty
    Largest,        \* the root, empty
    bigger(_),      \* an empty node of the class that a full node grows to
    smaller(_),     \* an empty node of the class that an underfull node shrinks to
    isFull(_), isUnderfull(_), insert(_, _, _), change(_, _, _), remove(_, _),
    Pairs(_), getChild(_, _), getAnyChild(_), getChildren(_, _, _)

VARIABLES
    n,          \* the node
    hasParent,  \* whether it is not the root
    children    \* what was inserted, changed and removed: the child of each byte

vars == <<n, hasParent, children>>

Byte == 0..Base - 1
Present == {b \in Byte : children[b] # null}

copyTo(m, other) == FoldLeft(LAMBDA o, p : insert(o, p[1], p[2]), other, Pairs(m))

\* The root is a table; other nodes start as the smallest kind.
Init ==
    /\ hasParent \in BOOLEAN
    /\ n = IF hasParent THEN Smallest ELSE Largest
    /\ children = [b \in Byte |-> null]

insertGrow(b, c) ==
    /\ b \notin Present
    /\ n' = IF ~isFull(n) THEN insert(n, b, c) ELSE insert(copyTo(n, bigger(n)), b, c)
    /\ children' = [children EXCEPT ![b] = c]
    /\ UNCHANGED hasParent

Change(b, c) ==
    /\ b \in Present
    /\ n' = change(n, b, c)
    /\ children' = [children EXCEPT ![b] = c]
    /\ UNCHANGED hasParent

\* Faulty: a node shrinks although it is not underfull yet.
removeAndShrinkEarly(b) ==
    /\ b \in Present
    /\ hasParent => Cardinality(Present) > 2
    /\ n' = IF ~isUnderfull(remove(n, b)) \/ ~hasParent THEN remove(n, b)
            ELSE remove(copyTo(n, smaller(n)), b)
    /\ children' = [children EXCEPT ![b] = null]
    /\ UNCHANGED hasParent

\* A node that is not the root keeps two children: Tree::remove merges it first.
removeAndShrink(b) ==
    /\ b \in Present
    /\ hasParent => Cardinality(Present) > 2
    /\ n' = IF ~isUnderfull(n) \/ ~hasParent THEN remove(n, b)
            ELSE remove(copyTo(n, smaller(n)), b)
    /\ children' = [children EXCEPT ![b] = null]
    /\ UNCHANGED hasParent

Next ==
    \E b \in Byte :
        \/ \E c \in Leaves \cup Inner : insertGrow(b, c) \/ Change(b, c)
        \/ removeAndShrink(b)

Spec == Init /\ [][Next]_vars
-----------------------------------------------------------------------------
\* Whatever its class and however it came to it, a node reads as the map from
\* bytes to children: one by one (getChild), as the list of all in the order of
\* the bytes and as a list between two bytes that are there or the ends of the
\* range (getChildren; other bounds cut nothing off an N16 or N64); and
\* getAnyChild ends at a leaf if there is one, which getAnyChildTid relies on to
\* be short (N4.cpp:64, N16.cpp:76, N256.cpp:42).
ReadsAsMap ==
    LET list == Pairs(n)
        pairs(s) == {<<s[i][1], s[i][2]>> : i \in DOMAIN s}
        any == getAnyChild(n)
    IN  /\ \A b \in Byte : getChild(n, b) = children[b]
        /\ \A i, j \in DOMAIN list : i < j => list[i][1] < list[j][1]
        /\ \A from \in Present \cup {0}, to \in Present \cup {Base - 1} :
              from <= to =>
                  pairs(getChildren(n, from, to)) =
                      {<<b, children[b]>> : b \in {x \in Present : from <= x /\ x <= to}}
        /\ Present # {} =>
              /\ any[2] = children[any[1]]
              /\ (\E b \in Present : children[b] \in Leaves) => any[2] \in Leaves

\* No array is written past its end, not even while the children of a node that
\* shrinks are copied before the one to be removed is (N.cpp:212), and the count
\* that isFull and isUnderfull go by is exact but for its eight bits.
StaysInside == ~n.overrun /\ n.count = Cardinality(Present) % Base
=============================================================================
