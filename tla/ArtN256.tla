------------------------------- MODULE ArtN256 -------------------------------
(***************************************************************************)
(* N256: a table of children.  Its count has as many values as a byte has, *)
(* so that a node whose children are all there counts none.                *)
(***************************************************************************)
EXTENDS Integers, Sequences, SequencesExt

CONSTANTS
    Base,       \* how many values a byte has
    Underfull,  \* 13 in tiny_art, 53 in tiny_art_64, -1 for never in tiny_art_256
    Leaves,
    null

Byte == 0..Base - 1

Create == [type |-> "N256", count |-> 0, children |-> [b \in Byte |-> null], overrun |-> FALSE]

isFull(m) == FALSE
isUnderfull(m) == m.count = Underfull

insert(m, b, c) == [m EXCEPT !.children[b] = c, !.count = (@ + 1) % Base]

\* Every place from start to end is looked at.
getChildren(m, start, end) ==
    FoldLeft(LAMBDA list, p : IF p[2] # null THEN Append(list, p) ELSE list, <<>>,
             [i \in 1..end - start + 1 |-> <<start + i - 1, m.children[start + i - 1]>>])

\* What copyTo inserts elsewhere, in this order.
Pairs(m) == getChildren(m, 0, Base - 1)

change(m, b, c) == [m EXCEPT !.children[b] = c]

getChild(m, b) == m.children[b]

remove(m, b) == [m EXCEPT !.children[b] = null, !.count = (@ - 1) % Base]

\* The first leaf, or the last child.
getAnyChild(m) ==
    LET list == Pairs(m)
        leaves == {i \in DOMAIN list : list[i][2] \in Leaves}
    IN  list[IF leaves # {} THEN Min(leaves) ELSE Len(list)]
=============================================================================
