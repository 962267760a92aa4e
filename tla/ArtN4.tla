-------------------------------- MODULE ArtN4 --------------------------------
(***************************************************************************)
(* N4: few children in an array that is kept sorted and searched from the  *)
(* front.                                                                  *)
(***************************************************************************)
EXTENDS Integers, Sequences, SequencesExt

CONSTANTS
    Full,       \* 4
    Leaves,     \* tiny pointers to leaves
    null

Create == [type |-> "N4", count |-> 0, keys |-> <<>>, children |-> <<>>, overrun |-> FALSE]

isFull(m) == m.count = Full
isUnderfull(m) == FALSE

\* The first position whose key is not less.
insert(m, b, c) ==
    LET pos == Min({i \in 1..m.count : m.keys[i] >= b} \cup {m.count + 1})
    IN  [m EXCEPT !.keys = InsertAt(@, pos, b), !.children = InsertAt(@, pos, c),
                  !.count = @ + 1, !.overrun = @ \/ isFull(m)]

\* What copyTo inserts elsewhere, in this order.
Pairs(m) == [i \in 1..m.count |-> <<m.keys[i], m.children[i]>>]

At(m, b) == {i \in 1..m.count : m.keys[i] = b}

change(m, b, c) == [m EXCEPT !.children[Min(At(m, b))] = c]

getChild(m, b) == IF At(m, b) = {} THEN null ELSE m.children[Min(At(m, b))]

remove(m, b) ==
    IF At(m, b) = {} THEN m
    ELSE [m EXCEPT !.keys = RemoveAt(@, Min(At(m, b))),
                   !.children = RemoveAt(@, Min(At(m, b))), !.count = @ - 1]

\* The first leaf, or the last child.
getAnyChild(m) ==
    LET leaves == {i \in 1..m.count : m.children[i] \in Leaves}
    IN  Pairs(m)[IF leaves # {} THEN Min(leaves) ELSE m.count]

getChildren(m, start, end) ==
    FoldLeft(LAMBDA list, p : IF start <= p[1] /\ p[1] <= end THEN Append(list, p) ELSE list,
             <<>>, Pairs(m))
=============================================================================
