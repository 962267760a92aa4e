------------------------------- MODULE ArtN64 -------------------------------
(***************************************************************************)
(* N64, without AVX-512: the array of N16, searched from the front.        *)
(***************************************************************************)
EXTENDS Integers, Sequences, SequencesExt

CONSTANTS
    Base,       \* how many values a byte has, an even number
    Full,       \* 64
    Underfull,  \* 12
    Leaves,
    null

flipSign(b) == (b + Base \div 2) % Base
Signed(b) == IF b < Base \div 2 THEN b ELSE b - Base

Create == [type |-> "N64", count |-> 0, keys |-> <<>>, children |-> <<>>, overrun |-> FALSE]

isFull(m) == m.count = Full
isUnderfull(m) == m.count = Underfull

\* Past every key that is less or equal, as signed bytes.
insert(m, b, c) ==
    LET s == flipSign(b)
        pos == Min({i \in 1..m.count : Signed(m.keys[i]) > Signed(s)} \cup {m.count + 1})
    IN  [m EXCEPT !.keys = InsertAt(@, pos, s), !.children = InsertAt(@, pos, c),
                  !.count = @ + 1, !.overrun = @ \/ isFull(m)]

\* What copyTo inserts elsewhere, in this order.
Pairs(m) == [i \in 1..m.count |-> <<flipSign(m.keys[i]), m.children[i]>>]

\* Where the byte is, nullptr as 0.
getChildPos(m, b) ==
    LET at == {i \in 1..m.count : m.keys[i] = flipSign(b)}
    IN  IF at = {} THEN 0 ELSE Min(at)

change(m, b, c) == [m EXCEPT !.children[getChildPos(m, b)] = c]

getChild(m, b) == IF getChildPos(m, b) = 0 THEN null ELSE m.children[getChildPos(m, b)]

remove(m, b) ==
    LET pos == getChildPos(m, b)
    IN  [m EXCEPT !.keys = RemoveAt(@, pos), !.children = RemoveAt(@, pos), !.count = @ - 1]

\* The first leaf, or the first child.
getAnyChild(m) ==
    LET leaves == {i \in 1..m.count : m.children[i] \in Leaves}
    IN  Pairs(m)[IF leaves # {} THEN Min(leaves) ELSE 1]

\* From the position of start to that of end; a bound that is no key cuts nothing off.
getChildren(m, start, end) ==
    SubSeq(Pairs(m), IF getChildPos(m, start) = 0 THEN 1 ELSE getChildPos(m, start),
                     IF getChildPos(m, end) = 0 THEN m.count ELSE getChildPos(m, end))
=============================================================================
