------------------------------- MODULE ArtN16 -------------------------------
(***************************************************************************)
(* N16: a sorted array whose bytes are stored with the highest bit flipped *)
(* and compared all at once by instructions that take them as signed.      *)
(***************************************************************************)
EXTENDS Integers, Sequences, SequencesExt

CONSTANTS
    Base,       \* how many values a byte has, an even number
    Full,       \* 16
    Underfull,  \* 3 in tiny_art, -1 for never in tiny_art_64
    Leaves,
    null

flipSign(b) == (b + Base \div 2) % Base
Signed(b) == IF b < Base \div 2 THEN b ELSE b - Base

Create == [type |-> "N16", count |-> 0, keys |-> <<>>, children |-> <<>>, overrun |-> FALSE]

isFull(m) == m.count = Full
isUnderfull(m) == m.count = Underfull

\* Faulty: the bytes are compared as unsigned.
InsertPosUnsigned(m, s) == Min({i \in 1..m.count : s < m.keys[i]} \cup {m.count + 1})

\* The first of the keys in use that is greater; cmplt takes them as signed.
InsertPos(m, s) ==
    Min({i \in 1..m.count : Signed(s) < Signed(m.keys[i])} \cup {m.count + 1})

insert(m, b, c) ==
    LET pos == InsertPos(m, flipSign(b))
    IN  [m EXCEPT !.keys = InsertAt(@, pos, flipSign(b)), !.children = InsertAt(@, pos, c),
                  !.count = @ + 1, !.overrun = @ \/ isFull(m)]

\* What copyTo inserts elsewhere, in this order.
Pairs(m) == [i \in 1..m.count |-> <<flipSign(m.keys[i]), m.children[i]>>]

\* Where the byte is, nullptr as 0.
getChildPos(m, b) ==
    LET at == {i \in 1..m.count : m.keys[i] = flipSign(b)}
    IN  IF at = {} THEN 0 ELSE Min(at)

change(m, b, c) == [m EXCEPT !.children[getChildPos(m, b)] = c]

getChild(m, b) == IF getChildPos(m, b) = 0 THEN null ELSE m.children[getChildPos(m, b)]

remove(m, b) ==
    LET pos == getChildPos(m, b)
    IN  [m EXCEPT !.keys = RemoveAt(@, pos), !.children = RemoveAt(@, pos), !.count = @ - 1]

\* The first leaf, or the first child.
getAnyChild(m) ==
    LET leaves == {i \in 1..m.count : m.children[i] \in Leaves}
    IN  Pairs(m)[IF leaves # {} THEN Min(leaves) ELSE 1]

\* From the position of start to that of end; a bound that is no key cuts nothing off.
getChildren(m, start, end) ==
    SubSeq(Pairs(m), IF getChildPos(m, start) = 0 THEN 1 ELSE getChildPos(m, start),
                     IF getChildPos(m, end) = 0 THEN m.count ELSE getChildPos(m, end))
=============================================================================
