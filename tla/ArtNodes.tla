------------------------------ MODULE ArtNodes ------------------------------
(***************************************************************************)
(* The node classes of art/tiny_art and how N.cpp chooses among them: N4,  *)
(* N16 and N256.                                                           *)
(***************************************************************************)
EXTENDS Integers, Sequences

CONSTANTS
    Base,                   \* values of a byte: 256
    Full4, Full16,          \* 4, 16
    Under16, Under256,      \* 3, 13
    Leaves, Inner

VARIABLES n, hasParent, children

null == "null"

K4 == INSTANCE ArtN4 WITH Full <- Full4
K16 == INSTANCE ArtN16 WITH Full <- Full16, Underfull <- Under16
K256 == INSTANCE ArtN256 WITH Underfull <- Under256

\* A node that is copied fits into the class it is copied to, with room for one more when
\* it grows, and the count of a full node is not taken for that of an underfull one.
SizesFit ==
    /\ {Base, Full4, Full16, Under16, Under256} \subseteq Nat
    /\ Base = 2 * (Base \div 2)
    /\ Full4 < Full16 /\ Full16 < Base
    /\ Under16 <= Full4
    /\ 0 < Under256 /\ Under256 <= Full16
    /\ null \notin Leaves \cup Inner

Is(m, type) == m.type = type

getAnyChild(m) ==
    CASE Is(m, "N4") -> K4!getAnyChild(m) [] Is(m, "N16") -> K16!getAnyChild(m)
      [] Is(m, "N256") -> K256!getAnyChild(m)

change(m, b, c) ==
    CASE Is(m, "N4") -> K4!change(m, b, c) [] Is(m, "N16") -> K16!change(m, b, c)
      [] Is(m, "N256") -> K256!change(m, b, c)

getChild(m, b) ==
    CASE Is(m, "N4") -> K4!getChild(m, b) [] Is(m, "N16") -> K16!getChild(m, b)
      [] Is(m, "N256") -> K256!getChild(m, b)

getChildren(m, start, end) ==
    CASE Is(m, "N4") -> K4!getChildren(m, start, end)
      [] Is(m, "N16") -> K16!getChildren(m, start, end)
      [] Is(m, "N256") -> K256!getChildren(m, start, end)

\* The template arguments of insertGrow and removeAndShrink.
bigger(m) == IF Is(m, "N4") THEN K16!Create ELSE K256!Create
smaller(m) == IF Is(m, "N256") THEN K16!Create ELSE K4!Create

isFull(m) ==
    CASE Is(m, "N4") -> K4!isFull(m) [] Is(m, "N16") -> K16!isFull(m)
      [] Is(m, "N256") -> K256!isFull(m)

isUnderfull(m) ==
    CASE Is(m, "N4") -> K4!isUnderfull(m) [] Is(m, "N16") -> K16!isUnderfull(m)
      [] Is(m, "N256") -> K256!isUnderfull(m)

insert(m, b, c) ==
    CASE Is(m, "N4") -> K4!insert(m, b, c) [] Is(m, "N16") -> K16!insert(m, b, c)
      [] Is(m, "N256") -> K256!insert(m, b, c)

remove(m, b) ==
    CASE Is(m, "N4") -> K4!remove(m, b) [] Is(m, "N16") -> K16!remove(m, b)
      [] Is(m, "N256") -> K256!remove(m, b)

Pairs(m) ==
    CASE Is(m, "N4") -> K4!Pairs(m) [] Is(m, "N16") -> K16!Pairs(m)
      [] Is(m, "N256") -> K256!Pairs(m)

Life == INSTANCE NodeLife WITH Smallest <- K4!Create, Largest <- K256!Create
=============================================================================
