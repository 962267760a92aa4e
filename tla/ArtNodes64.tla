------------------------------ MODULE ArtNodes64 ----------------------------
(***************************************************************************)
(* The node classes of art/tiny_art_64 and how its N.cpp chooses among     *)
(* them: N16, which never shrinks here, N64 and N256.                      *)
(***************************************************************************)
EXTENDS Integers, Sequences

CONSTANTS
    Base,                   \* values of a byte: 256
    Full16, Full64,         \* 16, 64
    Under64, Under256,      \* 12, 53
    Leaves, Inner

VARIABLES n, hasParent, children

null == "null"

K16 == INSTANCE ArtN16 WITH Full <- Full16, Underfull <- -1
K64 == INSTANCE ArtN64 WITH Full <- Full64, Underfull <- Under64
K256 == INSTANCE ArtN256 WITH Underfull <- Under256

\* A node that is copied fits into the class it is copied to, with room for one more when
\* it grows, and the count of a full node is not taken for that of an underfull one.
SizesFit ==
    /\ {Base, Full16, Full64, Under64, Under256} \subseteq Nat
    /\ Base = 2 * (Base \div 2)
    /\ Full16 < Full64 /\ Full64 < Base
    /\ Under64 <= Full16
    /\ 0 < Under256 /\ Under256 <= Full64
    /\ null \notin Leaves \cup Inner

Is(m, type) == m.type = type

getAnyChild(m) ==
    CASE Is(m, "N16") -> K16!getAnyChild(m) [] Is(m, "N64") -> K64!getAnyChild(m)
      [] Is(m, "N256") -> K256!getAnyChild(m)

change(m, b, c) ==
    CASE Is(m, "N16") -> K16!change(m, b, c) [] Is(m, "N64") -> K64!change(m, b, c)
      [] Is(m, "N256") -> K256!change(m, b, c)

getChild(m, b) ==
    CASE Is(m, "N16") -> K16!getChild(m, b) [] Is(m, "N64") -> K64!getChild(m, b)
      [] Is(m, "N256") -> K256!getChild(m, b)

getChildren(m, start, end) ==
    CASE Is(m, "N16") -> K16!getChildren(m, start, end)
      [] Is(m, "N64") -> K64!getChildren(m, start, end)
      [] Is(m, "N256") -> K256!getChildren(m, start, end)

\* The template arguments of insertGrow and removeAndShrink.
bigger(m) == IF Is(m, "N16") THEN K64!Create ELSE K256!Create
smaller(m) == IF Is(m, "N256") THEN K64!Create ELSE K16!Create

isFull(m) ==
    CASE Is(m, "N16") -> K16!isFull(m) [] Is(m, "N64") -> K64!isFull(m)
      [] Is(m, "N256") -> K256!isFull(m)

isUnderfull(m) ==
    CASE Is(m, "N16") -> K16!isUnderfull(m) [] Is(m, "N64") -> K64!isUnderfull(m)
      [] Is(m, "N256") -> K256!isUnderfull(m)

insert(m, b, c) ==
    CASE Is(m, "N16") -> K16!insert(m, b, c) [] Is(m, "N64") -> K64!insert(m, b, c)
      [] Is(m, "N256") -> K256!insert(m, b, c)

remove(m, b) ==
    CASE Is(m, "N16") -> K16!remove(m, b) [] Is(m, "N64") -> K64!remove(m, b)
      [] Is(m, "N256") -> K256!remove(m, b)

Pairs(m) ==
    CASE Is(m, "N16") -> K16!Pairs(m) [] Is(m, "N64") -> K64!Pairs(m)
      [] Is(m, "N256") -> K256!Pairs(m)

Life == INSTANCE NodeLife WITH Smallest <- K16!Create, Largest <- K256!Create
=============================================================================
