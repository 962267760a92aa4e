---------------------------- MODULE ArtNodes256 ----------------------------
(***************************************************************************)
(* The only node class of art/tiny_art_256: N256, which neither grows nor  *)
(* shrinks.                                                                *)
(***************************************************************************)
EXTENDS Integers, Sequences

CONSTANTS Base, Leaves, Inner

VARIABLES n, hasParent, children

null == "null"

K256 == INSTANCE ArtN256 WITH Underfull <- -1

SizesFit == Base \in Nat \ {0} /\ null \notin Leaves \cup Inner

getAnyChild(m) == K256!getAnyChild(m)
change(m, b, c) == K256!change(m, b, c)
getChild(m, b) == K256!getChild(m, b)
getChildren(m, start, end) == K256!getChildren(m, start, end)
insert(m, b, c) == K256!insert(m, b, c)
remove(m, b) == K256!remove(m, b)

Same(m) == m
Never(m) == FALSE

Life == INSTANCE NodeLife
    WITH Smallest <- K256!Create, Largest <- K256!Create, bigger <- Same, smaller <- Same,
         isFull <- Never, isUnderfull <- Never, Pairs <- K256!Pairs
=============================================================================
