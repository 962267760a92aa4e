------------------------------ MODULE WordMap ------------------------------
(***************************************************************************)
(* What the tries promise: a finite map from words to values, used by one  *)
(* caller, whose operations say whether they changed anything.  A set of   *)
(* words is a map to the single value Yes.  An insertion may be refused   *)
(* for want of memory and then changes nothing.                            *)
(***************************************************************************)
EXTENDS Naturals, FiniteSets

CONSTANTS Words, Values

VARIABLES
    map,        \* [words stored -> Values]
    size,       \* what size() returns
    answer      \* what the last call returned

vars == <<map, size, answer>>

Yes == "yes"
No == "no"              \* false, or no value
Refused == "refused"
Says(b) == IF b THEN Yes ELSE No

Init == map = [w \in {} |-> No] /\ size = 0 /\ answer = No

Become(m, a) == answer' = a /\ size' = Cardinality(DOMAIN m) /\ map' = m

set(w, v) ==
    \/ Become([x \in DOMAIN map \cup {w} |-> IF x = w THEN v ELSE map[x]],
              Says(w \notin DOMAIN map))
    \/ answer' = Refused /\ UNCHANGED <<map, size>>

remove(w) ==
    Become([x \in DOMAIN map \ {w} |-> map[x]], Says(w \in DOMAIN map))

get(w) ==
    /\ answer' = IF w \in DOMAIN map THEN map[w] ELSE No
    /\ UNCHANGED <<map, size>>

Next == \E w \in Words : (\E v \in Values : set(w, v)) \/ remove(w) \/ get(w)

Spec == Init /\ [][Next]_vars
=============================================================================
