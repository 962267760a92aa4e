--------------------------- MODULE TinyValueTrie ---------------------------
(***************************************************************************)
(* TinyValueTrie: a map from words to values in a trie of tiny pointers.   *)
(* Its nodes are used as the table hands them out: neither the table nor   *)
(* the trie ever writes their initial state, so their mark, their pointers *)
(* and their value are whatever the memory holds.                          *)
(***************************************************************************)
EXTENDS Naturals, Sequences, FiniteSets, SequencesExt

CONSTANTS
    Chars, Words, Values,
    Slots       \* the slots of the dereference table, positive numbers

VARIABLES
    mem,        \* [Slots -> what lies there, read as a node]
    used,       \* the slots that were allocated
    count,      \* count: size()
    stored      \* the words that were set and not removed since

vars == <<mem, used, count, stored>>

\* The words of at most one character, for the instances.
ShortWords == {<<>>} \cup {<<c>> : c \in Chars}

null == 0
Root == CHOOSE s \in Slots : TRUE

\* A pointer that was never written leads to some slot of the table, or is null.
Memory == [is_terminal : BOOLEAN, nodes : [Chars -> Slots \cup {null}], value : Values]

Init ==
    /\ mem \in [Slots -> Memory]
    /\ used = {Root}
    /\ count = 0
    /\ stored = {}

\* One round of create_node; a slot that is allocated keeps its contents.
CreateStep(s, c) ==
    LET p == s.mem[s.cur].nodes[c]
        fresh == CHOOSE x \in Slots \ s.used : TRUE
    IN  IF ~s.ok THEN s
        ELSE IF p # null THEN [s EXCEPT !.cur = p]
        ELSE IF s.used = Slots THEN [s EXCEPT !.ok = FALSE]
        ELSE [s EXCEPT !.mem[s.cur].nodes[c] = fresh, !.used = @ \cup {fresh},
                       !.cur = fresh]

create_node(word) ==
    FoldLeft(CreateStep, [mem |-> mem, used |-> used, cur |-> Root, ok |-> TRUE], word)

set(word, v) ==
    LET s == create_node(word)
    IN  /\ used' = s.used
        /\ IF s.ok
           THEN /\ mem' = [s.mem EXCEPT ![s.cur].value = v, ![s.cur].is_terminal = TRUE]
                /\ count' = IF s.mem[s.cur].is_terminal THEN count ELSE count + 1
                /\ stored' = stored \cup {word}
           ELSE mem' = s.mem /\ UNCHANGED <<count, stored>>

GetStep(p, c) == IF p = null THEN null ELSE mem[p].nodes[c]

get_node(word) == FoldLeft(GetStep, Root, word)

remove(word) ==
    LET p == get_node(word)
    IN  /\ p # null /\ mem[p].is_terminal
        /\ mem' = [mem EXCEPT ![p].is_terminal = FALSE]
        /\ count' = count - 1
        /\ stored' = stored \ {word}
        /\ UNCHANGED used

Next == \E w \in Words : (\E v \in Values : set(w, v)) \/ remove(w)

Spec == Init /\ [][Next]_vars
-----------------------------------------------------------------------------
\* size() counts the words: every word that is set for the first time raises it by
\* one (test/test_trie.cpp:139 and 140).
SizeCounts == count = Cardinality(stored)
=============================================================================
