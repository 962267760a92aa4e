----------------------------- MODULE ValueTrie -----------------------------
(***************************************************************************)
(* ValueTrie: a map from words to values in a trie of ordinary pointers,   *)
(* which knows no tagged pointers and never frees a node while it lives.   *)
(***************************************************************************)
EXTENDS TrieNodes

CONSTANT Values

\* One round of create_node; new Node() clears the node.
CreateStep(s, c) ==
    LET p == s.mem[s.cur].nodes[c]
    IN  IF p # null THEN [s EXCEPT !.cur = p]
        ELSE [mem |-> AddChild(s.mem, s.cur, c, Node(<<>>, FALSE)),
              cur |-> FreshSlot(s.mem)]

create_node(word) == FoldLeft(CreateStep, [mem |-> mem, cur |-> Root], word)

get_node(word) == Reach(word)

set(word, v) ==
    LET s == create_node(word)
    IN  Mark([s.mem EXCEPT ![s.cur].value = v], s.cur)

remove(word) ==
    IF get_node(word) = null THEN Answer(mem, 0, No) ELSE Unmark(get_node(word))

\* The value of a word, if it is stored; what a removed word had is still in its node.
Found(word) ==
    LET p == get_node(word)
    IN  IF p # null /\ mem[p].is_terminal THEN mem[p].value ELSE No

get(word) == Answer(mem, 0, Found(word))

Next == \E w \in Words : (\E v \in Values : set(w, v)) \/ remove(w) \/ get(w)
=============================================================================
