------------------------------ MODULE TinyTrie ------------------------------
(***************************************************************************)
(* TinyTrie: a set of words in a trie of tiny pointers whose hashes are    *)
(* made of the characters on the way to a node.  Nodes are never freed.    *)
(***************************************************************************)
EXTENDS TrieNodes

\* The hash of one more character; that of a path is the path.
djb2_sdbm_hash(c, h) == Append(h, c)

\* One round of create_parent_node: down to the child, made if it is not there.  A
\* word that ended at a tagged pointer then ends in the node.
CreateStep(s, c) ==
    LET p == s.mem[s.cur].nodes[c]
        h == djb2_sdbm_hash(c, s.h)
    IN  IF ~s.ok THEN s
        ELSE IF IsSlot(p) THEN [s EXCEPT !.cur = p, !.h = h]
        ELSE IF s.room = 0 THEN [s EXCEPT !.ok = FALSE]
        ELSE [s EXCEPT !.mem = AddChild(@, s.cur, c, Node(h, p = tagged)),
                       !.cur = FreshSlot(s.mem), !.h = h, !.room = @ - 1]

create_parent_node(word, room) ==
    FoldLeft(CreateStep,
             [mem |-> mem, cur |-> Root, h |-> <<>>, room |-> room, ok |-> TRUE],
             Front(word))

get_parent_node(word) == Reach(Front(word))

insert(word, room) ==
    IF word = <<>> THEN Mark(mem, Root)
    ELSE LET s == create_parent_node(word, room)
             c == Last(word)
             p == s.mem[s.cur].nodes[c]
         IN  IF ~s.ok THEN Refuse(s.mem)
             ELSE IF p = tagged THEN Answer(s.mem, 0, No)
             ELSE IF p = null
                  THEN Answer([s.mem EXCEPT ![s.cur].nodes[c] = tagged], 1, Yes)
             ELSE Mark(s.mem, p)

remove(word) ==
    IF word = <<>> THEN Unmark(Root)
    ELSE LET cur == get_parent_node(word)
             p == Follow(cur, Last(word))
         IN  IF p = null THEN Answer(mem, 0, No)
             ELSE IF p = tagged
                  THEN Answer([mem EXCEPT ![cur].nodes[Last(word)] = null], -1, Yes)
             ELSE Unmark(p)

Stored(word) ==
    LET p == IF word = <<>> THEN Root
             ELSE Follow(get_parent_node(word), Last(word))
    IN  p # null /\ (p # tagged => mem[p].is_terminal)

contains(word) == Answer(mem, 0, Says(Stored(word)))

Next ==
    \E w \in Words :
        \/ \E room \in 0..Len(w) : insert(w, room)
        \/ remove(w) \/ contains(w)
-----------------------------------------------------------------------------
\* A tiny pointer means nothing without the hashes it was made with: the path that
\* insert, remove and contains compute on the way down is the one its node was
\* allocated under, whichever words were inserted, removed or refused in between
\* (tiny_trie.cpp:124, tiny_trie.cpp:130, tiny_trie.cpp:152).
HashesAgree == HashesFit(LAMBDA s, c : djb2_sdbm_hash(c, mem[s].hash))
=============================================================================
