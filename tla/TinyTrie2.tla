----------------------------- MODULE TinyTrie2 -----------------------------
(***************************************************************************)
(* TinyTrie2: a set of words in a trie of tiny pointers whose hashes are   *)
(* made of the address of the parent and the character.  A removal frees   *)
(* the nodes that it leaves empty.                                         *)
(***************************************************************************)
EXTENDS TrieNodes

\* Slots are the addresses; one that is used again gives the same hashes again.
address_hash(cur, c) == <<cur, c>>

\* One round of create_parent_node.
CreateStep(s, c) ==
    LET p == s.mem[s.cur].nodes[c]
        h == address_hash(s.cur, c)
    IN  IF ~s.ok THEN s
        ELSE IF IsSlot(p) THEN [s EXCEPT !.cur = p]
        ELSE IF s.room = 0 THEN [s EXCEPT !.ok = FALSE]
        ELSE [s EXCEPT !.mem = AddChild(@, s.cur, c, Node(h, p = tagged)),
                       !.cur = FreshSlot(s.mem), !.room = @ - 1]

create_parent_node(word, room) ==
    FoldLeft(CreateStep, [mem |-> mem, cur |-> Root, room |-> room, ok |-> TRUE],
             Front(word))

get_parent_node(word) == Reach(Front(word))

insert(word, room) ==
    IF word = <<>> THEN Mark(mem, Root)
    ELSE LET s == create_parent_node(word, room)
             c == Last(word)
             p == s.mem[s.cur].nodes[c]
         IN  IF ~s.ok THEN Refuse(s.mem)
             ELSE IF p = tagged THEN Answer(s.mem, 0, No)
             ELSE IF p = null
                  THEN Answer([s.mem EXCEPT ![s.cur].nodes[c] = tagged], 1, Yes)
             ELSE Mark(s.mem, p)

compute_child_count(node) == Cardinality({c \in Chars : node.nodes[c] # null})

\* Faulty: the freed node is not replaced by a tagged pointer where a word ended.
PruneForgetting(s, j) ==
    LET node == s.mem[s.path[j + 1]]
    IN  IF s.done \/ compute_child_count(node) > 0 THEN [s EXCEPT !.done = TRUE]
        ELSE [s EXCEPT !.mem = [x \in DOMAIN @ \ {s.path[j + 1]} |->
                                  IF x = s.path[j]
                                  THEN [@[x] EXCEPT !.nodes[s.word[j]] = null]
                                  ELSE @[x]]]

\* Faulty: a node that ends a word is kept, though nothing is below it.
PruneTimid(s, j) ==
    LET node == s.mem[s.path[j + 1]]
    IN  IF s.done \/ compute_child_count(node) > 0 \/ node.is_terminal
        THEN [s EXCEPT !.done = TRUE]
        ELSE [s EXCEPT !.mem = [x \in DOMAIN @ \ {s.path[j + 1]} |->
                                  IF x = s.path[j]
                                  THEN [@[x] EXCEPT !.nodes[s.word[j]] = null]
                                  ELSE @[x]]]

\* Faulty: the pointer to the freed node is left in its parent.
PruneDangling(s, j) ==
    LET node == s.mem[s.path[j + 1]]
    IN  IF s.done \/ compute_child_count(node) > 0 THEN [s EXCEPT !.done = TRUE]
        ELSE [s EXCEPT !.mem = [x \in DOMAIN @ \ {s.path[j + 1]} |-> @[x]],
                       !.done = TRUE]

\* Removing the word that a tagged pointer of the last node stands for: upwards, an
\* empty node is freed; one that ends a word leaves a tagged pointer and ends it.
PruneStep(s, j) ==
    LET node == s.mem[s.path[j + 1]]
        ptr == IF node.is_terminal THEN tagged ELSE null
    IN  IF s.done \/ compute_child_count(node) > 0 THEN [s EXCEPT !.done = TRUE]
        ELSE [s EXCEPT !.mem = [x \in DOMAIN @ \ {s.path[j + 1]} |->
                                  IF x = s.path[j]
                                  THEN [@[x] EXCEPT !.nodes[s.word[j]] = ptr]
                                  ELSE @[x]],
                       !.done = node.is_terminal]

Prune(m, word) ==
    LET path == [j \in 1..Len(word) |-> Reach(SubSeq(word, 1, j - 1))]
    IN  FoldLeft(PruneStep, [mem |-> m, path |-> path, word |-> word, done |-> FALSE],
                 Reverse([j \in 1..Len(word) - 1 |-> j])).mem

remove(word) ==
    LET p == Reach(word)
        cur == Reach(Front(word))
    IN  IF p = null THEN Answer(mem, 0, No)
        ELSE IF p = tagged
             THEN Answer(Prune([mem EXCEPT ![cur].nodes[Last(word)] = null], word),
                         -1, Yes)
        ELSE Unmark(p)

Stored(word) ==
    LET p == IF word = <<>> THEN Root
             ELSE Follow(get_parent_node(word), Last(word))
    IN  p # null /\ (p # tagged => mem[p].is_terminal)

contains(word) == Answer(mem, 0, Says(Stored(word)))

Next ==
    \E w \in Words :
        \/ \E room \in 0..Len(w) : insert(w, room)
        \/ remove(w) \/ contains(w)
-----------------------------------------------------------------------------
\* The address of the parent and the character find every node, though slots are
\* freed by removals and used again elsewhere (tiny_trie_2.cpp:76, tiny_trie_2.cpp:137).
HashesAgree == HashesFit(address_hash)

\* Removals leave no node behind that stores nothing, and none that a tagged pointer
\* could stand for; only an insertion that is refused may, as the nodes it made stay
\* (tiny_trie_2.cpp:67 to 84).
NoEmptyNode ==
    refused \/ \A s \in DOMAIN mem \ {Root} : compute_child_count(mem[s]) > 0
=============================================================================
