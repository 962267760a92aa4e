---------------------------- MODULE BulkCreate ----------------------------
(***************************************************************************)
(* How many nodes with how many children the trie of a sorted list of      *)
(* words has, computed from the list alone, and the constructors of        *)
(* TinyTrie and TinyTrie2 that take such a list: the nodes are counted     *)
(* first, the table is created for that many, and the words are inserted   *)
(* in order.  The list grows until the constructor begins.                 *)
(***************************************************************************)
EXTENDS Integers, Sequences, FiniteSets, SequencesExt, FiniteSetsExt

CONSTANTS
    Dictionary,     \* the words that may occur, a sorted sequence of sequences
    FanOut,         \* the number of characters: 256 in the code
    MaxWords

VARIABLE sorted_words       \* as indices into Dictionary, duplicates included

Init == sorted_words = <<>>

Next ==
    /\ Len(sorted_words) < MaxWords
    /\ \E k \in DOMAIN Dictionary :
          /\ \A j \in DOMAIN sorted_words : sorted_words[j] <= k
          /\ sorted_words' = Append(sorted_words, k)

Spec == Init /\ [][Next]_sorted_words

Word(i) == Dictionary[sorted_words[i]]

NoNodes == [n \in 0..FanOut |-> 0]

\* Faulty: the last group ends before the last word.
GroupEndShort(starts, s, end) ==
    IF \E e \in starts : e > s THEN Min({e \in starts : e > s}) ELSE end - 1

\* A group of words with the same next character ends where the next one starts.
GroupEnd(starts, s, end) ==
    IF \E e \in starts : e > s THEN Min({e \in starts : e > s}) ELSE end

\* The counts for the node that the words of start..end - 1 share at this depth.
RECURSIVE compute_node_counts_for_depth(_, _, _)
compute_node_counts_for_depth(start, end, depth) ==
    LET longer == {i \in start..end - 1 : depth < Len(Word(i))}
        char(i) == Word(i)[depth + 1]
        previous(i) == Max({j \in longer : j < i})
        forks == char(Max(longer)) # char(Min(longer))
        starts == {i \in longer : \/ i = Min(longer)
                                  \/ forks /\ char(i) # char(previous(i))}
        below(s) ==
            compute_node_counts_for_depth(s, GroupEnd(starts, s, end), depth + 1)
    IN  IF start >= end THEN NoNodes
        ELSE IF longer = {} THEN [NoNodes EXCEPT ![0] = 1]
        ELSE LET subtrees == {<<s, below(s)>> : s \in starts}
             IN  [n \in 0..FanOut |->
                    MapThenSumSet(LAMBDA t : t[2][n], subtrees)
                      + IF n = Cardinality(starts) THEN 1 ELSE 0]

compute_node_counts == compute_node_counts_for_depth(1, Len(sorted_words) + 1, 0)
-----------------------------------------------------------------------------
Nodes == UNION {{SubSeq(Word(i), 1, n) : n \in 0..Len(Word(i))}
                  : i \in DOMAIN sorted_words}

Children(p) == {q \in Nodes : Len(q) = Len(p) + 1 /\ SubSeq(q, 1, Len(p)) = p}

\* The counts are those of the trie that holds the words, one node for every prefix
\* of a word: duplicates, prefixes of other words and the empty word fall in the
\* right group (trie_util.h:76 to 82).
CountsRight ==
    compute_node_counts =
        [n \in 0..FanOut |-> Cardinality({p \in Nodes : Cardinality(Children(p)) = n})]
-----------------------------------------------------------------------------
VARIABLES
    mem, count, answer, refused,    \* the trie
    room,                           \* slots that the table still has
    inserted                        \* words inserted so far, -1 for no trie yet

bulkVars == <<sorted_words, mem, count, answer, refused, room, inserted>>

Chars == 1..FanOut
Words == {Dictionary[k] : k \in DOMAIN Dictionary}

Tiny == INSTANCE TinyTrie
Tiny2 == INSTANCE TinyTrie2

node_count_sum == MapThenSumSet(LAMBDA k : compute_node_counts[k], 0..FanOut)
node_count == Cardinality(DOMAIN mem)       \* DerefTable::size

BulkInit == Init /\ Tiny!TrieInit /\ room = 0 /\ inserted = -1

\* The list of the caller.
AddWord ==
    /\ inserted = -1
    /\ Next
    /\ UNCHANGED <<mem, count, answer, refused, room, inserted>>

\* Faulty: a slot for every word instead of every node.
CreateTableForWords ==
    /\ inserted = -1 /\ sorted_words # <<>>
    /\ room' = Len(sorted_words) - node_count
    /\ inserted' = 0
    /\ UNCHANGED <<sorted_words, mem, count, answer, refused>>

\* The table and the root, which is in mem from the start.
CreateTable ==
    /\ inserted = -1 /\ sorted_words # <<>>
    /\ room' = node_count_sum - node_count
    /\ inserted' = 0
    /\ UNCHANGED <<sorted_words, mem, count, answer, refused>>

\* A round of the loop over the words; an exception leaves the constructor.
MoreWords == inserted \in 0..Len(sorted_words) - 1 /\ ~refused

Inserted ==
    /\ room' = room - (Cardinality(DOMAIN mem') - node_count)
    /\ inserted' = inserted + 1
    /\ UNCHANGED sorted_words

InsertTiny == MoreWords /\ Tiny!insert(Word(inserted + 1), room) /\ Inserted
InsertTiny2 == MoreWords /\ Tiny2!insert(Word(inserted + 1), room) /\ Inserted

BulkTinyTrie == AddWord \/ CreateTable \/ InsertTiny
BulkTinyTrie2 == AddWord \/ CreateTable \/ InsertTiny2
-----------------------------------------------------------------------------
\* A table with as many slots as nodes were counted is large enough for every
\* insertion on the way; the finished trie has a node for every counted one that has
\* children, as the leaves are tagged pointers, and the root in any case; and every
\* word is counted once, however often the list has it (tiny_trie.h:91 to 99).
SizedByCounts ==
    /\ ~refused
    /\ inserted = Len(sorted_words) =>
          /\ node_count = Max({1, node_count_sum - compute_node_counts[0]})
          /\ count = Cardinality({Word(i) : i \in DOMAIN sorted_words})
=============================================================================
