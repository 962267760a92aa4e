------------------------------ MODULE MCTries ------------------------------
(***************************************************************************)
(* The three tries, one at a time, against the map that each promises.     *)
(***************************************************************************)
EXTENDS TrieNodes

CONSTANTS
    PlainWords,     \* the words that ValueTrie is used with
    TrieValues      \* the values that it maps them to

ASSUME TriesAssumption == PlainWords \subseteq Words /\ No \notin TrieValues

VARIABLE which      \* the trie that is used

SixWords == {<<>>, <<"a">>, <<"a", "b">>, <<"a", "b", "a">>, <<"a", "b", "b">>,
             <<"b", "a">>}
ShortWords == {<<>>, <<"a">>, <<"a", "b", "a">>}

Tiny == INSTANCE TinyTrie
Tiny2 == INSTANCE TinyTrie2
Plain == INSTANCE ValueTrie WITH Words <- PlainWords, Values <- TrieValues

Init == TrieInit /\ which \in {"TinyTrie", "TinyTrie2", "ValueTrie"}

Next ==
    /\ \/ which = "TinyTrie" /\ Tiny!Next
       \/ which = "TinyTrie2" /\ Tiny2!Next
       \/ which = "ValueTrie" /\ Plain!Next
    /\ UNCHANGED which

Spec == Init /\ [][Next]_<<vars, which>>

\* What a word is mapped to, if the word is stored.
Got(w) ==
    CASE which = "TinyTrie" -> Says(Tiny!Stored(w))
      [] which = "TinyTrie2" -> Says(Tiny2!Stored(w))
      [] OTHER -> IF w \in PlainWords THEN Plain!Found(w) ELSE No

Map == INSTANCE WordMap
         WITH Values <- TrieValues \cup {Yes}, size <- count,
              map <- [w \in {x \in Words : Got(x) # No} |-> Got(w)]

\* Insertions that turn tagged pointers into nodes, removals that turn nodes into
\* tagged pointers and insertions that are refused half way add up to a map that
\* answers every call as if no node had ever been made or freed.
ImplementsMap == Map!Spec

\* The hashes on the way to a node are those it was allocated with.
HashesAgree ==
    /\ which = "TinyTrie" => Tiny!HashesAgree
    /\ which = "TinyTrie2" => Tiny2!HashesAgree

\* TinyTrie2 keeps no node that stores nothing.
Tiny2NoEmptyNode == which = "TinyTrie2" => Tiny2!NoEmptyNode
=============================================================================
