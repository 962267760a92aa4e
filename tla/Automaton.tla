----------------------------- MODULE Automaton -----------------------------
(***************************************************************************)
(* The Aho-Corasick automaton: a trie of the words, built word by word,    *)
(* then linked in breadth-first order; then a text is searched, character  *)
(* by character.  A round of each loop over links is a step.  A node is    *)
(* named by the characters on the way to it.                               *)
(***************************************************************************)
EXTENDS Integers, Sequences, FiniteSets, SequencesExt

CONSTANTS
    Codes,      \* the characters, positive numbers
    WordPool,   \* the words an automaton may be built from
    MaxWords, MaxText       \* bounds of the check

ASSUME AutomatonAssumption ==
    /\ Codes \subseteq Nat \ {0}
    /\ \A w \in WordPool : w \in Seq(Codes)

VARIABLES
    pc,             \* where Create or Search is
    nodes,          \* the nodes of the trie
    wordLength,     \* [nodes -> Int], -1 where no word ends
    suffixLink, terminalLink,   \* [nodes -> nodes or nullptr]
    queue,          \* the nodes to be linked
    rest,           \* the characters of the children of node still to be linked
    node,           \* the node in hand
    char,           \* the character of its child, or of the text
    fallback,       \* the node tried for the suffix link of that child
    match,          \* the node whose word is reported next
    text,           \* the characters searched so far
    matches         \* the matches found, <<start, end>>

trie == <<nodes, wordLength>>
links == <<suffixLink, terminalLink>>
found == <<text, matches>>
automatonVars == <<pc, trie, links, queue, rest, node, char, fallback, match, found>>

root == <<>>
nullptr == <<0>>        \* no node

Terminals == {n \in nodes : wordLength[n] # -1}
Children(n) == {c \in Codes : Append(n, c) \in nodes}

AutomatonInit ==
    /\ pc = "words"
    /\ nodes = {root}
    /\ wordLength = [n \in nodes |-> -1]
    /\ suffixLink = [n \in nodes |-> nullptr]
    /\ terminalLink = [n \in nodes |-> nullptr]
    /\ queue = <<>> /\ rest = {}
    /\ node = root /\ char = 0 /\ fallback = root /\ match = nullptr
    /\ text = <<>> /\ matches = <<>>

\* The first part of Create: the nodes of one more word.
AddWord(w) ==
    LET new == {SubSeq(w, 1, n) : n \in 1..Len(w)} \ nodes
    IN  /\ pc = "words"
        /\ Cardinality(Terminals) < MaxWords
        /\ nodes' = nodes \cup new
        /\ wordLength' = [n \in nodes' |-> IF n = w THEN Len(w)
                                           ELSE IF n \in new THEN -1 ELSE wordLength[n]]
        /\ suffixLink' = [n \in nodes' |-> IF n \in new THEN nullptr ELSE suffixLink[n]]
        /\ terminalLink' = [n \in nodes' |-> IF n \in new THEN nullptr ELSE terminalLink[n]]
        /\ UNCHANGED <<pc, queue, rest, node, char, fallback, match, found>>

WordsEnd ==
    /\ pc = "words"
    /\ pc' = "root" /\ rest' = Children(root)
    /\ UNCHANGED <<trie, links, queue, node, char, fallback, match, found>>

LinkOfRoot ==
    /\ pc = "root" /\ rest # {}
    /\ LET child == <<Min(rest)>>
       IN  /\ suffixLink' = [suffixLink EXCEPT ![child] = root]
           /\ queue' = Append(queue, child)
           /\ rest' = rest \ {Min(rest)}
    /\ UNCHANGED <<pc, trie, terminalLink, node, char, fallback, match, found>>

RootEnds ==
    /\ pc = "root" /\ rest = {}
    /\ pc' = "link"
    /\ UNCHANGED <<trie, links, queue, rest, node, char, fallback, match, found>>

\* Faulty: a suffix that is a word itself is passed over.
TerminalLinkFar(n) == terminalLink[suffixLink[n]]

TerminalLink(n) ==
    IF suffixLink[n] \in Terminals THEN suffixLink[n] ELSE terminalLink[suffixLink[n]]

\* One round of the breadth-first loop takes a node off the queue.
LinkNode ==
    /\ pc = "link" /\ queue # <<>>
    /\ node' = Head(queue) /\ queue' = Tail(queue)
    /\ terminalLink' = [terminalLink EXCEPT ![node'] = TerminalLink(node')]
    /\ rest' = Children(node')
    /\ pc' = "child"
    /\ UNCHANGED <<trie, suffixLink, char, fallback, match, found>>

NextChild ==
    /\ pc = "child" /\ rest # {}
    /\ char' = Min(rest) /\ rest' = rest \ {Min(rest)}
    /\ fallback' = suffixLink[node]
    /\ pc' = "fall"
    /\ UNCHANGED <<trie, links, queue, node, match, found>>

ChildrenEnd ==
    /\ pc = "child" /\ rest = {}
    /\ pc' = "link"
    /\ UNCHANGED <<trie, links, queue, rest, node, char, fallback, match, found>>

\* Faulty: only the link itself is tried, not the links from there.
FallBackOnce ==
    /\ pc = "fall" /\ fallback # root /\ char \notin Children(fallback)
    /\ fallback' = root
    /\ UNCHANGED <<pc, trie, links, queue, rest, node, char, match, found>>

\* Up the suffix links to a node that has the edge, or to the root.
FallBack ==
    /\ pc = "fall" /\ fallback # root /\ char \notin Children(fallback)
    /\ fallback' = suffixLink[fallback]
    /\ UNCHANGED <<pc, trie, links, queue, rest, node, char, match, found>>

LinkChild ==
    /\ pc = "fall" /\ (fallback = root \/ char \in Children(fallback))
    /\ LET child == Append(node, char)
       IN  /\ suffixLink' =
                [suffixLink EXCEPT ![child] =
                    IF char \in Children(fallback) /\ Append(fallback, char) # child
                    THEN Append(fallback, char) ELSE root]
           /\ queue' = Append(queue, child)
    /\ pc' = "child"
    /\ UNCHANGED <<trie, terminalLink, rest, node, char, fallback, match, found>>

StartSearch ==
    /\ pc = "link" /\ queue = <<>>
    /\ pc' = "search" /\ node' = root
    /\ UNCHANGED <<trie, links, queue, rest, char, fallback, match, found>>

NextChar(c) ==
    /\ pc = "search" /\ Len(text) < MaxText
    /\ char' = c /\ text' = Append(text, c)
    /\ pc' = "follow"
    /\ UNCHANGED <<trie, links, queue, rest, node, fallback, match, matches>>

Follow ==
    /\ pc = "follow" /\ node # root /\ char \notin Children(node)
    /\ node' = suffixLink[node]
    /\ UNCHANGED <<pc, trie, links, queue, rest, char, fallback, match, found>>

Consume ==
    /\ pc = "follow" /\ (node = root \/ char \in Children(node))
    /\ node' = IF char \in Children(node) THEN Append(node, char) ELSE node
    /\ match' = node'
    /\ pc' = "report"
    /\ UNCHANGED <<trie, links, queue, rest, char, fallback, found>>

\* A word that ends here is reported by its start and its end, counted from 0.
Report ==
    /\ pc = "report" /\ match # nullptr
    /\ matches' = IF match \in Terminals
                  THEN Append(matches, <<Len(text) - wordLength[match], Len(text) - 1>>)
                  ELSE matches
    /\ match' = terminalLink[match]
    /\ UNCHANGED <<pc, trie, links, queue, rest, node, char, fallback, text>>

ReportEnds ==
    /\ pc = "report" /\ match = nullptr
    /\ pc' = "search"
    /\ UNCHANGED <<trie, links, queue, rest, node, char, fallback, match, found>>

CreateAutomaton ==
    \/ \E w \in WordPool : AddWord(w)
    \/ WordsEnd \/ LinkOfRoot \/ RootEnds
    \/ LinkNode \/ NextChild \/ FallBack \/ LinkChild \/ ChildrenEnd

SearchText ==
    \/ \E c \in Codes : NextChar(c)
    \/ Follow \/ Consume \/ Report \/ ReportEnds

AutomatonNext == CreateAutomaton \/ StartSearch \/ SearchText

AutomatonSpec == AutomatonInit /\ [][AutomatonNext]_automatonVars
-----------------------------------------------------------------------------
ProperSuffixes(n) == {SubSeq(n, k, Len(n)) : k \in 2..Len(n) + 1}

\* What a link leads to: the longest of the suffixes that are among those, if any.
LeadsTo(link, suffixes, those) ==
    IF suffixes \cap those = {} THEN link = nullptr
    ELSE /\ link \in suffixes \cap those
         /\ \A m \in suffixes \cap those : Len(m) <= Len(link)

\* A suffix link is right the moment it is set, as nodes that are linked later rely on
\* it: it leads to the longest proper suffix that is in the trie (automaton.cpp:49).
\* The terminal link of every node leads to the longest one that is a word when the
\* search relies on it: from its first character on.
LinksRight ==
    \A n \in nodes \ {root} :
        /\ suffixLink[n] # nullptr => LeadsTo(suffixLink[n], ProperSuffixes(n), nodes)
        /\ pc \in {"search", "follow", "report"} =>
              LeadsTo(terminalLink[n], ProperSuffixes(n), Terminals)

IsBefore(a, b) == a[2] < b[2] \/ (a[2] = b[2] /\ a[1] < b[1])

Occurrences ==
    {o \in (0..Len(text)) \X (0..Len(text) - 1) :
        o[1] <= o[2] + 1 /\ SubSeq(text, o[1] + 1, o[2] + 1) \in Terminals}

\* The search reports every occurrence of every word once, by its end and at the same
\* end the longest first; the empty word occurs after every character.
MatchesRight ==
    pc = "search" =>
        /\ ToSet(matches) = Occurrences
        /\ \A i, j \in DOMAIN matches : i < j => IsBefore(matches[i], matches[j])
=============================================================================
