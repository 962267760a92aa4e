----------------------------- MODULE TrieNodes -----------------------------
(***************************************************************************)
(* The memory of the tries: nodes in the slots of a dereference table.  A  *)
(* pointer is null, tagged (a word ends here that needs no node), or a     *)
(* slot.  The table finds a slot only under the hashes the node was        *)
(* allocated with, so every node carries them.                             *)
(***************************************************************************)
EXTENDS Integers, Sequences, FiniteSets, SequencesExt, Functions

CONSTANTS
    Chars,      \* the characters of words, all with a nonnegative code
    Words       \* the words that are used

ASSUME TrieAssumption == IsFiniteSet(Chars) /\ \A w \in Words : w \in Seq(Chars)

VARIABLES
    mem,        \* [slots in use -> nodes]
    count,      \* count: how many words are stored
    answer,     \* what the last call returned
    refused     \* whether an insertion ever ran out of memory

vars == <<mem, count, answer, refused>>

null == 0
tagged == 1
Root == 2
IsSlot(p) == p > tagged

Yes == "yes"
No == "no"
Refused == "refused"
Says(b) == IF b THEN Yes ELSE No

Node(hash, terminal) ==
    [is_terminal |-> terminal, nodes |-> [c \in Chars |-> null], hash |-> hash,
     value |-> No]

\* Any slot would do that is not in use.
FreshSlot(m) == Min({s \in Root..Root + Cardinality(DOMAIN m) : s \notin DOMAIN m})

\* The memory m with the node a new child of cur at c.
AddChild(m, cur, c, node) ==
    [s \in DOMAIN m \cup {FreshSlot(m)} |->
        IF s = FreshSlot(m) THEN node
        ELSE IF s = cur THEN [m[s] EXCEPT !.nodes[c] = FreshSlot(m)] ELSE m[s]]

TrieInit ==
    /\ mem = [s \in {Root} |-> Node(<<>>, FALSE)]
    /\ count = 0
    /\ answer = No
    /\ refused = FALSE

Answer(m, change, a) ==
    mem' = m /\ count' = count + change /\ answer' = a /\ UNCHANGED refused

\* The exception of DerefTable::allocate: what was built so far stays.
Refuse(m) == mem' = m /\ answer' = Refused /\ refused' = TRUE /\ UNCHANGED count

\* What the pointer at c is in the node that p leads to; nothing is below null and
\* below a tagged pointer.
Follow(p, c) == IF IsSlot(p) THEN mem[p].nodes[c] ELSE null

\* The pointer that word leads to.
Reach(word) == FoldLeft(Follow, Root, word)

\* Setting and clearing the mark of a node, and the answer to its caller.
Mark(m, node) ==
    Answer([m EXCEPT ![node].is_terminal = TRUE],
           IF m[node].is_terminal THEN 0 ELSE 1, Says(~m[node].is_terminal))

Unmark(node) ==
    Answer([mem EXCEPT ![node].is_terminal = FALSE],
           IF mem[node].is_terminal THEN -1 ELSE 0, Says(mem[node].is_terminal))

\* The slots in use form a tree below the root: a pointer leads to a node in use,
\* which no other pointer leads to.
IsTree ==
    LET pointers == {p \in (DOMAIN mem) \X Chars : IsSlot(mem[p[1]].nodes[p[2]])}
        target(p) == mem[p[1]].nodes[p[2]]
    IN  /\ {target(p) : p \in pointers} = DOMAIN mem \ {Root}
        /\ \A p, q \in pointers : target(p) = target(q) => p = q

\* Every node is found under the hash that Hash(parent slot, c) gives.
HashesFit(Hash(_, _)) ==
    /\ IsTree
    /\ \A s \in DOMAIN mem : \A c \in Chars :
          IsSlot(mem[s].nodes[c]) => mem[mem[s].nodes[c]].hash = Hash(s, c)
=============================================================================
