---------------------------- MODULE MCAlgorithms ----------------------------
(***************************************************************************)
(* The parts of the system that are algorithms on data of one caller, each *)
(* against what it has to compute.  One behaviour exercises one part, while *)
(* the others rest in their initial states.                                *)
(***************************************************************************)
EXTENDS Sizing, Automaton, NodeCopies, Bitwise

VARIABLES
    part,       \* the part that is exercised
    sorted_words, mem, count, answer, refused, room, inserted   \* BulkCreate

\* Of the values in words of eleven bits: the primes of the table up to the first that
\* does not fit.
SomePrimes == <<3, 5, 11, 13, 17, 19, 37, 41, 43, 59, 67, 73, 79, 83, 109, 113,
                131, 139, 149, 157, 163, 173, 191, 211, 227, 241, 257, 269,
                283, 307, 331, 349, 373, 397, 419, 439, 461, 499, 523, 557,
                587, 617, 647, 691, 727, 769, 809, 877, 941, 997, 1049, 1103,
                1163, 1223, 1283, 1367, 1439, 1523, 1609, 1693, 1783, 1871,
                1987, 2087>>

SomePowers == {2^i : i \in 0..11}

\* All words of at most three characters, and one whose last link is found in two rounds.
SomeWords == UNION {[1..k -> Codes] : k \in 0..3} \cup {<<1, 1, 1, 2>>}

OrOfBits(x, y) == x | y

ofBulk == <<mem, count, answer, refused, room, inserted>>

\* Words over two characters, with duplicates, prefixes and the empty word.
Sorted == <<<<>>, <<1>>, <<1, 1>>, <<1, 1, 2>>, <<1, 2>>, <<2>>, <<2, 1, 1>>, <<2, 2>>>>

Counts == INSTANCE BulkCreate WITH Dictionary <- Sorted, FanOut <- 2, MaxWords <- 5

Bulk == INSTANCE BulkCreate WITH Dictionary <- Sorted, FanOut <- 2, MaxWords <- 4

Init ==
    /\ part \in {"node", "pointer", "sizing", "counts", "bulk", "bulk2", "automaton"}
    /\ NodesInit /\ (part # "node" => copy = "tiny_art" /\ hasParent)
    /\ PointerInit /\ SizingInit /\ (use_primes => part = "sizing")
    /\ Bulk!BulkInit /\ AutomatonInit

NodeStep ==
    /\ part = "node" /\ NodesNext
    /\ UNCHANGED <<part, pointerVars, sizingVars, sorted_words, ofBulk, automatonVars>>

PointerStep ==
    /\ part = "pointer" /\ PointerNext
    /\ UNCHANGED <<part, nodeVars, sizingVars, sorted_words, ofBulk, automatonVars>>

SizingStep ==
    /\ part = "sizing" /\ SizingNext
    /\ UNCHANGED <<part, nodeVars, pointerVars, sorted_words, ofBulk, automatonVars>>

CountsStep ==
    /\ part = "counts" /\ Counts!Next
    /\ UNCHANGED <<part, nodeVars, pointerVars, sizingVars, ofBulk, automatonVars>>

BulkStep ==
    /\ \/ part = "bulk" /\ Bulk!BulkTinyTrie
       \/ part = "bulk2" /\ Bulk!BulkTinyTrie2
    /\ UNCHANGED <<part, nodeVars, pointerVars, sizingVars, automatonVars>>

AutomatonStep ==
    /\ part = "automaton" /\ AutomatonNext
    /\ UNCHANGED <<part, nodeVars, pointerVars, sizingVars, sorted_words, ofBulk>>

Next ==
    NodeStep \/ PointerStep \/ SizingStep \/ CountsStep \/ BulkStep \/ AutomatonStep

Spec ==
    /\ Init
    /\ [][Next]_<<part, nodeVars, pointerVars, sizingVars, sorted_words, ofBulk, automatonVars>>

\* Node counts are those of the trie of the words.
CountsRight == Counts!CountsRight

\* A trie that is created in bulk fits the table that was sized for it.
SizedByCounts == Bulk!SizedByCounts
=============================================================================
