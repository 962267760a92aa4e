------------------------------ MODULE EpochGC ------------------------------
(***************************************************************************)
(* Epoche.h and Epoche.cpp: the epochs that decide when a node taken out   *)
(* of a tree may be given back to its dereference table.                   *)
(*                                                                         *)
(* A guard announces the current epoch in the thread's localEpoche with a  *)
(* release store; on x86 that store waits in the store buffer (unflushed)  *)
(* until the thread executes a locked instruction or the buffer drains,    *)
(* and the reads that follow do not wait for it.  A thread that removed    *)
(* nodes puts them in labels of its deletion list, stamped with the epoch, *)
(* and at the end of a guard frees the labels older than every announced   *)
(* epoch.  The lists are walked and relinked as the code does it.          *)
(*                                                                         *)
(* inside, phase, waiting and overlooked are history: they record who may  *)
(* hold a pointer to what, which the code never computes.  A thread is     *)
(* overlooked when a scan reads its localEpoche while the announcement of  *)
(* the running guard is still in its store buffer and the old value is     *)
(* newer (the maximum that an earlier cleanup stored there).               *)
(***************************************************************************)
EXTENDS Integers, FiniteSets

CONSTANTS
    Threads,
    Nodes,        \* addresses of nodes
    Labels,       \* addresses of LabelDelete objects
    Nil,          \* nullptr
    LabelSize,    \* nodes per label: 32 in the code
    Period,       \* marks per new epoch: 64 in the code
    Threshold,    \* startGCThreshhold: 256 in the code
    MaxEpoch      \* bound on currentEpoche: 2^64 - 2 in the code

ASSUME EpochAssumption ==
    /\ LabelSize \in Nat \ {0}
    /\ Period \in Nat \ {0, 1}
    /\ {Threshold, MaxEpoch} \subseteq Nat
    /\ IsFiniteSet(Nodes) /\ IsFiniteSet(Labels)
    /\ Nil \notin Threads \cup Nodes \cup Labels

VARIABLES
    currentEpoche,
    localEpoche,       \* per thread, as other threads see it
    unflushed,         \* announcement in the store buffer, -1 for none
    created,           \* threads that have a deletion list
    loaded,            \* epoch a guard has loaded, to be announced
    readonly,          \* the running guard is an EpocheGuardReadonly
    pc,                \* program location of the thread
    held,              \* the node the thread is removing
    thresholdCounter,
    head, spare,       \* headDeletionList, freeLabelDeletes
    count,             \* deletitionListCount
    label,             \* the LabelDelete objects
    made,              \* labels allocated by the thread
    chained,           \* history: labels in the thread's deletion list
    unscanned, oldest, \* the cleanup's scan of the announced epochs
    cur, prev,         \* the cleanup's walk of the deletion list
    pending,           \* nodes of label cur still to be freed
    inside, phase, waiting, overlooked,
    destroyed          \* the Epoche object is gone

vars == <<currentEpoche, localEpoche, unflushed, created, loaded, readonly, pc,
          held, thresholdCounter, head, spare, count, label, made, chained,
          unscanned, oldest, cur, prev, pending, inside, phase, waiting,
          overlooked, destroyed>>

epochs == <<currentEpoche, localEpoche, unflushed, created, loaded, readonly>>
lists == <<thresholdCounter, head, spare, count, label, made, chained>>
sweep == <<unscanned, oldest, cur, prev, pending>>
history == <<inside, phase, waiting, overlooked>>

MAX == MaxEpoch + 1     \* std::numeric_limits<uint64_t>::max()
None == -1

Locations == {"absent", "idle", "enter", "in", "claimed", "marked", "unlinked",
              "exit", "withdraw", "scan", "walk", "free"}

Goto(t, l) == pc' = [pc EXCEPT ![t] = l]

\* What t has announced, whether or not the others can see it yet.
Announced(t) == IF unflushed[t] = None THEN localEpoche[t] ELSE unflushed[t]

\* A locked instruction or a sequentially consistent store drains the buffer.
Drained(t) == unflushed[t] = None

NewLabel == [nodes |-> {}, epoche |-> 0, next |-> Nil]

Init ==
    /\ currentEpoche = 0
    /\ localEpoche = [t \in Threads |-> 0]
    /\ unflushed = [t \in Threads |-> None]
    /\ created = {}
    /\ loaded = [t \in Threads |-> 0]
    /\ readonly = [t \in Threads |-> FALSE]
    /\ pc = [t \in Threads |-> "absent"]
    /\ held = [t \in Threads |-> Nil]
    /\ thresholdCounter = [t \in Threads |-> 0]
    /\ head = [t \in Threads |-> Nil]
    /\ spare = [t \in Threads |-> Nil]
    /\ count = [t \in Threads |-> 0]
    /\ label = [l \in Labels |-> NewLabel]
    /\ made = [t \in Threads |-> {}]
    /\ chained = [t \in Threads |-> {}]
    /\ unscanned = [t \in Threads |-> {}]
    /\ oldest = [t \in Threads |-> 0]
    /\ cur = [t \in Threads |-> Nil]
    /\ prev = [t \in Threads |-> Nil]
    /\ pending = [t \in Threads |-> {}]
    /\ inside = {}
    /\ phase = [n \in Nodes |-> "free"]
    /\ waiting = [n \in Nodes |-> {}]
    /\ overlooked = {}
    /\ destroyed = FALSE
-----------------------------------------------------------------------------
\* A thread obtains its ThreadInfo: deletionLists.local() creates its list.
Register(t) ==
    /\ pc[t] = "absent" /\ ~destroyed
    /\ created' = created \cup {t}
    /\ Goto(t, "idle")
    /\ UNCHANGED <<currentEpoche, localEpoche, unflushed, loaded, readonly, held,
                   lists, sweep, history, destroyed>>

\* Faulty: the announcement of the last guard stays.
UnregisterAnnounced(t) ==
    /\ pc[t] = "idle"
    /\ unflushed' = [unflushed EXCEPT ![t] = None]
    /\ localEpoche' = [localEpoche EXCEPT ![t] = Announced(t)]
    /\ Goto(t, "absent")
    /\ UNCHANGED <<currentEpoche, created, loaded, readonly, held, lists, sweep,
                   history, destroyed>>

\* ~ThreadInfo stores the maximum.
Unregister(t) ==
    /\ pc[t] = "idle"
    /\ unflushed' = [unflushed EXCEPT ![t] = None]
    /\ localEpoche' = [localEpoche EXCEPT ![t] = MAX]
    /\ Goto(t, "absent")
    /\ UNCHANGED <<currentEpoche, created, loaded, readonly, held, lists, sweep,
                   history, destroyed>>

\* Faulty: the thread's own last epoch is announced again.
LoadOwnEpoche(t) ==
    /\ pc[t] = "idle"
    /\ \E ro \in BOOLEAN : readonly' = [readonly EXCEPT ![t] = ro]
    /\ loaded' = [loaded EXCEPT ![t] = localEpoche[t]]
    /\ Goto(t, "enter")
    /\ UNCHANGED <<currentEpoche, localEpoche, unflushed, created, held, lists,
                   sweep, history, destroyed>>

\* enterEpoche: the epoch is read ...
LoadEpoche(t) ==
    /\ pc[t] = "idle"
    /\ \E ro \in BOOLEAN : readonly' = [readonly EXCEPT ![t] = ro]
    /\ loaded' = [loaded EXCEPT ![t] = currentEpoche]
    /\ Goto(t, "enter")
    /\ UNCHANGED <<currentEpoche, localEpoche, unflushed, created, held, lists,
                   sweep, history, destroyed>>

\* ... and announced.
Announce(t) ==
    /\ pc[t] = "enter"
    /\ unflushed' = [unflushed EXCEPT ![t] = loaded[t]]
    /\ inside' = inside \cup {t}
    /\ Goto(t, "in")
    /\ UNCHANGED <<currentEpoche, localEpoche, created, loaded, readonly, held,
                   lists, sweep, phase, waiting, overlooked, destroyed>>

\* The processor empties the store buffer.
Flush(t) ==
    /\ ~Drained(t)
    /\ localEpoche' = [localEpoche EXCEPT ![t] = unflushed[t]]
    /\ unflushed' = [unflushed EXCEPT ![t] = None]
    /\ UNCHANGED <<currentEpoche, created, loaded, readonly, pc, held, lists,
                   sweep, history, destroyed>>
-----------------------------------------------------------------------------
\* An operation of the tree links a new node, its parent locked.
LinkNode(t, n) ==
    /\ pc[t] = "in" /\ ~readonly[t] /\ Drained(t)
    /\ phase[n] = "free"
    /\ phase' = [phase EXCEPT ![n] = "linked"]
    /\ UNCHANGED <<epochs, pc, held, lists, sweep, inside, waiting, overlooked,
                   destroyed>>

\* It locks the parent of a node it is going to replace.
ClaimNode(t, n) ==
    /\ pc[t] = "in" /\ ~readonly[t] /\ Drained(t)
    /\ phase[n] = "linked"
    /\ phase' = [phase EXCEPT ![n] = "claimed"]
    /\ waiting' = [waiting EXCEPT ![n] = inside \ overlooked]
    /\ held' = [held EXCEPT ![t] = n]
    /\ Goto(t, "claimed")
    /\ UNCHANGED <<epochs, lists, sweep, inside, overlooked, destroyed>>

\* The node itself cannot be locked: the parent is unlocked again.
UnclaimNode(t) ==
    /\ pc[t] = "claimed"
    /\ phase' = [phase EXCEPT ![held[t]] = "linked"]
    /\ waiting' = [waiting EXCEPT ![held[t]] = {}]
    /\ held' = [held EXCEPT ![t] = Nil]
    /\ Goto(t, "in")
    /\ UNCHANGED <<epochs, lists, sweep, inside, overlooked, destroyed>>

\* DeletionList::add with room in the first label of the list.
AddToHead(t, n) ==
    /\ head[t] # Nil
    /\ Cardinality(label[head[t]].nodes) < LabelSize
    /\ label' = [label EXCEPT ![head[t]] =
           [nodes |-> @.nodes \cup {n}, epoche |-> currentEpoche, next |-> @.next]]
    /\ UNCHANGED <<head, spare, made, chained>>

\* Faulty: nodesCount of a reused label is not reset.
AddLabelUnreset(t, n) ==
    /\ head[t] # Nil => Cardinality(label[head[t]].nodes) >= LabelSize
    /\ \E l \in Labels :
          /\ IF spare[t] # Nil
             THEN l = spare[t] /\ spare' = [spare EXCEPT ![t] = label[l].next]
             ELSE l \notin UNION {made[u] : u \in Threads} /\ UNCHANGED spare
          /\ label' = [label EXCEPT ![l] =
                 [nodes |-> label[l].nodes \cup {n}, epoche |-> currentEpoche, next |-> head[t]]]
          /\ head' = [head EXCEPT ![t] = l]
          /\ made' = [made EXCEPT ![t] = @ \cup {l}]
          /\ chained' = [chained EXCEPT ![t] = @ \cup {l}]

\* DeletionList::add that has to begin a label, a spare or a new one.
AddLabel(t, n) ==
    /\ head[t] # Nil => Cardinality(label[head[t]].nodes) >= LabelSize
    /\ \E l \in Labels :
          /\ IF spare[t] # Nil
             THEN l = spare[t] /\ spare' = [spare EXCEPT ![t] = label[l].next]
             ELSE l \notin UNION {made[u] : u \in Threads} /\ UNCHANGED spare
          /\ label' = [label EXCEPT ![l] =
                 [nodes |-> {n}, epoche |-> currentEpoche, next |-> head[t]]]
          /\ head' = [head EXCEPT ![t] = l]
          /\ made' = [made EXCEPT ![t] = @ \cup {l}]
          /\ chained' = [chained EXCEPT ![t] = @ \cup {l}]

\* markNodeForDeletion, before the node is unlinked (a leaf that is split) or
\* after it (a node that grows or whose prefix is split).
Mark(t) ==
    /\ pc[t] \in {"claimed", "unlinked"}
    /\ AddToHead(t, held[t]) \/ AddLabel(t, held[t])
    /\ count' = [count EXCEPT ![t] = @ + 1]
    /\ thresholdCounter' = [thresholdCounter EXCEPT ![t] = @ + 1]
    /\ IF pc[t] = "claimed"
       THEN Goto(t, "marked") /\ UNCHANGED held
       ELSE Goto(t, "in") /\ held' = [held EXCEPT ![t] = Nil]
    /\ UNCHANGED <<epochs, sweep, history, destroyed>>

\* The parent's pointer is overwritten: operations to come cannot reach it.
UnlinkNode(t) ==
    /\ pc[t] \in {"claimed", "marked"}
    /\ phase' = [phase EXCEPT ![held[t]] = "unlinked"]
    /\ IF pc[t] = "claimed"
       THEN Goto(t, "unlinked") /\ UNCHANGED held
       ELSE Goto(t, "in") /\ held' = [held EXCEPT ![t] = Nil]
    /\ UNCHANGED <<epochs, lists, sweep, inside, waiting, overlooked, destroyed>>
-----------------------------------------------------------------------------
\* The operation is over: no pointer it read is used any more.
LeaveGuard(t) ==
    /\ inside' = inside \ {t}
    /\ waiting' = [n \in Nodes |-> waiting[n] \ {t}]
    /\ overlooked' = overlooked \ {t}
    /\ UNCHANGED phase

\* ~EpocheGuardReadonly does nothing: the announcement stays.
ExitReadonly(t) ==
    /\ pc[t] = "in" /\ readonly[t]
    /\ LeaveGuard(t)
    /\ Goto(t, "idle")
    /\ UNCHANGED <<epochs, held, lists, sweep, destroyed>>

\* exitEpocheAndCleanup: a new epoch begins every Period marks, ...
ExitEpoche(t) ==
    /\ pc[t] = "in" /\ ~readonly[t]
    /\ IF thresholdCounter[t] % Period = 1
       THEN /\ Drained(t) /\ currentEpoche < MaxEpoch
            /\ currentEpoche' = currentEpoche + 1
       ELSE UNCHANGED currentEpoche
    /\ LeaveGuard(t)
    /\ Goto(t, "exit")
    /\ UNCHANGED <<localEpoche, unflushed, created, loaded, readonly, held, lists,
                   sweep, destroyed>>

\* ... a cleanup once more than Threshold nodes were marked, if any is left.
DecideCleanup(t) ==
    /\ pc[t] = "exit"
    /\ LET due == thresholdCounter[t] > Threshold
       IN  /\ Goto(t, IF due /\ count[t] # 0 THEN "withdraw" ELSE "idle")
           /\ thresholdCounter' = [thresholdCounter EXCEPT
                 ![t] = IF due /\ count[t] = 0 THEN 0 ELSE @]
    /\ UNCHANGED <<epochs, held, head, spare, count, label, made, chained, sweep,
                   history, destroyed>>

Withdraw(t) ==
    /\ pc[t] = "withdraw"
    /\ localEpoche' = [localEpoche EXCEPT ![t] = MAX]
    /\ unflushed' = [unflushed EXCEPT ![t] = None]
    /\ unscanned' = [unscanned EXCEPT ![t] = created]
    /\ oldest' = [oldest EXCEPT ![t] = MAX]
    /\ Goto(t, "scan")
    /\ UNCHANGED <<currentEpoche, created, loaded, readonly, held, lists, cur, prev,
                   pending, history, destroyed>>

\* Faulty: the newest announcement counts.
ScanLocalNewest(t, u) ==
    /\ pc[t] = "scan" /\ u \in unscanned[t]
    /\ unscanned' = [unscanned EXCEPT ![t] = @ \ {u}]
    /\ oldest' = [oldest EXCEPT ![t] = IF localEpoche[u] >= @ THEN localEpoche[u] ELSE @]
    /\ IF u \in inside /\ Announced(u) < localEpoche[u]
       THEN /\ overlooked' = overlooked \cup {u}
            /\ waiting' = [n \in Nodes |-> waiting[n] \ {u}]
       ELSE UNCHANGED <<overlooked, waiting>>
    /\ UNCHANGED <<epochs, pc, held, lists, cur, prev, pending, inside, phase,
                   destroyed>>

\* One iteration of the loop over deletionLists.
ScanLocal(t, u) ==
    /\ pc[t] = "scan" /\ u \in unscanned[t]
    /\ unscanned' = [unscanned EXCEPT ![t] = @ \ {u}]
    /\ oldest' = [oldest EXCEPT ![t] = IF localEpoche[u] < @ THEN localEpoche[u] ELSE @]
    /\ IF u \in inside /\ Announced(u) < localEpoche[u]
       THEN /\ overlooked' = overlooked \cup {u}
            /\ waiting' = [n \in Nodes |-> waiting[n] \ {u}]
       ELSE UNCHANGED <<overlooked, waiting>>
    /\ UNCHANGED <<epochs, pc, held, lists, cur, prev, pending, inside, phase,
                   destroyed>>

BeginWalk(t) ==
    /\ pc[t] = "scan" /\ unscanned[t] = {}
    /\ cur' = [cur EXCEPT ![t] = head[t]]
    /\ prev' = [prev EXCEPT ![t] = Nil]
    /\ Goto(t, "walk")
    /\ UNCHANGED <<epochs, held, lists, unscanned, oldest, pending, history,
                   destroyed>>

\* A label that is too young stays.
SkipLabel(t) ==
    /\ pc[t] = "walk" /\ cur[t] # Nil
    /\ label[cur[t]].epoche >= oldest[t]
    /\ prev' = [prev EXCEPT ![t] = cur[t]]
    /\ cur' = [cur EXCEPT ![t] = label[cur[t]].next]
    /\ UNCHANGED <<epochs, pc, held, lists, unscanned, oldest, pending, history,
                   destroyed>>

\* Faulty: a label as old as an announced epoch is freed, too.
OpenLabelAsOld(t) ==
    /\ pc[t] = "walk" /\ cur[t] # Nil
    /\ label[cur[t]].epoche <= oldest[t]
    /\ pending' = [pending EXCEPT ![t] = label[cur[t]].nodes]
    /\ Goto(t, "free")
    /\ UNCHANGED <<epochs, held, lists, unscanned, oldest, cur, prev, history,
                   destroyed>>

OpenLabel(t) ==
    /\ pc[t] = "walk" /\ cur[t] # Nil
    /\ label[cur[t]].epoche < oldest[t]
    /\ pending' = [pending EXCEPT ![t] = label[cur[t]].nodes]
    /\ Goto(t, "free")
    /\ UNCHANGED <<epochs, held, lists, unscanned, oldest, cur, prev, history,
                   destroyed>>

\* deref_tables.free of one node of the label.
FreeNode(t, n) ==
    /\ pc[t] = "free" /\ n \in pending[t]
    /\ pending' = [pending EXCEPT ![t] = @ \ {n}]
    /\ phase' = [phase EXCEPT ![n] = "free"]
    /\ UNCHANGED <<epochs, pc, held, lists, unscanned, oldest, cur, prev, inside,
                   waiting, overlooked, destroyed>>

\* Faulty: the label is always taken for the first.
RemoveFromHead(t) ==
    LET l == cur[t]
        p == prev[t]
    IN  /\ pc[t] = "free" /\ pending[t] = {}
        /\ head' = [head EXCEPT ![t] = label[l].next]
        /\ label' = [k \in Labels |->
              CASE k = l -> [label[k] EXCEPT !.next = spare[t]]
                [] k = p /\ k # l -> [label[k] EXCEPT !.next = label[l].next]
                [] OTHER -> label[k]]
        /\ count' = [count EXCEPT ![t] = @ - Cardinality(label[l].nodes)]
        /\ spare' = [spare EXCEPT ![t] = l]
        /\ chained' = [chained EXCEPT ![t] = @ \ {l}]
        /\ cur' = [cur EXCEPT ![t] = label[l].next]
        /\ Goto(t, "walk")
        /\ UNCHANGED <<epochs, held, thresholdCounter, made, unscanned, oldest,
                       prev, pending, history, destroyed>>

\* Faulty: the label before goes on pointing at the label removed.
RemoveLabelUnlinked(t) ==
    LET l == cur[t]
    IN  /\ pc[t] = "free" /\ pending[t] = {}
        /\ head' = IF prev[t] = Nil THEN [head EXCEPT ![t] = label[l].next] ELSE head
        /\ label' = [label EXCEPT ![l].next = spare[t]]
        /\ count' = [count EXCEPT ![t] = @ - Cardinality(label[l].nodes)]
        /\ spare' = [spare EXCEPT ![t] = l]
        /\ chained' = [chained EXCEPT ![t] = @ \ {l}]
        /\ cur' = [cur EXCEPT ![t] = label[l].next]
        /\ Goto(t, "walk")
        /\ UNCHANGED <<epochs, held, thresholdCounter, made, unscanned, oldest,
                       prev, pending, history, destroyed>>

\* DeletionList::remove, and the step to the label after it.
RemoveLabel(t) ==
    LET l == cur[t]
        p == prev[t]
    IN  /\ pc[t] = "free" /\ pending[t] = {}
        /\ head' = IF p = Nil THEN [head EXCEPT ![t] = label[l].next] ELSE head
        /\ label' = [k \in Labels |->
              CASE k = l -> [label[k] EXCEPT !.next = spare[t]]
                [] k = p /\ k # l -> [label[k] EXCEPT !.next = label[l].next]
                [] OTHER -> label[k]]
        /\ count' = [count EXCEPT ![t] = @ - Cardinality(label[l].nodes)]
        /\ spare' = [spare EXCEPT ![t] = l]
        /\ chained' = [chained EXCEPT ![t] = @ \ {l}]
        /\ cur' = [cur EXCEPT ![t] = label[l].next]
        /\ Goto(t, "walk")
        /\ UNCHANGED <<epochs, held, thresholdCounter, made, unscanned, oldest,
                       prev, pending, history, destroyed>>

EndWalk(t) ==
    /\ pc[t] = "walk" /\ cur[t] = Nil
    /\ thresholdCounter' = [thresholdCounter EXCEPT ![t] = 0]
    /\ Goto(t, "idle")
    /\ UNCHANGED <<epochs, held, head, spare, count, label, made, chained, sweep,
                   history, destroyed>>
-----------------------------------------------------------------------------
\* ~Epoche, when the threads are gone: every list is emptied.
Destroy ==
    /\ ~destroyed /\ \A t \in Threads : pc[t] = "absent"
    /\ destroyed' = TRUE
    /\ phase' = [n \in Nodes |->
          IF \E t \in Threads : \E l \in chained[t] : n \in label[l].nodes
          THEN "free" ELSE phase[n]]
    /\ head' = [t \in Threads |-> Nil]
    /\ chained' = [t \in Threads |-> {}]
    /\ count' = [t \in Threads |-> 0]
    /\ UNCHANGED <<epochs, pc, held, thresholdCounter, spare, label, made, sweep,
                   inside, waiting, overlooked>>

Guard(t) == LoadEpoche(t) \/ Announce(t) \/ ExitReadonly(t) \/ ExitEpoche(t)
Removal(t) == UnclaimNode(t) \/ Mark(t) \/ UnlinkNode(t)
Cleanup(t) ==
    \/ DecideCleanup(t) \/ Withdraw(t)
    \/ \E u \in Threads : ScanLocal(t, u)
    \/ BeginWalk(t) \/ SkipLabel(t) \/ OpenLabel(t)
    \/ \E n \in Nodes : FreeNode(t, n)
    \/ RemoveLabel(t) \/ EndWalk(t)

Next ==
    \/ \E t \in Threads :
          \/ Register(t) \/ Unregister(t) \/ Flush(t)
          \/ Guard(t) \/ Removal(t) \/ Cleanup(t)
          \/ \E n \in Nodes : LinkNode(t, n) \/ ClaimNode(t, n)
    \/ Destroy

Spec == Init /\ [][Next]_vars

\* A thread that is cleaning up is not stopped for ever.
Fairness == \A t \in Threads : WF_vars(Cleanup(t))
-----------------------------------------------------------------------------
EpochTypes ==
    /\ currentEpoche \in 0..MaxEpoch
    /\ localEpoche \in [Threads -> 0..MAX]
    /\ unflushed \in [Threads -> -1..MaxEpoch]
    /\ created \subseteq Threads
    /\ loaded \in [Threads -> 0..MaxEpoch]
    /\ readonly \in [Threads -> BOOLEAN]
    /\ pc \in [Threads -> Locations]
    /\ held \in [Threads -> Nodes \cup {Nil}]
    /\ destroyed \in BOOLEAN

ListTypes ==
    /\ thresholdCounter \in [Threads -> Nat]
    /\ {head, spare} \subseteq [Threads -> Labels \cup {Nil}]
    /\ count \in [Threads -> Int]
    /\ label \in [Labels -> [nodes : SUBSET Nodes, epoche : 0..MaxEpoch,
                             next : Labels \cup {Nil}]]
    /\ {made, chained} \subseteq [Threads -> SUBSET Labels]

SweepTypes ==
    /\ {cur, prev} \subseteq [Threads -> Labels \cup {Nil}]
    /\ unscanned \in [Threads -> SUBSET Threads]
    /\ oldest \in [Threads -> 0..MAX]
    /\ pending \in [Threads -> SUBSET Nodes]

HistoryTypes ==
    /\ inside \subseteq Threads /\ overlooked \subseteq Threads
    /\ phase \in [Nodes -> {"free", "linked", "claimed", "unlinked"}]
    /\ waiting \in [Nodes -> SUBSET Threads]

TypeOK == EpochTypes /\ ListTypes /\ SweepTypes /\ HistoryTypes

\* A node about to be given back to its table (Epoche.cpp:100) is unlinked, and
\* no operation whose announcement the scan could see may still hold it.
GraceRespected ==
    \A t \in Threads : \A n \in pending[t] :
        phase[n] = "unlinked" /\ waiting[n] = {}

\* The pointers lead from first through the labels of S, one after the other,
\* and end: left is the number of labels from a label on.
Chain(first, S) ==
    \E left \in [S -> 1..Cardinality(S)] :
        /\ IF S = {} THEN first = Nil
           ELSE first \in S /\ left[first] = Cardinality(S)
        /\ \A l \in S : IF left[l] = 1 THEN label[l].next = Nil
                        ELSE /\ label[l].next \in S
                             /\ left[label[l].next] = left[l] - 1
        /\ \A k, l \in S : left[k] = left[l] => k = l

\* The nodes in t's list, each with the label it is in.
Listed(t) == {e \in chained[t] \X Nodes : e[2] \in label[e[1]].nodes}

\* Filling, removing and reusing labels (Epoche.cpp:25, Epoche.cpp:39) neither
\* loses a label nor puts one in two lists: a label is in the list of pending
\* nodes or in the free list of the thread that made it; deletitionListCount,
\* which decides whether a cleanup runs at all and is asserted to be zero at the
\* end (Epoche.cpp:11), counts the nodes entered.
ListIntact ==
    \A t \in Threads : ~destroyed =>
        /\ Chain(head[t], chained[t])
        /\ Chain(spare[t], made[t] \ chained[t])
        /\ count[t] = Cardinality(Listed(t))

\* The places where n waits to be given back.
Entries(n) ==
    {e \in Threads \X Labels :
        /\ e[2] \in chained[e[1]] /\ n \in label[e[2]].nodes
        /\ pc[e[1]] = "free" /\ cur[e[1]] = e[2] => n \in pending[e[1]]}

\* Every node taken out of the tree is entered once, and a node that is in the
\* tree or free is entered nowhere: nothing leaks, nothing is freed twice.
NoneForgotten ==
    \A n \in Nodes :
        LET holders(l) == {t \in Threads : held[t] = n /\ pc[t] = l}
            entries == Cardinality(Entries(n))
        IN  /\ phase[n] \in {"free", "linked"} => entries = 0
            /\ phase[n] = "claimed" => entries = Cardinality(holders("marked"))
            /\ phase[n] = "unlinked" =>
                  entries = 1 - Cardinality(holders("unlinked"))

\* The assertion of ~Epoche (Epoche.cpp:128): when every ThreadInfo is gone, no
\* announcement is left that is as old as a label.
DestructorAsserts ==
    (\A t \in Threads : pc[t] = "absent") =>
        \A t \in Threads : \A l \in chained[t] : \A u \in created :
            label[l].epoche < localEpoche[u]

\* A clean-up that has begun (Epoche.cpp:86) comes to its end, whatever the others
\* do: labels taken out of the list behind one that stays, relinked (Epoche.cpp:25)
\* and used again do not send its walk round in circles.
CleanupEnds == \A t \in Threads : pc[t] = "withdraw" ~> pc[t] = "idle"

\* What the trees rely on.
Grace == INSTANCE GracePeriod

ImplementsGracePeriod == Grace!Spec
=============================================================================
