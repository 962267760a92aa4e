------------------------------ MODULE ArtTree ------------------------------
(***************************************************************************)
(* The adaptive radix tree with optimistic lock coupling (art/tiny_art):   *)
(* lookup and insert of Tree.cpp with the node operations of N.cpp, every  *)
(* access to a version word and every read of a node that is not protected *)
(* by a lock being a step.                                                 *)
(*                                                                         *)
(* A node is a record of memory: its kind (0 for a leaf, 1, 2, ... for the *)
(* node sizes in growing order), version word, id, compressed prefix and   *)
(* children by key byte.  Version words count as in the code: bit 1 locks, *)
(* bit 0 marks a node obsolete, a node starts at 4.  A child is a slot of  *)
(* memory; the code reaches it only with the two hashes made of the owner  *)
(* node's id and the key byte, so that each slot remembers the hashes it   *)
(* was allocated with.  What is read of a node while another thread holds  *)
(* its lock is Garbage.                                                    *)
(*                                                                         *)
(* Keys are sequences of bytes, none a prefix of another, and the TID of a *)
(* key stands for the key: loadKey is its inverse.  No two insertions have *)
(* the same key.  A slot is never used twice: instead of freeing, the      *)
(* model records for a retired node which operations were running when its *)
(* parent was locked, the ones GracePeriod makes it wait for.              *)
(***************************************************************************)
EXTENDS Integers, Sequences, FiniteSets

CONSTANTS
    Threads,
    Ladder,       \* capacities of the node kinds that grow: <<4, 16>>
    MaxStored,    \* maxStoredPrefixLength: 11
    MayOverflow,  \* whether a dereference table may run full
    Scenarios     \* [load: sequence of keys, ops: Threads -> sequence of calls]

AllKeys ==
    UNION {{sc.load[i] : i \in DOMAIN sc.load} \cup
           {c.key : c \in UNION {{sc.ops[t][i] : i \in DOMAIN sc.ops[t]} : t \in Threads}} :
           sc \in Scenarios}

AllBytes == UNION {{k[i] : i \in DOMAIN k} : k \in AllKeys}

ASSUME ArtAssumption ==
    /\ MaxStored \in Nat /\ MayOverflow \in BOOLEAN
    /\ Ladder \in Seq(Nat \ {0})
    /\ \A k \in AllKeys : k \in Seq(AllBytes)
    /\ \A sc \in Scenarios :
          /\ sc.load \in Seq(AllKeys)
          /\ sc.ops \in [Threads -> Seq([op : {"lookup", "insert"}, key : AllKeys])]

\* Every kind of node that grows has room for two children, the next one for more.
ASSUME LadderAssumption ==
    \A i \in DOMAIN Ladder :
        Ladder[i] >= 2 /\ (i + 1 \in DOMAIN Ladder => Ladder[i] < Ladder[i + 1])

\* Calls that insert no key twice: those that load the tree, then those of ops.
NoKeyTwice(ld, ops) ==
    LET Inserts(t, i, k) == i \in DOMAIN ops[t] /\ ops[t][i] = [op |-> "insert", key |-> k]
    IN  /\ \A i, j \in DOMAIN ld : ld[i] = ld[j] => i = j
        /\ \A t, u \in Threads : \A i \in DOMAIN ops[t], j \in DOMAIN ops[u] : \A k \in AllKeys :
              Inserts(t, i, k) /\ Inserts(u, j, k) => t = u /\ i = j
        /\ \A i \in DOMAIN ld, t \in Threads : \A j \in DOMAIN ops[t] : ~Inserts(t, j, ld[i])

\* Two keys differ in a byte that both have, and every key has one.
ASSUME KeysAssumption ==
    /\ \A k \in AllKeys : k # <<>>
    /\ \A k, l \in AllKeys : k # l => \E i \in DOMAIN k \cap DOMAIN l : k[i] # l[i]
    /\ \A sc \in Scenarios : NoKeyTwice(sc.load, sc.ops)

VARIABLES
    mem,          \* memory: the sequence of slots allocated so far
    loc,          \* loc[t]: program location and local variables of t
    todo,         \* todo[t]: calls t has still to make
    load,         \* keys still to be inserted before the threads start
    retired       \* retired[s]: records of markNodeForDeletion for slot s

vars == <<mem, loc, todo, load, retired>>

Nil == 0
Garbage == -1
NoTid == <<>>
Root == 1
Slots == 1..Len(mem)

\* The function f, changed and extended by g.
Merge(f, g) == [x \in DOMAIN f \cup DOMAIN g |-> IF x \in DOMAIN g THEN g[x] ELSE f[x]]

Prefix(s, n) == SubSeq(s, 1, IF n < Len(s) THEN n ELSE Len(s))
Drop(s, n) == SubSeq(s, n + 1, Len(s))

IsLocked(w) == (w \div 2) % 2 = 1
IsObsolete(w) == w % 2 = 1
Readable(w) == ~IsLocked(w) /\ ~IsObsolete(w)
IsLeaf(s) == s \in Slots /\ mem[s].kind = 0

TopKind == Len(Ladder) + 1
InitialNode == 1
Bytes(n) == {b \in DOMAIN n.child : n.child[b] # Nil}
\* Faulty: a node counts as full one child too late.
IsFullLate(n) == n.kind < TopKind /\ Cardinality(Bytes(n)) > Ladder[n.kind]

IsFull(n) == n.kind < TopKind /\ Cardinality(Bytes(n)) = Ladder[n.kind]

\* id_hash(id, byte), which the two bucket choices of a slot are made of.
IdHash(s, byte) == <<mem[s].id, byte>>

NoChildren == [b \in {} |-> Nil]
SetChild(n, b, c) == [n EXCEPT !.child = Merge(@, [x \in {b} |-> c])]
ChildOf(n, b) == IF b \in DOMAIN n.child THEN n.child[b] ELSE Nil

\* setPrefix: only the first MaxStored bytes are kept, the length is whole.
SetPrefix(n, bytes, length) ==
    [n EXCEPT !.prefix = Prefix(bytes, IF length < MaxStored THEN length ELSE MaxStored),
              !.plen = length]

NewNode(kind, id, bytes, length, hash) ==
    SetPrefix([kind |-> kind, word |-> 4, id |-> id, prefix |-> <<>>, plen |-> 0,
               child |-> NoChildren, value |-> <<>>, hash |-> hash], bytes, length)
NewLeaf(key, hash) == [NewNode(0, 0, <<>>, 0, hash) EXCEPT !.value = key]

Idle == [pc |-> "idle"]

\* The local variables of a call at the label restart.
Start(c) ==
    [pc |-> c.op, op |-> c.op, key |-> c.key, missing |-> c.missing, node |-> Nil,
     next |-> Root, parent |-> Nil, v |-> 0, pv |-> 0, lv |-> 0, level |-> 0,
     byte |-> 0, pbyte |-> 0, optimistic |-> FALSE, cursor |-> Nil, any |-> Nil,
     matched |-> 0, miss |-> 0, rest |-> <<>>, fresh |-> Nil, claim |-> {}]

\* t goes on with the given local variables changed.
Go(t, changes) == loc' = [loc EXCEPT ![t] = Merge(@, changes)]
Restart(t) == loc' = [loc EXCEPT ![t] = Start(@)]
Return(t, result) ==
    loc' = [loc EXCEPT ![t] = [pc |-> "done", op |-> @.op, key |-> @.key,
                               missing |-> @.missing, result |-> result]]

Init ==
    \E s \in Scenarios :
        /\ mem = <<NewNode(TopKind, 1, <<>>, 0, <<0, 0>>)>>
        /\ loc = [t \in Threads |-> Idle]
        /\ todo = s.ops
        /\ load = s.load
        /\ retired = <<{}>>
-----------------------------------------------------------------------------
(* Version words: LN in N.cpp. *)

Word(s) == mem[s].word
AddToWord(s, n) == mem' = [mem EXCEPT ![s].word = @ + n]

\* upgradeToWriteLockOrRestart: compare and exchange, or the way out.
Upgrade(t, s, v, changes, Otherwise) ==
    IF Word(s) = v
    THEN AddToWord(s, 2) /\ Go(t, changes)
    ELSE Otherwise /\ UNCHANGED mem

writeUnlock(s) == AddToWord(s, 2)
writeUnlockObsolete(s) == AddToWord(s, 3)

\* readUnlockOrRestart: s is still at version v, or the call begins anew.
Check(t, s, v, changes) == IF Word(s) = v THEN Go(t, changes) ELSE Restart(t)

\* getChild without a lock.
Peek(s, b) == IF IsLocked(Word(s)) THEN Garbage ELSE ChildOf(mem[s], b)

\* N::change under the lock of s.
change(s, b, c) == mem' = [mem EXCEPT ![s] = SetChild(@, b, c)]

\* The calls that run, one by one: the guards that a claimed node waits for.
Ticket(t) == <<t, Len(todo[t]), Len(load)>>
Running == {Ticket(t) : t \in {u \in Threads : loc[u].pc \notin {"idle", "done"}}}

\* markNodeForDeletion with the hashes of owner and byte.
Mark(t, s, owner, byte) ==
    retired' = [retired EXCEPT ![s] =
        @ \cup {[by |-> t, hash |-> IdHash(owner, byte), waiting |-> loc[t].claim]}]

\* A node before the other new nodes become its children.
Unlinked(n) ==
    LET old == {b \in DOMAIN n.child : n.child[b] \in Slots}
    IN  [n EXCEPT !.child = [b \in old |-> n.child[b]]]

\* The slots that a call allocates, in order; with room for only some of them
\* the exception of the dereference table leaves the call, and locks stay.
Allocate(t, new, changes) ==
    \/ /\ mem' = mem \o new
       /\ retired' = retired \o [i \in DOMAIN new |-> {}]
       /\ Go(t, changes)
    \/ \E i \in 0..Len(new) - 1 :
          /\ MayOverflow
          /\ mem' = mem \o [j \in 1..i |-> Unlinked(new[j])]
          /\ retired' = retired \o [j \in 1..i |-> {}]
          /\ Return(t, "refused")
-----------------------------------------------------------------------------
(* Tree::lookup *)

\* checkPrefix: compares what is stored, skips what is not.
checkPrefix(n, k, level) ==
    [match |-> n.plen > 0 => /\ Len(k) > level + n.plen
                             /\ Prefix(Drop(k, level), Len(n.prefix)) = n.prefix,
     optimistic |-> n.plen > MaxStored]

LookupRoot(t) ==
    /\ loc[t].pc = "lookup" /\ Readable(Word(Root))
    /\ Go(t, [pc |-> "search", node |-> Root, v |-> Word(Root), optimistic |-> FALSE])
    /\ UNCHANGED <<mem, retired>>

Search(t) ==
    LET L == loc[t]
        n == mem[L.node]
        c == checkPrefix(n, L.key, L.level)
        level == L.level + n.plen
    IN  /\ L.pc = "search"
        /\ IF ~c.match THEN Go(t, [pc |-> "miss"])
           ELSE IF Len(L.key) <= level THEN Return(t, NoTid)
           ELSE Go(t, [pc |-> "hit", level |-> level,
                       optimistic |-> L.optimistic \/ c.optimistic,
                       next |-> Peek(L.node, L.key[level + 1])])
        /\ UNCHANGED <<mem, retired>>

LookupMiss(t) ==
    /\ loc[t].pc = "miss"
    /\ IF Word(loc[t].node) = loc[t].v THEN Return(t, NoTid) ELSE Restart(t)
    /\ UNCHANGED <<mem, retired>>

LookupHit(t) ==
    LET L == loc[t]
    IN  /\ L.pc = "hit"
        /\ IF Word(L.node) # L.v THEN Restart(t)
           ELSE IF L.next = Nil THEN Return(t, NoTid)
           ELSE IF IsLeaf(L.next) THEN Go(t, [pc |-> "leaf"])
           ELSE Go(t, [pc |-> "descend", level |-> L.level + 1])
        /\ UNCHANGED <<mem, retired>>

LookupLeaf(t) ==
    /\ loc[t].pc = "leaf"
    /\ Check(t, loc[t].node, loc[t].v, [pc |-> "leafLock"])
    /\ UNCHANGED <<mem, retired>>

LeafReadLock(t) ==
    LET w == Word(loc[t].next)
    IN  /\ loc[t].pc = "leafLock"
        /\ IF Readable(w) THEN Go(t, [pc |-> "leafRead", lv |-> w]) ELSE Restart(t)
        /\ UNCHANGED <<mem, retired>>

\* A TID for another key is no TID.
checkKey(tid, k) == IF tid = k THEN tid ELSE NoTid

\* The TID is checked unless every byte of the key was compared.
LeafRead(t) ==
    LET L == loc[t]
        tid == mem[L.next].value
        unsure == L.level < Len(L.key) - 1 \/ L.optimistic
    IN  /\ L.pc = "leafRead"
        /\ IF Word(L.next) # L.lv THEN Restart(t)
           ELSE Return(t, IF unsure THEN checkKey(tid, L.key) ELSE tid)
        /\ UNCHANGED <<mem, retired>>

Descend(t) ==
    LET w == Word(loc[t].next)
    IN  /\ loc[t].pc = "descend"
        /\ IF Readable(w) THEN Go(t, [pc |-> "couple", lv |-> w]) ELSE Restart(t)
        /\ UNCHANGED <<mem, retired>>

Couple(t) ==
    /\ loc[t].pc = "couple"
    /\ Check(t, loc[t].node, loc[t].v,
             [pc |-> "search", node |-> loc[t].next, v |-> loc[t].lv])
    /\ UNCHANGED <<mem, retired>>

lookup(t) ==
    \/ LookupRoot(t) \/ Search(t) \/ LookupMiss(t) \/ LookupHit(t) \/ LookupLeaf(t)
    \/ LeafReadLock(t) \/ LeafRead(t) \/ Descend(t) \/ Couple(t)
-----------------------------------------------------------------------------
(* Tree::insert, on the way down *)

Visit(t) ==
    LET L == loc[t]
        w == Word(L.next)
    IN  /\ L.pc = "insert"
        /\ IF Readable(w)
           THEN Go(t, [pc |-> "prefix", parent |-> L.node, pbyte |-> L.byte,
                       node |-> L.next, v |-> w])
           ELSE Restart(t)
        /\ UNCHANGED <<mem, retired>>

\* How many bytes two sequences agree on.
Agreement(p, q) ==
    CHOOSE i \in 0..Len(p) :
        /\ Prefix(p, i) = Prefix(q, i)
        /\ i < Len(p) => i >= Len(q) \/ p[i + 1] # q[i + 1]

\* checkPrefixPessimistic, the bytes that are not stored taken from the key kt
\* of some leaf below the node: the level goes up to the first byte missed.
CheckPrefixPessimistic(t, kt) ==
    LET L == loc[t]
        n == mem[L.node]
        p == n.prefix \o SubSeq(kt, L.level + Len(n.prefix) + 1, L.level + n.plen)
        m == Agreement(p, Drop(L.key, L.level))
        rest == IF n.plen > MaxStored THEN Drop(kt, L.level + m + 1) ELSE Drop(p, m + 1)
    IN  IF m = n.plen
        THEN Go(t, [pc |-> "child", level |-> L.level + m, byte |-> L.key[L.level + m + 1]])
        ELSE Go(t, [pc |-> "splitParent", matched |-> m, miss |-> p[m + 1],
                    rest |-> Prefix(rest, n.plen - m - 1)])

PrefixStep(t) ==
    /\ loc[t].pc = "prefix"
    /\ IF mem[loc[t].node].plen > MaxStored
       THEN Go(t, [pc |-> "any", cursor |-> loc[t].node])
       ELSE CheckPrefixPessimistic(t, <<>>)
    /\ UNCHANGED <<mem, retired>>

\* getAnyChildTid, down to a leaf.
AnyLock(t) ==
    LET w == Word(loc[t].cursor)
    IN  /\ loc[t].pc = "any"
        /\ IF Readable(w) THEN Go(t, [pc |-> "anyChild", lv |-> w]) ELSE Restart(t)
        /\ UNCHANGED <<mem, retired>>

\* getAnyChild prefers a leaf.
AnyChildren(n) ==
    LET leaves == {b \in Bytes(n) : IsLeaf(n.child[b])}
    IN  IF leaves # {} THEN leaves ELSE Bytes(n)

AnyChild(t) ==
    /\ loc[t].pc = "anyChild"
    /\ \E b \in AnyChildren(mem[loc[t].cursor]) :
          Go(t, [pc |-> "anyCheck", any |-> Peek(loc[t].cursor, b)])
    /\ UNCHANGED <<mem, retired>>

AnyCheck(t) ==
    LET L == loc[t]
    IN  /\ L.pc = "anyCheck"
        /\ IF Word(L.cursor) # L.lv THEN Restart(t)
           ELSE IF IsLeaf(L.any) THEN CheckPrefixPessimistic(t, mem[L.any].value)
           ELSE Go(t, [pc |-> "any", cursor |-> L.any])
        /\ UNCHANGED <<mem, retired>>

ReadChild(t) ==
    /\ loc[t].pc = "child"
    /\ Go(t, [pc |-> "childCheck", next |-> Peek(loc[t].node, loc[t].byte)])
    /\ UNCHANGED <<mem, retired>>

\* Faulty: the child is used without checking the node's version.
ChildUnchecked(t) ==
    /\ loc[t].pc = "childCheck"
    /\ Go(t, [pc |-> IF loc[t].next = Nil THEN "room" ELSE "further"])
    /\ UNCHANGED <<mem, retired>>

ChildCheck(t) ==
    /\ loc[t].pc = "childCheck"
    /\ Check(t, loc[t].node, loc[t].v,
             [pc |-> IF loc[t].next = Nil THEN "room" ELSE "further"])
    /\ UNCHANGED <<mem, retired>>

\* The parent, if there is one, has not changed since the node was reached.
ParentUnchanged(t) == loc[t].parent = Nil \/ Word(loc[t].parent) = loc[t].pv

Further(t) ==
    LET L == loc[t]
    IN  /\ L.pc = "further"
        /\ IF ~ParentUnchanged(t) THEN Restart(t)
           ELSE IF IsLeaf(L.next) THEN Go(t, [pc |-> "leafLockNode"])
           ELSE Go(t, [pc |-> "insert", level |-> L.level + 1, pv |-> L.v])
        /\ UNCHANGED <<mem, retired>>
-----------------------------------------------------------------------------
(* N::insertAndUnlock: a new leaf under the node, which grows if it is full. *)

\* isFull, read without a lock: of a node being written it may say anything.
Room(t) ==
    LET n == mem[loc[t].node]
    IN  /\ loc[t].pc = "room"
        /\ \E full \in IF IsLocked(n.word) /\ n.kind < TopKind THEN BOOLEAN ELSE {IsFull(n)} :
              Go(t, [pc |-> IF full THEN "growParent" ELSE "parent"])
        /\ UNCHANGED <<mem, retired>>

PutParent(t) ==
    /\ loc[t].pc = "parent"
    /\ IF ParentUnchanged(t) THEN Go(t, [pc |-> "lockNode"]) ELSE Restart(t)
    /\ UNCHANGED <<mem, retired>>

\* Faulty: the node is locked whatever its version is by now.
PutLockAnew(t) ==
    /\ loc[t].pc = "lockNode" /\ ~IsLocked(Word(loc[t].node))
    /\ AddToWord(loc[t].node, 2)
    /\ Go(t, [pc |-> "put"])
    /\ UNCHANGED retired

PutLock(t) ==
    /\ loc[t].pc = "lockNode"
    /\ Upgrade(t, loc[t].node, loc[t].v, [pc |-> "put"], Restart(t))
    /\ UNCHANGED retired

\* generateVal: the leaf of the call, to hang under byte of a node called id.
LeafUnder(t, id, byte) == NewLeaf(loc[t].key, <<id, byte>>)

PutLeaf(t) ==
    LET L == loc[t]
    IN  /\ L.pc = "put"
        /\ Allocate(t, <<LeafUnder(t, mem[L.node].id, L.byte)>>,
                    [pc |-> "putInsert", fresh |-> Len(mem) + 1])

PutInsert(t) ==
    /\ loc[t].pc = "putInsert"
    /\ change(loc[t].node, loc[t].byte, loc[t].fresh)
    /\ Go(t, [pc |-> "unlock"])
    /\ UNCHANGED retired

Unlock(t) ==
    /\ loc[t].pc = "unlock"
    /\ writeUnlock(loc[t].node)
    /\ Return(t, "inserted")
    /\ UNCHANGED retired

\* Parent, then node: both for a node that grows and for a prefix that splits.
LockParent(t, from, to) ==
    /\ loc[t].pc = from
    /\ Upgrade(t, loc[t].parent, loc[t].pv, [pc |-> to, claim |-> Running], Restart(t))
    /\ UNCHANGED retired

LockNode(t, from, to) ==
    /\ loc[t].pc = from
    /\ Upgrade(t, loc[t].node, loc[t].v, [pc |-> to], Go(t, [pc |-> "undo"]))
    /\ UNCHANGED retired

\* Faulty: the parent stays locked.
UndoNothing(t) ==
    /\ loc[t].pc = "undo"
    /\ Restart(t)
    /\ UNCHANGED <<mem, retired>>

Undo(t) ==
    /\ loc[t].pc = "undo"
    /\ writeUnlock(loc[t].parent)
    /\ Restart(t)
    /\ UNCHANGED retired

\* Faulty: the bigger node keeps the id it was constructed with.
GrowBuildAnew(t) ==
    LET L == loc[t]
        n == mem[L.node]
        big == Len(mem) + 1
        copy == [NewNode(n.kind + 1, big, n.prefix, n.plen, IdHash(L.parent, L.pbyte))
                    EXCEPT !.child = n.child]
    IN  /\ L.pc = "growBuild"
        /\ Allocate(t, <<SetChild(copy, L.byte, big + 1), LeafUnder(t, big, L.byte)>>,
                    [pc |-> "growLink", fresh |-> big])

\* The bigger node takes over id, prefix and children, and gets the new leaf.
GrowBuild(t) ==
    LET L == loc[t]
        n == mem[L.node]
        big == Len(mem) + 1
        copy == [NewNode(n.kind + 1, n.id, n.prefix, n.plen, IdHash(L.parent, L.pbyte))
                    EXCEPT !.child = n.child]
    IN  /\ L.pc = "growBuild"
        /\ Allocate(t, <<SetChild(copy, L.byte, big + 1), LeafUnder(t, n.id, L.byte)>>,
                    [pc |-> "growLink", fresh |-> big])

GrowLink(t) ==
    /\ loc[t].pc = "growLink"
    /\ change(loc[t].parent, loc[t].pbyte, loc[t].fresh)
    /\ Go(t, [pc |-> "growObsolete"])
    /\ UNCHANGED retired

GrowObsolete(t) ==
    /\ loc[t].pc = "growObsolete"
    /\ writeUnlockObsolete(loc[t].node)
    /\ Go(t, [pc |-> "growMark"])
    /\ UNCHANGED retired

\* Faulty: the node that grew is not handed over to be freed.
GrowMarkForgotten(t) ==
    /\ loc[t].pc = "growMark"
    /\ Go(t, [pc |-> "growUnlock"])
    /\ UNCHANGED <<mem, retired>>

GrowMark(t) ==
    /\ loc[t].pc = "growMark"
    /\ Mark(t, loc[t].node, loc[t].parent, loc[t].pbyte)
    /\ Go(t, [pc |-> "growUnlock"])
    /\ UNCHANGED mem

GrowUnlock(t) ==
    /\ loc[t].pc = "growUnlock"
    /\ writeUnlock(loc[t].parent)
    /\ Return(t, "inserted")
    /\ UNCHANGED retired

insertAndUnlock(t) ==
    \/ Room(t) \/ PutParent(t) \/ PutLock(t) \/ PutLeaf(t) \/ PutInsert(t) \/ Unlock(t)
    \/ LockParent(t, "growParent", "growNode") \/ LockNode(t, "growNode", "growBuild")
    \/ GrowBuild(t) \/ GrowLink(t) \/ GrowObsolete(t) \/ GrowMark(t) \/ GrowUnlock(t)
-----------------------------------------------------------------------------
(* Tree::insert, a prefix that does not match: a new node takes the part that *)
(* matches and the node's place, the node moves below it with what is left.   *)

\* A copy of the node, bit for bit, in a slot with other hashes.
relocate_node(n, hash) == [n EXCEPT !.hash = hash]

SplitBuild(t) ==
    LET L == loc[t]
        n == mem[L.node]
        new == Len(mem) + 1
        mine == L.key[L.level + L.matched + 1]
        inner == NewNode(InitialNode, new, n.prefix, L.matched, IdHash(L.parent, L.pbyte))
        copy == relocate_node(n, <<new, L.miss>>)
        moved == [SetPrefix(copy, L.rest, n.plen - (L.matched + 1)) EXCEPT !.word = @ + 2]
    IN  /\ L.pc = "splitBuild"
        /\ Allocate(t, <<SetChild(SetChild(inner, mine, new + 1), L.miss, new + 2),
                         LeafUnder(t, new, mine), moved>>,
                    [pc |-> "splitLink", fresh |-> new])

SplitLink(t) ==
    /\ loc[t].pc = "splitLink"
    /\ change(loc[t].parent, loc[t].pbyte, loc[t].fresh)
    /\ Go(t, [pc |-> "splitUnlock"])
    /\ UNCHANGED retired

SplitUnlock(t) ==
    /\ loc[t].pc = "splitUnlock"
    /\ writeUnlock(loc[t].parent)
    /\ Go(t, [pc |-> "splitObsolete"])
    /\ UNCHANGED retired

SplitObsolete(t) ==
    /\ loc[t].pc = "splitObsolete"
    /\ writeUnlockObsolete(loc[t].node)
    /\ Go(t, [pc |-> "splitMark"])
    /\ UNCHANGED retired

SplitMark(t) ==
    /\ loc[t].pc = "splitMark"
    /\ Mark(t, loc[t].node, loc[t].parent, loc[t].pbyte)
    /\ Return(t, "inserted")
    /\ UNCHANGED mem

splitPrefix(t) ==
    \/ LockParent(t, "splitParent", "splitNode") \/ LockNode(t, "splitNode", "splitBuild")
    \/ SplitBuild(t) \/ SplitLink(t) \/ SplitUnlock(t) \/ SplitObsolete(t) \/ SplitMark(t)
-----------------------------------------------------------------------------
(* Tree::insert, a leaf in the way: a new node takes its place, with the bytes *)
(* both keys share as its prefix and a new leaf for each of them.              *)

\* Faulty: the node is compared with its version, but not locked.
LeafCheckNode(t) ==
    /\ loc[t].pc = "leafLockNode"
    /\ Check(t, loc[t].node, loc[t].v, [pc |-> "leafWrite", claim |-> Running])
    /\ UNCHANGED <<mem, retired>>

LeafLockNode(t) ==
    /\ loc[t].pc = "leafLockNode"
    /\ Upgrade(t, loc[t].node, loc[t].v, [pc |-> "leafWrite", claim |-> Running],
               Restart(t))
    /\ UNCHANGED retired

\* writeLockOrRestart on the leaf: on restart the node would stay locked.
LeafWriteLock(t) ==
    LET w == Word(loc[t].next)
    IN  /\ loc[t].pc = "leafWrite"
        /\ IF Readable(w)
           THEN AddToWord(loc[t].next, 2) /\ Go(t, [pc |-> "leafBuild"])
           ELSE Restart(t) /\ UNCHANGED mem
        /\ UNCHANGED retired

LeafBuild(t) ==
    LET L == loc[t]
        key == mem[L.next].value
        below == Drop(L.key, L.level + 1)
        m == Agreement(Drop(key, L.level + 1), below)
        new == Len(mem) + 1
        mine == below[m + 1]
        other == key[L.level + m + 2]
        inner == NewNode(InitialNode, new, below, m, IdHash(L.node, L.byte))
    IN  /\ L.pc = "leafBuild"
        /\ Allocate(t, <<SetChild(SetChild(inner, mine, new + 1), other, new + 2),
                         LeafUnder(t, new, mine), NewLeaf(key, <<new, other>>)>>,
                    [pc |-> "leafObsolete", fresh |-> new])

LeafObsolete(t) ==
    /\ loc[t].pc = "leafObsolete"
    /\ writeUnlockObsolete(loc[t].next)
    /\ Go(t, [pc |-> "leafMark"])
    /\ UNCHANGED retired

\* Faulty: the node is unlocked while its child is still the old leaf.
LeafMarkUnlocked(t) ==
    /\ loc[t].pc = "leafMark"
    /\ Mark(t, loc[t].next, loc[t].node, loc[t].byte)
    /\ writeUnlock(loc[t].node)
    /\ Go(t, [pc |-> "leafLink"])

LeafMark(t) ==
    /\ loc[t].pc = "leafMark"
    /\ Mark(t, loc[t].next, loc[t].node, loc[t].byte)
    /\ Go(t, [pc |-> "leafLink"])
    /\ UNCHANGED mem

LeafLink(t) ==
    /\ loc[t].pc = "leafLink"
    /\ change(loc[t].node, loc[t].byte, loc[t].fresh)
    /\ Go(t, [pc |-> "unlock"])
    /\ UNCHANGED retired

splitLeaf(t) ==
    \/ LeafLockNode(t) \/ LeafWriteLock(t) \/ LeafBuild(t) \/ LeafObsolete(t)
    \/ LeafMark(t) \/ LeafLink(t)

descend(t) ==
    \/ Visit(t) \/ PrefixStep(t) \/ AnyLock(t) \/ AnyChild(t) \/ AnyCheck(t)
    \/ ReadChild(t) \/ ChildCheck(t) \/ Further(t)

insert(t) == descend(t) \/ insertAndUnlock(t) \/ splitPrefix(t) \/ splitLeaf(t) \/ Undo(t)
-----------------------------------------------------------------------------
(* The keys a lookup that nobody disturbs would find. *)

Below(at, k) ==
    LET n == mem[at.slot]
        level == at.level + n.plen
    IN  IF at.slot = Nil \/ IsLeaf(at.slot) THEN at
        ELSE IF checkPrefix(n, k, at.level).match /\ Len(k) > level
             THEN [slot |-> ChildOf(n, k[level + 1]), level |-> level + 1]
             ELSE [slot |-> Nil, level |-> level]

Holds(k) ==
    LET at[i \in 0..Len(k)] ==
            IF i = 0 THEN {[slot |-> Root, level |-> 0]} ELSE {Below(a, k) : a \in at[i - 1]}
    IN  \E a \in at[Len(k)] : IsLeaf(a.slot) /\ mem[a.slot].value = k

BeginCall(t) ==
    /\ loc[t] = Idle
    /\ \E c \in IF load # <<>> THEN {[op |-> "insert", key |-> Head(load)]}
                ELSE IF todo[t] # <<>> THEN {Head(todo[t])} ELSE {} :
          loc' = [loc EXCEPT ![t] = Start([op |-> c.op, key |-> c.key,
                                           missing |-> ~Holds(c.key)])]
    /\ UNCHANGED <<mem, todo, load, retired>>

EndCall(t) ==
    /\ loc[t].pc = "done"
    /\ loc' = [loc EXCEPT ![t] = Idle]
    /\ IF load # <<>> THEN load' = Tail(load) /\ UNCHANGED todo
       ELSE todo' = [todo EXCEPT ![t] = Tail(@)] /\ UNCHANGED load
    /\ UNCHANGED <<mem, retired>>

\* While the tree is loaded a single thread works.
MayBegin(t) ==
    load # <<>> => /\ t = CHOOSE u \in Threads : TRUE
                   /\ loc[t] = Idle

Step(t) ==
    \/ MayBegin(t) /\ BeginCall(t)
    \/ (lookup(t) \/ insert(t)) /\ UNCHANGED <<todo, load>>
    \/ EndCall(t)

Next == \E t \in Threads : Step(t)

Spec == Init /\ [][Next]_vars /\ \A t \in Threads : WF_vars(Step(t))
-----------------------------------------------------------------------------
Locations == {"idle", "done", "lookup", "search", "miss", "hit", "leaf", "leafLock",
    "leafRead", "descend", "couple", "insert", "prefix", "any", "anyChild",
    "anyCheck", "child", "childCheck", "further", "room", "parent", "lockNode",
    "put", "putInsert", "unlock", "growParent", "growNode", "growBuild", "growLink",
    "growObsolete", "growMark", "growUnlock", "undo", "splitParent", "splitNode",
    "splitBuild", "splitLink", "splitUnlock", "splitObsolete", "splitMark",
    "leafLockNode", "leafWrite", "leafBuild", "leafObsolete", "leafMark", "leafLink"}

TypeOK ==
    /\ \A s \in Slots :
          /\ mem[s].kind \in 0..TopKind /\ mem[s].word \in Nat
          /\ Len(mem[s].prefix) = (IF mem[s].plen < MaxStored THEN mem[s].plen ELSE MaxStored)
          /\ \A b \in Bytes(mem[s]) : mem[s].child[b] \in Slots
          /\ 0 < mem[s].kind /\ mem[s].kind < TopKind =>
                Cardinality(Bytes(mem[s])) \in
                    (IF MayOverflow THEN 0 ELSE 2)..Ladder[mem[s].kind]
    /\ \A t \in Threads : loc[t].pc \in Locations
    /\ Len(retired) = Len(mem)

\* The slots a thread has read and is about to access.
Held(t) ==
    LET L == loc[t]
    IN  IF L.pc \in {"idle", "done"} THEN {}
        ELSE {L.node, L.parent, L.cursor}
             \cup (IF L.pc \in {"hit", "childCheck"} THEN {} ELSE {L.next})
             \cup (IF L.pc = "anyCheck" THEN {} ELSE {L.any})

\* What a thread read of a node that another thread was writing is never used:
\* every pointer that survives its check is one to a node (N.cpp:286).
GarbageUnused == \A t \in Threads : Garbage \notin Held(t)

\* A tiny pointer means nothing without the two hashes it was made with.  The
\* owner of a child finds the hashes in its own id and the key byte, through
\* growth (the id moves to the bigger node) and relocation (it is copied), and
\* the slot of a retired node is freed with the same hashes (N.cpp:121).
HashesAgree ==
    \A s \in Slots :
        /\ \A b \in Bytes(mem[s]) : mem[mem[s].child[b]].hash = IdHash(s, b)
        /\ \A r \in retired[s] : r.hash = mem[s].hash

\* Marking before unlinking (Tree.cpp:670) is safe: a call that still holds a
\* retired node was running when the node's parent was locked, and those are
\* the calls that GracePeriod lets the slot wait for.
GraceSuffices ==
    \A t \in Threads : loc[t].pc # "done" =>
        \A s \in Held(t) \cap Slots : \A r \in retired[s] : Ticket(t) \in r.waiting

\* The leaf to be split is never locked by another (Tree.cpp:643): the restart
\* that would leave its node locked for ever does not happen.
LeafLockFree ==
    \A t \in Threads : loc[t].pc = "leafWrite" => Readable(Word(loc[t].next))

WithChildren(s) == {s} \cup {mem[s].child[b] : b \in Bytes(mem[s])}

\* The slots that pointers lead to from the root.
Reachable ==
    LET reach[i \in 0..Len(mem)] ==
            IF i = 0 THEN {Root} ELSE UNION {WithChildren(s) : s \in reach[i - 1]}
    IN  reach[Len(mem)]

\* When no call runs, every slot is in the tree, unlocked, or was handed over to
\* be freed, once: an insertion neither leaks the nodes it replaces nor retires
\* one that is still linked.
Accounted ==
    (\A t \in Threads : loc[t].pc \in {"idle", "done"}) /\ ~MayOverflow =>
        \A s \in Slots :
            /\ s \in Reachable => Readable(Word(s))
            /\ Cardinality(retired[s]) = IF s \in Reachable THEN 0 ELSE 1

\* Every call returns, though restarts are not bounded: whoever holds a lock
\* lets go of it, and only the progress of another call makes one begin anew.
CallsReturn == \A t \in Threads : loc[t].pc # "idle" ~> loc[t].pc = "idle"

\* The call of t as its client sees it.  An insertion takes effect when the
\* pointer that leads to its leaf is stored.
CallOf(t) ==
    LET L == loc[t]
    IN  IF L = Idle THEN [op |-> "idle"]
        ELSE IF L.op = "lookup"
        THEN IF L.pc = "done" THEN [op |-> "answered", tid |-> L.result]
             ELSE [op |-> "lookup", key |-> L.key, missing |-> L.missing]
        ELSE IF L.pc = "done" /\ L.result = "refused" THEN [op |-> "idle"]
        ELSE [op |-> IF L.pc = "done" \/ Holds(L.key) THEN "inserted" ELSE "insert",
              key |-> L.key]

Map == INSTANCE ArtMap WITH Keys <- AllKeys,
          map <- {k \in AllKeys : Holds(k)}, call <- [t \in Threads |-> CallOf(t)]

\* The tree is a map that lookups and insertions of several threads use as if
\* each took place at one instant; no step of one loses a key of another.
ImplementsMap == Map!Spec
=============================================================================
