---------------------------- MODULE ArtMapProofs ----------------------------
(***************************************************************************)
(* The tree implements a map.  A chart gives each node id the bytes that   *)
(* lead to the children of the nodes with that id: ids stay when a node    *)
(* grows or moves, so what the chart says of an id never changes, although *)
(* prefixes are cut and only a part of each is stored.                     *)
(***************************************************************************)
EXTENDS ArtTreeProofs, WellFoundedInduction

-----------------------------------------------------------------------------
(* The chart C and the places of slots in it.                              *)
Charts == [far : [Nat -> Nat], way : [Nat -> Seq(AllBytes)]]

Passes(C, i, k) == C.far[i] < Len(k) /\ \A j \in 1..C.far[i] : k[j] = C.way[i][j]

LevelOf(C, s) == IF s = Root THEN 0 ELSE C.far[mem[s].hash[1]] + 1
Enters(C, s, k) == s # Root => Passes(C, mem[s].hash[1], k) /\ k[LevelOf(C, s)] = mem[s].hash[2]

Id(s) == mem[s].id
Ids == 1..Len(mem)

Stored(n) == IF n.plen < MaxStored THEN n.plen ELSE MaxStored

LeafFits(C, s) == mem[s].value \in AllKeys /\ Enters(C, s, mem[s].value)

InnerFits(C, s) ==
  /\ mem[s].plen \in Nat /\ C.far[Id(s)] = LevelOf(C, s) + mem[s].plen
  /\ s # Root => /\ C.way[Id(s)] \in AllKeys /\ C.far[Id(s)] < Len(C.way[Id(s)])
                 /\ Enters(C, s, C.way[Id(s)])
  /\ IsSeq(mem[s].prefix) /\ Len(mem[s].prefix) = Stored(mem[s])
  /\ \A j \in 1..Len(mem[s].prefix) : mem[s].prefix[j] = C.way[Id(s)][LevelOf(C, s) + j]

Fits(C, s) ==
  /\ s # Root => mem[s].hash[1] \in Ids
  /\ IsLeaf(s) => LeafFits(C, s)
  /\ Inner(s) => InnerFits(C, s)

(* The child that key k leads to.                                          *)
ToChild(C, s, k) == ChildOf(mem[s], k[C.far[Id(s)] + 1])

(* k leads from slot x to its leaf or to another slot of T.                *)
Follows(C, x, T, k) ==
  /\ x \in Slots
  /\ IsLeaf(x) => mem[x].value = k
  /\ Inner(x) => Passes(C, Id(x), k) /\ ToChild(C, x, k) \in T

(* k leads from s to its leaf, or to a slot of E.                          *)
Leads(C, s, k, E) == \E T : s \in T /\ \A x \in T : x \in E \/ Follows(C, x, T, k)
Finds(C, s, k) == Leads(C, s, k, {})
-----------------------------------------------------------------------------
(* The slots P that were ever linked, and the tree they make.              *)
PublicOK(C, P) ==
  /\ P \subseteq Slots /\ Root \in P
  /\ \A s \in P : \A b \in DOMAIN mem[s].child : mem[s].child[b] \in P \cup {Nil}
  /\ \A s \in P, k \in AllKeys : IsLeaf(s) /\ mem[s].value = k => Finds(C, Root, k)
  /\ \A s \in P : Inner(s) /\ Live(s) =>
        \A k \in AllKeys : Enters(C, s, k) => Leads(C, Root, k, {s})

(* The keys to be inserted by calls that have not linked their leaf.       *)
Linked == {"unlock", "growObsolete", "growMark", "growUnlock", "splitUnlock", "splitObsolete",
           "splitMark"}
Landed(M) == M.pc \in Linked \cup {"done"}

Loads(i, k) == i \in DOMAIN load /\ load[i] = k
Inserts(t, i, k) == i \in DOMAIN todo[t] /\ todo[t][i] = [op |-> "insert", key |-> k]

Coming(k) ==
  \/ \E i : Loads(i, k) /\ (i = 1 => ~Landed(loc[Loader]))
  \/ \E t \in Threads : \E i : Inserts(t, i, k) /\ (i = 1 /\ load = <<>> => ~Landed(loc[t]))

Absent(P, k) == \A s \in P : IsLeaf(s) => mem[s].value # k

(* The call that thread t executes is the first of those it has to make.   *)
First(t, M) ==
  IF load # <<>> THEN M.op = "insert" /\ Loads(1, M.key)
  ELSE 1 \in DOMAIN todo[t] /\ todo[t][1] = [op |-> M.op, key |-> M.key]

KeysOK(P) ==
  /\ NoKeyTwice(load, todo)
  /\ \A t \in Threads : \A M : M = loc[t] /\ M # Idle => First(t, M) /\ M.key \in AllKeys
  /\ \A k \in AllKeys : Coming(k) => Absent(P, k)
-----------------------------------------------------------------------------
(* What a lookup knows.                                                    *)
AtNode == {"hit", "leaf", "leafLock", "leafRead"}
AtNext == {"descend", "couple"}

LookupKnows(C, M) ==
  /\ M.pc = "lookup" => M.level = 0
  /\ M.pc = "search" => /\ M.level = LevelOf(C, M.node)
                        /\ M.optimistic \/ Enters(C, M.node, M.key)
  /\ M.pc \in AtNode => /\ M.level = C.far[Id(M.node)] /\ M.level < Len(M.key)
                        /\ M.optimistic \/ Passes(C, Id(M.node), M.key)
                        /\ M.next \in Slots => Under(M.next, M.node, M.key[M.level + 1])
  /\ M.pc \in AtNext => /\ M.level = LevelOf(C, M.next)
                        /\ M.optimistic \/ Enters(C, M.next, M.key)
  /\ M.pc \in {"search", "miss"} \cup AtNode => Inner(M.node)
  /\ M.pc \in AtNext => Inner(M.next)
  /\ M.pc \in AtNode /\ M.pc # "hit" => IsLeaf(M.next)

(* The key was there when the call began.                                  *)
Certain(C, M) ==
  ~M.missing =>
     /\ M.pc # "miss" /\ Finds(C, Root, M.key)
     /\ M.node \in Slots => Finds(C, M.node, M.key)
     /\ M.next # Nil /\ (M.next \in Slots => Finds(C, M.next, M.key))

Answered(C, M) ==
  IF M.result = NoTid THEN M.missing ELSE M.result = M.key /\ Finds(C, Root, M.key)
-----------------------------------------------------------------------------
(* What an insertion knows of its way.                                     *)
AtChild == {"child", "childCheck", "further", "room", "parent", "lockNode", "put", "putInsert",
            "growParent", "growNode", "growBuild", "leafLockNode", "leafWrite", "leafBuild",
            "leafObsolete", "leafMark", "leafLink"}

(* Whatever enters c passes the nodes called i.                            *)
Through(C, c, i) == \A k \in AllKeys : Enters(C, c, k) => Passes(C, i, k)

SplitKnown(C, M) ==
  LET i == Id(M.node)
      d == M.level + M.matched
  IN  /\ Enters(C, M.node, M.key) /\ M.level = LevelOf(C, M.node)
      /\ M.matched \in Nat /\ M.matched < mem[M.node].plen /\ d < Len(M.key)
      /\ \A j \in 1..d : M.key[j] = C.way[i][j]
      /\ M.miss = C.way[i][d + 1] /\ M.miss # M.key[d + 1]
      /\ IsSeq(M.rest) /\ Len(M.rest) = mem[M.node].plen - M.matched - 1
      /\ \A j \in 1..Len(M.rest) : M.rest[j] = C.way[i][d + 1 + j]

WayKnown(C, M) ==
  /\ M.pc = "insert" => Enters(C, M.next, M.key) /\ M.level = LevelOf(C, M.next)
  /\ M.pc \in {"prefix"} \cup Seeking => Enters(C, M.node, M.key) /\ M.level = LevelOf(C, M.node)
  /\ M.pc \in Seeking => /\ Inner(M.cursor)
                         /\ M.cursor = M.node \/ Through(C, M.cursor, Id(M.node))
  /\ M.pc = "anyCheck" /\ M.any \in Slots => Through(C, M.any, Id(M.node))
  /\ M.pc \in AtChild => /\ Passes(C, Id(M.node), M.key)
                         /\ M.level = C.far[Id(M.node)] /\ M.byte = M.key[M.level + 1]
  /\ M.pc \in {"splitParent", "splitNode", "splitBuild"} => SplitKnown(C, M)

(* There is no child under the byte.                                       *)
Unsure == {"room", "parent", "lockNode", "growParent", "growNode"}
NoChild(M) == ChildOf(mem[M.node], M.byte) = Nil
ChildKnown(M) ==
  /\ M.pc \in Unsure /\ Word(M.node) = M.v => NoChild(M)
  /\ M.pc = "childCheck" /\ M.next = Nil /\ Word(M.node) = M.v => NoChild(M)
  /\ M.pc \in {"put", "putInsert", "growBuild"} => NoChild(M)
-----------------------------------------------------------------------------
(* What a call has built, and what it is going to replace.                 *)
Batch(M) ==
  IF M.pc = "putInsert" THEN {M.fresh}
  ELSE IF M.pc = "growLink" THEN {M.fresh, M.fresh + 1}
  ELSE IF M.pc \in Preparing THEN {M.fresh, M.fresh + 1, M.fresh + 2} ELSE {}

Old(M) == IF M.pc \in {"growLink", "splitLink"} THEN M.node ELSE M.next

(* Every way through c is a way through f and others of B.                 *)
Replaces(C, c, f, B) ==
  \E F \in SUBSET B : f \in F /\ \A k \in AllKeys : \A T :
     c \in T /\ Nil \notin T /\ Follows(C, c, T, k) => \A y \in F : Follows(C, y, T \cup F, k)

Ready(C, P, M) ==
  /\ Batch(M) \subseteq Slots \ P
  /\ \A y \in Batch(M) : \A b \in DOMAIN mem[y].child : mem[y].child[b] \in P \cup Batch(M) \cup {Nil}
  /\ \A y \in Batch(M), k \in AllKeys :
        IsLeaf(y) /\ mem[y].value = k => k = M.key \/ Finds(C, Root, k)
  /\ \A y \in Batch(M) : Inner(y) => \A k \in AllKeys :
        Enters(C, y, k) => Enters(C, M.fresh, k) /\ Leads(C, M.fresh, k, {y})
  /\ Enters(C, M.fresh, M.key) /\ Finds(C, M.fresh, M.key)
  /\ M.pc # "putInsert" => Replaces(C, Old(M), M.fresh, Batch(M))

InsertKnows(C, P, M) ==
  /\ WayKnown(C, M) /\ ChildKnown(M)
  /\ M.pc \in Preparing => Ready(C, P, M)
  /\ M.pc \in Linked => Finds(C, Root, M.key)

CallKnows(C, P, M) ==
  /\ HeldBy(M) \subseteq P \cup {Nil}
  /\ M.op = "lookup" => LookupKnows(C, M) /\ Certain(C, M)
  /\ M.op = "insert" => InsertKnows(C, P, M)

ThreadKnows(C, P, M) ==
  /\ Calls(M) => CallKnows(C, P, M)
  /\ M.pc = "done" /\ M.op = "lookup" => Answered(C, M)

Charted(C, P) ==
  /\ C \in Charts
  /\ \A s \in Slots : Fits(C, s)
  /\ PublicOK(C, P) /\ KeysOK(P)
  /\ \A t \in Threads : \A M : M = loc[t] => ThreadKnows(C, P, M)
  /\ \A t, u \in Threads : t # u => Batch(loc[t]) \cap Batch(loc[u]) = {}

MapInv == \E C, P : Charted(C, P)
-----------------------------------------------------------------------------
(* A set of numbers that is not empty has a least one, so that what holds  *)
(* of 0 and of the successor of each number it holds of, holds of all.     *)
LEMMA LeastNumber ==
  ASSUME NEW S \in SUBSET Nat, S # {}
  PROVE  \E n \in S : \A m \in S : n <= m
<1> DEFINE R == {ss \in Nat \X Nat : ss[1] < ss[2]}
<1>1. IsWellFoundedOn(R, Nat)
  BY NatLessThanWellFounded DEF OpToRel
<1>2. PICK n \in S : \A m \in S : ~(<<m, n>> \in R)
  <2> HIDE DEF R
  <2> QED
    BY <1>1, WFMin
<1>3. \A m \in S : ~(m < n)
  BY <1>2
<1> QED
  BY <1>3

(* Induction over the naturals for one given set.                            *)
LEMMA AllNumbers ==
  ASSUME NEW S, 0 \in S, \A n \in Nat : n \in S => n + 1 \in S
  PROVE  \A n \in Nat : n \in S
<1> SUFFICES ASSUME Nat \ S # {} PROVE FALSE
  OBVIOUS
<1>1. PICK n \in Nat \ S : \A m \in Nat \ S : n <= m
  BY LeastNumber
<1>2. n # 0 /\ n - 1 \in Nat /\ n - 1 \in S
  BY <1>1
<1>3. (n - 1) + 1 \in S
  BY <1>2
<1> QED
  BY <1>1, <1>3

-----------------------------------------------------------------------------
(* Keys.                                                                   *)
LEMMA KeyFacts ==
  ASSUME NEW k \in AllKeys
  PROVE  /\ k \in Seq(AllBytes) /\ Len(k) \in Nat /\ Len(k) > 0 /\ DOMAIN k = 1..Len(k)
         /\ \A j \in 1..Len(k) : k[j] \in AllBytes
<1>1. k \in Seq(AllBytes) /\ k # <<>>
  BY ArtAssumption, KeysAssumption
<1> QED
  BY <1>1

(* Two different keys differ at a byte both have: no key is a prefix of      *)
(* another.                                                                  *)
LEMMA KeysDiffer ==
  ASSUME NEW k \in AllKeys, NEW l \in AllKeys, k # l
  PROVE  \E i \in 1..Len(k) : i <= Len(l) /\ k[i] # l[i]
<1>1. PICK i \in DOMAIN k \cap DOMAIN l : k[i] # l[i]
  BY KeysAssumption
<1> QED
  BY <1>1, KeyFacts

-----------------------------------------------------------------------------
(* The places of slots.                                                    *)
Placed(C) ==
  /\ MemOK /\ HashesAgree /\ SlotsOK /\ C \in Charts
  /\ \A s \in Slots : Fits(C, s)

(* The types of the two halves of a chart.                                   *)
LEMMA ChartFacts ==
  ASSUME NEW C \in Charts, NEW i \in Nat
  PROVE  C.far[i] \in Nat /\ C.way[i] \in Seq(AllBytes)
BY DEF Charts

(* A slot holds either a leaf or an inner node.                              *)
LEMMA KindsOf ==
  ASSUME NEW s \in Slots
  PROVE  IsLeaf(s) <=> ~Inner(s)
BY DEF IsLeaf, Inner

(* A slot's level is the length of the way that leads to it.               *)
LEMMA SlotFacts ==
  ASSUME NEW C, Placed(C), NEW s \in Slots
  PROVE  /\ LevelOf(C, s) \in Nat
         /\ s # Root => mem[s].hash[1] \in Ids /\ mem[s].hash[1] \in Nat
         /\ Inner(s) => /\ Id(s) \in Ids /\ Id(s) \in Nat /\ C.far[Id(s)] \in Nat
                        /\ mem[s].plen \in Nat /\ C.far[Id(s)] = LevelOf(C, s) + mem[s].plen
<1>1. Len(mem) \in Nat /\ C \in Charts /\ Fits(C, s)
  BY Sequence DEF Placed, MemOK
<1>2. s # Root => mem[s].hash[1] \in Ids /\ mem[s].hash[1] \in Nat
  BY <1>1 DEF Fits, Ids
<1>3. LevelOf(C, s) \in Nat
  BY <1>1, <1>2, ChartFacts DEF LevelOf
<1>4. Inner(s) => Id(s) \in Ids /\ Id(s) \in Nat
  BY <1>1 DEF Placed, SlotsOK, Id, Ids, Inner
<1>5. Inner(s) => InnerFits(C, s)
  BY <1>1 DEF Fits
<1> QED
  BY <1>1, <1>2, <1>3, <1>4, <1>5, ChartFacts DEF InnerFits

(* What passes a node has entered it.                                      *)
LEMMA PassesEnters ==
  ASSUME NEW C, Placed(C), NEW s \in Slots, Inner(s), NEW k \in AllKeys,
         Passes(C, Id(s), k)
  PROVE  Enters(C, s, k)
<1> SUFFICES ASSUME s # Root
             PROVE  Passes(C, mem[s].hash[1], k) /\ k[LevelOf(C, s)] = mem[s].hash[2]
  BY DEF Enters
<1> DEFINE i == Id(s)
           h == mem[s].hash[1]
<1>1. /\ h \in Nat /\ i \in Nat /\ C.far[i] \in Nat /\ LevelOf(C, s) \in Nat /\ C \in Charts
      /\ mem[s].plen \in Nat /\ C.far[i] = LevelOf(C, s) + mem[s].plen
  BY SlotFacts DEF Placed
<1>2. C.far[h] \in Nat /\ LevelOf(C, s) = C.far[h] + 1
  BY <1>1, ChartFacts DEF LevelOf
<1>3. Enters(C, s, C.way[i]) /\ C.way[i] \in AllKeys
  BY DEF Placed, Fits, InnerFits
<1>4. Passes(C, h, C.way[i]) /\ C.way[i][LevelOf(C, s)] = mem[s].hash[2]
  BY <1>3 DEF Enters
<1>5. C.far[h] < C.far[i] /\ LevelOf(C, s) \in 1..C.far[i] /\ 1..C.far[h] \subseteq 1..C.far[i]
  BY <1>1, <1>2
<1>6. \A j \in 1..C.far[i] : k[j] = C.way[i][j]
  BY DEF Passes
<1>7. C.far[h] < Len(k)
  <2>1. C.far[i] < Len(k)
    BY DEF Passes
  <2> QED
    BY <1>1, <1>2, <1>5, <2>1, KeyFacts
<1> QED
  BY <1>4, <1>5, <1>6, <1>7 DEF Passes

(* A child is entered by what passes its parent and has its byte.          *)
LEMMA ChildEnters ==
  ASSUME NEW C, Placed(C), NEW s \in Slots, Inner(s), NEW c, NEW b, Under(c, s, b)
  PROVE  /\ c # Root /\ c \in Slots /\ LevelOf(C, c) = C.far[Id(s)] + 1
         /\ \A k : Enters(C, c, k) <=> Passes(C, Id(s), k) /\ k[C.far[Id(s)] + 1] = b
<1>1. c \in Slots /\ mem[c].hash = <<Id(s), b>>
  BY DEF Under, IdHash, Id
<1>2. Id(s) \in Ids /\ Len(mem) \in Nat
  BY SlotFacts, Sequence DEF Placed, MemOK
<1>3. c # Root
  BY <1>1, <1>2 DEF Placed, SlotsOK, Ids
<1>4. mem[c].hash[1] = Id(s) /\ mem[c].hash[2] = b
  BY <1>1
<1> QED
  BY <1>1, <1>3, <1>4 DEF Enters, LevelOf

(* What an inner node has as child for a byte carries that node and byte in  *)
(* its hash.                                                                 *)
LEMMA ChildUnder ==
  ASSUME NEW C, Placed(C), NEW s \in Slots, NEW b, ChildOf(mem[s], b) # Nil
  PROVE  Under(ChildOf(mem[s], b), s, b)
<1>1. b \in DOMAIN mem[s].child /\ ChildOf(mem[s], b) = mem[s].child[b]
  BY DEF ChildOf
<1>2. b \in Bytes(mem[s]) /\ mem[s].child[b] \in Slots
  BY <1>1 DEF Bytes, Placed, MemOK
<1> QED
  BY <1>1, <1>2 DEF Placed, HashesAgree, Under
-----------------------------------------------------------------------------
(* Ways through the tree.                                                  *)
LEMMA LeadsHere ==
  \A C, s, k, E : s \in E => Leads(C, s, k, E)
<1> SUFFICES ASSUME NEW C, NEW s, NEW k, NEW E, s \in E PROVE Leads(C, s, k, E)
  OBVIOUS
<1> DEFINE T == {s}
<1>1. s \in T /\ \A x \in T : x \in E \/ Follows(C, x, T, k)
  OBVIOUS
<1> QED
  BY <1>1 DEF Leads

(* A path of slots of T is a path of slots of any larger set.                *)
LEMMA FollowsMore ==
  \A C, x, T, U, k : Follows(C, x, T, k) /\ T \subseteq U => Follows(C, x, U, k)
BY DEF Follows

(* A way up to p goes on with a way from the child of p.                   *)
LEMMA LeadsOn ==
  \A C, s, p, k, E :
     /\ Leads(C, s, k, {p}) /\ Inner(p) /\ Passes(C, Id(p), k)
     /\ Leads(C, ToChild(C, p, k), k, E)
     => Leads(C, s, k, E)
<1> SUFFICES ASSUME NEW C, NEW s, NEW p, NEW k, NEW E,
                    Leads(C, s, k, {p}), Inner(p), Passes(C, Id(p), k),
                    Leads(C, ToChild(C, p, k), k, E)
             PROVE  Leads(C, s, k, E)
  OBVIOUS
<1>1. PICK T : s \in T /\ \A x \in T : x \in {p} \/ Follows(C, x, T, k)
  BY DEF Leads
<1>2. PICK U : ToChild(C, p, k) \in U /\ \A x \in U : x \in E \/ Follows(C, x, U, k)
  BY DEF Leads
<1> DEFINE W == T \cup U
<1>3. ASSUME NEW x \in T PROVE Follows(C, x, W, k)
  <2>1. CASE x = p
    BY <1>2, <2>1 DEF Follows, Inner, IsLeaf
  <2>2. CASE Follows(C, x, T, k)
    BY <2>2, FollowsMore
  <2> QED
    BY <1>1, <1>3, <2>1, <2>2
<1>4. ASSUME NEW x \in U PROVE x \in E \/ Follows(C, x, W, k)
  BY <1>2, <1>4, FollowsMore
<1>5. s \in W /\ \A x \in W : x \in E \/ Follows(C, x, W, k)
  BY <1>1, <1>3, <1>4
<1> QED
  BY <1>5 DEF Leads

(* What a way that ends in a leaf says of its first slot.                  *)
LEMMA FindsOn ==
  \A C, s, k : Finds(C, s, k) =>
     /\ s \in Slots
     /\ IsLeaf(s) => mem[s].value = k
     /\ Inner(s) => Passes(C, Id(s), k) /\ Finds(C, ToChild(C, s, k), k)
<1> SUFFICES ASSUME NEW C, NEW s, NEW k, Finds(C, s, k)
             PROVE  /\ s \in Slots
                    /\ IsLeaf(s) => mem[s].value = k
                    /\ Inner(s) => Passes(C, Id(s), k) /\ Finds(C, ToChild(C, s, k), k)
  OBVIOUS
<1>1. PICK T : s \in T /\ \A x \in T : Follows(C, x, T, k)
  BY DEF Finds, Leads
<1>2. Follows(C, s, T, k)
  BY <1>1
<1> QED
  BY <1>1, <1>2 DEF Follows, Finds, Leads
-----------------------------------------------------------------------------
(* The lookup that nobody disturbs, level by level.                        *)
Top == {[slot |-> Root, level |-> 0]}
IsDescent(at, k) ==
  at = [i \in 0..Len(k) |-> IF i = 0 THEN Top ELSE {Below(a, k) : a \in at[i - 1]}]

(* Holds(k) reads off the last set of the descent the model chooses.         *)
LEMMA HoldsAs ==
  ASSUME NEW k, NEW at, at = CHOOSE f : IsDescent(f, k)
  PROVE  Holds(k) <=> \E a \in at[Len(k)] : IsLeaf(a.slot) /\ mem[a.slot].value = k
BY DEF Holds, IsDescent, Top

(* Every key has a descent: the sets of places, byte after byte, that Holds  *)
(* walks.                                                                    *)
LEMMA DescentExists ==
  ASSUME NEW k, Len(k) \in Nat
  PROVE  \E at : IsDescent(at, k)
<1> DEFINE D == 0..Len(k)
           Level(f, i) == f[i] = IF i = 0 THEN Top ELSE {Below(a, k) : a \in f[i - 1]}
           Good(n) == \E f : f = [i \in D |-> f[i]] /\ \A i \in D : i <= n => Level(f, i)
           Depths == {n \in Nat : Good(n)}
<1>1. 0 \in Depths
  <2> DEFINE f == [i \in D |-> Top]
  <2>1. f = [i \in D |-> f[i]] /\ \A i \in D : i <= 0 => Level(f, i)
    OBVIOUS
  <2> QED
    BY <2>1
<1>2. ASSUME NEW n \in Nat, n \in Depths PROVE n + 1 \in Depths
  <2>1. PICK f : f = [i \in D |-> f[i]] /\ \A i \in D : i <= n => Level(f, i)
    BY <1>2
  <2> DEFINE g == [i \in D |-> IF i = 0 THEN Top ELSE {Below(a, k) : a \in f[i - 1]}]
  <2>2. \A i \in D : i <= n => g[i] = f[i]
    BY <2>1
  <2>3. ASSUME NEW i \in D, i <= n + 1 PROVE Level(g, i)
    <3>1. i # 0 => i - 1 \in D /\ i - 1 <= n
      BY <2>3
    <3>2. i # 0 => g[i - 1] = f[i - 1]
      BY <2>2, <3>1
    <3>3. g[i] = IF i = 0 THEN Top ELSE {Below(a, k) : a \in f[i - 1]}
      OBVIOUS
    <3> HIDE DEF g
    <3> QED
      BY <3>2, <3>3
  <2>4. g = [i \in D |-> g[i]]
    OBVIOUS
  <2>5. Good(n + 1)
    <3> HIDE DEF g
    <3>1. \A i \in D : i <= n + 1 => Level(g, i)
      BY <2>3
    <3> QED
      BY <2>4, <3>1
  <2> HIDE DEF Good
  <2> QED
    BY <2>5
<1>3. \A n \in Nat : n \in Depths
  <2> HIDE DEF Depths
  <2> QED
    BY <1>1, <1>2, AllNumbers
<1>4. Good(Len(k))
  <2> HIDE DEF Good
  <2> QED
    BY <1>3
<1>5. PICK f : f = [i \in D |-> f[i]] /\ \A i \in D : i <= Len(k) => Level(f, i)
  BY <1>4
<1>6. IsDescent(f, k)
  BY <1>5 DEF IsDescent
<1> QED
  BY <1>6

(* The descent Holds walks starts at the root and goes on by Below.          *)
LEMMA Descent ==
  ASSUME NEW k, Len(k) \in Nat
  PROVE  \E at : /\ at[0] = Top
                 /\ \A i \in 1..Len(k) : at[i] = {Below(a, k) : a \in at[i - 1]}
                 /\ Holds(k) <=> \E a \in at[Len(k)] : IsLeaf(a.slot) /\ mem[a.slot].value = k
<1>1. PICK at : at = CHOOSE f : IsDescent(f, k)
  OBVIOUS
<1>2. IsDescent(at, k)
  BY <1>1, DescentExists
<1>3. at[0] = Top /\ \A i \in 1..Len(k) : at[i] = {Below(a, k) : a \in at[i - 1]}
  BY <1>2 DEF IsDescent
<1> QED
  BY <1>1, <1>3, HoldsAs
-----------------------------------------------------------------------------
(* Parts of sequences.                                                     *)
LEMMA SameSeq ==
  ASSUME NEW s, NEW u, IsSeq(s), IsSeq(u), Len(s) = Len(u), \A j \in 1..Len(s) : s[j] = u[j]
  PROVE  s = u
<1>1. PICK S, U : s \in Seq(S) /\ u \in Seq(U)
  BY DEF IsSeq
<1>2. s \in Seq(S \cup U) /\ u \in Seq(S \cup U)
  BY <1>1
<1> QED
  BY <1>2, SeqEqual

(* What a sequence is without its first n elements.                          *)
LEMMA Dropped ==
  ASSUME NEW s, IsSeq(s), NEW n \in Nat, n <= Len(s)
  PROVE  /\ IsSeq(Drop(s, n)) /\ Len(Drop(s, n)) = Len(s) - n
         /\ \A j \in 1..Len(s) - n : Drop(s, n)[j] = s[n + j]
<1>1. PICK S : s \in Seq(S)
  BY DEF IsSeq
<1>2. Len(s) \in Nat /\ n + 1 \in 1..Len(s) + 1 /\ Len(s) \in n..Len(s)
  BY <1>1
<1>3. SubSeq(s, n + 1, Len(s)) = [i \in 1..Len(s) - n |-> s[n + i]]
  BY <1>1, <1>2
<1>4. Drop(s, n) = [i \in 1..Len(s) - n |-> s[n + i]]
  BY <1>3 DEF Drop
<1>5. Len(s) - n \in Nat
  BY <1>2
<1> HIDE DEF Drop
<1> QED
  BY <1>4, <1>5, Listed

(* What the first n elements of a sequence are.                              *)
LEMMA Cropped ==
  ASSUME NEW s, IsSeq(s), NEW n \in Nat
  PROVE  /\ IsSeq(Prefix(s, n)) /\ Len(Prefix(s, n)) = (IF n < Len(s) THEN n ELSE Len(s))
         /\ \A j \in 1..n : j <= Len(s) => Prefix(s, n)[j] = s[j]
<1>1. PICK S : s \in Seq(S)
  BY DEF IsSeq
<1> DEFINE m == IF n < Len(s) THEN n ELSE Len(s)
<1>2. m \in Nat /\ m <= Len(s) /\ Len(s) \in Nat
  BY <1>1
<1>3. SubSeq(s, 1, m) = [i \in 1..m |-> s[i]]
  BY <1>1, <1>2
<1>4. Prefix(s, n) = [i \in 1..m |-> s[i]]
  BY <1>3 DEF Prefix
<1>5. IsSeq(Prefix(s, n)) /\ Len(Prefix(s, n)) = m
  BY <1>2, <1>4, Listed
<1> QED
  BY <1>2, <1>4, <1>5

(* A key is a sequence.                                                      *)
LEMMA KeySeq ==
  ASSUME NEW k \in AllKeys
  PROVE  IsSeq(k)
BY KeyFacts DEF IsSeq

(* A key that passes a node matches what is stored of its prefix.          *)
LEMMA PassesMatches ==
  ASSUME NEW C, Placed(C), NEW s \in Slots, Inner(s), NEW k \in AllKeys, Passes(C, Id(s), k)
  PROVE  checkPrefix(mem[s], k, LevelOf(C, s)).match
<1> DEFINE n == mem[s]
           level == LevelOf(C, s)
           far == C.far[Id(s)]
<1>1. level \in Nat /\ n.plen \in Nat /\ far \in Nat /\ far = level + n.plen /\ Len(k) \in Nat
  BY SlotFacts, KeyFacts
<1>2. far < Len(k) /\ \A j \in 1..far : k[j] = C.way[Id(s)][j]
  BY DEF Passes
<1>3. /\ IsSeq(n.prefix) /\ Len(n.prefix) = Stored(n)
      /\ \A j \in 1..Len(n.prefix) : n.prefix[j] = C.way[Id(s)][level + j]
  BY DEF Placed, Fits, InnerFits
<1>4. Len(n.prefix) \in Nat /\ Len(n.prefix) <= n.plen
  BY <1>1, <1>3, ArtAssumption DEF Stored
<1> DEFINE d == Drop(k, level)
           p == Prefix(d, Len(n.prefix))
<1>5. IsSeq(d) /\ Len(d) = Len(k) - level /\ \A j \in 1..Len(k) - level : d[j] = k[level + j]
  <2>1. level <= Len(k)
    BY <1>1, <1>2
  <2> HIDE DEF level
  <2> QED
    BY <1>1, <2>1, KeySeq, Dropped
<1> HIDE DEF d
<1>6. /\ IsSeq(p) /\ Len(p) = Len(n.prefix)
      /\ \A j \in 1..Len(n.prefix) : p[j] = d[j]
  <2>1. Len(n.prefix) <= Len(d)
    BY <1>1, <1>2, <1>4, <1>5
  <2> QED
    BY <1>4, <1>5, <2>1, Cropped
<1> HIDE DEF p
<1>7. \A j \in 1..Len(n.prefix) : p[j] = n.prefix[j]
  <2> TAKE j \in 1..Len(n.prefix)
  <2>1. j \in 1..Len(k) - level /\ level + j \in 1..far
    BY <1>1, <1>2, <1>4
  <2> QED
    BY <1>2, <1>3, <1>5, <1>6, <2>1
<1>8. p = n.prefix
  BY <1>3, <1>6, <1>7, SameSeq
<1>9. n.plen > 0 => Len(k) > level + n.plen
  BY <1>1, <1>2
<1> QED
  BY <1>8, <1>9 DEF checkPrefix, p, d

(* A lookup that follows a way gets to its leaf.                           *)
LEMMA BelowFollows ==
  ASSUME NEW C, Placed(C), NEW k \in AllKeys, NEW T, \A x \in T : Follows(C, x, T, k),
         NEW a, a.slot \in T, Inner(a.slot), a.level = LevelOf(C, a.slot)
  PROVE  /\ Below(a, k).slot \in T /\ Below(a, k).level = LevelOf(C, Below(a, k).slot)
         /\ Below(a, k).level > a.level /\ a.level \in Nat /\ a.level < Len(k)
<1> DEFINE s == a.slot
           n == mem[s]
           level == a.level + n.plen
           c == ChildOf(n, k[level + 1])
<1>1. s \in Slots /\ Passes(C, Id(s), k) /\ ToChild(C, s, k) \in T
  BY DEF Follows
<1>2. /\ a.level \in Nat /\ n.plen \in Nat /\ level = C.far[Id(s)] /\ level \in Nat
      /\ Len(k) \in Nat /\ level < Len(k)
  BY <1>1, SlotFacts, KeyFacts DEF Passes
<1>3. checkPrefix(n, k, a.level).match
  BY <1>1, PassesMatches
<1>4. c = ToChild(C, s, k)
  BY <1>2 DEF ToChild
<1>5. s # Nil /\ ~IsLeaf(s)
  BY DEF Inner, IsLeaf, Nil, Slots
<1>6. Below(a, k) = [slot |-> c, level |-> level + 1]
  BY <1>2, <1>3, <1>5 DEF Below
<1>7. c \in Slots
  BY <1>1, <1>4 DEF Follows
<1>8. Under(c, s, k[level + 1])
  BY <1>1, <1>7, ChildUnder DEF Nil, Slots
<1>9. LevelOf(C, c) = level + 1
  BY <1>1, <1>2, <1>8, ChildEnters
<1> HIDE DEF c, level
<1>10. Below(a, k).slot = c /\ Below(a, k).level = level + 1
  BY <1>6
<1>11. level >= a.level
  BY <1>2 DEF level
<1> QED
  BY <1>1, <1>2, <1>4, <1>9, <1>10, <1>11

(* A key the chart leads to from the root is one the tree holds.             *)
LEMMA FindsHolds ==
  ASSUME NEW C, Placed(C), NEW k \in AllKeys, Finds(C, Root, k)
  PROVE  Holds(k)
<1>1. Len(k) \in Nat
  BY KeyFacts
<1>2. PICK at : /\ at[0] = Top
                /\ \A i \in 1..Len(k) : at[i] = {Below(a, k) : a \in at[i - 1]}
                /\ Holds(k) <=> \E a \in at[Len(k)] : IsLeaf(a.slot) /\ mem[a.slot].value = k
  BY <1>1, Descent
<1>3. PICK T : Root \in T /\ \A x \in T : Follows(C, x, T, k)
  BY DEF Finds, Leads
<1> DEFINE On(n, a) == a.slot \in T /\ (IsLeaf(a.slot) \/ (a.level = LevelOf(C, a.slot) /\ a.level >= n))
           Depths == {n \in Nat : n <= Len(k) => \E a \in at[n] : On(n, a)}
<1>4. 0 \in Depths
  <2> DEFINE a == [slot |-> Root, level |-> 0]
  <2>1. a \in at[0] /\ a.slot = Root /\ a.level = 0
    BY <1>2 DEF Top
  <2>2. On(0, a)
    BY <1>3, <2>1 DEF LevelOf
  <2> HIDE DEF a, On
  <2> QED
    BY <2>1, <2>2
<1>5. ASSUME NEW n \in Nat, n \in Depths PROVE n + 1 \in Depths
  <2> SUFFICES ASSUME n + 1 <= Len(k) PROVE \E a \in at[n + 1] : On(n + 1, a)
    BY DEF On
  <2>1. PICK a \in at[n] : On(n, a)
    BY <1>1, <1>5
  <2>2. Below(a, k) \in at[n + 1]
    <3>1. n + 1 \in 1..Len(k) /\ (n + 1) - 1 = n
      BY <1>1
    <3> QED
      BY <1>2, <2>1, <3>1
  <2>3. CASE IsLeaf(a.slot)
    <3>1. Below(a, k) = a
      BY <2>3 DEF Below
    <3> QED
      BY <2>1, <2>2, <2>3, <3>1
  <2>4. CASE ~IsLeaf(a.slot)
    <3>1. Inner(a.slot) /\ a.level = LevelOf(C, a.slot) /\ a.level >= n
      BY <1>3, <2>1, <2>4 DEF Follows, Inner, IsLeaf
    <3>2. /\ Below(a, k).slot \in T /\ Below(a, k).level = LevelOf(C, Below(a, k).slot)
          /\ Below(a, k).level > a.level /\ a.level \in Nat
      BY <1>3, <2>1, <3>1, BelowFollows
    <3>3. Below(a, k).level \in Nat
      <4>1. Below(a, k).slot \in Slots
        BY <1>3, <3>2 DEF Follows
      <4> QED
        BY <3>2, <4>1, SlotFacts
    <3>4. On(n + 1, Below(a, k))
      BY <3>1, <3>2, <3>3
    <3> QED
      BY <2>2, <3>4
  <2> QED
    BY <2>3, <2>4
<1>6. \A n \in Nat : n \in Depths
  <2> HIDE DEF Depths
  <2> QED
    BY <1>4, <1>5, AllNumbers
<1>7. PICK a \in at[Len(k)] : On(Len(k), a)
  BY <1>1, <1>6
<1>8. IsLeaf(a.slot)
  <2> SUFFICES ASSUME ~IsLeaf(a.slot) PROVE FALSE
    OBVIOUS
  <2>1. Inner(a.slot) /\ a.level = LevelOf(C, a.slot) /\ a.level >= Len(k)
    BY <1>3, <1>7 DEF Follows, Inner, IsLeaf
  <2>2. a.level \in Nat /\ a.level < Len(k)
    BY <1>3, <1>7, <2>1, BelowFollows
  <2> QED
    BY <1>1, <2>1, <2>2
<1>9. mem[a.slot].value = k
  BY <1>3, <1>7, <1>8 DEF Follows
<1> QED
  BY <1>2, <1>8, <1>9

(* It never leaves the slots that were linked.                             *)
LEMMA HoldsPublic ==
  ASSUME NEW C, NEW P, PublicOK(C, P), NEW k \in AllKeys, Holds(k)
  PROVE  ~Absent(P, k)
<1>1. Len(k) \in Nat
  BY KeyFacts
<1>2. PICK at : /\ at[0] = Top
                /\ \A i \in 1..Len(k) : at[i] = {Below(a, k) : a \in at[i - 1]}
                /\ Holds(k) <=> \E a \in at[Len(k)] : IsLeaf(a.slot) /\ mem[a.slot].value = k
  BY <1>1, Descent
<1> DEFINE Depths == {n \in Nat : n <= Len(k) => \A a \in at[n] : a.slot \in P \cup {Nil}}
<1>3. 0 \in Depths
  BY <1>2 DEF PublicOK, Top
<1>4. ASSUME NEW n \in Nat, n \in Depths PROVE n + 1 \in Depths
  <2> SUFFICES ASSUME n + 1 <= Len(k), NEW c \in at[n + 1] PROVE c.slot \in P \cup {Nil}
    OBVIOUS
  <2>1. n + 1 \in 1..Len(k) /\ (n + 1) - 1 = n
    BY <1>1
  <2>2. PICK a \in at[n] : c = Below(a, k)
    BY <1>2, <2>1
  <2>3. a.slot \in P \cup {Nil}
    BY <1>1, <1>4
  <2>4. \A b : a.slot # Nil => ChildOf(mem[a.slot], b) \in P \cup {Nil}
    BY <2>3 DEF PublicOK, ChildOf
  <2> QED
    BY <2>2, <2>3, <2>4 DEF Below
<1>5. \A n \in Nat : n \in Depths
  <2> HIDE DEF Depths
  <2> QED
    BY <1>3, <1>4, AllNumbers
<1>6. PICK a \in at[Len(k)] : IsLeaf(a.slot) /\ mem[a.slot].value = k
  BY <1>2
<1>7. a.slot \in P
  BY <1>1, <1>5, <1>6 DEF IsLeaf, Nil, Slots
<1> QED
  BY <1>6, <1>7 DEF Absent

(* What the tree holds is what is in the leaves that were linked.          *)
LEMMA HoldsIs ==
  \A C, P : Placed(C) /\ PublicOK(C, P) =>
     \A k \in AllKeys : (Holds(k) <=> Finds(C, Root, k)) /\ (Holds(k) <=> ~Absent(P, k))
<1> SUFFICES ASSUME NEW C, NEW P, Placed(C), PublicOK(C, P), NEW k \in AllKeys
             PROVE  (Holds(k) <=> Finds(C, Root, k)) /\ (Holds(k) <=> ~Absent(P, k))
  OBVIOUS
<1>1. Finds(C, Root, k) => Holds(k)
  BY FindsHolds
<1>2. Holds(k) => ~Absent(P, k)
  BY HoldsPublic
<1>3. ~Absent(P, k) => Finds(C, Root, k)
  BY DEF PublicOK, Absent
<1> QED
  BY <1>1, <1>2, <1>3

(* HoldsIs, of the state after the step.                                     *)
LEMMA HoldsNext ==
  (\A C, P : Placed(C) /\ PublicOK(C, P) =>
     \A k \in AllKeys : (Holds(k) <=> Finds(C, Root, k)) /\ (Holds(k) <=> ~Absent(P, k)))'
BY HoldsIs, PTL
-----------------------------------------------------------------------------
(* What the chart says stays true: new ids are added to it, and what a slot *)
(* is placed by never changes.                                             *)
Extends(C, D) ==
  /\ D \in Charts
  /\ \A i \in Ids : D.far[i] = C.far[i] /\ D.way[i] = C.way[i]

(* An extended chart says the same of the ids that were there.               *)
LEMMA PassesLast ==
  ASSUME NEW C, NEW D, Extends(C, D), NEW i \in Ids, NEW k
  PROVE  Passes(D, i, k) <=> Passes(C, i, k)
BY DEF Extends, Passes

(* A slot keeps its kind, id, length, value and level when nodes are only    *)
(* added or relinked, so the same keys enter it.                             *)
LEMMA SlotsLast ==
  ASSUME NEW C, NEW D, Placed(C), Grows, Extends(C, D), NEW s \in Slots
  PROVE  /\ s \in Slots' /\ (IsLeaf(s)' <=> IsLeaf(s)) /\ (Inner(s)' <=> Inner(s)) /\ Id(s)' = Id(s)
         /\ mem'[s].plen = mem[s].plen /\ mem'[s].value = mem[s].value
         /\ LevelOf(D, s)' = LevelOf(C, s) /\ \A k : Enters(D, s, k)' <=> Enters(C, s, k)
         /\ Inner(s) => /\ D.far[Id(s)] = C.far[Id(s)] /\ D.way[Id(s)] = C.way[Id(s)]
                        /\ \A k : Passes(D, Id(s), k) <=> Passes(C, Id(s), k)
<1>1. s \in Slots' /\ Lasting(s)
  BY DEF Grows
<1>2. /\ mem'[s].kind = mem[s].kind /\ mem'[s].id = mem[s].id /\ mem'[s].hash = mem[s].hash
      /\ mem'[s].plen = mem[s].plen /\ mem'[s].value = mem[s].value
  BY <1>1 DEF Lasting
<1>3. (IsLeaf(s)' <=> IsLeaf(s)) /\ (Inner(s)' <=> Inner(s)) /\ Id(s)' = Id(s)
  BY <1>1, <1>2 DEF IsLeaf, Inner, Id
<1>4. s # Root => /\ mem[s].hash[1] \in Ids
                  /\ D.far[mem[s].hash[1]] = C.far[mem[s].hash[1]]
                  /\ \A k : Passes(D, mem[s].hash[1], k) <=> Passes(C, mem[s].hash[1], k)
  BY SlotFacts, PassesLast DEF Extends
<1>5. LevelOf(D, s)' = LevelOf(C, s)
  BY <1>2, <1>4 DEF LevelOf
<1>6. \A k : Enters(D, s, k)' <=> Enters(C, s, k)
  BY <1>2, <1>4, <1>5 DEF Enters
<1>7. Inner(s) => Id(s) \in Ids
  BY SlotFacts
<1> QED
  BY <1>1, <1>2, <1>3, <1>5, <1>6, <1>7, PassesLast DEF Extends

(* A slot that fits the chart still fits it after such a step.               *)
LEMMA FitsLast ==
  ASSUME NEW C, NEW D, Placed(C), MemOK', Grows, Extends(C, D), NEW s \in Slots
  PROVE  Fits(D, s)'
<1>1. /\ s \in Slots' /\ (IsLeaf(s)' <=> IsLeaf(s)) /\ (Inner(s)' <=> Inner(s)) /\ Id(s)' = Id(s)
      /\ mem'[s].plen = mem[s].plen /\ mem'[s].value = mem[s].value
      /\ LevelOf(D, s)' = LevelOf(C, s) /\ \A k : Enters(D, s, k)' <=> Enters(C, s, k)
      /\ Inner(s) => /\ D.far[Id(s)] = C.far[Id(s)] /\ D.way[Id(s)] = C.way[Id(s)]
  BY SlotsLast
<1>2. Fits(C, s)
  BY DEF Placed
<1>3. s # Root => mem'[s].hash[1] \in Ids'
  <2>1. mem'[s].hash = mem[s].hash
    BY DEF Grows, Lasting
  <2>2. Ids \subseteq Ids'
    BY DEF Grows, Ids, Slots
  <2> QED
    BY <1>2, <2>1, <2>2 DEF Fits
<1>4. IsLeaf(s) => LeafFits(D, s)'
  BY <1>1, <1>2 DEF Fits, LeafFits
<1>5. Inner(s) => InnerFits(D, s)'
  <2> SUFFICES ASSUME Inner(s) PROVE InnerFits(D, s)'
    OBVIOUS
  <2>1. InnerFits(C, s) /\ mem'[s].prefix = mem[s].prefix
    BY <1>2 DEF Fits, Grows, Lasting
  <2>2. Stored(mem[s])' = Stored(mem[s])
    BY <1>1 DEF Stored
  <2> QED
    BY <1>1, <2>1, <2>2 DEF InnerFits
<1> QED
  BY <1>1, <1>3, <1>4, <1>5 DEF Fits

(* The way through a slot whose children stay.                             *)
LEMMA FollowsLast ==
  ASSUME NEW C, NEW D, Placed(C), Grows, Extends(C, D), NEW x \in Slots,
         Inner(x) => mem'[x].child = mem[x].child, NEW T, NEW k
  PROVE  Follows(D, x, T, k)' <=> Follows(C, x, T, k)
<1>1. /\ x \in Slots' /\ (IsLeaf(x)' <=> IsLeaf(x)) /\ (Inner(x)' <=> Inner(x)) /\ Id(x)' = Id(x)
      /\ mem'[x].value = mem[x].value
      /\ Inner(x) => /\ D.far[Id(x)] = C.far[Id(x)]
                     /\ Passes(D, Id(x), k) <=> Passes(C, Id(x), k)
  BY SlotsLast
<1>2. Inner(x) => ToChild(D, x, k)' = ToChild(C, x, k)
  BY <1>1 DEF ToChild, ChildOf
<1> QED
  BY <1>1, <1>2 DEF Follows

(* X is the slot that a step replaces, if it replaces one.                 *)
Leading(C, D, X) ==
  \A s, E : \A k \in AllKeys :
     Leads(C, s, k, E) /\ X \notin E /\ Nil \notin E => Leads(D, s, k, E)'

(* A step that changes no child of an old slot leaves every way of the tree  *)
(* as it was.                                                                *)
LEMMA WaysLast ==
  ASSUME NEW C, NEW D, Placed(C), Grows, Extends(C, D),
         \A x \in Slots : mem'[x].child = mem[x].child
  PROVE  \A X : Leading(C, D, X)
<1> SUFFICES ASSUME NEW s, NEW E, NEW k \in AllKeys, Leads(C, s, k, E) PROVE Leads(D, s, k, E)'
  BY DEF Leading
<1>1. PICK T : s \in T /\ \A x \in T : x \in E \/ Follows(C, x, T, k)
  BY DEF Leads
<1>2. ASSUME NEW x \in T, Follows(C, x, T, k) PROVE Follows(D, x, T, k)'
  <2>1. x \in Slots
    BY <1>2 DEF Follows
  <2> QED
    BY <1>2, <2>1, FollowsLast
<1> QED
  BY <1>1, <1>2 DEF Leads

(* A pointer of p is changed from c to f.                                  *)
LEMMA WaysHooked ==
  ASSUME NEW C, Placed(C), Grows, Extends(C, C), NEW p \in Slots, NEW b, NEW f,
         change(p, b, f), NEW c, c = ChildOf(mem[p], b),
         NEW B, p \notin B, B \subseteq Slots,
         c # Nil => Replaces(C, c, f, B)
  PROVE  Leading(C, C, c)
<1> SUFFICES ASSUME NEW s, NEW E, NEW k \in AllKeys, Leads(C, s, k, E), c \notin E, Nil \notin E
             PROVE  Leads(C, s, k, E)'
  BY DEF Leading
<1>1. PICK T : s \in T /\ \A x \in T : x \in E \/ Follows(C, x, T, k)
  BY DEF Leads
<1>2. PICK F \in SUBSET B : c \in T => f \in F /\ \A y \in F : Follows(C, y, T \cup F, k)
  <2>1. CASE c \in T
    <3>1. Follows(C, c, T, k)
      BY <1>1, <2>1
    <3>2. c # Nil /\ Nil \notin T
      BY <1>1, <3>1 DEF Follows, Nil, Slots
    <3> QED
      BY <2>1, <3>1, <3>2 DEF Replaces
  <2> QED
    BY <2>1
<1> DEFINE U == IF c \in T THEN T \cup F ELSE T
<1>3. MemOK /\ \A x \in Slots : x # p => mem'[x] = mem[x]
  BY ChildChanged DEF Placed
<1>4. ASSUME NEW x \in Slots, x # p, Follows(C, x, U, k) PROVE Follows(C, x, U, k)'
  BY <1>3, <1>4, FollowsLast
<1>5. ASSUME NEW x \in T, x \notin E PROVE Follows(C, x, U, k)'
  <2>1. Follows(C, x, T, k) /\ x \in Slots
    BY <1>1, <1>5 DEF Follows
  <2>2. Follows(C, x, U, k)
    BY <2>1, FollowsMore
  <2>3. CASE x = p
    <3>1. /\ x \in Slots' /\ (IsLeaf(x)' <=> IsLeaf(x)) /\ (Inner(x)' <=> Inner(x)) /\ Id(x)' = Id(x)
          /\ mem'[x].value = mem[x].value
      BY <2>1, SlotsLast
    <3>2. /\ DOMAIN mem'[x].child = DOMAIN mem[x].child \cup {b} /\ mem'[x].child[b] = f
          /\ \A y \in DOMAIN mem[x].child : y # b => mem'[x].child[y] = mem[x].child[y]
      BY <1>3, <2>3, ChildChanged
    <3> DEFINE d == k[C.far[Id(x)] + 1]
    <3>3. Inner(x) => ToChild(C, x, k)' \in U
      <4> SUFFICES ASSUME Inner(x) PROVE ToChild(C, x, k)' \in U
        OBVIOUS
      <4>1. ChildOf(mem[x], d) \in T
        BY <2>1 DEF Follows, ToChild
      <4>2. ToChild(C, x, k)' = ChildOf(mem'[x], d)
        BY <3>1 DEF ToChild
      <4> HIDE DEF d
      <4>3. CASE d = b
        <5>1. c \in T
          BY <2>3, <4>1, <4>3
        <5>2. ChildOf(mem'[x], d) = f
          BY <3>2, <4>3 DEF ChildOf
        <5> QED
          BY <1>2, <4>2, <5>1, <5>2
      <4>4. CASE d # b
        <5>1. ChildOf(mem'[x], d) = ChildOf(mem[x], d)
          BY <3>2, <4>4 DEF ChildOf
        <5> QED
          BY <4>1, <4>2, <5>1
      <4> QED
        BY <4>3, <4>4
    <3>4. Inner(x) => Passes(C, Id(x), k)
      BY <2>1 DEF Follows
    <3>5. IsLeaf(x) => mem[x].value = k
      BY <2>1 DEF Follows
    <3> HIDE DEF U
    <3> QED
      BY <3>1, <3>3, <3>4, <3>5 DEF Follows
  <2>4. CASE x # p
    BY <1>4, <2>1, <2>2, <2>4
  <2> QED
    BY <2>3, <2>4
<1>6. ASSUME NEW x \in U, x \notin T PROVE Follows(C, x, U, k)'
  <2>1. x \in F /\ c \in T /\ U = T \cup F
    BY <1>6
  <2>2. Follows(C, x, U, k) /\ x \in Slots /\ x # p
    BY <1>2, <2>1
  <2> QED
    BY <1>4, <2>2
<1>7. s \in U /\ \A x \in U : x \in E \/ Follows(C, x, U, k)'
  BY <1>1, <1>5, <1>6
<1> HIDE DEF U
<1> QED
  BY <1>7 DEF Leads
-----------------------------------------------------------------------------
(* What a call knows is carried over a step from chart C to chart D.       *)
Located(U) ==
  /\ U.node \in Slots \cup {Nil} /\ U.next \in Slots \cup {Nil, Garbage}
  /\ U.any \in Slots \cup {Nil, Garbage}
  /\ U.op = "insert" => IF U.pc = "insert" THEN Inner(U.next) ELSE Inner(U.node)

(* Neither the null pointer nor the dangling one is a slot.                  *)
LEMMA NoSlots == Nil \notin Slots /\ Garbage \notin Slots /\ Nil \notin Slots' /\ Garbage \notin Slots'
BY DEF Nil, Garbage, Slots

(* A child stays the child of the node and byte its hash names.              *)
LEMMA UnderLasts ==
  ASSUME Grows, NEW c, NEW s \in Slots, NEW b, Under(c, s, b)
  PROVE  Under(c, s, b)'
BY DEF Grows, Lasting, Under, IdHash

(* What a lookup knows of its place survives a step of another thread.       *)
LEMMA LookupCarried ==
  ASSUME NEW C, NEW D, Placed(C), Grows, Extends(C, D), NEW X, Leading(C, D, X),
         NEW U, Located(U), U.key \in AllKeys, LookupKnows(C, U)
  PROVE  LookupKnows(D, U)'
<1>1. \A s \in Slots :
        /\ s \in Slots' /\ (IsLeaf(s)' <=> IsLeaf(s)) /\ (Inner(s)' <=> Inner(s)) /\ Id(s)' = Id(s)
        /\ LevelOf(D, s)' = LevelOf(C, s) /\ (Enters(D, s, U.key)' <=> Enters(C, s, U.key))
        /\ Inner(s) => /\ D.far[Id(s)] = C.far[Id(s)]
                       /\ Passes(D, Id(s), U.key) <=> Passes(C, Id(s), U.key)
  BY SlotsLast
<1>2. U.pc = "search" => /\ U.level = LevelOf(D, U.node)'
                         /\ U.optimistic \/ Enters(D, U.node, U.key)'
  <2> SUFFICES ASSUME U.pc = "search" PROVE /\ U.level = LevelOf(D, U.node)'
                                            /\ U.optimistic \/ Enters(D, U.node, U.key)'
    OBVIOUS
  <2>1. U.node \in Slots
    BY DEF LookupKnows, Inner
  <2> QED
    BY <1>1, <2>1 DEF LookupKnows
<1>3. U.pc \in AtNode => /\ U.level = D.far[Id(U.node)'] /\ U.level < Len(U.key)
                         /\ U.optimistic \/ Passes(D, Id(U.node)', U.key)
                         /\ U.next \in Slots' => Under(U.next, U.node, U.key[U.level + 1])'
  <2> SUFFICES ASSUME U.pc \in AtNode
               PROVE  /\ U.level = D.far[Id(U.node)'] /\ U.level < Len(U.key)
                      /\ U.optimistic \/ Passes(D, Id(U.node)', U.key)
                      /\ U.next \in Slots' => Under(U.next, U.node, U.key[U.level + 1])'
    OBVIOUS
  <2>1. U.node \in Slots /\ Inner(U.node)
    BY DEF LookupKnows, Inner
  <2>2. U.next \in Slots' => U.next \in Slots
    BY NoSlots DEF Located
  <2>3. U.next \in Slots' => Under(U.next, U.node, U.key[U.level + 1])'
    BY <2>1, <2>2, UnderLasts DEF LookupKnows
  <2> QED
    BY <1>1, <2>1, <2>3 DEF LookupKnows
<1>4. U.pc \in AtNext => /\ U.level = LevelOf(D, U.next)' /\ Inner(U.next)'
                         /\ U.optimistic \/ Enters(D, U.next, U.key)'
  <2> SUFFICES ASSUME U.pc \in AtNext PROVE /\ U.level = LevelOf(D, U.next)' /\ Inner(U.next)'
                                            /\ U.optimistic \/ Enters(D, U.next, U.key)'
    OBVIOUS
  <2>1. U.next \in Slots
    BY DEF LookupKnows, Inner
  <2> QED
    BY <1>1, <2>1 DEF LookupKnows
<1>5. U.pc \in {"search", "miss"} \cup AtNode => Inner(U.node)'
  BY <1>1 DEF LookupKnows, Inner
<1>6. U.pc \in AtNode /\ U.pc # "hit" => IsLeaf(U.next)'
  BY <1>1 DEF LookupKnows, IsLeaf
<1>7. U.pc = "lookup" => U.level = 0
  BY DEF LookupKnows
<1> QED
  BY <1>2, <1>3, <1>4, <1>5, <1>6, <1>7 DEF LookupKnows

(* A lookup that is certain of its answer stays certain through a step of    *)
(* another thread.                                                           *)
LEMMA CertainCarried ==
  ASSUME NEW C, NEW D, NEW X, Leading(C, D, X), NEW U, Located(U), U.key \in AllKeys, Certain(C, U)
  PROVE  Certain(D, U)'
<1>1. \A s : Finds(C, s, U.key) => Finds(D, s, U.key)'
  BY DEF Leading, Finds
<1>2. (U.node \in Slots' => U.node \in Slots) /\ (U.next \in Slots' => U.next \in Slots)
  BY NoSlots DEF Located
<1> QED
  BY <1>1, <1>2 DEF Certain

(* What an insert knows of its way survives a step of another thread.        *)
LEMMA WayCarried ==
  ASSUME NEW C, NEW D, Placed(C), Grows, Extends(C, D),
         NEW U, Located(U), U.op = "insert", U.key \in AllKeys, WayKnown(C, U)
  PROVE  WayKnown(D, U)'
<1>1. \A s \in Slots :
        /\ s \in Slots' /\ (Inner(s)' <=> Inner(s)) /\ Id(s)' = Id(s)
        /\ mem'[s].plen = mem[s].plen
        /\ LevelOf(D, s)' = LevelOf(C, s) /\ \A k : Enters(D, s, k)' <=> Enters(C, s, k)
        /\ Inner(s) => /\ D.far[Id(s)] = C.far[Id(s)] /\ D.way[Id(s)] = C.way[Id(s)]
                       /\ \A k : Passes(D, Id(s), k) <=> Passes(C, Id(s), k)
  BY SlotsLast
<1>2. U.pc = "insert" => U.next \in Slots
  BY DEF Located, Inner
<1>3. U.pc # "insert" => U.node \in Slots /\ Inner(U.node)
  BY DEF Located, Inner
<1>4. ASSUME NEW c \in Slots, U.pc # "insert", Through(C, c, Id(U.node))
      PROVE  Through(D, c, Id(U.node))'
  BY <1>1, <1>3, <1>4 DEF Through
<1>5. U.pc = "insert" => Enters(D, U.next, U.key)' /\ U.level = LevelOf(D, U.next)'
  BY <1>1, <1>2 DEF WayKnown
<1>6. U.pc \in {"prefix"} \cup Seeking => Enters(D, U.node, U.key)' /\ U.level = LevelOf(D, U.node)'
  BY <1>1, <1>3 DEF WayKnown, Seeking
<1>7. U.pc \in Seeking => /\ Inner(U.cursor)'
                          /\ U.cursor = U.node \/ Through(D, U.cursor, Id(U.node))'
  <2> SUFFICES ASSUME U.pc \in Seeking
               PROVE  Inner(U.cursor)' /\ (U.cursor = U.node \/ Through(D, U.cursor, Id(U.node))')
    OBVIOUS
  <2>1. U.cursor \in Slots /\ Inner(U.cursor)
    BY DEF WayKnown, Inner
  <2> QED
    BY <1>1, <1>4, <2>1 DEF WayKnown, Seeking
<1>8. U.pc = "anyCheck" /\ U.any \in Slots' => Through(D, U.any, Id(U.node))'
  <2>1. U.any \in Slots' => U.any \in Slots
    BY NoSlots DEF Located
  <2> QED
    BY <1>4, <2>1 DEF WayKnown
<1>9. U.pc \in AtChild => /\ Passes(D, Id(U.node)', U.key)
                          /\ U.level = D.far[Id(U.node)'] /\ U.byte = U.key[U.level + 1]
  BY <1>1, <1>3 DEF WayKnown, AtChild
<1>10. U.pc \in {"splitParent", "splitNode", "splitBuild"} => SplitKnown(D, U)'
  <2> SUFFICES ASSUME U.pc \in {"splitParent", "splitNode", "splitBuild"} PROVE SplitKnown(D, U)'
    OBVIOUS
  <2>1. SplitKnown(C, U) /\ U.node \in Slots /\ Inner(U.node)
    BY <1>3 DEF WayKnown
  <2>2. Id(U.node)' = Id(U.node) /\ D.way[Id(U.node)] = C.way[Id(U.node)] /\ mem'[U.node].plen = mem[U.node].plen
        /\ LevelOf(D, U.node)' = LevelOf(C, U.node) /\ (Enters(D, U.node, U.key)' <=> Enters(C, U.node, U.key))
    BY <1>1, <2>1
  <2> QED
    BY <2>1, <2>2 DEF SplitKnown
<1> QED
  BY <1>5, <1>6, <1>7, <1>8, <1>9, <1>10 DEF WayKnown

(* The node an insert is about to publish is of its own batch.               *)
LEMMA FreshIn ==
  ASSUME NEW U, U.pc \in Preparing
  PROVE  U.fresh \in Batch(U)
BY DEF Batch, Preparing

(* What nobody else writes to stays ready to be linked.                    *)
LEMMA ReadyCarried ==
  ASSUME NEW C, NEW D, Placed(C), Grows, Extends(C, D), NEW X, Leading(C, D, X),
         NEW P, NEW Q, X \in P \cup {Nil}, P \subseteq Q,
         NEW U, U.pc \in Preparing, U.key \in AllKeys, Ready(C, P, U),
         Batch(U) \cap Q = {}, \A y \in Batch(U) : mem'[y].child = mem[y].child,
         U.pc # "putInsert" => Old(U) \in Slots /\ (Inner(Old(U)) => mem'[Old(U)].child = mem[Old(U)].child)
  PROVE  Ready(D, Q, U)'
<1> DEFINE B == Batch(U)
           f == U.fresh
<1>0. f \in B /\ B \subseteq Slots /\ B \cap P = {}
  BY FreshIn DEF Ready
<1>1. \A s \in Slots :
        /\ s \in Slots' /\ (IsLeaf(s)' <=> IsLeaf(s)) /\ (Inner(s)' <=> Inner(s))
        /\ mem'[s].value = mem[s].value /\ \A k : Enters(D, s, k)' <=> Enters(C, s, k)
  BY SlotsLast
<1>2. \A s \in Slots : IsLeaf(s) => mem[s].value \in AllKeys
  BY DEF Placed, Fits, LeafFits
<1>3. \A s, k : k \in AllKeys /\ Finds(C, s, k) => Finds(D, s, k)'
  BY DEF Leading, Finds
<1>4. \A y \in B : \A k \in AllKeys : \A s : Leads(C, s, k, {y}) => Leads(D, s, k, {y})'
  <2>1. \A y \in B : X \notin {y} /\ Nil \notin {y}
    BY <1>0, NoSlots
  <2> QED
    BY <2>1 DEF Leading
<1>5. B \subseteq Slots' \ Q
  BY <1>0, <1>1
<1>6. \A y \in B : \A b \in DOMAIN mem'[y].child : mem'[y].child[b] \in Q \cup B \cup {Nil}
  BY DEF Ready
<1>7. \A y \in B, k \in AllKeys :
        IsLeaf(y)' /\ mem'[y].value = k => k = U.key \/ Finds(D, Root, k)'
  BY <1>0, <1>1, <1>3 DEF Ready
<1>8. \A y \in B : Inner(y)' => \A k \in AllKeys :
        Enters(D, y, k)' => Enters(D, f, k)' /\ Leads(D, f, k, {y})'
  BY <1>0, <1>1, <1>4 DEF Ready
<1>9. Enters(D, f, U.key)' /\ Finds(D, f, U.key)'
  BY <1>0, <1>1, <1>3 DEF Ready
<1>10. U.pc # "putInsert" => Replaces(D, Old(U), f, B)'
  <2> SUFFICES ASSUME U.pc # "putInsert" PROVE Replaces(D, Old(U), f, B)'
    OBVIOUS
  <2> DEFINE c == Old(U)
  <2>1. PICK F \in SUBSET B : f \in F /\ \A k \in AllKeys : \A T :
               c \in T /\ Nil \notin T /\ Follows(C, c, T, k) => \A y \in F : Follows(C, y, T \cup F, k)
    BY DEF Ready, Replaces
  <2>2. \A T, k : Follows(D, c, T, k)' <=> Follows(C, c, T, k)
    BY FollowsLast
  <2>3. \A y \in F : \A T, k : Follows(D, y, T, k)' <=> Follows(C, y, T, k)
    BY <1>0, FollowsLast
  <2> HIDE DEF c
  <2>4. \A k \in AllKeys : \A T :
               c \in T /\ Nil \notin T /\ Follows(D, c, T, k)' => \A y \in F : Follows(D, y, T \cup F, k)'
    BY <2>1, <2>2, <2>3
  <2> QED
    BY <2>1, <2>4 DEF Replaces, c
<1> QED
  BY <1>5, <1>6, <1>7, <1>8, <1>9, <1>10 DEF Ready

(* All that a call knows survives a step of another thread that adds slots   *)
(* of its own and links X.                                                   *)
LEMMA CallCarried ==
  ASSUME NEW C, NEW D, Placed(C), Grows, Extends(C, D), NEW X, Leading(C, D, X),
         NEW P, NEW Q, X \in P \cup {Nil}, P \subseteq Q,
         NEW U, Located(U), U.key \in AllKeys, CallKnows(C, P, U), U.op = "insert" => ChildKnown(U)',
         Batch(U) \cap Q = {}, \A y \in Batch(U) : mem'[y].child = mem[y].child,
         U.pc \in Preparing /\ U.pc # "putInsert" =>
            Old(U) \in Slots /\ (Inner(Old(U)) => mem'[Old(U)].child = mem[Old(U)].child)
  PROVE  CallKnows(D, Q, U)'
<1>1. HeldBy(U) \subseteq Q \cup {Nil}
  BY DEF CallKnows
<1>2. U.op = "lookup" => LookupKnows(D, U)' /\ Certain(D, U)'
  BY LookupCarried, CertainCarried DEF CallKnows
<1>3. U.op = "insert" => WayKnown(D, U)'
  BY WayCarried DEF CallKnows, InsertKnows
<1>4. U.op = "insert" /\ U.pc \in Preparing => Ready(D, Q, U)'
  BY ReadyCarried DEF CallKnows, InsertKnows
<1>5. U.op = "insert" /\ U.pc \in Linked => Finds(D, Root, U.key)'
  BY DEF CallKnows, InsertKnows, Finds, Leading
<1> QED
  BY <1>1, <1>2, <1>3, <1>4, <1>5 DEF CallKnows, InsertKnows
-----------------------------------------------------------------------------
(* What other calls know is not lost.                                      *)
LEMMA PlacedNow ==
  ASSUME TInv, LInv, NEW C, NEW P, Charted(C, P)
  PROVE  Placed(C)
BY DEF TInv, LInv, Charted, Placed

(* What the invariants of the tree and of the locks say of a call in         *)
(* progress.                                                                 *)
LEMMA LocatedNow ==
  ASSUME TInv, LInv, NEW u \in Threads, NEW U, U = loc[u], Calls(U)
  PROVE  Located(U) /\ CallOK(U) /\ Knows(U)
<1>1. CallOK(U) /\ Knows(U) /\ KindsKnown(U)
  BY Callers DEF LInv, KnowsOK, Knows
<1>2. CASE U.op = "lookup"
  <2>1. LookupOK(U)
    BY <1>1, <1>2 DEF CallOK
  <2>2. U.node \in Slots \cup {Nil}
    BY <2>1 DEF LookupOK, Versioned
  <2>3. U.next \in Slots \cup {Nil, Garbage} /\ U.any = Nil
    BY <2>1 DEF LookupOK, Fetched
  <2> QED
    BY <1>1, <1>2, <2>2, <2>3 DEF Located
<1>3. CASE U.op = "insert"
  <2>1. InsertOK(U)
    BY <1>1, <1>3 DEF CallOK
  <2>2. CASE U.pc = "insert"
    <3>1. Arriving(U)
      BY <2>1, <2>2 DEF InsertOK
    <3>2. U.node \in Slots \cup {Nil} /\ U.next \in Slots \cup {Nil, Garbage} /\ U.any \in Slots \cup {Nil}
      BY <3>1 DEF Arriving, Versioned
    <3>3. Inner(U.next)
      BY <1>1, <1>3, <2>2 DEF KindsKnown
    <3> QED
      BY <1>1, <2>2, <3>2, <3>3 DEF Located
  <2>3. CASE U.pc # "insert"
    <3>1. Here(U) /\ Reading(U)
      BY <2>1, <2>3 DEF InsertOK, Arrived
    <3>2. U.node \in Slots
      BY <3>1 DEF Here, Versioned
    <3>3. U.next \in Slots \cup {Nil, Garbage}
      BY <3>1 DEF Reading, Fetched
    <3>4. U.any \in Slots \cup {Nil, Garbage}
      BY <3>1 DEF Reading, Fetched
    <3>5. Inner(U.node)
      BY <1>1, <1>3, <3>2, NoSlots DEF KindsKnown
    <3> QED
      BY <1>1, <2>3, <3>2, <3>3, <3>4, <3>5 DEF Located
  <2> QED
    BY <2>2, <2>3
<1> QED
  BY <1>1, <1>2, <1>3 DEF CallOK

(* The node an insert replaces is a slot it has locked.                      *)
LEMMA OldPlace ==
  ASSUME TInv, LInv, NEW u \in Threads, NEW U, U = loc[u], Calls(U), U.pc \in Preparing, U.pc # "putInsert"
  PROVE  Old(U) \in Slots /\ (Inner(Old(U)) => Owns(U, Old(U)))
<1>1. CallOK(U) /\ Located(U) /\ KindsKnown(U)
  BY LocatedNow DEF Knows
<1>2. U.op = "insert"
  BY <1>1 DEF CallOK, LookupOK, Looking, Preparing
<1>3. CASE U.pc \in {"growLink", "splitLink"}
  BY <1>1, <1>2, <1>3 DEF Located, Inner, Old, Owns, Copies, CopiesNode
<1>4. CASE U.pc \in {"leafObsolete", "leafMark", "leafLink"}
  <2>1. IsLeaf(U.next) /\ Old(U) = U.next
    BY <1>1, <1>2, <1>4 DEF KindsKnown, LeafSplitting, Old
  <2> QED
    BY <2>1, KindsOf DEF IsLeaf
<1> QED
  BY <1>3, <1>4 DEF Preparing

(* Its own lock, or the version it has seen, tells a call what is missing. *)
LEMMA ChildUnknown ==
  ASSUME NEW t \in Threads, NEW M, NEW N, Turns(t, M, N), NEW u \in Threads, u # t,
         NEW U, U = loc[u], Calls(U), U.op = "insert", ChildKnown(U)
  PROVE  ChildKnown(U)'
<1>1. TInv /\ LInv /\ Moving(t, M, N) /\ Writes(M, N)
  BY DEF Turns, Careful, Moving
<1>2. CallOK(U) /\ Located(U)
  BY <1>1, LocatedNow
<1>3. ASSUME U.pc # "insert" PROVE Versioned(U.node, U.v)
  BY <1>2, <1>3 DEF CallOK, InsertOK, LookupOK, Arrived, Here
<1>4. mem'[U.node].child = mem[U.node].child => NoChild(U)' = NoChild(U)
  BY DEF NoChild, ChildOf
<1>5. U.pc # "insert" /\ Word(U.node)' = U.v => Word(U.node) = U.v /\ mem'[U.node].child = mem[U.node].child
  BY <1>1, <1>3, Vouched
<1>6. U.pc \in Unsure /\ Word(U.node)' = U.v => NoChild(U)'
  BY <1>4, <1>5 DEF ChildKnown, Unsure
<1>7. U.pc = "childCheck" /\ U.next = Nil /\ Word(U.node)' = U.v => NoChild(U)'
  BY <1>4, <1>5 DEF ChildKnown
<1>8. U.pc \in {"put", "putInsert", "growBuild"} => NoChild(U)'
  <2> SUFFICES ASSUME U.pc \in {"put", "putInsert", "growBuild"} PROVE NoChild(U)'
    OBVIOUS
  <2>1. Keeps(U, U.node) /\ NoChild(U)
    BY DEF Keeps, KeepsNode, ChildKnown
  <2> QED
    BY <1>4, <2>1, Protected
<1> QED
  BY <1>6, <1>7, <1>8 DEF ChildKnown

(* A turn of thread t leaves what every other thread knows true, and its     *)
(* batch private.                                                            *)
LEMMA OthersCarried ==
  ASSUME NEW t \in Threads, NEW M, NEW N, Turns(t, M, N),
         NEW C, NEW P, Charted(C, P), NEW D, NEW Q, NEW X, Extends(C, D), Leading(C, D, X),
         X \in P \cup {Nil}, P \subseteq Q, Q \ P \subseteq Batch(M),
         NEW u \in Threads, u # t, NEW U, U = loc[u]
  PROVE  ThreadKnows(D, Q, U)' /\ Batch(U) \cap Q = {}
<1>1. TInv /\ LInv /\ Grows /\ Moving(t, M, N) /\ Writes(M, N) /\ M = loc[t]
  BY DEF Turns, Careful, Moving
<1>2. Placed(C)
  BY <1>1, PlacedNow
<1>3. U # Idle => U.key \in AllKeys
  BY DEF Charted, KeysOK
<1>4. Batch(U) \cap P = {} /\ Batch(M) \cap Batch(U) = {}
  <2>1. ~Calls(U) => Batch(U) = {}
    BY DEF Calls, Batch, Preparing
  <2>2. Calls(U) => CallKnows(C, P, U)
    BY DEF Charted, ThreadKnows
  <2>3. Calls(U) /\ U.op = "lookup" => Batch(U) = {}
    <3>1. Calls(U) => CallOK(U)
      BY <1>1, LocatedNow
    <3> QED
      BY <3>1 DEF CallOK, InsertOK, LookupOK, Looking, Batch, Preparing
  <2>4. U.pc \notin Preparing => Batch(U) = {}
    BY DEF Batch, Preparing
  <2>5. Calls(U) => U.op \in {"lookup", "insert"}
    <3>1. Calls(U) => CallOK(U)
      BY <1>1, LocatedNow
    <3> QED
      BY <3>1 DEF CallOK
  <2>6. Batch(U) \cap P = {}
    BY <2>1, <2>2, <2>3, <2>4, <2>5 DEF CallKnows, InsertKnows, Ready
  <2> QED
    BY <1>1, <2>6 DEF Charted
<1>5. Batch(U) \cap Q = {}
  BY <1>4
<1>6. Calls(U) => CallKnows(D, Q, U)'
  <2> SUFFICES ASSUME Calls(U) PROVE CallKnows(D, Q, U)'
    OBVIOUS
  <2>1. Located(U) /\ CallOK(U) /\ CallKnows(C, P, U) /\ U.key \in AllKeys
    <3>1. U # Idle
      BY DEF Calls, Idle
    <3> QED
      BY <1>1, <1>3, <3>1, LocatedNow DEF Charted, ThreadKnows
  <2>2. U.op = "insert" => ChildKnown(U)'
    BY <2>1, ChildUnknown DEF CallKnows, InsertKnows
  <2>3. \A s \in Slots : ~Keeps(M, s) => mem'[s].child = mem[s].child
    BY <1>1 DEF Writes
  <2>4. \A s : Keeps(M, s) => s \in P \cup {Nil}
    <3>1. Calls(M) => HeldBy(M) \subseteq P \cup {Nil}
      BY <1>1 DEF Charted, ThreadKnows, CallKnows
    <3>2. \A s : Keeps(M, s) => s \in HeldBy(M)
      BY DEF Keeps, HeldBy, KeepsNext
    <3> QED
      BY <3>1, <3>2, Idlers
  <2>5. \A y \in Batch(U) : mem'[y].child = mem[y].child
    <3>1. Batch(U) \subseteq Slots
      <4>1. U.pc \in Preparing => U.op = "insert"
        BY <2>1 DEF CallOK, LookupOK, Looking, Preparing
      <4>2. U.pc \notin Preparing => Batch(U) = {}
        BY DEF Batch, Preparing
      <4> QED
        BY <2>1, <4>1, <4>2 DEF CallKnows, InsertKnows, Ready
    <3> QED
      BY <1>4, <2>3, <2>4, <3>1, NoSlots
  <2>6. U.pc \in Preparing /\ U.pc # "putInsert" =>
           Old(U) \in Slots /\ (Inner(Old(U)) => mem'[Old(U)].child = mem[Old(U)].child)
    <3> SUFFICES ASSUME U.pc \in Preparing, U.pc # "putInsert"
                 PROVE  Old(U) \in Slots /\ (Inner(Old(U)) => mem'[Old(U)].child = mem[Old(U)].child)
      OBVIOUS
    <3>1. Old(U) \in Slots /\ (Inner(Old(U)) => Owns(U, Old(U)))
      BY <1>1, OldPlace
    <3>2. Inner(Old(U)) => ~Owns(M, Old(U))
      BY <1>1, <3>1, Unchanging
    <3> QED
      BY <2>3, <3>1, <3>2 DEF Owns
  <2> QED
    BY <1>1, <1>2, <1>5, <2>1, <2>2, <2>5, <2>6, CallCarried
<1>7. U.pc = "done" /\ U.op = "lookup" => Answered(D, U)'
  <2> SUFFICES ASSUME U.pc = "done", U.op = "lookup" PROVE Answered(D, U)'
    OBVIOUS
  <2>1. Answered(C, U) /\ U.key \in AllKeys
    BY <1>3 DEF Charted, ThreadKnows, Idle
  <2> QED
    BY <2>1 DEF Answered, Finds, Leading
<1> QED
  BY <1>5, <1>6, <1>7 DEF ThreadKnows

(* Every call in progress holds only slots.                                  *)
LEMMA LocatedAll ==
  TInv /\ LInv => \A u \in Threads : \A U : U = loc[u] /\ Calls(U) => Located(U)
BY LocatedNow

(* LocatedAll, of the state after the step.                                  *)
LEMMA LocatedNext ==
  (TInv /\ LInv => \A u \in Threads : \A U : U = loc[u] /\ Calls(U) => Located(U))'
BY LocatedAll, PTL

(* What a call has built is its own.                                       *)
LEMMA BatchPlace ==
  ASSUME TInv, LInv, NEW C, NEW P, Charted(C, P), NEW u \in Threads
  PROVE  Batch(loc[u]) \subseteq Slots \ P
<1> DEFINE U == loc[u]
<1> SUFFICES ASSUME U.pc \in Preparing PROVE Batch(U) \subseteq Slots \ P
  BY DEF Batch, Preparing
<1>1. Calls(U)
  BY DEF Calls, Preparing
<1>2. CallOK(U) /\ CallKnows(C, P, U)
  BY <1>1, LocatedNow DEF Charted, ThreadKnows
<1>3. U.op = "insert"
  BY <1>2 DEF CallOK, LookupOK, Looking, Preparing
<1> QED
  BY <1>2, <1>3 DEF CallKnows, InsertKnows, Ready

(* A step that leaves the pointers of every slot leaves the public tree.   *)
LEMMA PublicStays ==
  ASSUME NEW t \in Threads, NEW M, NEW N, Turns(t, M, N), NEW C, NEW P, Charted(C, P),
         NEW D, Extends(C, D), \A x \in Slots : mem'[x].child = mem[x].child
  PROVE  PublicOK(D, P)'
<1>1. TInv /\ LInv /\ Grows /\ Moving(t, M, N) /\ Writes(M, N) /\ Locks(M, N)
  BY DEF Turns, Careful, Moving
<1>2. Placed(C) /\ PublicOK(C, P)
  BY <1>1, PlacedNow DEF Charted
<1>3. \A s \in Slots :
        /\ s \in Slots' /\ (IsLeaf(s)' <=> IsLeaf(s)) /\ (Inner(s)' <=> Inner(s))
        /\ mem'[s].value = mem[s].value /\ \A k : Enters(D, s, k)' <=> Enters(C, s, k)
  BY <1>1, <1>2, SlotsLast
<1>4. Leading(C, D, Nil)
  BY <1>1, <1>2, WaysLast
<1>5. P \subseteq Slots' /\ Root \in P
  BY <1>2, <1>3 DEF PublicOK
<1>6. \A s \in P : \A b \in DOMAIN mem'[s].child : mem'[s].child[b] \in P \cup {Nil}
  BY <1>2 DEF PublicOK
<1>7. \A s \in P, k \in AllKeys : IsLeaf(s)' /\ mem'[s].value = k => Finds(D, Root, k)'
  <2>1. \A k \in AllKeys : Finds(C, Root, k) => Finds(D, Root, k)'
    BY <1>4 DEF Leading, Finds
  <2> QED
    BY <1>2, <1>3, <2>1 DEF PublicOK
<1>8. \A s \in P : Inner(s)' /\ Live(s)' =>
         \A k \in AllKeys : Enters(D, s, k)' => Leads(D, Root, k, {s})'
  <2> SUFFICES ASSUME NEW s \in P, Inner(s)', Live(s)', NEW k \in AllKeys, Enters(D, s, k)'
               PROVE  Leads(D, Root, k, {s})'
    OBVIOUS
  <2>1. s \in Slots /\ Inner(s) /\ Enters(C, s, k)
    BY <1>2, <1>3 DEF PublicOK
  <2>2. Live(s)
    BY <1>1, <2>1, NotRevived
  <2>3. Leads(C, Root, k, {s})
    BY <1>2, <2>1, <2>2 DEF PublicOK
  <2> QED
    BY <1>4, <2>1, <2>3, NoSlots DEF Leading
<1> QED
  BY <1>5, <1>6, <1>7, <1>8 DEF PublicOK

(* No key begins to come.                                                  *)
LEMMA ComingBefore ==
  ASSUME NEW t \in Threads, NEW M, NEW N, Turns(t, M, N), UNCHANGED <<todo, load>>,
         Landed(M) => Landed(N)
  PROVE  \A k : Coming(k)' => Coming(k)
<1>1. M = loc[t] /\ N = loc'[t] /\ \A u \in Threads : u # t => loc'[u] = loc[u]
  BY DEF Turns, Moving
<1>3. \A u \in Threads : Landed(loc[u]) => Landed(loc'[u])
  BY <1>1
<1>4. Loader \in Threads
  BY DEF Loader
<1>5. \A k : Coming(k)' => Coming(k)
  <2> TAKE k
  <2> SUFFICES ASSUME Coming(k)' PROVE Coming(k)
    OBVIOUS
  <2>1. \A i : Loads(i, k)' <=> Loads(i, k)
    BY DEF Loads
  <2>2. \A u, i : Inserts(u, i, k)' <=> Inserts(u, i, k)
    BY DEF Inserts
  <2>3. \/ \E i : Loads(i, k)' /\ (i = 1 => ~Landed(loc'[Loader]))
        \/ \E u \in Threads : \E i : Inserts(u, i, k)' /\ (i = 1 /\ load' = <<>> => ~Landed(loc'[u]))
    BY DEF Coming
  <2>4. CASE \E i : Loads(i, k)' /\ (i = 1 => ~Landed(loc'[Loader]))
    BY <1>3, <1>4, <2>1, <2>4 DEF Coming
  <2>5. CASE \E u \in Threads : \E i : Inserts(u, i, k)' /\ (i = 1 /\ load' = <<>> => ~Landed(loc'[u]))
    <3>1. PICK u \in Threads : \E i : Inserts(u, i, k)' /\ (i = 1 /\ load' = <<>> => ~Landed(loc'[u]))
      BY <2>5
    <3>2. PICK i : Inserts(u, i, k) /\ (i = 1 /\ load = <<>> => ~Landed(loc'[u]))
      BY <2>2, <3>1
    <3>3. i = 1 /\ load = <<>> => ~Landed(loc[u])
      BY <1>3, <3>2
    <3> QED
      BY <3>2, <3>3 DEF Coming
  <2> QED
    BY <2>3, <2>4, <2>5
<1> QED
  BY <1>5

(* Of the keys to come none is in a leaf, as no key comes twice.           *)
LEMMA KeysStay ==
  ASSUME NEW t \in Threads, NEW M, NEW N, Turns(t, M, N), UNCHANGED <<todo, load>>, Calls(M),
         NEW C, NEW P, Charted(C, P), NEW Q, P \subseteq Q,
         N # Idle, N.op = M.op, N.key = M.key, Landed(M) => Landed(N),
         \A s \in Q \ P, k \in AllKeys : IsLeaf(s)' /\ mem'[s].value = k => ~Coming(k)'
  PROVE  KeysOK(Q)'
<1>1. /\ TInv /\ LInv /\ Grows /\ M = loc[t] /\ N = loc'[t]
      /\ \A u \in Threads : u # t => loc'[u] = loc[u]
  BY DEF Turns, Moving
<1>2. KeysOK(P) /\ PublicOK(C, P)
  BY DEF Charted
<1>5. \A k : Coming(k)' => Coming(k)
  BY ComingBefore
<1>6. NoKeyTwice(load, todo)'
  BY <1>2 DEF KeysOK
<1>7. \A u \in Threads : \A U : U = loc'[u] /\ U # Idle => First(u, U)' /\ U.key \in AllKeys
  <2> SUFFICES ASSUME NEW u \in Threads, NEW U, U = loc'[u], U # Idle
               PROVE  First(u, U)' /\ U.key \in AllKeys
    OBVIOUS
  <2>1. PICK L : L = loc[u]
    OBVIOUS
  <2>2. L # Idle
    BY <1>1, <2>1 DEF Calls, Idle
  <2>3. First(u, L) /\ L.key \in AllKeys
    BY <1>2, <2>1, <2>2 DEF KeysOK
  <2>4. U.op = L.op /\ U.key = L.key
    BY <1>1, <2>1
  <2> QED
    BY <2>3, <2>4 DEF First, Loads
<1>8. \A k \in AllKeys : Coming(k)' => Absent(Q, k)'
  <2> SUFFICES ASSUME NEW k \in AllKeys, Coming(k)', NEW s \in Q, IsLeaf(s)' PROVE mem'[s].value # k
    BY DEF Absent
  <2>1. CASE s \in P
    <3>1. s \in Slots /\ mem'[s].value = mem[s].value /\ mem'[s].kind = mem[s].kind
      BY <1>1, <1>2, <2>1 DEF PublicOK, Grows, Lasting
    <3>2. IsLeaf(s)
      BY <3>1 DEF IsLeaf
    <3> QED
      BY <1>2, <1>5, <2>1, <3>1, <3>2 DEF KeysOK, Absent
  <2>2. CASE s \notin P
    BY <2>2
  <2> QED
    BY <2>1, <2>2
<1> QED
  BY <1>6, <1>7, <1>8 DEF KeysOK

(* The frame of every step: what is new fits the chart, what the stepping    *)
(* thread knows is true again, and the rest carries over.                    *)
LEMMA Advanced ==
  ASSUME NEW t \in Threads, NEW M, NEW N, Turns(t, M, N),
         NEW C, NEW P, Charted(C, P), NEW D, NEW Q, NEW X, Extends(C, D), Leading(C, D, X),
         X \in P \cup {Nil}, P \subseteq Q, Q \ P \subseteq Batch(M),
         \A s \in Slots' \ Slots : Fits(D, s)',
         PublicOK(D, Q)', KeysOK(Q)', ThreadKnows(D, Q, N)',
         Batch(N) \subseteq Batch(M) \cup (Slots' \ Slots)
  PROVE  Charted(D, Q)'
<1>1. /\ TInv /\ TInv' /\ LInv /\ Grows /\ M = loc[t] /\ N = loc'[t]
      /\ \A u \in Threads : u # t => loc'[u] = loc[u]
  BY DEF Turns, Moving
<1>2. Placed(C)
  BY <1>1, PlacedNow
<1>3. \A s \in Slots' : Fits(D, s)'
  BY <1>1, <1>2, FitsLast DEF TInv
<1>4. \A u \in Threads : \A U : U = loc'[u] => ThreadKnows(D, Q, U)'
  <2> SUFFICES ASSUME NEW u \in Threads, NEW U, U = loc'[u] PROVE ThreadKnows(D, Q, U)'
    OBVIOUS
  <2>1. CASE u = t
    BY <1>1, <2>1
  <2>2. CASE u # t
    <3>1. U = loc[u]
      BY <1>1, <2>2
    <3> QED
      BY <2>2, <3>1, OthersCarried
  <2> QED
    BY <2>1, <2>2
<1>5. \A u, w \in Threads : u # w => Batch(loc'[u]) \cap Batch(loc'[w]) = {}
  <2>1. \A u \in Threads : Batch(loc[u]) \subseteq Slots
    BY <1>1, BatchPlace
  <2>2. \A u, w \in Threads : u # w => Batch(loc[u]) \cap Batch(loc[w]) = {}
    BY DEF Charted
  <2>3. \A u \in Threads : u # t => Batch(loc[u]) \cap Batch(N) = {}
    BY <1>1, <2>1, <2>2
  <2> QED
    BY <1>1, <2>2, <2>3
<1> QED
  BY <1>3, <1>4, <1>5 DEF Charted, Extends
-----------------------------------------------------------------------------
(* Steps that leave all pointers where they are: the chart stays, and it is *)
(* enough that the call knew before the step what it has to know after it. *)
LEMMA Steadily ==
  ASSUME NEW t \in Threads, NEW M, NEW N, Turns(t, M, N), UNCHANGED <<todo, load>>, Calls(M),
         Slots' = Slots, \A x \in Slots : mem'[x].child = mem[x].child,
         NEW C, NEW P, Charted(C, P),
         N # Idle, N.op = M.op, N.key = M.key, Landed(M) => Landed(N),
         Batch(N) \subseteq Batch(M),
         N.pc \in Preparing => M.pc \in Preparing \ {"putInsert"} /\ Old(N) = Old(M),
         Calls(N) => CallKnows(C, P, N) /\ (N.op = "insert" => ChildKnown(N)'),
         N.pc = "done" /\ N.op = "lookup" => Answered(C, N)
  PROVE  Charted(C, P)'
<1>1. /\ TInv /\ TInv' /\ LInv /\ LInv' /\ Grows /\ M = loc[t] /\ N = loc'[t]
  BY Turned DEF Turns, Moving
<1>2. Placed(C) /\ C \in Charts /\ Extends(C, C)
  BY <1>1, PlacedNow DEF Charted, Extends
<1>3. Leading(C, C, Nil)
  BY <1>1, <1>2, WaysLast
<1>4. M # Idle /\ M.key \in AllKeys
  <2>1. M # Idle
    BY DEF Calls, Idle
  <2> QED
    BY <1>1, <2>1 DEF Charted, KeysOK
<1>5. Calls(N) => Located(N)
  <2> SUFFICES ASSUME Calls(N) PROVE Located(N)
    OBVIOUS
  <2>1. Located(N)'
    BY <1>1, LocatedNext
  <2>2. \A s : Inner(s)' <=> Inner(s)
    BY <1>1 DEF Inner, Grows, Lasting
  <2> QED
    BY <2>1, <2>2 DEF Located
<1>6. Calls(N) => CallKnows(C, P, N)'
  <2> SUFFICES ASSUME Calls(N) PROVE CallKnows(C, P, N)'
    OBVIOUS
  <2>1. Batch(M) \subseteq Slots \ P
    BY <1>1, BatchPlace
  <2>2. N.pc \in Preparing /\ N.pc # "putInsert" =>
           Old(N) \in Slots /\ (Inner(Old(N)) => mem'[Old(N)].child = mem[Old(N)].child)
    BY <1>1, OldPlace
  <2> QED
    BY <1>1, <1>2, <1>3, <1>4, <1>5, <2>1, <2>2, CallCarried
<1>7. N.pc = "done" /\ N.op = "lookup" => Answered(C, N)'
  BY <1>3, <1>4 DEF Answered, Finds, Leading
<1>8. PublicOK(C, P)'
  BY <1>2, PublicStays
<1>9. KeysOK(P)'
  BY <1>4, KeysStay
<1> QED
  BY <1>2, <1>3, <1>6, <1>7, <1>8, <1>9, Advanced DEF ThreadKnows

(* A call that (re)starts at the root knows all it has to.                   *)
LEMMA StartKnows ==
  ASSUME NEW C, NEW P, Charted(C, P), NEW M, M.op \in {"lookup", "insert"},
         M.op = "lookup" => Certain(C, M), NEW N, N = Start(M)
  PROVE  /\ CallKnows(C, P, N) /\ ChildKnown(N) /\ Batch(N) = {} /\ N.pc \notin Preparing
         /\ N.op = M.op /\ N.key = M.key /\ N # Idle /\ Calls(N)
<1>1. /\ N.pc = M.op /\ N.op = M.op /\ N.key = M.key /\ N.missing = M.missing /\ N.node = Nil
      /\ N.next = Root /\ N.parent = Nil /\ N.cursor = Nil /\ N.any = Nil /\ N.level = 0
  BY DEF Start
<1>2. HeldBy(N) \subseteq P \cup {Nil}
  BY <1>1 DEF HeldBy, Charted, PublicOK
<1>3. ChildKnown(N)
  BY <1>1 DEF ChildKnown, Unsure
<1>4. M.op = "lookup" => LookupKnows(C, N)
  BY <1>1 DEF LookupKnows, AtNode, AtNext
<1>5. M.op = "lookup" => Certain(C, N)
  BY <1>1, NoSlots DEF Certain, Nil, Root
<1>6. M.op = "insert" => WayKnown(C, N)
  BY <1>1 DEF WayKnown, Seeking, AtChild, Enters, LevelOf
<1>7. N.pc \notin Preparing /\ N.pc \notin Linked /\ Batch(N) = {}
  BY <1>1 DEF Preparing, Linked, Batch
<1>8. N # Idle /\ Calls(N)
  BY <1>1 DEF Idle, Calls
<1> QED
  BY <1>1, <1>2, <1>3, <1>4, <1>5, <1>6, <1>7, <1>8 DEF CallKnows, InsertKnows

(* Steps that only read.                                                   *)
LEMMA Walks ==
  ASSUME NEW t \in Threads, NEW M, NEW N, Turns(t, M, N), UNCHANGED <<todo, load, mem>>,
         Calls(M), M.pc \notin Linked, NEW C, NEW P, Charted(C, P),
         \/ N = Start(M)
         \/ /\ N # Idle /\ N.op = M.op /\ N.key = M.key /\ N.pc \notin Preparing
            /\ Calls(N) => CallKnows(C, P, N)
            /\ N.pc = "done" /\ N.op = "lookup" => Answered(C, N)
  PROVE  Charted(C, P)'
<1>1. TInv /\ LInv /\ M = loc[t]
  BY DEF Turns, Moving
<1>2. M.op \in {"lookup", "insert"} /\ CallKnows(C, P, M) /\ ~Landed(M)
  <2>1. CallOK(M)
    BY <1>1, LocatedNow
  <2>2. M.op \in {"lookup", "insert"}
    BY <2>1 DEF CallOK
  <2> QED
    BY <1>1, <2>2 DEF Charted, ThreadKnows, Calls, Landed
<1>3. /\ N # Idle /\ N.op = M.op /\ N.key = M.key /\ N.pc \notin Preparing
      /\ Calls(N) => CallKnows(C, P, N)
      /\ N.pc = "done" /\ N.op = "lookup" => Answered(C, N)
  <2>1. CASE N = Start(M)
    <3>1. M.op = "lookup" => Certain(C, M)
      BY <1>2 DEF CallKnows
    <3> QED
      BY <1>2, <2>1, <3>1, StartKnows DEF Calls
  <2> QED
    BY <2>1
<1>4. Batch(N) = {}
  BY <1>3 DEF Batch, Preparing
<1>5. Calls(N) /\ N.op = "insert" => ChildKnown(N)'
  <2>1. ChildKnown(N) <=> ChildKnown(N)'
    BY DEF ChildKnown, NoChild, Word
  <2> QED
    BY <1>3, <2>1 DEF CallKnows, InsertKnows
<1>6. Slots' = Slots /\ \A x \in Slots : mem'[x].child = mem[x].child
  BY DEF Slots
<1> QED
  BY <1>2, <1>3, <1>4, <1>5, <1>6, Steadily
-----------------------------------------------------------------------------
(* What a key has in common with the way to a node that it enters.         *)
LEMMA EntersWay ==
  ASSUME NEW C, Placed(C), NEW s \in Slots, Inner(s), NEW k \in AllKeys, Enters(C, s, k)
  PROVE  /\ LevelOf(C, s) <= Len(k)
         /\ \A j \in 1..LevelOf(C, s) : k[j] = C.way[Id(s)][j]
<1>1. LevelOf(C, s) \in Nat /\ Len(k) \in Nat
  BY SlotFacts, KeyFacts
<1>2. CASE s = Root
  BY <1>1, <1>2 DEF LevelOf
<1>3. CASE s # Root
  <2> DEFINE h == mem[s].hash[1]
             w == C.way[Id(s)]
             l == LevelOf(C, s)
  <2>1. h \in Nat /\ C.far[h] \in Nat /\ l = C.far[h] + 1
    BY <1>3, SlotFacts, ChartFacts DEF Placed, LevelOf
  <2>2. Enters(C, s, w)
    BY <1>3 DEF Placed, Fits, InnerFits
  <2>3. Passes(C, h, w) /\ w[l] = mem[s].hash[2] /\ Passes(C, h, k) /\ k[l] = mem[s].hash[2]
    BY <1>3, <2>2 DEF Enters
  <2>4. C.far[h] < Len(k) /\ \A j \in 1..C.far[h] : k[j] = w[j]
    BY <2>3 DEF Passes
  <2> HIDE DEF l, w
  <2>5. l <= Len(k) /\ \A j \in 1..l : k[j] = w[j]
    <3>1. \A j \in 1..l : j = l \/ j \in 1..C.far[h]
      BY <2>1
    <3>2. l <= Len(k)
      BY <1>1, <2>1, <2>4
    <3>3. k[l] = w[l]
      BY <2>3
    <3> QED
      BY <2>4, <3>1, <3>2, <3>3
  <2> QED
    BY <2>5 DEF l, w
<1> QED
  BY <1>2, <1>3

(* A key that matches a prefix all of which is stored passes the node.     *)
LEMMA MatchesPasses ==
  ASSUME NEW C, Placed(C), NEW s \in Slots, Inner(s), NEW k \in AllKeys, Enters(C, s, k),
         mem[s].plen <= MaxStored, checkPrefix(mem[s], k, LevelOf(C, s)).match,
         C.far[Id(s)] < Len(k)
  PROVE  Passes(C, Id(s), k)
<1> DEFINE n == mem[s]
           l == LevelOf(C, s)
           far == C.far[Id(s)]
           w == C.way[Id(s)]
<1>1. l \in Nat /\ n.plen \in Nat /\ far \in Nat /\ far = l + n.plen /\ Len(k) \in Nat
  BY SlotFacts, KeyFacts
<1>2. \A j \in 1..l : k[j] = w[j]
  BY EntersWay
<1>3. /\ IsSeq(n.prefix) /\ Len(n.prefix) = n.plen
      /\ \A j \in 1..n.plen : n.prefix[j] = w[l + j]
  <2>1. Stored(n) = n.plen
    BY <1>1, ArtAssumption DEF Stored
  <2> QED
    BY <2>1 DEF Placed, Fits, InnerFits
<1>4. ASSUME NEW j \in 1..n.plen PROVE k[l + j] = n.prefix[j]
  <2> DEFINE d == Drop(k, l)
             p == Prefix(d, Len(n.prefix))
  <2>1. p = n.prefix
    <3>1. n.plen > 0
      BY <1>1, <1>4
    <3>2. checkPrefix(n, k, l).match = (n.plen > 0 => Len(k) > l + n.plen /\ p = n.prefix)
      BY DEF checkPrefix
    <3> HIDE DEF p, n, l
    <3>3. checkPrefix(n, k, l).match
      BY DEF n, l
    <3> QED
      BY <3>1, <3>2, <3>3
  <2>2. IsSeq(d) /\ Len(d) = Len(k) - l /\ \A i \in 1..Len(k) - l : d[i] = k[l + i]
    <3>1. l <= Len(k)
      BY <1>1
    <3> HIDE DEF l
    <3> QED
      BY <1>1, <3>1, KeySeq, Dropped
  <2> HIDE DEF d, l
  <2>3. p[j] = d[j]
    <3>1. j <= Len(d) /\ Len(n.prefix) \in Nat /\ j \in 1..Len(n.prefix)
      BY <1>1, <1>3, <1>4, <2>2
    <3> QED
      BY <2>2, <3>1, Cropped
  <2>4. j \in 1..Len(k) - l
    BY <1>1, <1>4
  <2> QED
    BY <2>1, <2>2, <2>3, <2>4
<1> HIDE DEF l, far, w
<1>5. \A j \in 1..far : k[j] = w[j]
  <2> TAKE j \in 1..far
  <2>1. CASE j \in 1..l
    BY <1>2, <2>1
  <2>2. CASE j \notin 1..l
    <3>1. j - l \in 1..n.plen /\ l + (j - l) = j
      BY <1>1, <2>2
    <3> QED
      BY <1>3, <1>4, <3>1
  <2> QED
    BY <2>1, <2>2
<1> QED
  BY <1>5 DEF Passes, far, w

(* A child read without a lock.                                            *)
LEMMA PeekUnder ==
  ASSUME NEW C, Placed(C), NEW s \in Slots, NEW b, Peek(s, b) \in Slots
  PROVE  Under(Peek(s, b), s, b) /\ Peek(s, b) = ChildOf(mem[s], b)
<1>1. Peek(s, b) = ChildOf(mem[s], b)
  BY NoSlots DEF Peek
<1> QED
  BY <1>1, NoSlots, ChildUnder
-----------------------------------------------------------------------------
(* The steps of Tree::lookup.                                              *)
LEMMA ReturnsAs ==
  ASSUME NEW t \in Threads, NEW M, NEW N, Moving(t, M, N), NEW result, Return(t, result)
  PROVE  /\ N.pc = "done" /\ N.op = M.op /\ N.key = M.key /\ N.missing = M.missing
         /\ N.result = result /\ N # Idle /\ ~Calls(N)
<1>1. DOMAIN loc = Threads
  BY DEF Moving, TInv, QueueOK
<1>2. N = [pc |-> "done", op |-> M.op, key |-> M.key, missing |-> M.missing, result |-> result]
  BY <1>1 DEF Moving, Return
<1> QED
  BY <1>2 DEF Idle, Calls

(* A step of lookup keeps the chart when it restarts, moves to a public slot *)
(* it knows, or returns the right answer.                                    *)
LEMMA LookupWalks ==
  ASSUME NEW t \in Threads, NEW M, NEW N, Moving(t, M, N), lookup(t), UNCHANGED <<todo, load, mem>>,
         M.pc \in Looking, NEW C, NEW P, Charted(C, P),
         \/ N = Start(M)
         \/ /\ \E changes : Changed(N, M, changes) /\ DOMAIN changes \subseteq Fields \ {"op", "key"}
            /\ N.pc \in Looking /\ HeldBy(N) \subseteq P \cup {Nil}
            /\ LookupKnows(C, N) /\ Certain(C, N)
         \/ \E result : /\ Return(t, result)
                        /\ IF result = NoTid THEN M.missing
                           ELSE result = M.key /\ Finds(C, Root, M.key)
  PROVE  Charted(C, P)'
<1>1. Turns(t, M, N) /\ TInv /\ LInv /\ M = loc[t]
  BY LookupTurns DEF Turns, Moving
<1>2. Calls(M) /\ M.pc \notin Linked
  BY DEF Looking, Calls, Linked
<1>3. M.op = "lookup"
  BY <1>1, LookupNow
<1>4. CASE N = Start(M)
  BY <1>1, <1>2, <1>4, Walks
<1>5. CASE /\ \E changes : Changed(N, M, changes) /\ DOMAIN changes \subseteq Fields \ {"op", "key"}
           /\ N.pc \in Looking /\ HeldBy(N) \subseteq P \cup {Nil}
           /\ LookupKnows(C, N) /\ Certain(C, N)
  <2>1. N.op = "lookup" /\ N.key = M.key
    BY <1>3, <1>5 DEF Changed, Fields
  <2>2. N.pc \notin Preparing /\ N.pc # "done" /\ N # Idle
    BY <1>5 DEF Looking, Preparing, Idle
  <2>3. CallKnows(C, P, N)
    BY <1>5, <2>1 DEF CallKnows
  <2> QED
    BY <1>1, <1>2, <1>3, <2>1, <2>2, <2>3, Walks
<1>6. CASE \E result : /\ Return(t, result)
                       /\ IF result = NoTid THEN M.missing
                          ELSE result = M.key /\ Finds(C, Root, M.key)
  <2>1. PICK result : /\ Return(t, result)
                      /\ IF result = NoTid THEN M.missing
                         ELSE result = M.key /\ Finds(C, Root, M.key)
    BY <1>6
  <2>2. /\ N.pc = "done" /\ N.op = M.op /\ N.key = M.key /\ N.missing = M.missing
        /\ N.result = result /\ N # Idle /\ ~Calls(N)
    BY <2>1, ReturnsAs
  <2>3. Answered(C, N)
    BY <2>1, <2>2 DEF Answered
  <2>4. N.pc \notin Preparing
    BY <2>2 DEF Preparing
  <2> QED
    BY <1>1, <1>2, <2>2, <2>3, <2>4, Walks
<1> QED
  BY <1>4, <1>5, <1>6

(* What a lookup knows that is under way.                                  *)
LEMMA LookingCall ==
  ASSUME TInv, LInv, NEW t \in Threads, NEW M, M = loc[t], M.pc \in Looking, NEW C, NEW P, Charted(C, P)
  PROVE  /\ Placed(C) /\ PublicOK(C, P) /\ LookupOK(M) /\ LookupKnows(C, M) /\ Certain(C, M)
         /\ HeldBy(M) \subseteq P \cup {Nil} /\ M.key \in AllKeys /\ M.op = "lookup"
         /\ M.pc # "lookup" => Versioned(M.node, M.v) /\ M.node \in Slots
         /\ Knows(M) /\ Current(M) /\ P \subseteq Slots /\ Calls(M) /\ DOMAIN M = Fields
<1>1. Calls(M) /\ M # Idle
  BY DEF Looking, Calls, Idle
<1>2. M.op = "lookup" /\ LookupOK(M) /\ DOMAIN M = Fields
  BY LookupNow
<1>3. CallKnows(C, P, M) /\ M.key \in AllKeys
  BY <1>1 DEF Charted, ThreadKnows, KeysOK
<1>4. Knows(M)
  BY <1>1, LocatedNow
<1> QED
  BY <1>1, <1>2, <1>3, <1>4, PlacedNow DEF CallKnows, Charted, PublicOK, Knows, LookupOK, Versioned

(* lookup at the root keeps the chart.                                       *)
LEMMA LookupRootCharted ==
  ASSUME NEW t \in Threads, NEW M, NEW N, Moving(t, M, N), LookupRoot(t), UNCHANGED <<todo, load>>,
         NEW C, NEW P, Charted(C, P)
  PROVE  Charted(C, P)'
<1>1. TInv /\ LInv /\ M = loc[t] /\ M.pc = "lookup" /\ M.pc \in Looking /\ lookup(t) /\ UNCHANGED mem
  BY DEF Moving, LookupRoot, lookup, Looking
<1>2. /\ Placed(C) /\ PublicOK(C, P) /\ LookupOK(M) /\ LookupKnows(C, M) /\ Certain(C, M)
      /\ HeldBy(M) \subseteq P \cup {Nil} /\ Calls(M)
  BY <1>1, LookingCall
<1> DEFINE changes == [pc |-> "search", node |-> Root, v |-> Word(Root), optimistic |-> FALSE]
<1>3. Changed(N, M, changes) /\ DOMAIN changes \subseteq Fields \ {"op", "key"}
  <2>1. Go(t, changes) /\ DOMAIN changes \subseteq Fields
    BY <1>1 DEF LookupRoot, Fields
  <2> HIDE DEF changes
  <2>2. Changed(N, M, changes)
    BY <1>2, <2>1, Outcomes
  <2> USE DEF changes
  <2> QED
    BY <2>1, <2>2
<1>4. /\ N.pc = "search" /\ N.node = Root /\ N.level = M.level /\ N.key = M.key /\ N.missing = M.missing
      /\ N.next = M.next /\ N.parent = M.parent /\ N.cursor = M.cursor /\ N.any = M.any
  BY <1>3 DEF Changed, Fields
<1>5. Root \in P /\ Root \in Slots /\ Inner(Root)
  BY <1>2, ArtAssumption DEF PublicOK, Placed, MemOK, Inner, TopKind
<1>6. HeldBy(N) \subseteq P \cup {Nil}
  BY <1>1, <1>2, <1>4, <1>5 DEF HeldBy
<1>7. LookupKnows(C, N)
  BY <1>1, <1>2, <1>4, <1>5 DEF LookupKnows, AtNode, AtNext, LevelOf, Enters
<1>8. Certain(C, N)
  BY <1>2, <1>4 DEF Certain
<1>9. N.pc \in Looking
  BY <1>4 DEF Looking
<1> HIDE DEF changes
<1> QED
  BY <1>1, <1>3, <1>6, <1>7, <1>8, <1>9, LookupWalks

(* lookup comparing the prefix and asking a node for the child keeps the     *)
(* chart.                                                                    *)
LEMMA SearchCharted ==
  ASSUME NEW t \in Threads, NEW M, NEW N, Moving(t, M, N), Search(t), UNCHANGED <<todo, load>>,
         NEW C, NEW P, Charted(C, P)
  PROVE  Charted(C, P)'
<1>1. TInv /\ LInv /\ M = loc[t] /\ M.pc = "search" /\ M.pc \in Looking /\ lookup(t) /\ UNCHANGED mem
  BY DEF Moving, Search, lookup, Looking
<1>2. /\ Placed(C) /\ PublicOK(C, P) /\ LookupOK(M) /\ LookupKnows(C, M) /\ Certain(C, M)
      /\ HeldBy(M) \subseteq P \cup {Nil} /\ Calls(M) /\ M.key \in AllKeys /\ M.node \in Slots
  BY <1>1, LookingCall
<1> DEFINE n == mem[M.node]
           c == checkPrefix(n, M.key, M.level)
           level == M.level + n.plen
           far == C.far[Id(M.node)]
<1>3. /\ Inner(M.node) /\ M.level = LevelOf(C, M.node) /\ level = far /\ far \in Nat
      /\ M.optimistic \/ Enters(C, M.node, M.key)
  <2>1. Inner(M.node) /\ M.level = LevelOf(C, M.node) /\ (M.optimistic \/ Enters(C, M.node, M.key))
    BY <1>1, <1>2 DEF LookupKnows
  <2> QED
    BY <1>2, <2>1, SlotFacts
<1>4. ASSUME ~M.missing PROVE /\ Passes(C, Id(M.node), M.key) /\ c.match /\ far < Len(M.key)
                              /\ Finds(C, ToChild(C, M.node, M.key), M.key)
  <2>1. Finds(C, M.node, M.key)
    BY <1>2, <1>4 DEF Certain
  <2>2. Passes(C, Id(M.node), M.key) /\ Finds(C, ToChild(C, M.node, M.key), M.key)
    BY <1>3, <2>1, FindsOn
  <2>3. c.match
    BY <1>2, <1>3, <2>2, PassesMatches
  <2> QED
    BY <2>2, <2>3 DEF Passes
<1>5. CASE ~c.match
  <2> DEFINE changes == [pc |-> "miss"]
  <2>1. Go(t, changes) /\ DOMAIN changes \subseteq Fields /\ DOMAIN changes \subseteq Fields \ {"op", "key"}
    BY <1>1, <1>5 DEF Search, Fields
  <2> HIDE DEF changes
  <2>2. Changed(N, M, changes)
    BY <1>2, <2>1, Outcomes
  <2>3. /\ N.pc = "miss" /\ N.node = M.node /\ N.key = M.key /\ N.missing = M.missing
        /\ N.next = M.next /\ N.parent = M.parent /\ N.cursor = M.cursor /\ N.any = M.any
    BY <2>2 DEF Changed, Fields, changes
  <2>4. HeldBy(N) \subseteq P \cup {Nil}
    BY <1>1, <1>2, <2>3 DEF HeldBy
  <2>5. LookupKnows(C, N)
    BY <1>3, <2>3 DEF LookupKnows, AtNode, AtNext
  <2>6. Certain(C, N)
    BY <1>4, <1>5, <2>3 DEF Certain
  <2>7. N.pc \in Looking
    BY <2>3 DEF Looking
  <2> QED
    BY <1>1, <2>1, <2>2, <2>4, <2>5, <2>6, <2>7, LookupWalks
<1>6. CASE c.match /\ Len(M.key) <= level
  <2>1. Return(t, NoTid)
    BY <1>1, <1>6 DEF Search
  <2>2. M.missing
    <3>1. Len(M.key) \in Nat
      BY <1>2, KeyFacts
    <3> QED
      BY <1>3, <1>4, <1>6, <3>1
  <2> QED
    BY <1>1, <2>1, <2>2, LookupWalks
<1>7. CASE c.match /\ ~(Len(M.key) <= level)
  <2> DEFINE changes == [pc |-> "hit", level |-> level, optimistic |-> M.optimistic \/ c.optimistic,
                         next |-> Peek(M.node, M.key[level + 1])]
  <2>1. Go(t, changes) /\ DOMAIN changes \subseteq Fields /\ DOMAIN changes \subseteq Fields \ {"op", "key"}
    BY <1>1, <1>7 DEF Search, Fields
  <2> HIDE DEF changes
  <2>2. Changed(N, M, changes)
    BY <1>2, <2>1, Outcomes
  <2> HIDE DEF level, c, far
  <2>3. /\ N.pc = "hit" /\ N.node = M.node /\ N.key = M.key /\ N.missing = M.missing
        /\ N.next = Peek(M.node, M.key[level + 1]) /\ N.parent = M.parent /\ N.cursor = M.cursor
        /\ N.any = M.any /\ N.level = level /\ (N.optimistic <=> M.optimistic \/ c.optimistic)
    BY <2>2 DEF Changed, Fields, changes
  <2>4. HeldBy(N) \subseteq P \cup {Nil}
    BY <1>1, <1>2, <2>3 DEF HeldBy
  <2>5. Len(M.key) \in Nat /\ far < Len(M.key)
    BY <1>2, <1>3, <1>7, KeyFacts
  <2>6. N.optimistic \/ Passes(C, Id(M.node), M.key)
    <3> SUFFICES ASSUME ~N.optimistic PROVE Passes(C, Id(M.node), M.key)
      OBVIOUS
    <3>1. ~c.optimistic /\ Enters(C, M.node, M.key)
      BY <1>3, <2>3
    <3>2. ~(mem[M.node].plen > MaxStored) /\ mem[M.node].plen \in Nat
      BY <1>2, <1>3, <3>1, SlotFacts DEF c, checkPrefix
    <3>3. mem[M.node].plen <= MaxStored
      BY <3>2, ArtAssumption
    <3> QED
      BY <1>2, <1>3, <1>7, <2>5, <3>1, <3>3, MatchesPasses DEF far, c
  <2>7. N.next \in Slots => Under(N.next, N.node, N.key[N.level + 1])
    BY <1>2, <2>3, PeekUnder
  <2>8. LookupKnows(C, N)
    BY <1>3, <2>3, <2>5, <2>6, <2>7 DEF LookupKnows, AtNode, AtNext, far
  <2>9. Certain(C, N)
    <3> SUFFICES ASSUME ~M.missing
                 PROVE  /\ Finds(C, Root, M.key) /\ Finds(C, M.node, M.key)
                        /\ N.next # Nil /\ (N.next \in Slots => Finds(C, N.next, M.key))
      BY <2>3 DEF Certain
    <3>1. Finds(C, Root, M.key) /\ Finds(C, M.node, M.key)
      BY <1>2 DEF Certain
    <3>2. Finds(C, ToChild(C, M.node, M.key), M.key)
      BY <1>4
    <3>3. ToChild(C, M.node, M.key) = ChildOf(mem[M.node], M.key[level + 1])
      BY <1>3 DEF ToChild, far
    <3>4. N.next = Garbage \/ N.next = ToChild(C, M.node, M.key)
      BY <2>3, <3>3 DEF Peek
    <3>5. ToChild(C, M.node, M.key) \in Slots
      BY <3>2, FindsOn
    <3> QED
      BY <3>1, <3>2, <3>4, <3>5, NoSlots DEF Garbage, Nil
  <2>10. N.pc \in Looking
    BY <2>3 DEF Looking
  <2> QED
    BY <1>1, <2>1, <2>2, <2>4, <2>8, <2>9, <2>10, LookupWalks
<1> QED
  BY <1>5, <1>6, <1>7

(* lookup on its way to the answer "absent" keeps the chart, and the answer  *)
(* is right.                                                                 *)
LEMMA LookupMissCharted ==
  ASSUME NEW t \in Threads, NEW M, NEW N, Moving(t, M, N), LookupMiss(t), UNCHANGED <<todo, load>>,
         NEW C, NEW P, Charted(C, P)
  PROVE  Charted(C, P)'
<1>1. TInv /\ LInv /\ M = loc[t] /\ M.pc = "miss" /\ M.pc \in Looking /\ lookup(t) /\ UNCHANGED mem
  BY DEF Moving, LookupMiss, lookup, Looking
<1>2. Certain(C, M) /\ Calls(M)
  BY <1>1, LookingCall
<1>3. M.missing
  BY <1>1, <1>2 DEF Certain
<1>4. Return(t, NoTid) \/ Restart(t)
  BY DEF LookupMiss
<1>5. Restart(t) => N = Start(M)
  BY <1>2, Outcomes
<1> QED
  BY <1>1, <1>3, <1>4, <1>5, LookupWalks

(* A pointer that was read leads to a public slot if its node has not      *)
(* changed since.                                                          *)
LEMMA PublicChild ==
  ASSUME NEW C, NEW P, PublicOK(C, P), NEW s \in P, NEW c, Links(s, c)
  PROVE  c \in P \cup {Nil}
BY DEF PublicOK, Links

(* lookup checking the version once it has read the child keeps the chart.   *)
LEMMA LookupHitCharted ==
  ASSUME NEW t \in Threads, NEW M, NEW N, Moving(t, M, N), LookupHit(t), UNCHANGED <<todo, load>>,
         NEW C, NEW P, Charted(C, P)
  PROVE  Charted(C, P)'
<1>1. TInv /\ LInv /\ M = loc[t] /\ M.pc = "hit" /\ M.pc \in Looking /\ lookup(t) /\ UNCHANGED mem
  BY DEF Moving, LookupHit, lookup, Looking
<1>2. /\ Placed(C) /\ PublicOK(C, P) /\ LookupOK(M) /\ LookupKnows(C, M) /\ Certain(C, M)
      /\ HeldBy(M) \subseteq P \cup {Nil} /\ Calls(M) /\ M.key \in AllKeys /\ M.node \in Slots
      /\ Current(M) /\ P \subseteq Slots
  BY <1>1, LookingCall
<1>3. CASE Word(M.node) # M.v
  <2>1. Restart(t)
    BY <1>1, <1>3 DEF LookupHit
  <2>2. N = Start(M)
    BY <1>2, <2>1, Outcomes
  <2> QED
    BY <1>1, <2>2, LookupWalks
<1>4. CASE Word(M.node) = M.v /\ M.next = Nil
  <2>1. Return(t, NoTid)
    BY <1>1, <1>4 DEF LookupHit
  <2>2. M.missing
    BY <1>2, <1>4 DEF Certain
  <2> QED
    BY <1>1, <2>1, <2>2, LookupWalks
<1>5. CASE Word(M.node) = M.v /\ M.next # Nil
  <2>1. M.node \in P /\ Links(M.node, M.next)
    BY <1>1, <1>2, <1>5, NoSlots DEF HeldBy, Current
  <2>2. M.next \in P /\ M.next \in Slots
    BY <1>2, <1>5, <2>1, PublicChild
  <2> DEFINE changes == IF IsLeaf(M.next) THEN [pc |-> "leaf"]
                                          ELSE [pc |-> "descend", level |-> M.level + 1]
  <2>3. Go(t, changes) /\ DOMAIN changes \subseteq Fields /\ DOMAIN changes \subseteq Fields \ {"op", "key"}
    BY <1>1, <1>5 DEF LookupHit, Fields
  <2>4. Changed(N, M, changes)
    <3> HIDE DEF changes
    <3> QED
      BY <1>2, <2>3, Outcomes
  <2>5. /\ N.node = M.node /\ N.key = M.key /\ N.missing = M.missing /\ N.next = M.next
        /\ N.parent = M.parent /\ N.cursor = M.cursor /\ N.any = M.any /\ N.optimistic = M.optimistic
        /\ N.pc = IF IsLeaf(M.next) THEN "leaf" ELSE "descend"
        /\ N.level = IF IsLeaf(M.next) THEN M.level ELSE M.level + 1
    BY <2>4 DEF Changed, Fields
  <2>6. HeldBy(N) \subseteq P \cup {Nil}
    BY <1>1, <1>2, <2>2, <2>5 DEF HeldBy
  <2>7. /\ M.level = C.far[Id(M.node)] /\ M.level < Len(M.key)
        /\ M.optimistic \/ Passes(C, Id(M.node), M.key)
        /\ Under(M.next, M.node, M.key[M.level + 1]) /\ Inner(M.node)
    BY <1>1, <1>2, <2>2 DEF LookupKnows, AtNode
  <2>8. LookupKnows(C, N)
    <3>1. CASE IsLeaf(M.next)
      BY <2>2, <2>5, <2>7, <3>1 DEF LookupKnows, AtNode, AtNext
    <3>2. CASE ~IsLeaf(M.next)
      <4>1. Inner(M.next)
        BY <2>2, <3>2, KindsOf
      <4>2. /\ LevelOf(C, M.next) = M.level + 1
            /\ M.optimistic \/ Enters(C, M.next, M.key)
        BY <1>2, <2>7, ChildEnters
      <4> QED
        BY <2>5, <3>2, <4>1, <4>2 DEF LookupKnows, AtNode, AtNext
    <3> QED
      BY <3>1, <3>2
  <2>9. Certain(C, N)
    BY <1>1, <1>2, <2>5 DEF Certain
  <2>10. N.pc \in Looking
    BY <2>5 DEF Looking
  <2> HIDE DEF changes
  <2> QED
    BY <1>1, <2>3, <2>4, <2>6, <2>8, <2>9, <2>10, LookupWalks
<1> QED
  BY <1>3, <1>4, <1>5

(* Steps that only check or read a version.                                *)
LEMMA LookupChecks ==
  ASSUME NEW t \in Threads, NEW M, NEW N, Moving(t, M, N), lookup(t), UNCHANGED <<todo, load, mem>>,
         NEW C, NEW P, Charted(C, P), M.pc \in {"leaf", "leafLock", "descend", "couple"},
         NEW changes, DOMAIN changes \subseteq Fields, Restart(t) \/ Go(t, changes),
         "pc" \in DOMAIN changes,
         \/ M.pc = "leaf" /\ DOMAIN changes = {"pc"} /\ changes.pc = "leafLock"
         \/ M.pc = "leafLock" /\ DOMAIN changes = {"pc", "lv"} /\ changes.pc = "leafRead"
         \/ M.pc = "descend" /\ DOMAIN changes = {"pc", "lv"} /\ changes.pc = "couple"
         \/ /\ M.pc = "couple" /\ DOMAIN changes = {"pc", "node", "v"} /\ changes.pc = "search"
            /\ changes.node = M.next
  PROVE  Charted(C, P)'
<1>1. TInv /\ LInv /\ M = loc[t] /\ M.pc \in Looking
  BY DEF Moving, Looking
<1>2. /\ Placed(C) /\ PublicOK(C, P) /\ LookupOK(M) /\ LookupKnows(C, M) /\ Certain(C, M)
      /\ HeldBy(M) \subseteq P \cup {Nil} /\ Calls(M) /\ M.key \in AllKeys /\ M.node \in Slots
  BY <1>1, LookingCall
<1>3. CASE Restart(t)
  <2>1. N = Start(M)
    BY <1>2, <1>3, Outcomes
  <2> QED
    BY <1>1, <2>1, LookupWalks
<1>4. CASE Go(t, changes)
  <2>1. Changed(N, M, changes) /\ DOMAIN changes \subseteq Fields \ {"op", "key"}
    <3>1. Changed(N, M, changes)
      BY <1>2, <1>4, Outcomes
    <3> QED
      BY <3>1
  <2>2. /\ N.key = M.key /\ N.missing = M.missing /\ N.next = M.next /\ N.level = M.level
        /\ N.parent = M.parent /\ N.cursor = M.cursor /\ N.any = M.any /\ N.optimistic = M.optimistic
        /\ N.pc = changes.pc /\ N.node = IF M.pc = "couple" THEN M.next ELSE M.node
    BY <2>1 DEF Changed, Fields
  <2>3. HeldBy(N) \subseteq P \cup {Nil}
    BY <1>2, <2>2 DEF HeldBy
  <2>4. LookupKnows(C, N)
    BY <1>2, <2>2 DEF LookupKnows, AtNode, AtNext
  <2>5. Certain(C, N)
    BY <1>2, <2>2 DEF Certain
  <2>6. N.pc \in Looking
    BY <2>2 DEF Looking
  <2> QED
    BY <1>1, <2>1, <2>3, <2>4, <2>5, <2>6, LookupWalks
<1> QED
  BY <1>3, <1>4

(* Two keys that share a way up to the last byte of one are the same.      *)
LEMMA WholeKey ==
  ASSUME NEW C, Placed(C), NEW s \in Slots, Inner(s), NEW c, NEW k \in AllKeys,
         Passes(C, Id(s), k), Len(k) = C.far[Id(s)] + 1,
         Under(c, s, k[C.far[Id(s)] + 1]), IsLeaf(c)
  PROVE  mem[c].value = k
<1> DEFINE l == mem[c].value
           far == C.far[Id(s)]
<1>1. far \in Nat /\ c \in Slots /\ \A x : Enters(C, c, x) <=> Passes(C, Id(s), x) /\ x[far + 1] = k[far + 1]
  BY SlotFacts, ChildEnters
<1>2. l \in AllKeys /\ Enters(C, c, l)
  BY <1>1 DEF Placed, Fits, LeafFits
<1>3. Passes(C, Id(s), l) /\ l[far + 1] = k[far + 1]
  BY <1>1, <1>2
<1>4. \A j \in 1..far : l[j] = k[j]
  BY <1>3 DEF Passes
<1>5. \A j \in 1..Len(k) : l[j] = k[j]
  <2>1. \A j \in 1..Len(k) : j \in 1..far \/ j = far + 1
    BY <1>1
  <2> HIDE DEF l
  <2> QED
    BY <1>3, <1>4, <2>1
<1> HIDE DEF l
<1>6. l = k
  BY <1>2, <1>5, KeysDiffer
<1> QED
  BY <1>6 DEF l

(* The read of a leaf keeps the chart, and its answer is right.              *)
LEMMA LeafReadCharted ==
  ASSUME NEW t \in Threads, NEW M, NEW N, Moving(t, M, N), LeafRead(t), UNCHANGED <<todo, load>>,
         NEW C, NEW P, Charted(C, P)
  PROVE  Charted(C, P)'
<1>1. TInv /\ LInv /\ M = loc[t] /\ M.pc = "leafRead" /\ M.pc \in Looking /\ lookup(t) /\ UNCHANGED mem
  BY DEF Moving, LeafRead, lookup, Looking
<1>2. /\ Placed(C) /\ PublicOK(C, P) /\ LookupOK(M) /\ LookupKnows(C, M) /\ Certain(C, M)
      /\ HeldBy(M) \subseteq P \cup {Nil} /\ Calls(M) /\ M.key \in AllKeys /\ M.node \in Slots
      /\ P \subseteq Slots
  BY <1>1, LookingCall
<1>3. CASE Word(M.next) # M.lv
  <2>1. Restart(t)
    BY <1>1, <1>3 DEF LeafRead
  <2>2. N = Start(M)
    BY <1>2, <2>1, Outcomes
  <2> QED
    BY <1>1, <2>2, LookupWalks
<1>4. CASE Word(M.next) = M.lv
  <2> DEFINE tid == mem[M.next].value
             unsure == M.level < Len(M.key) - 1 \/ M.optimistic
             result == IF unsure THEN checkKey(tid, M.key) ELSE tid
  <2>1. Return(t, result)
    BY <1>1, <1>4 DEF LeafRead
  <2>2. /\ M.level = C.far[Id(M.node)] /\ M.level < Len(M.key) /\ IsLeaf(M.next) /\ Inner(M.node)
        /\ M.optimistic \/ Passes(C, Id(M.node), M.key)
        /\ Under(M.next, M.node, M.key[M.level + 1])
    BY <1>1, <1>2 DEF LookupKnows, AtNode, IsLeaf
  <2>3. M.next \in P
    BY <1>1, <1>2, <2>2, NoSlots DEF HeldBy, IsLeaf
  <2>4. ~unsure => tid = M.key
    <3> SUFFICES ASSUME ~unsure PROVE tid = M.key
      OBVIOUS
    <3>1. Len(M.key) \in Nat /\ C.far[Id(M.node)] \in Nat
      BY <1>2, <2>2, KeyFacts, SlotFacts
    <3>2. Len(M.key) = C.far[Id(M.node)] + 1 /\ Passes(C, Id(M.node), M.key)
      BY <2>2, <3>1
    <3> QED
      BY <1>2, <2>2, <3>2, WholeKey
  <2>5. result = M.key \/ result = NoTid
    BY <2>4 DEF checkKey
  <2>6. M.key # NoTid
    BY <1>2, KeysAssumption DEF NoTid
  <2>7. result = M.key => tid = M.key
    BY <2>6 DEF checkKey
  <2>8. tid = M.key => Finds(C, Root, M.key)
    BY <1>2, <2>2, <2>3 DEF PublicOK
  <2>9. ~M.missing => tid = M.key
    <3> SUFFICES ASSUME ~M.missing PROVE tid = M.key
      OBVIOUS
    <3>1. Finds(C, M.next, M.key)
      BY <1>2, <2>2 DEF Certain, IsLeaf
    <3> QED
      BY <2>2, <3>1, FindsOn
  <2>10. tid = M.key => result = M.key
    BY DEF checkKey
  <2> HIDE DEF result, tid
  <2>11. IF result = NoTid THEN M.missing ELSE result = M.key /\ Finds(C, Root, M.key)
    BY <2>5, <2>6, <2>7, <2>8, <2>9, <2>10
  <2> QED
    BY <1>1, <2>1, <2>11, LookupWalks
<1> QED
  BY <1>3, <1>4

(* Every step of lookup keeps the chart.                                     *)
LEMMA LookupCharted ==
  ASSUME NEW t \in Threads, NEW M, NEW N, Moving(t, M, N), lookup(t), UNCHANGED <<todo, load>>,
         NEW C, NEW P, Charted(C, P)
  PROVE  Charted(C, P)'
<1>0. M = loc[t]
  BY DEF Moving
<1>1. CASE LookupLeaf(t)
  <2> DEFINE changes == [pc |-> "leafLock"]
  <2>1. /\ DOMAIN changes \subseteq Fields /\ (Restart(t) \/ Go(t, changes))
        /\ DOMAIN changes = {"pc"} /\ changes.pc = "leafLock" /\ M.pc = "leaf" /\ UNCHANGED mem
    BY <1>0, <1>1 DEF LookupLeaf, Check, Fields
  <2> HIDE DEF changes
  <2> QED
    BY <2>1, LookupChecks
<1>2. CASE LeafReadLock(t)
  <2> DEFINE changes == [pc |-> "leafRead", lv |-> Word(M.next)]
  <2>1. /\ DOMAIN changes \subseteq Fields /\ (Restart(t) \/ Go(t, changes))
        /\ DOMAIN changes = {"pc", "lv"} /\ changes.pc = "leafRead" /\ M.pc = "leafLock" /\ UNCHANGED mem
    BY <1>0, <1>2 DEF LeafReadLock, Fields
  <2> HIDE DEF changes
  <2> QED
    BY <2>1, LookupChecks
<1>3. CASE Descend(t)
  <2> DEFINE changes == [pc |-> "couple", lv |-> Word(M.next)]
  <2>1. /\ DOMAIN changes \subseteq Fields /\ (Restart(t) \/ Go(t, changes))
        /\ DOMAIN changes = {"pc", "lv"} /\ changes.pc = "couple" /\ M.pc = "descend" /\ UNCHANGED mem
    BY <1>0, <1>3 DEF Descend, Fields
  <2> HIDE DEF changes
  <2> QED
    BY <2>1, LookupChecks
<1>4. CASE Couple(t)
  <2> DEFINE changes == [pc |-> "search", node |-> M.next, v |-> M.lv]
  <2>1. /\ DOMAIN changes \subseteq Fields /\ (Restart(t) \/ Go(t, changes))
        /\ DOMAIN changes = {"pc", "node", "v"} /\ changes.pc = "search" /\ M.pc = "couple"
        /\ changes.node = M.next /\ UNCHANGED mem
    BY <1>0, <1>4 DEF Couple, Check, Fields
  <2> HIDE DEF changes
  <2> QED
    BY <2>1, LookupChecks
<1> QED
  BY <1>1, <1>2, <1>3, <1>4, LookupRootCharted, SearchCharted, LookupMissCharted, LookupHitCharted,
     LeafReadCharted DEF lookup
-----------------------------------------------------------------------------
(* How far a key agrees with a prefix.                                     *)
LEMMA AgreementExists ==
  ASSUME NEW p, IsSeq(p), NEW q, IsSeq(q)
  PROVE  \E i \in 0..Len(p) : /\ Prefix(p, i) = Prefix(q, i)
                              /\ i < Len(p) => i >= Len(q) \/ p[i + 1] # q[i + 1]
<1>1. Len(p) \in Nat /\ Len(q) \in Nat
  BY Sequence
<1> DEFINE S == {i \in 0..Len(p) : i < Len(p) => i >= Len(q) \/ p[i + 1] # q[i + 1]}
<1>2. S \in SUBSET Nat /\ Len(p) \in S
  BY <1>1
<1>3. PICK n \in S : \A i \in S : n <= i
  <2> HIDE DEF S
  <2> QED
    BY <1>2, LeastNumber
<1>4. n \in Nat /\ n <= Len(p)
  BY <1>1
<1>5. ASSUME NEW j \in 1..n PROVE p[j] = q[j] /\ j <= Len(q)
  <2>1. j - 1 \in 0..Len(p) /\ j - 1 < n
    BY <1>1, <1>4
  <2>2. j - 1 \notin S
    <3>1. n \in Nat /\ \A i \in S : n <= i
      BY <1>3, <1>4
    <3>2. \A i : i = j - 1 => ~(n <= i)
      BY <1>4, <2>1
    <3> HIDE DEF S
    <3> QED
      BY <3>1, <3>2
  <2>3. ~(j - 1 >= Len(q)) /\ p[(j - 1) + 1] = q[(j - 1) + 1]
    BY <2>1, <2>2
  <2> QED
    BY <1>1, <2>1, <2>3
<1>6. n <= Len(q)
  BY <1>1, <1>4, <1>5
<1>7. Prefix(p, n) = Prefix(q, n)
  <2>1. /\ IsSeq(Prefix(p, n)) /\ Len(Prefix(p, n)) = n
        /\ \A j \in 1..n : Prefix(p, n)[j] = p[j]
    BY <1>1, <1>4, Cropped
  <2>2. /\ IsSeq(Prefix(q, n)) /\ Len(Prefix(q, n)) = n
        /\ \A j \in 1..n : Prefix(q, n)[j] = q[j]
    BY <1>1, <1>4, <1>6, Cropped
  <2> QED
    BY <1>5, <2>1, <2>2, SameSeq
<1> QED
  BY <1>3, <1>7

(* What Agreement computes: the length of the longest common prefix.         *)
LEMMA Agrees ==
  ASSUME NEW p, IsSeq(p), NEW q, IsSeq(q), NEW m, m = Agreement(p, q)
  PROVE  /\ m \in Nat /\ m <= Len(p) /\ m <= Len(q)
         /\ \A j \in 1..m : p[j] = q[j]
         /\ m < Len(p) => m = Len(q) \/ p[m + 1] # q[m + 1]
<1>1. /\ m \in 0..Len(p) /\ Prefix(p, m) = Prefix(q, m)
      /\ m < Len(p) => m >= Len(q) \/ p[m + 1] # q[m + 1]
  BY AgreementExists DEF Agreement
<1>2. Len(p) \in Nat /\ Len(q) \in Nat /\ m \in Nat /\ m <= Len(p)
  BY <1>1, Sequence
<1>3. /\ Len(Prefix(p, m)) = m /\ \A j \in 1..m : Prefix(p, m)[j] = p[j]
  BY <1>2, Cropped
<1>4. /\ Len(Prefix(q, m)) = (IF m < Len(q) THEN m ELSE Len(q))
      /\ \A j \in 1..m : j <= Len(q) => Prefix(q, m)[j] = q[j]
  BY <1>2, Cropped
<1>5. m <= Len(q)
  BY <1>1, <1>2, <1>3, <1>4
<1>6. \A j \in 1..m : p[j] = q[j]
  BY <1>1, <1>2, <1>3, <1>4, <1>5
<1> QED
  BY <1>1, <1>2, <1>5, <1>6

(* What the elements a + 1 .. b of a sequence are.                           *)
LEMMA Sliced ==
  ASSUME NEW s, IsSeq(s), NEW a \in Nat, NEW b \in Nat, a <= b, a < b => b <= Len(s)
  PROVE  /\ IsSeq(SubSeq(s, a + 1, b)) /\ Len(SubSeq(s, a + 1, b)) = b - a
         /\ \A j \in 1..b - a : SubSeq(s, a + 1, b)[j] = s[a + j]
<1>1. PICK S : s \in Seq(S)
  BY DEF IsSeq
<1>2. SubSeq(s, a + 1, b) = [i \in 1..b - a |-> s[a + i]]
  BY <1>1
<1>3. b - a \in Nat
  OBVIOUS
<1> QED
  BY <1>2, <1>3, Listed

(* checkPrefixPessimistic sees the whole prefix: what is not stored of it   *)
(* is taken from a key that passes the node.                               *)
LEMMA WholePrefix ==
  ASSUME NEW C, Placed(C), NEW s \in Slots, Inner(s), NEW kt, IsSeq(kt),
         mem[s].plen > MaxStored => kt \in AllKeys /\ Passes(C, Id(s), kt),
         NEW p, p = Joined(mem[s].prefix, SubSeq(kt, LevelOf(C, s) + Len(mem[s].prefix) + 1,
                                                     LevelOf(C, s) + mem[s].plen))
  PROVE  /\ IsSeq(p) /\ Len(p) = mem[s].plen
         /\ \A j \in 1..mem[s].plen : p[j] = C.way[Id(s)][LevelOf(C, s) + j]
<1> DEFINE n == mem[s]
           l == LevelOf(C, s)
           far == C.far[Id(s)]
           w == C.way[Id(s)]
           a == Len(n.prefix)
           u == SubSeq(kt, l + a + 1, l + n.plen)
<1>1. l \in Nat /\ n.plen \in Nat /\ far \in Nat /\ far = l + n.plen
  BY SlotFacts
<1>2. /\ IsSeq(n.prefix) /\ a \in Nat /\ a = Stored(n)
      /\ \A j \in 1..a : n.prefix[j] = w[l + j]
  BY Sequence DEF Placed, Fits, InnerFits
<1>3. MaxStored \in Nat /\ a <= n.plen /\ (a < n.plen => n.plen > MaxStored)
  BY <1>1, <1>2, ArtAssumption DEF Stored
<1>4. a < n.plen => /\ Len(kt) \in Nat /\ far < Len(kt) /\ \A j \in 1..far : kt[j] = w[j]
  BY <1>3, KeyFacts DEF Passes
<1>5. /\ IsSeq(u) /\ Len(u) = n.plen - a
      /\ \A j \in 1..n.plen - a : u[j] = kt[l + a + j]
  <2>1. /\ l + a \in Nat /\ l + n.plen \in Nat /\ l + a <= l + n.plen
        /\ (l + n.plen) - (l + a) = n.plen - a
    <3>1. \A i, j, r \in Nat : i <= j => /\ r + i \in Nat /\ r + j \in Nat /\ r + i <= r + j
                                        /\ (r + j) - (r + i) = j - i
      OBVIOUS
    <3> HIDE DEF l, a, n
    <3> QED
      BY <1>1, <1>2, <1>3, <3>1
  <2>2. l + a < l + n.plen => l + n.plen <= Len(kt)
    BY <1>1, <1>2, <1>3, <1>4
  <2> HIDE DEF l, a, n
  <2> QED
    BY <2>1, <2>2, Sliced
<1>6. p = Joined(n.prefix, u)
  OBVIOUS
<1> HIDE DEF u
<1>7. /\ IsSeq(p) /\ Len(p) = a + (n.plen - a)
      /\ \A j \in 1..Len(p) : p[j] = IF j <= a THEN n.prefix[j] ELSE u[j - a]
  <2>1. /\ IsSeq(p) /\ Len(p) = a + Len(u)
        /\ \A j \in 1..Len(p) : p[j] = IF j <= a THEN n.prefix[j] ELSE u[j - a]
    <3>1. PICK x : x = n.prefix
      OBVIOUS
    <3>2. PICK y : y = u
      OBVIOUS
    <3>3. IsSeq(x) /\ IsSeq(y) /\ p = Joined(x, y) /\ Len(x) = a
      BY <1>2, <1>5, <1>6, <3>1, <3>2
    <3>4. /\ IsSeq(p) /\ Len(p) = Len(x) + Len(y)
          /\ \A j \in 1..Len(p) : p[j] = IF j <= Len(x) THEN x[j] ELSE y[j - Len(x)]
      BY <3>3, Appended
    <3> QED
      BY <3>1, <3>2, <3>3, <3>4
  <2> QED
    BY <1>5, <2>1
<1>8. Len(p) = n.plen
  BY <1>1, <1>2, <1>7
<1>9. ASSUME NEW j \in 1..n.plen PROVE p[j] = w[l + j]
  <2>1. CASE j <= a
    <3>1. j \in 1..a
      BY <1>2, <2>1
    <3> QED
      BY <1>2, <1>7, <1>8, <2>1, <3>1
  <2>2. CASE ~(j <= a)
    <3>1. j - a \in 1..n.plen - a /\ l + a + (j - a) = l + j /\ l + j \in 1..far /\ a < n.plen
      <4>1. \A L, A, N, F \in Nat : j \in 1..N /\ ~(j <= A) /\ F = L + N =>
               j - A \in 1..N - A /\ L + A + (j - A) = L + j /\ L + j \in 1..F /\ A < N
        OBVIOUS
      <4> HIDE DEF l, a, n, far
      <4> QED
        BY <1>1, <1>2, <2>2, <4>1
    <3>2. p[j] = u[j - a] /\ u[j - a] = kt[l + j]
      BY <1>5, <1>7, <1>8, <2>2, <3>1
    <3> QED
      BY <1>4, <3>1, <3>2
  <2> QED
    BY <2>1, <2>2
<1> QED
  BY <1>7, <1>8, <1>9

(* The key does not end before the prefix does, or before it differs.      *)
LEMMA Compared ==
  ASSUME NEW C, Placed(C), NEW s \in Slots, Inner(s), NEW k \in AllKeys, Enters(C, s, k),
         NEW p, IsSeq(p), Len(p) = mem[s].plen,
         \A j \in 1..mem[s].plen : p[j] = C.way[Id(s)][LevelOf(C, s) + j],
         NEW m, m = Agreement(p, Drop(k, LevelOf(C, s)))
  PROVE  /\ m \in Nat /\ m <= mem[s].plen /\ LevelOf(C, s) + m < Len(k)
         /\ \A j \in 1..LevelOf(C, s) + m : k[j] = C.way[Id(s)][j]
         /\ m = mem[s].plen => Passes(C, Id(s), k)
         /\ m # mem[s].plen => /\ p[m + 1] = C.way[Id(s)][LevelOf(C, s) + m + 1]
                               /\ p[m + 1] # k[LevelOf(C, s) + m + 1]
<1> DEFINE n == mem[s]
           l == LevelOf(C, s)
           far == C.far[Id(s)]
           w == C.way[Id(s)]
           q == Drop(k, l)
<1>1. /\ l \in Nat /\ n.plen \in Nat /\ far \in Nat /\ far = l + n.plen /\ Len(k) \in Nat
      /\ Len(k) > 0 /\ l <= Len(k) /\ \A j \in 1..l : k[j] = w[j]
  BY SlotFacts, KeyFacts, EntersWay
<1>2. IsSeq(q) /\ Len(q) = Len(k) - l /\ \A j \in 1..Len(k) - l : q[j] = k[l + j]
  <2> HIDE DEF l
  <2> QED
    BY <1>1, KeySeq, Dropped
<1> HIDE DEF q
<1>3. /\ m \in Nat /\ m <= n.plen /\ m <= Len(k) - l
      /\ \A j \in 1..m : p[j] = q[j]
      /\ m < n.plen => m = Len(k) - l \/ p[m + 1] # q[m + 1]
  <2>1. m = Agreement(p, q)
    BY DEF q
  <2> QED
    BY <1>2, <2>1, Agrees
<1>4. \A j \in 1..l + m : k[j] = w[j]
  <2> TAKE j \in 1..l + m
  <2>1. CASE j \in 1..l
    BY <1>1, <2>1
  <2>2. CASE j \notin 1..l
    <3>1. j - l \in 1..m /\ j - l \in 1..n.plen /\ j - l \in 1..Len(k) - l /\ l + (j - l) = j
      <4>1. \A x, y \in Nat : \A z \in 1..x + y : z \notin 1..x => z - x \in 1..y /\ x + (z - x) = z
        OBVIOUS
      <4>2. 1..m \subseteq 1..n.plen /\ 1..m \subseteq 1..Len(k) - l
        <5> HIDE DEF l, n
        <5> QED
          BY <1>1, <1>3
      <4>3. j - l \in 1..m /\ l + (j - l) = j
        BY <1>1, <1>3, <2>2, <4>1, ZenonT(30)
      <4> QED
        BY <4>2, <4>3, Zenon
    <3>2. p[j - l] = w[l + (j - l)]
      BY <3>1
    <3>3. q[j - l] = k[l + (j - l)]
      BY <1>2, <3>1
    <3> QED
      BY <1>3, <3>1, <3>2, <3>3
  <2> QED
    BY <2>1, <2>2
<1>5. l + m < Len(k)
  <2> SUFFICES ASSUME l + m = Len(k) PROVE FALSE
    BY <1>1, <1>3
  <2>1. s # Root
    <3> SUFFICES ASSUME s = Root PROVE FALSE
      OBVIOUS
    <3>1. n.plen = 0 /\ l = 0
      BY DEF Placed, MemOK, LevelOf
    <3> QED
      BY <1>1, <1>3, <3>1
  <2>2. w \in AllKeys /\ far < Len(w)
    BY <2>1 DEF Placed, Fits, InnerFits
  <2> HIDE DEF w, l, far
  <2>3. k = w
    BY <1>1, <1>4, <2>2, KeysDiffer
  <2> QED
    BY <1>1, <1>3, <2>2, <2>3
<1>6. m = n.plen => Passes(C, Id(s), k)
  BY <1>1, <1>4, <1>5 DEF Passes
<1>7. m # n.plen => p[m + 1] = w[l + m + 1] /\ p[m + 1] # k[l + m + 1]
  <2> SUFFICES ASSUME m # n.plen PROVE p[m + 1] = w[l + m + 1] /\ p[m + 1] # k[l + m + 1]
    OBVIOUS
  <2>1. m < n.plen /\ m + 1 \in 1..n.plen /\ m + 1 \in 1..Len(k) - l /\ m # Len(k) - l /\ l + (m + 1) = l + m + 1
    BY <1>1, <1>3, <1>5, SMTT(20)
  <2>2. p[m + 1] # q[m + 1]
    BY <1>3, <2>1
  <2>3. p[m + 1] = w[l + (m + 1)]
    BY <2>1
  <2>4. q[m + 1] = k[l + (m + 1)]
    BY <1>2, <2>1
  <2> QED
    BY <2>1, <2>2, <2>3, <2>4
<1> QED
  BY <1>3, <1>4, <1>5, <1>6, <1>7
-----------------------------------------------------------------------------
(* The steps of Tree::insert on the way down.                              *)
Walking == {"insert"} \cup Descending
              \cup {"room", "parent", "lockNode", "growParent", "splitParent", "leafLockNode"}

(* What an insert in progress may rely on.                                   *)
LEMMA InsertingCall ==
  ASSUME TInv, LInv, NEW t \in Threads, NEW M, M = loc[t], M.pc \in Inserting, NEW C, NEW P, Charted(C, P)
  PROVE  /\ Placed(C) /\ PublicOK(C, P) /\ InsertKnows(C, P, M) /\ WayKnown(C, M) /\ ChildKnown(M)
         /\ HeldBy(M) \subseteq P \cup {Nil} /\ M.key \in AllKeys /\ M.op = "insert"
         /\ M.pc = "insert" => M.next \in P /\ Inner(M.next)
         /\ M.pc # "insert" => /\ Here(M) /\ Reading(M) /\ Arrived(M) /\ Building(M)
                               /\ M.node \in P /\ M.node \in Slots /\ Inner(M.node)
         /\ Knows(M) /\ Current(M) /\ P \subseteq Slots /\ Calls(M) /\ DOMAIN M = Fields
<1>1. Calls(M) /\ M # Idle
  BY DEF Inserting, Descending, Putting, Replacing, Growing, Splitting, LeafSplitting, Calls, Idle
<1>2. /\ M.op = "insert" /\ DOMAIN M = Fields /\ InsertOK(M)
      /\ M.pc # "insert" => Here(M) /\ Reading(M) /\ Arrived(M) /\ Building(M) /\ M.node \in Slots
  BY InsertNow
<1>3. CallKnows(C, P, M) /\ M.key \in AllKeys
  BY <1>1 DEF Charted, ThreadKnows, KeysOK
<1>4. Knows(M) /\ Located(M)
  BY <1>1, LocatedNow
<1>5. InsertKnows(C, P, M) /\ HeldBy(M) \subseteq P \cup {Nil}
  BY <1>2, <1>3 DEF CallKnows
<1>6. M.pc = "insert" => M.next \in P /\ Inner(M.next)
  <2> SUFFICES ASSUME M.pc = "insert" PROVE M.next \in P /\ Inner(M.next)
    OBVIOUS
  <2>1. Inner(M.next) /\ M.next \in HeldBy(M)
    BY <1>2, <1>4 DEF Located, HeldBy
  <2> QED
    BY <1>5, <2>1, NoSlots DEF Inner
<1>7. M.pc # "insert" => M.node \in P /\ Inner(M.node)
  BY <1>2, <1>4, <1>5, NoSlots DEF Located, HeldBy
<1> QED
  BY <1>1, <1>2, <1>3, <1>4, <1>5, <1>6, <1>7, PlacedNow
     DEF Charted, PublicOK, Knows, InsertKnows

(* A step of the descent of insert keeps the chart when what it moves to is  *)
(* public and known.                                                         *)
LEMMA InsertWalks ==
  ASSUME NEW t \in Threads, NEW M, NEW N, Moving(t, M, N), WalkStep(t), UNCHANGED <<todo, load>>,
         NEW C, NEW P, Charted(C, P),
         NEW changes, DOMAIN changes \subseteq Fields \ {"op", "key"}, Restart(t) \/ Go(t, changes),
         \A L : Changed(L, M, changes) /\ L.op = "insert" /\ L.key = M.key =>
            /\ L.pc \in Walking /\ HeldBy(L) \subseteq P \cup {Nil}
            /\ WayKnown(C, L) /\ ChildKnown(L)
  PROVE  Charted(C, P)'
<1>1. Turns(t, M, N) /\ TInv /\ LInv /\ M = loc[t]
  BY DescendTurns DEF WalkStep, Moving
<1>2. /\ M.pc \in {"insert", "room", "parent"} \cup Descending /\ UNCHANGED mem
  BY <1>1 DEF WalkStep, descend, Visit, PrefixStep, AnyLock, AnyChild, AnyCheck, ReadChild, ChildCheck,
              Further, Room, PutParent, Descending
<1>3. M.pc \in Inserting /\ M.pc \notin Linked
  BY <1>2 DEF Inserting, Descending, Putting, Linked
<1>4. Calls(M) /\ M.op = "insert"
  BY <1>1, <1>3, InsertingCall
<1>5. CASE Restart(t)
  <2>1. N = Start(M)
    BY <1>4, <1>5, Outcomes
  <2> QED
    BY <1>1, <1>2, <1>3, <1>4, <2>1, Walks
<1>6. CASE Go(t, changes)
  <2>1. Changed(N, M, changes)
    BY <1>4, <1>6, Outcomes
  <2>2. N.op = "insert" /\ N.key = M.key
    BY <1>4, <2>1 DEF Changed, Fields
  <2>3. /\ N.pc \in Walking /\ HeldBy(N) \subseteq P \cup {Nil} /\ WayKnown(C, N) /\ ChildKnown(N)
    BY <2>1, <2>2
  <2>4. N.pc \notin Preparing /\ N.pc \notin Linked /\ N # Idle
    BY <2>3 DEF Walking, Descending, Preparing, Linked, Idle
  <2>5. CallKnows(C, P, N)
    BY <2>2, <2>3, <2>4 DEF CallKnows, InsertKnows
  <2> QED
    BY <1>1, <1>2, <1>3, <1>4, <2>2, <2>4, <2>5, Walks
<1> QED
  BY <1>5, <1>6

(* insert entering a node keeps the chart.                                   *)
LEMMA VisitCharted ==
  ASSUME NEW t \in Threads, NEW M, NEW N, Moving(t, M, N), Visit(t), UNCHANGED <<todo, load>>,
         NEW C, NEW P, Charted(C, P)
  PROVE  Charted(C, P)'
<1>1. TInv /\ LInv /\ M = loc[t] /\ M.pc = "insert" /\ M.pc \in Inserting /\ WalkStep(t)
  BY DEF Moving, Visit, WalkStep, descend, Inserting
<1>2. /\ WayKnown(C, M) /\ HeldBy(M) \subseteq P \cup {Nil} /\ M.next \in P
  BY <1>1, InsertingCall
<1> DEFINE changes == [pc |-> "prefix", parent |-> M.node, pbyte |-> M.byte,
                       node |-> M.next, v |-> Word(M.next)]
<1>3. (Restart(t) \/ Go(t, changes)) /\ DOMAIN changes \subseteq Fields \ {"op", "key"}
  BY <1>1 DEF Visit, Fields
<1>4. ASSUME NEW L, Changed(L, M, changes), L.op = "insert", L.key = M.key
      PROVE  /\ L.pc \in Walking /\ HeldBy(L) \subseteq P \cup {Nil} /\ WayKnown(C, L) /\ ChildKnown(L)
  <2>1. /\ L.pc = "prefix" /\ L.parent = M.node /\ L.node = M.next /\ L.next = M.next
        /\ L.any = M.any /\ L.cursor = M.cursor /\ L.level = M.level
    BY <1>4 DEF Changed, Fields
  <2>2. HeldBy(L) \subseteq P \cup {Nil}
    BY <1>1, <1>2, <2>1 DEF HeldBy
  <2>3. WayKnown(C, L)
    BY <1>1, <1>2, <1>4, <2>1 DEF WayKnown, Seeking, AtChild
  <2> QED
    BY <2>1, <2>2, <2>3 DEF ChildKnown, Unsure, Walking, Descending
<1> HIDE DEF changes
<1> QED
  BY <1>1, <1>3, <1>4, InsertWalks

(* A part of a sequence: the first c elements after b.                     *)
LEMMA Cut ==
  ASSUME NEW s, IsSeq(s), NEW b \in Nat, NEW c \in Nat, b + c <= Len(s),
         NEW r, r = Prefix(Drop(s, b), c)
  PROVE  IsSeq(r) /\ Len(r) = c /\ \A j \in 1..c : r[j] = s[b + j]
<1>1. Len(s) \in Nat /\ b <= Len(s) /\ c <= Len(s) - b
  BY Sequence
<1> DEFINE q == Drop(s, b)
<1>2. IsSeq(q) /\ Len(q) = Len(s) - b /\ \A j \in 1..Len(s) - b : q[j] = s[b + j]
  BY <1>1, Dropped
<1> HIDE DEF q
<1>3. IsSeq(r) /\ Len(r) = c /\ \A j \in 1..c : r[j] = q[j]
  <2>1. r = Prefix(q, c)
    BY DEF q
  <2>2. /\ IsSeq(Prefix(q, c)) /\ Len(Prefix(q, c)) = (IF c < Len(q) THEN c ELSE Len(q))
        /\ \A j \in 1..c : j <= Len(q) => Prefix(q, c)[j] = q[j]
    BY <1>2, Cropped
  <2> QED
    BY <1>1, <1>2, <2>1, <2>2
<1>4. \A j \in 1..c : j \in 1..Len(s) - b
  BY <1>1
<1> QED
  BY <1>2, <1>3, <1>4

(* A prefix of n bytes at level l, and what of it follows m + 1 bytes.      *)
LEMMA Parts ==
  \A l, n, m, far : l \in Nat /\ n \in Nat /\ m \in Nat /\ m < n /\ far = l + n =>
     /\ l + m + 1 \in Nat /\ n - m - 1 \in Nat /\ (l + m + 1) + (n - m - 1) = far
     /\ \A j \in 1..n - m - 1 : l + m + 1 + j \in 1..far
OBVIOUS

(* checkPrefixPessimistic.                                                 *)
LEMMA PrefixCharted ==
  ASSUME NEW t \in Threads, NEW M, NEW N, Moving(t, M, N), WalkStep(t), UNCHANGED <<todo, load>>,
         NEW C, NEW P, Charted(C, P), M.pc \in {"prefix", "anyCheck"}, M.any \in P \cup {Nil},
         NEW kt, IsSeq(kt), CheckPrefixPessimistic(t, kt),
         mem[M.node].plen > MaxStored => kt \in AllKeys /\ Passes(C, Id(M.node), kt)
  PROVE  Charted(C, P)'
<1>1. TInv /\ LInv /\ M = loc[t] /\ M.pc \in Inserting
  BY DEF Moving, Inserting, Descending
<1>2. /\ WayKnown(C, M) /\ HeldBy(M) \subseteq P \cup {Nil} /\ Placed(C) /\ M.key \in AllKeys
      /\ M.node \in Slots /\ Inner(M.node) /\ M.next \in P \cup {Nil}
  <2>1. M.next \in HeldBy(M) /\ M.pc # "insert"
    BY DEF HeldBy
  <2> QED
    BY <1>1, <2>1, InsertingCall
<1>3. Enters(C, M.node, M.key) /\ M.level = LevelOf(C, M.node)
  BY <1>2 DEF WayKnown, Seeking
<1> DEFINE n == mem[M.node]
           u == SubSeq(kt, M.level + Len(n.prefix) + 1, M.level + n.plen)
           p == Joined(n.prefix, u)
           m == Agreement(p, Drop(M.key, M.level))
           rest == IF n.plen > MaxStored THEN Drop(kt, M.level + m + 1) ELSE Drop(p, m + 1)
           further == [pc |-> "child", level |-> M.level + m, byte |-> M.key[M.level + m + 1]]
           split == [pc |-> "splitParent", matched |-> m, miss |-> p[m + 1],
                     rest |-> Prefix(rest, n.plen - m - 1)]
           w == C.way[Id(M.node)]
           far == C.far[Id(M.node)]
<1>4. /\ m = n.plen => Go(t, further)
      /\ m # n.plen => Go(t, split)
  BY <1>1 DEF CheckPrefixPessimistic, Joined
<1>5. IsSeq(p) /\ Len(p) = n.plen /\ \A j \in 1..n.plen : p[j] = w[M.level + j]
  BY <1>2, <1>3, WholePrefix
<1> HIDE DEF p
<1>6. /\ m \in Nat /\ m <= n.plen /\ M.level + m < Len(M.key)
      /\ \A j \in 1..M.level + m : M.key[j] = w[j]
      /\ m = n.plen => Passes(C, Id(M.node), M.key)
      /\ m # n.plen => p[m + 1] = w[M.level + m + 1] /\ p[m + 1] # M.key[M.level + m + 1]
  BY <1>2, <1>3, <1>5, Compared
<1>7. M.level \in Nat /\ n.plen \in Nat /\ far \in Nat /\ far = M.level + n.plen /\ MaxStored \in Nat
  BY <1>2, <1>3, SlotFacts, ArtAssumption
<1>8. CASE m = n.plen
  <2>1. Go(t, further) /\ DOMAIN further \subseteq Fields \ {"op", "key"}
    BY <1>4, <1>8 DEF Fields
  <2>2. ASSUME NEW L, Changed(L, M, further), L.op = "insert", L.key = M.key
        PROVE  /\ L.pc \in Walking /\ HeldBy(L) \subseteq P \cup {Nil} /\ WayKnown(C, L) /\ ChildKnown(L)
    <3>1. /\ L.pc = "child" /\ L.parent = M.parent /\ L.node = M.node /\ L.next = M.next
          /\ L.any = M.any /\ L.cursor = M.cursor /\ L.level = M.level + m
          /\ L.byte = M.key[M.level + m + 1]
      BY <2>2 DEF Changed, Fields
    <3>2. HeldBy(L) \subseteq P \cup {Nil}
      BY <1>2, <3>1 DEF HeldBy
    <3>3. L.level = far /\ L.byte = M.key[L.level + 1] /\ Passes(C, Id(L.node), L.key)
      <4> HIDE DEF m, n
      <4> QED
        BY <1>6, <1>7, <1>8, <2>2, <3>1
    <3>4. WayKnown(C, L)
      BY <2>2, <3>1, <3>3 DEF WayKnown, Seeking
    <3> QED
      BY <3>1, <3>2, <3>4 DEF ChildKnown, Unsure, Walking, Descending
  <2> HIDE DEF further
  <2> QED
    BY <2>1, <2>2, InsertWalks
<1>9. CASE m # n.plen
  <2>1. Go(t, split) /\ DOMAIN split \subseteq Fields \ {"op", "key"}
    BY <1>4, <1>9 DEF Fields
  <2>2. m < n.plen
    BY <1>6, <1>7, <1>9
  <2>3. ASSUME NEW r, r = Prefix(rest, n.plen - m - 1)
        PROVE  /\ IsSeq(r) /\ Len(r) = n.plen - m - 1
               /\ \A j \in 1..n.plen - m - 1 : r[j] = w[M.level + m + 1 + j]
    <3> HIDE DEF m, n, w
    <3>1. CASE n.plen > MaxStored
      <4>1. far < Len(kt) /\ Len(kt) \in Nat /\ \A j \in 1..far : kt[j] = w[j]
        BY <1>2, <3>1, KeyFacts DEF Passes, n, w
      <4>2. r = Prefix(Drop(kt, M.level + m + 1), n.plen - m - 1)
        BY <2>3, <3>1
      <4>3. /\ M.level + m + 1 \in Nat /\ n.plen - m - 1 \in Nat
            /\ (M.level + m + 1) + (n.plen - m - 1) = far
        BY <1>6, <1>7, <2>2, Parts
      <4>4. (M.level + m + 1) + (n.plen - m - 1) <= Len(kt)
        BY <1>7, <4>1, <4>3
      <4>5. /\ IsSeq(r) /\ Len(r) = n.plen - m - 1
            /\ \A j \in 1..n.plen - m - 1 : r[j] = kt[M.level + m + 1 + j]
        BY <4>2, <4>3, <4>4, Cut
      <4>6. \A j \in 1..n.plen - m - 1 : M.level + m + 1 + j \in 1..far
        BY <1>6, <1>7, <2>2, Parts
      <4>7. ASSUME NEW j \in 1..n.plen - m - 1 PROVE r[j] = w[M.level + m + 1 + j]
        <5>1. \A x : x = M.level + m + 1 + j => x \in 1..far /\ kt[x] = w[x]
          BY <4>1, <4>6
        <5> QED
          BY <4>5, <5>1
      <4> QED
        BY <4>5, <4>7
    <3>2. CASE ~(n.plen > MaxStored)
      <4>1. r = Prefix(Drop(p, m + 1), n.plen - m - 1)
        BY <2>3, <3>2
      <4>2. m + 1 \in Nat /\ n.plen - m - 1 \in Nat /\ (m + 1) + (n.plen - m - 1) <= Len(p)
        <5>1. \A i, j \in Nat : i < j => i + 1 \in Nat /\ j - i - 1 \in Nat /\ (i + 1) + (j - i - 1) <= j
          OBVIOUS
        <5>2. Len(p) = n.plen /\ m \in Nat /\ n.plen \in Nat
          BY <1>5, <1>6, <1>7 DEF n
        <5> QED
          BY <2>2, <5>1, <5>2
      <4>3. /\ IsSeq(r) /\ Len(r) = n.plen - m - 1
            /\ \A j \in 1..n.plen - m - 1 : r[j] = p[(m + 1) + j]
        BY <1>5, <4>1, <4>2, Cut
      <4>4. \A j \in 1..n.plen - m - 1 : /\ (m + 1) + j \in 1..n.plen
                                         /\ M.level + ((m + 1) + j) = M.level + m + 1 + j
        BY <1>6, <1>7
      <4> QED
        BY <1>5, <4>3, <4>4 DEF n, w
    <3> QED
      BY <3>1, <3>2
  <2>4. ASSUME NEW L, Changed(L, M, split), L.op = "insert", L.key = M.key
        PROVE  /\ L.pc \in Walking /\ HeldBy(L) \subseteq P \cup {Nil} /\ WayKnown(C, L) /\ ChildKnown(L)
    <3> HIDE DEF m, w, rest
    <3>1. /\ L.pc = "splitParent" /\ L.parent = M.parent /\ L.node = M.node /\ L.next = M.next
          /\ L.any = M.any /\ L.cursor = M.cursor /\ L.level = M.level
          /\ L.matched = m /\ L.miss = p[m + 1] /\ L.rest = Prefix(rest, n.plen - m - 1)
      BY <2>4 DEF Changed, Fields
    <3>2. HeldBy(L) \subseteq P \cup {Nil}
      BY <1>2, <3>1 DEF HeldBy
    <3>3. /\ IsSeq(L.rest) /\ Len(L.rest) = n.plen - m - 1
          /\ \A j \in 1..Len(L.rest) : L.rest[j] = w[M.level + m + 1 + j]
      BY <2>3, <3>1
    <3>4. SplitKnown(C, L)
      BY <1>3, <1>6, <1>9, <2>2, <2>4, <3>1, <3>3 DEF SplitKnown, w
    <3>5. WayKnown(C, L)
      BY <3>1, <3>4 DEF WayKnown, Seeking, AtChild
    <3> QED
      BY <3>1, <3>2, <3>5 DEF ChildKnown, Unsure, Walking
  <2> HIDE DEF split
  <2> QED
    BY <2>1, <2>4, InsertWalks
<1> QED
  BY <1>8, <1>9

(* The comparison of the prefix with the key keeps the chart.                *)
LEMMA PrefixStepCharted ==
  ASSUME NEW t \in Threads, NEW M, NEW N, Moving(t, M, N), PrefixStep(t), UNCHANGED <<todo, load>>,
         NEW C, NEW P, Charted(C, P)
  PROVE  Charted(C, P)'
<1>1. TInv /\ LInv /\ M = loc[t] /\ M.pc = "prefix" /\ M.pc \in Inserting /\ WalkStep(t)
  BY DEF Moving, PrefixStep, WalkStep, descend, Inserting, Descending
<1>2. /\ WayKnown(C, M) /\ HeldBy(M) \subseteq P \cup {Nil} /\ M.node \in P /\ Inner(M.node)
  BY <1>1, InsertingCall
<1>3. M.any \in P \cup {Nil}
  BY <1>1, <1>2 DEF HeldBy
<1>4. CASE mem[M.node].plen > MaxStored
  <2> DEFINE changes == [pc |-> "any", cursor |-> M.node]
  <2>1. Go(t, changes) /\ DOMAIN changes \subseteq Fields \ {"op", "key"}
    BY <1>1, <1>4 DEF PrefixStep, Fields
  <2>2. ASSUME NEW L, Changed(L, M, changes), L.op = "insert", L.key = M.key
        PROVE  /\ L.pc \in Walking /\ HeldBy(L) \subseteq P \cup {Nil} /\ WayKnown(C, L) /\ ChildKnown(L)
    <3>1. /\ L.pc = "any" /\ L.parent = M.parent /\ L.node = M.node /\ L.next = M.next
          /\ L.any = M.any /\ L.cursor = M.node /\ L.level = M.level
      BY <2>2 DEF Changed, Fields
    <3>2. HeldBy(L) \subseteq P \cup {Nil}
      BY <1>1, <1>2, <3>1 DEF HeldBy
    <3>3. WayKnown(C, L)
      BY <1>1, <1>2, <2>2, <3>1 DEF WayKnown, Seeking, AtChild
    <3> QED
      BY <3>1, <3>2, <3>3 DEF ChildKnown, Unsure, Walking, Descending
  <2> HIDE DEF changes
  <2> QED
    BY <1>1, <2>1, <2>2, InsertWalks
<1>5. CASE ~(mem[M.node].plen > MaxStored)
  <2>1. CheckPrefixPessimistic(t, <<>>)
    BY <1>1, <1>5 DEF PrefixStep
  <2>2. IsSeq(<<>>)
    BY DEF IsSeq
  <2> QED
    BY <1>1, <1>3, <1>5, <2>1, <2>2, PrefixCharted
<1> QED
  BY <1>4, <1>5

(* What is below a node has the node's whole prefix.                       *)
LEMMA ChildThrough ==
  ASSUME NEW C, Placed(C), NEW c \in Slots, Inner(c), NEW s, c = s \/ Through(C, c, Id(s)),
         NEW x, NEW b, Under(x, c, b)
  PROVE  Through(C, x, Id(s))
<1> SUFFICES ASSUME NEW k \in AllKeys, Enters(C, x, k) PROVE Passes(C, Id(s), k)
  BY DEF Through
<1>1. Passes(C, Id(c), k)
  BY ChildEnters
<1>2. Enters(C, c, k)
  BY <1>1, PassesEnters
<1> QED
  BY <1>1, <1>2 DEF Through

(* getAnyChild taking a version keeps the chart.                             *)
LEMMA AnyLockCharted ==
  ASSUME NEW t \in Threads, NEW M, NEW N, Moving(t, M, N), AnyLock(t), UNCHANGED <<todo, load>>,
         NEW C, NEW P, Charted(C, P)
  PROVE  Charted(C, P)'
<1>1. TInv /\ LInv /\ M = loc[t] /\ M.pc = "any" /\ M.pc \in Inserting /\ WalkStep(t)
  BY DEF Moving, AnyLock, WalkStep, descend, Inserting, Descending
<1>2. /\ WayKnown(C, M) /\ HeldBy(M) \subseteq P \cup {Nil}
  BY <1>1, InsertingCall
<1> DEFINE changes == [pc |-> "anyChild", lv |-> Word(M.cursor)]
<1>3. (Restart(t) \/ Go(t, changes)) /\ DOMAIN changes \subseteq Fields \ {"op", "key"}
  BY <1>1 DEF AnyLock, Fields
<1>4. ASSUME NEW L, Changed(L, M, changes), L.op = "insert", L.key = M.key
      PROVE  /\ L.pc \in Walking /\ HeldBy(L) \subseteq P \cup {Nil} /\ WayKnown(C, L) /\ ChildKnown(L)
  <2>1. /\ L.pc = "anyChild" /\ L.parent = M.parent /\ L.node = M.node /\ L.next = M.next
        /\ L.any = M.any /\ L.cursor = M.cursor /\ L.level = M.level
    BY <1>4 DEF Changed, Fields
  <2>2. HeldBy(L) \subseteq P \cup {Nil}
    BY <1>1, <1>2, <2>1 DEF HeldBy
  <2>3. WayKnown(C, L)
    BY <1>1, <1>2, <1>4, <2>1 DEF WayKnown, Seeking, AtChild
  <2> QED
    BY <2>1, <2>2, <2>3 DEF ChildKnown, Unsure, Walking, Descending
<1> HIDE DEF changes
<1> QED
  BY <1>1, <1>3, <1>4, InsertWalks

(* getAnyChild choosing a child keeps the chart.                             *)
LEMMA AnyChildCharted ==
  ASSUME NEW t \in Threads, NEW M, NEW N, Moving(t, M, N), AnyChild(t), UNCHANGED <<todo, load>>,
         NEW C, NEW P, Charted(C, P)
  PROVE  Charted(C, P)'
<1>1. TInv /\ LInv /\ M = loc[t] /\ M.pc = "anyChild" /\ M.pc \in Inserting /\ WalkStep(t)
  BY DEF Moving, AnyChild, WalkStep, descend, Inserting, Descending
<1>2. /\ WayKnown(C, M) /\ HeldBy(M) \subseteq P \cup {Nil} /\ Placed(C)
  BY <1>1, InsertingCall
<1> DEFINE changes(b) == [pc |-> "anyCheck", any |-> Peek(M.cursor, b)]
<1>3. PICK b \in AnyChildren(mem[M.cursor]) : Go(t, changes(b))
  BY <1>1 DEF AnyChild
<1>4. DOMAIN changes(b) \subseteq Fields \ {"op", "key"}
  BY DEF Fields
<1>5. Inner(M.cursor) /\ M.cursor \in Slots /\ (M.cursor = M.node \/ Through(C, M.cursor, Id(M.node)))
  BY <1>1, <1>2 DEF WayKnown, Seeking, Inner
<1>6. ASSUME NEW L, Changed(L, M, changes(b)), L.op = "insert", L.key = M.key
      PROVE  /\ L.pc \in Walking /\ HeldBy(L) \subseteq P \cup {Nil} /\ WayKnown(C, L) /\ ChildKnown(L)
  <2>1. /\ L.pc = "anyCheck" /\ L.parent = M.parent /\ L.node = M.node /\ L.next = M.next
        /\ L.any = Peek(M.cursor, b) /\ L.cursor = M.cursor /\ L.level = M.level
    BY <1>6 DEF Changed, Fields
  <2>2. HeldBy(L) \subseteq P \cup {Nil}
    BY <1>1, <1>2, <2>1 DEF HeldBy
  <2>3. L.any \in Slots => Through(C, L.any, Id(L.node))
    <3> SUFFICES ASSUME L.any \in Slots PROVE Through(C, L.any, Id(L.node))
      OBVIOUS
    <3>1. Under(L.any, M.cursor, b)
      BY <1>2, <1>5, <2>1, PeekUnder
    <3> QED
      BY <1>2, <1>5, <2>1, <3>1, ChildThrough
  <2>4. WayKnown(C, L)
    BY <1>1, <1>2, <1>6, <2>1, <2>3 DEF WayKnown, Seeking, AtChild
  <2> QED
    BY <2>1, <2>2, <2>4 DEF ChildKnown, Unsure, Walking, Descending
<1> HIDE DEF changes
<1> QED
  BY <1>1, <1>3, <1>4, <1>6, InsertWalks

(* getAnyChild checking the version keeps the chart.                         *)
LEMMA AnyCheckCharted ==
  ASSUME NEW t \in Threads, NEW M, NEW N, Moving(t, M, N), AnyCheck(t), UNCHANGED <<todo, load>>,
         NEW C, NEW P, Charted(C, P)
  PROVE  Charted(C, P)'
<1>1. TInv /\ LInv /\ M = loc[t] /\ M.pc = "anyCheck" /\ M.pc \in Inserting /\ WalkStep(t)
  BY DEF Moving, AnyCheck, WalkStep, descend, Inserting, Descending
<1>2. /\ WayKnown(C, M) /\ HeldBy(M) \subseteq P \cup {Nil} /\ Placed(C) /\ PublicOK(C, P)
      /\ Current(M) /\ P \subseteq Slots /\ Reading(M)
  BY <1>1, InsertingCall
<1> DEFINE changes == [pc |-> "any", cursor |-> M.any]
<1>3. DOMAIN changes \subseteq Fields \ {"op", "key"}
  BY DEF Fields
<1>4. CASE Word(M.cursor) # M.lv
  <2>1. Restart(t)
    BY <1>1, <1>4 DEF AnyCheck
  <2>2. Turns(t, M, N) /\ UNCHANGED mem /\ Calls(M) /\ M.pc \notin Linked
    BY <1>1, DescendTurns DEF WalkStep, AnyCheck, Calls, Linked
  <2>3. N = Start(M)
    BY <2>1, <2>2, Outcomes
  <2> QED
    BY <2>2, <2>3, Walks
<1>5. CASE Word(M.cursor) = M.lv
  <2>1. Inner(M.cursor) /\ M.cursor \in Slots /\ M.cursor \in P
    BY <1>1, <1>2, NoSlots DEF WayKnown, Seeking, Inner, HeldBy
  <2>2. Links(M.cursor, M.any) /\ M.any # Nil
    BY <1>1, <1>2, <1>5 DEF Current, Reading
  <2>3. M.any \in P /\ M.any \in Slots
    BY <1>2, <2>1, <2>2, PublicChild
  <2>4. Through(C, M.any, Id(M.node))
    BY <1>1, <1>2, <2>3 DEF WayKnown
  <2>5. CASE IsLeaf(M.any)
    <3>1. CheckPrefixPessimistic(t, mem[M.any].value)
      BY <1>1, <1>5, <2>5 DEF AnyCheck
    <3>2. mem[M.any].value \in AllKeys /\ Enters(C, M.any, mem[M.any].value)
      BY <1>2, <2>3, <2>5 DEF Placed, Fits, LeafFits
    <3>3. Passes(C, Id(M.node), mem[M.any].value)
      BY <2>4, <3>2 DEF Through
    <3>4. IsSeq(mem[M.any].value)
      BY <3>2, KeySeq
    <3> QED
      BY <1>1, <2>3, <3>1, <3>2, <3>3, <3>4, PrefixCharted
  <2>6. CASE ~IsLeaf(M.any)
    <3>1. Go(t, changes)
      BY <1>1, <1>5, <2>6 DEF AnyCheck
    <3>2. ASSUME NEW L, Changed(L, M, changes), L.op = "insert", L.key = M.key
          PROVE  /\ L.pc \in Walking /\ HeldBy(L) \subseteq P \cup {Nil} /\ WayKnown(C, L) /\ ChildKnown(L)
      <4>1. /\ L.pc = "any" /\ L.parent = M.parent /\ L.node = M.node /\ L.next = M.next
            /\ L.any = M.any /\ L.cursor = M.any /\ L.level = M.level
        BY <3>2 DEF Changed, Fields
      <4>2. HeldBy(L) \subseteq P \cup {Nil}
        BY <1>1, <1>2, <2>3, <4>1 DEF HeldBy
      <4>3. Inner(M.any)
        BY <2>3, <2>6, KindsOf
      <4>4. WayKnown(C, L)
        BY <1>1, <1>2, <2>4, <3>2, <4>1, <4>3 DEF WayKnown, Seeking, AtChild
      <4> QED
        BY <4>1, <4>2, <4>4 DEF ChildKnown, Unsure, Walking, Descending
    <3> HIDE DEF changes
    <3> QED
      BY <1>1, <1>3, <3>1, <3>2, InsertWalks
  <2> QED
    BY <2>5, <2>6
<1> QED
  BY <1>4, <1>5

(* insert reading the child for its byte keeps the chart.                    *)
LEMMA ReadChildCharted ==
  ASSUME NEW t \in Threads, NEW M, NEW N, Moving(t, M, N), ReadChild(t), UNCHANGED <<todo, load>>,
         NEW C, NEW P, Charted(C, P)
  PROVE  Charted(C, P)'
<1>1. TInv /\ LInv /\ M = loc[t] /\ M.pc = "child" /\ M.pc \in Inserting /\ WalkStep(t)
  BY DEF Moving, ReadChild, WalkStep, descend, Inserting, Descending
<1>2. /\ WayKnown(C, M) /\ HeldBy(M) \subseteq P \cup {Nil}
  BY <1>1, InsertingCall
<1> DEFINE changes == [pc |-> "childCheck", next |-> Peek(M.node, M.byte)]
<1>3. Go(t, changes) /\ DOMAIN changes \subseteq Fields \ {"op", "key"}
  BY <1>1 DEF ReadChild, Fields
<1>4. ASSUME NEW L, Changed(L, M, changes), L.op = "insert", L.key = M.key
      PROVE  /\ L.pc \in Walking /\ HeldBy(L) \subseteq P \cup {Nil} /\ WayKnown(C, L) /\ ChildKnown(L)
  <2>1. /\ L.pc = "childCheck" /\ L.parent = M.parent /\ L.node = M.node /\ L.byte = M.byte
        /\ L.any = M.any /\ L.cursor = M.cursor /\ L.level = M.level /\ L.next = Peek(M.node, M.byte)
    BY <1>4 DEF Changed, Fields
  <2>2. HeldBy(L) \subseteq P \cup {Nil}
    BY <1>1, <1>2, <2>1 DEF HeldBy
  <2>3. WayKnown(C, L)
    BY <1>1, <1>2, <1>4, <2>1 DEF WayKnown, Seeking, AtChild
  <2>4. L.next = Nil => NoChild(L)
    BY <2>1 DEF Peek, NoChild, Garbage, Nil
  <2> QED
    BY <2>1, <2>2, <2>3, <2>4 DEF ChildKnown, Unsure, Walking, Descending
<1> HIDE DEF changes
<1> QED
  BY <1>1, <1>3, <1>4, InsertWalks

(* Steps that go on at the same node.                                      *)
LEMMA StaysWalking ==
  ASSUME NEW t \in Threads, NEW M, NEW N, Moving(t, M, N), WalkStep(t), UNCHANGED <<todo, load>>,
         NEW C, NEW P, Charted(C, P), M.pc \in Inserting \cap AtChild,
         NEW pc \in AtChild \cap Walking, Restart(t) \/ Go(t, [pc |-> pc]), pc # "childCheck",
         M.next \in P \cup {Nil}, pc \in Unsure /\ Word(M.node) = M.v => NoChild(M)
  PROVE  Charted(C, P)'
<1>1. TInv /\ LInv /\ M = loc[t]
  BY DEF Moving
<1>2. WayKnown(C, M) /\ HeldBy(M) \subseteq P \cup {Nil} /\ M.pc \notin {"insert", "hit", "anyCheck"}
  BY <1>1, InsertingCall DEF AtChild
<1> DEFINE changes == [pc |-> pc]
<1>3. (Restart(t) \/ Go(t, changes)) /\ DOMAIN changes \subseteq Fields \ {"op", "key"}
  BY <1>1 DEF Fields
<1>4. ASSUME NEW L, Changed(L, M, changes), L.op = "insert", L.key = M.key
      PROVE  /\ L.pc \in Walking /\ HeldBy(L) \subseteq P \cup {Nil} /\ WayKnown(C, L) /\ ChildKnown(L)
  <2>1. /\ L.pc = pc /\ L.parent = M.parent /\ L.node = M.node /\ L.byte = M.byte /\ L.v = M.v
        /\ L.any = M.any /\ L.cursor = M.cursor /\ L.level = M.level /\ L.next = M.next
    BY <1>4 DEF Changed, Fields
  <2>2. HeldBy(L) \subseteq P \cup {Nil}
    BY <1>1, <1>2, <2>1 DEF HeldBy
  <2>3. WayKnown(C, L)
    BY <1>1, <1>2, <1>4, <2>1 DEF WayKnown, Seeking, AtChild
  <2>4. ChildKnown(L)
    BY <2>1 DEF ChildKnown, NoChild, Walking, Descending
  <2> QED
    BY <2>1, <2>2, <2>3, <2>4
<1> HIDE DEF changes
<1> QED
  BY <1>1, <1>3, <1>4, InsertWalks

(* insert checking the version after that read keeps the chart.              *)
LEMMA ChildCheckCharted ==
  ASSUME NEW t \in Threads, NEW M, NEW N, Moving(t, M, N), ChildCheck(t), UNCHANGED <<todo, load>>,
         NEW C, NEW P, Charted(C, P)
  PROVE  Charted(C, P)'
<1>1. /\ TInv /\ LInv /\ M = loc[t] /\ M.pc = "childCheck" /\ M.pc \in Inserting /\ WalkStep(t)
      /\ M.pc \in AtChild
  BY DEF Moving, ChildCheck, WalkStep, descend, Inserting, Descending, AtChild
<1>2. /\ PublicOK(C, P) /\ ChildKnown(M) /\ M.node \in P /\ Current(M)
  BY <1>1, InsertingCall
<1> DEFINE pc == IF M.next = Nil THEN "room" ELSE "further"
<1>3. /\ IF Word(M.node) = M.v THEN Go(t, [pc |-> pc]) ELSE Restart(t)
  BY <1>1 DEF ChildCheck, Check
<1>4. pc \in AtChild \cap Walking /\ pc # "childCheck"
  BY DEF AtChild, Walking, Descending
<1>5. Word(M.node) = M.v => M.next \in P \cup {Nil}
  <2> SUFFICES ASSUME Word(M.node) = M.v, M.next # Nil PROVE M.next \in P \cup {Nil}
    OBVIOUS
  <2>1. Links(M.node, M.next)
    BY <1>1, <1>2 DEF Current, HasChild, Links
  <2> QED
    BY <1>2, <2>1, PublicChild
<1>6. pc \in Unsure /\ Word(M.node) = M.v => NoChild(M)
  BY <1>1, <1>2 DEF ChildKnown, Unsure
<1> HIDE DEF pc
<1>7. CASE Word(M.node) = M.v
  BY <1>1, <1>3, <1>4, <1>5, <1>6, <1>7, StaysWalking
<1>8. CASE Word(M.node) # M.v
  <2>1. Turns(t, M, N) /\ UNCHANGED mem /\ Calls(M) /\ M.pc \notin Linked
    BY <1>1, DescendTurns DEF WalkStep, ChildCheck, Calls, Linked
  <2>2. N = Start(M)
    BY <1>3, <1>8, <2>1, Outcomes
  <2> QED
    BY <2>1, <2>2, Walks
<1> QED
  BY <1>7, <1>8

(* The test for room and the way to the lock of the parent keep the chart.   *)
LEMMA RoomCharted ==
  ASSUME NEW t \in Threads, NEW M, NEW N, Moving(t, M, N), Room(t) \/ PutParent(t), UNCHANGED <<todo, load>>,
         NEW C, NEW P, Charted(C, P)
  PROVE  Charted(C, P)'
<1>1. /\ TInv /\ LInv /\ M = loc[t] /\ M.pc \in {"room", "parent"} /\ M.pc \in Inserting /\ WalkStep(t)
      /\ M.pc \in AtChild /\ M.pc \in Unsure
  BY DEF Moving, Room, PutParent, WalkStep, Inserting, Putting, AtChild, Unsure
<1>2. /\ ChildKnown(M) /\ HeldBy(M) \subseteq P \cup {Nil}
  BY <1>1, InsertingCall
<1>3. M.next \in P \cup {Nil}
  BY <1>1, <1>2 DEF HeldBy
<1>4. PICK pc \in {"growParent", "parent", "lockNode"} : Restart(t) \/ Go(t, [pc |-> pc])
  BY <1>1 DEF Room, PutParent
<1>5. pc \in AtChild \cap Walking /\ pc # "childCheck"
  BY DEF AtChild, Walking
<1>6. Word(M.node) = M.v => NoChild(M)
  BY <1>1, <1>2 DEF ChildKnown
<1> QED
  BY <1>1, <1>3, <1>4, <1>5, <1>6, StaysWalking

(* insert going one node down keeps the chart.                               *)
LEMMA FurtherCharted ==
  ASSUME NEW t \in Threads, NEW M, NEW N, Moving(t, M, N), Further(t), UNCHANGED <<todo, load>>,
         NEW C, NEW P, Charted(C, P)
  PROVE  Charted(C, P)'
<1>1. /\ TInv /\ LInv /\ M = loc[t] /\ M.pc = "further" /\ M.pc \in Inserting /\ WalkStep(t)
      /\ M.pc \in AtChild
  BY DEF Moving, Further, WalkStep, descend, Inserting, Descending, AtChild
<1>2. /\ Placed(C) /\ WayKnown(C, M) /\ HeldBy(M) \subseteq P \cup {Nil} /\ Reading(M)
      /\ M.node \in Slots /\ Inner(M.node)
  BY <1>1, InsertingCall
<1>3. M.next \in P \cup {Nil}
  BY <1>1, <1>2 DEF HeldBy
<1>4. Under(M.next, M.node, M.byte)
  BY <1>1, <1>2 DEF Reading
<1> DEFINE down == [pc |-> "insert", level |-> M.level + 1, pv |-> M.v]
<1>5. \/ Restart(t) \/ Go(t, [pc |-> "leafLockNode"])
      \/ Go(t, down)
  BY <1>1 DEF Further
<1>6. CASE Restart(t) \/ Go(t, [pc |-> "leafLockNode"])
  <2>1. "leafLockNode" \in AtChild \cap Walking /\ "leafLockNode" # "childCheck" /\ "leafLockNode" \notin Unsure
    BY DEF AtChild, Walking, Unsure
  <2> QED
    BY <1>1, <1>3, <1>6, <2>1, StaysWalking
<1>7. CASE Go(t, down)
  <2>1. DOMAIN down \subseteq Fields \ {"op", "key"}
    BY DEF Fields
  <2>2. ASSUME NEW L, Changed(L, M, down), L.op = "insert", L.key = M.key
        PROVE  /\ L.pc \in Walking /\ HeldBy(L) \subseteq P \cup {Nil} /\ WayKnown(C, L) /\ ChildKnown(L)
    <3>1. /\ L.pc = "insert" /\ L.parent = M.parent /\ L.node = M.node /\ L.next = M.next
          /\ L.any = M.any /\ L.cursor = M.cursor /\ L.level = M.level + 1
      BY <2>2 DEF Changed, Fields
    <3>2. HeldBy(L) \subseteq P \cup {Nil}
      BY <1>1, <1>2, <3>1 DEF HeldBy
    <3>3. Passes(C, Id(M.node), M.key) /\ M.level = C.far[Id(M.node)] /\ M.byte = M.key[M.level + 1]
      BY <1>1, <1>2 DEF WayKnown
    <3>4. Enters(C, M.next, M.key) /\ LevelOf(C, M.next) = M.level + 1
      BY <1>2, <1>4, <3>3, ChildEnters
    <3>5. WayKnown(C, L)
      BY <2>2, <3>1, <3>4 DEF WayKnown, Seeking, AtChild
    <3> QED
      BY <3>1, <3>2, <3>5 DEF ChildKnown, Unsure, Walking
  <2> HIDE DEF down
  <2> QED
    BY <1>1, <1>7, <2>1, <2>2, InsertWalks
<1> QED
  BY <1>5, <1>6, <1>7

(* Every step of the descent of insert keeps the chart.                      *)
LEMMA WalkCharted ==
  ASSUME NEW t \in Threads, NEW M, NEW N, Moving(t, M, N), WalkStep(t), UNCHANGED <<todo, load>>,
         NEW C, NEW P, Charted(C, P)
  PROVE  Charted(C, P)'
BY VisitCharted, PrefixStepCharted, AnyLockCharted, AnyChildCharted, AnyCheckCharted,
   ReadChildCharted, ChildCheckCharted, FurtherCharted, RoomCharted DEF WalkStep, descend
-----------------------------------------------------------------------------
(* The steps that lock and unlock: no pointer changes.                     *)
Steady == Slots' = Slots /\ \A x \in Slots : mem'[x].child = mem[x].child

(* A step that changes only a version word leaves the tree steady.           *)
LEMMA WordsOnly ==
  ASSUME MemOK
  PROVE  /\ UNCHANGED mem => Steady
         /\ \A s \in Slots, n \in Nat : AddToWord(s, n) => Steady
<1>1. UNCHANGED mem => Steady
  BY DEF Steady, Slots
<1>2. ASSUME NEW s \in Slots, NEW n \in Nat, AddToWord(s, n) PROVE Steady
  <2>1. Len(mem') = Len(mem) /\ mem'[s].child = mem[s].child /\ \A x \in Slots : x # s => mem'[x] = mem[x]
    BY <1>2, WordAdded
  <2> QED
    BY <2>1 DEF Steady, Slots
<1> QED
  BY <1>1, <1>2

SplitsNode == {"splitParent", "splitNode", "splitBuild"}

(* A call goes on with what it knows.                                      *)
LEMMA GoesOn ==
  ASSUME NEW t \in Threads, NEW M, NEW N, Turns(t, M, N), UNCHANGED <<todo, load>>, Steady,
         M.pc \in Changing, NEW C, NEW P, Charted(C, P),
         NEW changes, Changed(N, M, changes), DOMAIN changes \subseteq {"pc", "claim"},
         N.pc \in Changing,
         N.pc \in AtChild => M.pc \in AtChild, N.pc \in SplitsNode => M.pc \in SplitsNode,
         N.pc \in {"put", "growBuild"} => NoChild(M),
         N.pc # "putInsert", N.pc \in Unsure => M.pc \in Unsure,
         N.pc \in Preparing => M.pc \in {"leafObsolete", "leafMark"} /\ N.pc \in {"leafMark", "leafLink"},
         N.pc \in Linked <=> M.pc \in Linked
  PROVE  Charted(C, P)'
<1>1. TInv /\ LInv /\ M = loc[t] /\ Moving(t, M, N) /\ Writes(M, N)
  BY DEF Turns, Moving, Careful
<1>2. /\ M.pc \in Inserting
      /\ M.pc \notin {"insert", "hit", "childCheck", "anyCheck", "prefix", "done"} \cup Seeking
      /\ N.pc \notin {"insert", "hit", "childCheck", "anyCheck", "prefix", "done", "idle"} \cup Seeking
  BY DEF Changing, Inserting, Descending, Putting, Replacing, Growing, Splitting, LeafSplitting, Seeking
<1>3. /\ InsertKnows(C, P, M) /\ WayKnown(C, M) /\ ChildKnown(M) /\ HeldBy(M) \subseteq P \cup {Nil}
      /\ M.op = "insert" /\ Calls(M) /\ Here(M)
  BY <1>1, <1>2, InsertingCall
<1>4. /\ N.op = "insert" /\ N.key = M.key /\ N.node = M.node /\ N.next = M.next /\ N.parent = M.parent
      /\ N.cursor = M.cursor /\ N.any = M.any /\ N.level = M.level /\ N.byte = M.byte /\ N.v = M.v
      /\ N.matched = M.matched /\ N.miss = M.miss /\ N.rest = M.rest /\ N.fresh = M.fresh
  BY <1>3 DEF Changed, Fields
<1>5. HeldBy(N) \subseteq P \cup {Nil}
  BY <1>2, <1>3, <1>4 DEF HeldBy
<1>6. WayKnown(C, N)
  <2>1. SplitKnown(C, N) <=> SplitKnown(C, M)
    BY <1>4 DEF SplitKnown
  <2> QED
    BY <1>2, <1>3, <1>4, <2>1 DEF WayKnown, SplitsNode
<1>7. ChildKnown(N) /\ ChildKnown(N)'
  <2>1. mem'[M.node].child = mem[M.node].child
    BY <1>3 DEF Steady, Here, Versioned
  <2>2. /\ NoChild(N) <=> NoChild(M)
        /\ NoChild(N)' <=> NoChild(M)
    BY <1>4, <2>1 DEF NoChild, ChildOf
  <2>3. Word(M.node)' = M.v => Word(M.node) = M.v
    BY <1>1, <1>3, Vouched DEF Here
  <2>4. N.pc \in Unsure /\ Word(M.node) = M.v => NoChild(M)
    BY <1>3 DEF ChildKnown
  <2>5. N.pc \in {"put", "putInsert", "growBuild"} => NoChild(M)
    OBVIOUS
  <2>6. N.pc # "childCheck"
    BY <1>2
  <2> QED
    BY <1>4, <2>2, <2>3, <2>4, <2>5, <2>6 DEF ChildKnown
<1>8. N.pc \in Preparing => /\ M.pc \in Preparing \ {"putInsert"} /\ Old(N) = Old(M) /\ Batch(N) = Batch(M)
                            /\ Ready(C, P, N)
  <2> SUFFICES ASSUME N.pc \in Preparing
               PROVE  /\ M.pc \in Preparing \ {"putInsert"} /\ Old(N) = Old(M) /\ Batch(N) = Batch(M)
                      /\ Ready(C, P, N)
    OBVIOUS
  <2>1. M.pc \in {"leafObsolete", "leafMark"} /\ N.pc \in {"leafMark", "leafLink"}
    OBVIOUS
  <2>2. M.pc \in Preparing \ {"putInsert"} /\ Old(N) = Old(M) /\ Batch(N) = Batch(M) /\ N.pc # "putInsert"
    BY <1>4, <2>1 DEF Preparing, Old, Batch
  <2>3. Ready(C, P, M)
    BY <1>3, <2>2 DEF InsertKnows
  <2> QED
    BY <1>4, <2>2, <2>3 DEF Ready
<1>9. CallKnows(C, P, N)
  BY <1>3, <1>4, <1>5, <1>6, <1>7, <1>8 DEF CallKnows, InsertKnows
<1>10. Batch(N) \subseteq Batch(M)
  <2>1. N.pc \notin Preparing => Batch(N) = {}
    BY DEF Batch, Preparing
  <2> QED
    BY <1>8, <2>1
<1>11. N # Idle /\ (Landed(M) => Landed(N))
  BY <1>2 DEF Idle, Landed
<1>12. Slots' = Slots /\ \A x \in Slots : mem'[x].child = mem[x].child
  BY DEF Steady
<1> QED
  BY <1>2, <1>3, <1>4, <1>7, <1>8, <1>9, <1>10, <1>11, <1>12, Steadily

(* A call returns, or begins anew.                                         *)
LEMMA GoesBack ==
  ASSUME NEW t \in Threads, NEW M, NEW N, Turns(t, M, N), UNCHANGED <<todo, load>>, Steady,
         M.pc \in Changing, NEW C, NEW P, Charted(C, P),
         \/ M.pc \notin Linked /\ N = Start(M)
         \/ \E result : Return(t, result)
  PROVE  Charted(C, P)'
<1>1. TInv /\ LInv /\ M = loc[t] /\ Moving(t, M, N)
  BY DEF Turns, Moving
<1>2. M.pc \in Inserting /\ M.pc # "done"
  BY DEF Changing, Inserting, Putting, Replacing, Growing, Splitting, LeafSplitting
<1>3. M.op = "insert" /\ Calls(M)
  BY <1>1, <1>2, InsertingCall
<1>4. Slots' = Slots /\ \A x \in Slots : mem'[x].child = mem[x].child
  BY DEF Steady
<1>5. CASE M.pc \notin Linked /\ N = Start(M)
  <2>1. /\ CallKnows(C, P, N) /\ Batch(N) = {} /\ N.pc \notin Preparing
        /\ N.op = M.op /\ N.key = M.key /\ N # Idle /\ N.pc = "insert"
    BY <1>3, <1>5, StartKnows DEF Start
  <2>2. ChildKnown(N)'
    BY <2>1 DEF ChildKnown, Unsure
  <2> QED
    BY <1>2, <1>3, <1>4, <1>5, <2>1, <2>2, Steadily DEF Landed
<1>6. CASE \E result : Return(t, result)
  <2>1. /\ N.pc = "done" /\ N.op = M.op /\ N.key = M.key /\ N # Idle /\ ~Calls(N)
    BY <1>1, <1>6, ReturnsAs
  <2>2. N.pc \notin Preparing /\ Batch(N) = {} /\ Landed(N)
    BY <2>1 DEF Preparing, Batch, Landed
  <2> QED
    BY <1>3, <1>4, <2>1, <2>2, Steadily
<1> QED
  BY <1>5, <1>6

(* The forms a lock step has: a lock taken on a word that is still the one   *)
(* read, a restart, or the way back.                                         *)
LEMMA LockForms ==
  ASSUME NEW t, NEW M, M = loc[t], LockStep(t)
  PROVE  \E s : \E changes :
            /\ DOMAIN changes \subseteq {"pc", "claim"} /\ "pc" \in DOMAIN changes
            /\ \/ /\ AddToWord(s, 2) /\ Go(t, changes) /\ LocksFor(M, changes.pc, s)
                  /\ M.pc \in {"lockNode", "growNode"} => Word(M.node) = M.v
               \/ /\ UNCHANGED mem
                  /\ \/ Restart(t)
                     \/ Go(t, changes) /\ changes.pc = "undo" /\ M.pc \in {"growNode", "splitNode"}
<1> DEFINE Form(s, changes) ==
             /\ DOMAIN changes \subseteq {"pc", "claim"} /\ "pc" \in DOMAIN changes
             /\ \/ /\ AddToWord(s, 2) /\ Go(t, changes) /\ LocksFor(M, changes.pc, s)
                   /\ M.pc \in {"lockNode", "growNode"} => Word(M.node) = M.v
                \/ /\ UNCHANGED mem
                   /\ \/ Restart(t)
                      \/ Go(t, changes) /\ changes.pc = "undo" /\ M.pc \in {"growNode", "splitNode"}
<1>1. CASE UNCHANGED mem /\ Restart(t)
  <2>1. Form(Root, [pc |-> "undo"])
    BY <1>1
  <2> HIDE DEF Form
  <2> QED
    BY <2>1 DEF Form
<1>2. CASE UNCHANGED mem /\ Go(t, [pc |-> "undo"]) /\ M.pc \in {"growNode", "splitNode"}
  <2>1. Form(Root, [pc |-> "undo"])
    BY <1>2
  <2> HIDE DEF Form
  <2> QED
    BY <2>1 DEF Form
<1>3. ASSUME NEW s, NEW to, AddToWord(s, 2), LocksFor(M, to, s),
             M.pc \in {"lockNode", "growNode"} => Word(M.node) = M.v,
             Go(t, [pc |-> to]) \/ Go(t, [pc |-> to, claim |-> Running])
      PROVE  \E changes : Form(s, changes)
  <2>1. Form(s, [pc |-> to]) \/ Form(s, [pc |-> to, claim |-> Running])
    BY <1>3
  <2> HIDE DEF Form
  <2> QED
    BY <2>1
<1>4. CASE PutLock(t)
  <2>1. M.pc = "lockNode" /\ Upgrade(t, M.node, M.v, [pc |-> "put"], Restart(t))
    BY <1>4 DEF PutLock
  <2>2. LocksFor(M, "put", M.node)
    BY <2>1 DEF LocksFor
  <2> HIDE DEF Form
  <2>3. CASE Word(M.node) = M.v
    BY <1>3, <2>1, <2>2, <2>3 DEF Upgrade, Form
  <2>4. CASE Word(M.node) # M.v
    BY <1>1, <2>1, <2>4 DEF Upgrade, Form
  <2> QED
    BY <2>3, <2>4
<1>5. CASE LeafLockNode(t)
  <2>1. M.pc = "leafLockNode" /\ Upgrade(t, M.node, M.v, [pc |-> "leafWrite", claim |-> Running], Restart(t))
    BY <1>5 DEF LeafLockNode
  <2>2. LocksFor(M, "leafWrite", M.node)
    BY <2>1 DEF LocksFor
  <2> HIDE DEF Form
  <2>3. CASE Word(M.node) = M.v
    BY <1>3, <2>1, <2>2, <2>3 DEF Upgrade, Form
  <2>4. CASE Word(M.node) # M.v
    BY <1>1, <2>1, <2>4 DEF Upgrade, Form
  <2> QED
    BY <2>3, <2>4
<1>6. CASE LeafWriteLock(t)
  <2>1. M.pc = "leafWrite" /\ \/ AddToWord(M.next, 2) /\ Go(t, [pc |-> "leafBuild"])
                              \/ Restart(t) /\ UNCHANGED mem
    BY <1>6 DEF LeafWriteLock
  <2>2. LocksFor(M, "leafBuild", M.next)
    BY <2>1 DEF LocksFor
  <2> HIDE DEF Form
  <2> QED
    BY <1>1, <1>3, <2>1, <2>2 DEF Form
<1>7. CASE LockParent(t, "growParent", "growNode") \/ LockParent(t, "splitParent", "splitNode")
  <2>1. PICK to \in {"growNode", "splitNode"} :
           /\ LocksFor(M, to, M.parent) /\ M.pc \in {"growParent", "splitParent"}
           /\ Upgrade(t, M.parent, M.pv, [pc |-> to, claim |-> Running], Restart(t))
    BY <1>7 DEF LockParent, LocksFor
  <2> HIDE DEF Form
  <2>2. CASE Word(M.parent) = M.pv
    BY <1>3, <2>1, <2>2 DEF Upgrade, Form
  <2>3. CASE Word(M.parent) # M.pv
    BY <1>1, <2>1, <2>3 DEF Upgrade, Form
  <2> QED
    BY <2>2, <2>3
<1>8. CASE LockNode(t, "growNode", "growBuild") \/ LockNode(t, "splitNode", "splitBuild")
  <2>1. PICK to \in {"growBuild", "splitBuild"} :
           /\ LocksFor(M, to, M.node) /\ M.pc \in {"growNode", "splitNode"}
           /\ Upgrade(t, M.node, M.v, [pc |-> to], Go(t, [pc |-> "undo"]))
    BY <1>8 DEF LockNode, LocksFor
  <2> HIDE DEF Form
  <2>2. CASE Word(M.node) = M.v
    BY <1>3, <2>1, <2>2 DEF Upgrade, Form
  <2>3. CASE Word(M.node) # M.v
    BY <1>2, <2>1, <2>3 DEF Upgrade, Form
  <2> QED
    BY <2>2, <2>3
<1> QED
  BY <1>4, <1>5, <1>6, <1>7, <1>8 DEF LockStep

(* A lock step keeps the chart.                                              *)
LEMMA LockCharted ==
  ASSUME NEW t \in Threads, NEW M, NEW N, Moving(t, M, N), LockStep(t), UNCHANGED <<todo, load>>,
         NEW C, NEW P, Charted(C, P)
  PROVE  Charted(C, P)'
<1>1. TInv /\ LInv /\ M = loc[t] /\ MemOK /\ Turns(t, M, N)
  BY LockingTurns DEF Moving, TInv, LockStep
<1>2. PICK s : \E changes :
            /\ DOMAIN changes \subseteq {"pc", "claim"} /\ "pc" \in DOMAIN changes
            /\ \/ /\ AddToWord(s, 2) /\ Go(t, changes) /\ LocksFor(M, changes.pc, s)
                  /\ M.pc \in {"lockNode", "growNode"} => Word(M.node) = M.v
               \/ /\ UNCHANGED mem
                  /\ \/ Restart(t)
                     \/ Go(t, changes) /\ changes.pc = "undo" /\ M.pc \in {"growNode", "splitNode"}
  BY <1>1, LockForms
<1>3. PICK changes :
            /\ DOMAIN changes \subseteq {"pc", "claim"} /\ "pc" \in DOMAIN changes
            /\ \/ /\ AddToWord(s, 2) /\ Go(t, changes) /\ LocksFor(M, changes.pc, s)
                  /\ M.pc \in {"lockNode", "growNode"} => Word(M.node) = M.v
               \/ /\ UNCHANGED mem
                  /\ \/ Restart(t)
                     \/ Go(t, changes) /\ changes.pc = "undo" /\ M.pc \in {"growNode", "splitNode"}
  BY <1>2
<1>4. /\ M.pc \in {"lockNode", "leafLockNode", "leafWrite", "growParent", "growNode", "splitParent",
                   "splitNode"}
      /\ M.pc \in Changing /\ M.pc \notin Linked
  <2>1. M.pc \in {"lockNode", "leafLockNode", "leafWrite", "growParent", "growNode", "splitParent",
                   "splitNode"}
    BY <1>1 DEF LockStep, PutLock, LeafLockNode, LeafWriteLock, LockParent, LockNode
  <2> QED
    BY <2>1 DEF Changing, Putting, Replacing, Growing, Splitting, LeafSplitting, Linked
<1>5. Calls(M) /\ M.node \in Slots /\ (M.pc \in Replacing => M.parent \in Slots)
      /\ (M.pc \in LeafSplitting => M.next \in Slots)
  BY <1>4, ChangingCall
<1>6. CASE UNCHANGED mem /\ Restart(t)
  <2>1. N = Start(M) /\ Steady
    BY <1>1, <1>5, <1>6, WordsOnly, Outcomes
  <2> QED
    BY <1>1, <1>4, <2>1, GoesBack
<1>7. ASSUME Go(t, changes) PROVE Changed(N, M, changes) /\ N.pc = changes.pc
  <2>1. DOMAIN changes \subseteq Fields
    BY <1>3 DEF Fields
  <2> QED
    BY <1>3, <1>5, <1>7, <2>1, Outcomes DEF Changed, Fields
<1>8. CASE UNCHANGED mem /\ Go(t, changes) /\ changes.pc = "undo" /\ M.pc \in {"growNode", "splitNode"}
  <2>1. Changed(N, M, changes) /\ N.pc = "undo" /\ Steady
    BY <1>1, <1>7, <1>8, WordsOnly
  <2>2. /\ "undo" \in Changing \ (AtChild \cup SplitsNode \cup Unsure \cup Preparing \cup Linked)
        /\ "undo" \notin {"put", "growBuild", "putInsert"}
    BY DEF Changing, Replacing, AtChild, SplitsNode, Unsure, Preparing, Linked
  <2> QED
    BY <1>1, <1>3, <1>4, <2>1, <2>2, GoesOn
<1>9. CASE /\ AddToWord(s, 2) /\ Go(t, changes) /\ LocksFor(M, changes.pc, s)
           /\ M.pc \in {"lockNode", "growNode"} => Word(M.node) = M.v
  <2>1. Changed(N, M, changes) /\ N.pc = changes.pc
    BY <1>7, <1>9
  <2>2. s \in Slots
    BY <1>5, <1>9 DEF LocksFor, Replacing, Growing, Splitting, LeafSplitting
  <2>3. Steady
    <3>1. 2 \in Nat
      OBVIOUS
    <3> QED
      BY <1>1, <1>9, <2>2, <3>1, WordsOnly
  <2>4. ChildKnown(M)
    <3>1. M.pc \in Inserting
      BY <1>4 DEF Changing, Inserting
    <3> QED
      BY <1>1, <3>1, InsertingCall
  <2>5. N.pc \in {"put", "growBuild"} => NoChild(M)
    BY <1>9, <2>1, <2>4 DEF LocksFor, ChildKnown, Unsure
  <2>6. /\ N.pc \in Changing
        /\ N.pc \in AtChild => M.pc \in AtChild
        /\ N.pc \in SplitsNode => M.pc \in SplitsNode
        /\ N.pc # "putInsert" /\ (N.pc \in Unsure => M.pc \in Unsure)
        /\ N.pc \notin Preparing /\ N.pc \notin Linked
    BY <1>9, <2>1 DEF LocksFor, Changing, Putting, Replacing, Growing, Splitting, LeafSplitting, AtChild,
                      SplitsNode, Unsure, Preparing, Linked
  <2> QED
    BY <1>1, <1>3, <1>4, <2>1, <2>3, <2>5, <2>6, GoesOn
<1> QED
  BY <1>3, <1>6, <1>8, <1>9

(* An unlock keeps the chart.                                                *)
LEMMA UnlockCharted ==
  ASSUME NEW t \in Threads, NEW M, NEW N, Moving(t, M, N), UnlockStep(t), UNCHANGED <<todo, load>>,
         NEW C, NEW P, Charted(C, P)
  PROVE  Charted(C, P)'
<1>1. TInv /\ LInv /\ M = loc[t] /\ MemOK /\ Turns(t, M, N)
  BY UnlockingTurns DEF Moving, TInv, UnlockStep
<1>2. /\ M.pc \in {"unlock", "undo", "growUnlock", "splitUnlock", "growObsolete", "splitObsolete",
                   "leafObsolete"}
      /\ M.pc \in Changing
  <2>1. M.pc \in {"unlock", "undo", "growUnlock", "splitUnlock", "growObsolete", "splitObsolete",
                   "leafObsolete"}
    BY <1>1 DEF UnlockStep, Unlock, Undo, GrowUnlock, SplitUnlock, GrowObsolete, SplitObsolete, LeafObsolete
  <2> QED
    BY <2>1 DEF Changing, Putting, Replacing, Growing, Splitting, LeafSplitting
<1>3. Calls(M) /\ M.node \in Slots /\ (M.pc \in Replacing => M.parent \in Slots)
      /\ (M.pc \in LeafSplitting => M.next \in Slots)
  BY <1>2, ChangingCall
<1>4. PICK s \in {M.node, M.parent, M.next}, n \in {2, 3} : AddToWord(s, n) /\ s \in Slots
  BY <1>1, <1>3 DEF UnlockStep, Unlock, Undo, GrowUnlock, SplitUnlock, GrowObsolete, SplitObsolete,
                    LeafObsolete, writeUnlock, writeUnlockObsolete, Replacing, Growing, Splitting,
                    LeafSplitting
<1>5. Steady
  <2>1. n \in Nat
    OBVIOUS
  <2> QED
    BY <1>1, <1>4, <2>1, WordsOnly
<1>6. CASE Unlock(t) \/ GrowUnlock(t)
  <2>1. Return(t, "inserted")
    BY <1>6 DEF Unlock, GrowUnlock
  <2> QED
    BY <1>1, <1>2, <1>5, <2>1, GoesBack
<1>7. CASE Undo(t)
  <2>1. Restart(t) /\ M.pc = "undo"
    BY <1>1, <1>7 DEF Undo
  <2>2. N = Start(M) /\ M.pc \notin Linked
    BY <1>3, <2>1, Outcomes DEF Linked
  <2> QED
    BY <1>1, <1>2, <1>5, <2>2, GoesBack
<1>8. CASE SplitUnlock(t) \/ GrowObsolete(t) \/ SplitObsolete(t) \/ LeafObsolete(t)
  <2>1. PICK to : /\ Go(t, [pc |-> to])
                  /\ \/ M.pc = "splitUnlock" /\ to = "splitObsolete"
                     \/ M.pc = "growObsolete" /\ to = "growMark"
                     \/ M.pc = "splitObsolete" /\ to = "splitMark"
                     \/ M.pc = "leafObsolete" /\ to = "leafMark"
    BY <1>1, <1>8 DEF SplitUnlock, GrowObsolete, SplitObsolete, LeafObsolete
  <2> DEFINE changes == [pc |-> to]
  <2>2. Go(t, changes) /\ DOMAIN changes \subseteq {"pc", "claim"} /\ DOMAIN changes \subseteq Fields
        /\ "pc" \in DOMAIN changes /\ changes.pc = to
    BY <2>1 DEF Fields
  <2> HIDE DEF changes
  <2>3. Changed(N, M, changes)
    BY <1>3, <2>2, Outcomes
  <2>4. N.pc = to
    BY <2>2, <2>3 DEF Changed, Fields
  <2>5. /\ to \in Changing
        /\ to \in AtChild => M.pc \in AtChild
        /\ to \notin SplitsNode \cup {"put", "growBuild", "putInsert"} \cup Unsure
        /\ to \in Preparing => M.pc \in {"leafObsolete", "leafMark"} /\ to \in {"leafMark", "leafLink"}
        /\ to \in Linked <=> M.pc \in Linked
    BY <2>1 DEF Changing, Replacing, Growing, Splitting, LeafSplitting, AtChild, SplitsNode, Unsure,
                Preparing, Linked
  <2> QED
    BY <1>1, <1>2, <1>5, <2>2, <2>3, <2>4, <2>5, GoesOn
<1> QED
  BY <1>6, <1>7, <1>8 DEF UnlockStep

(* Marking a replaced node obsolete and unlocking it keeps the chart.        *)
LEMMA MarkCharted ==
  ASSUME NEW t \in Threads, NEW M, NEW N, Moving(t, M, N), MarkStep(t), UNCHANGED <<todo, load>>,
         NEW C, NEW P, Charted(C, P)
  PROVE  Charted(C, P)'
<1>1. TInv /\ LInv /\ M = loc[t] /\ MemOK /\ Turns(t, M, N)
  BY HandingTurns DEF Moving, TInv, MarkStep
<1>2. /\ M.pc \in {"growMark", "splitMark", "leafMark"}
      /\ M.pc \in Changing
  <2>1. M.pc \in {"growMark", "splitMark", "leafMark"}
    BY <1>1 DEF MarkStep, GrowMark, SplitMark, LeafMark
  <2> QED
    BY <2>1 DEF Changing, Putting, Replacing, Growing, Splitting, LeafSplitting
<1>3. Calls(M)
  BY <1>2, ChangingCall
<1>4. Steady
  BY <1>1, WordsOnly DEF MarkStep, GrowMark, SplitMark, LeafMark
<1>5. CASE SplitMark(t)
  <2>1. Return(t, "inserted")
    BY <1>5 DEF SplitMark
  <2> QED
    BY <1>1, <1>2, <1>4, <2>1, GoesBack
<1>6. CASE GrowMark(t) \/ LeafMark(t)
  <2>1. PICK to : /\ Go(t, [pc |-> to])
                  /\ \/ M.pc = "growMark" /\ to = "growUnlock"
                     \/ M.pc = "leafMark" /\ to = "leafLink"
    BY <1>1, <1>6 DEF GrowMark, LeafMark
  <2> DEFINE changes == [pc |-> to]
  <2>2. Go(t, changes) /\ DOMAIN changes \subseteq {"pc", "claim"} /\ DOMAIN changes \subseteq Fields
        /\ "pc" \in DOMAIN changes /\ changes.pc = to
    BY <2>1 DEF Fields
  <2> HIDE DEF changes
  <2>3. Changed(N, M, changes)
    BY <1>3, <2>2, Outcomes
  <2>4. N.pc = to
    BY <2>2, <2>3 DEF Changed, Fields
  <2>5. /\ to \in Changing
        /\ to \in AtChild => M.pc \in AtChild
        /\ to \notin SplitsNode \cup {"put", "growBuild", "putInsert"} \cup Unsure
        /\ to \in Preparing => M.pc \in {"leafObsolete", "leafMark"} /\ to \in {"leafMark", "leafLink"}
        /\ to \in Linked <=> M.pc \in Linked
    BY <2>1 DEF Changing, Replacing, Growing, Splitting, LeafSplitting, AtChild, SplitsNode, Unsure,
                Preparing, Linked
  <2> QED
    BY <1>1, <1>2, <1>4, <2>2, <2>3, <2>4, <2>5, GoesOn
<1> QED
  BY <1>5, <1>6 DEF MarkStep
-----------------------------------------------------------------------------
(* The steps that allocate.                                                *)
(* Nobody has linked a leaf for the key of a call that has not done so.    *)
LEMMA KeyComing ==
  ASSUME TInv, NEW C, NEW P, Charted(C, P), NEW t \in Threads, NEW M, M = loc[t],
         Calls(M), M.op = "insert", ~Landed(M)
  PROVE  Absent(P, M.key)
<1>1. M # Idle /\ QueueOK
  BY DEF Calls, Idle, TInv
<1>2. First(t, M) /\ M.key \in AllKeys
  BY <1>1 DEF Charted, KeysOK
<1>3. Coming(M.key)
  <2>1. CASE load # <<>>
    <3>1. Loads(1, M.key)
      BY <1>2, <2>1 DEF First
    <3>2. t = Loader
      BY <1>1, <2>1 DEF QueueOK, Due
    <3> QED
      BY <3>1, <3>2 DEF Coming
  <2>2. CASE load = <<>>
    <3>1. Inserts(t, 1, M.key)
      BY <1>2, <2>2 DEF First, Inserts
    <3> QED
      BY <2>2, <3>1 DEF Coming
  <2> QED
    BY <2>1, <2>2
<1> QED
  BY <1>2, <1>3 DEF Charted, KeysOK

(* The new slots have the fields that were asked for; if there was room for *)
(* all of them, also their children.                                       *)
SameNode(n, m) ==
  /\ n.kind = m.kind /\ n.id = m.id /\ n.prefix = m.prefix /\ n.plen = m.plen /\ n.value = m.value
  /\ n.hash = m.hash

(* What an allocation adds: old slots as they were, new slots holding the    *)
(* new nodes, or fewer of them and the answer "refused".                     *)
LEMMA NewParts ==
  ASSUME MemOK, NEW t, NEW new, IsSeq(new), \A i \in 1..Len(new) : DOMAIN new[i] = NodeFields,
         NEW changes, Allocate(t, new, changes)
  PROVE  /\ Slots \subseteq Slots' /\ Len(mem) \in Nat /\ Len(mem') \in Nat
         /\ \A s \in Slots : mem'[s] = mem[s]
         /\ \A s \in Slots' \ Slots :
               \E i \in 1..Len(new) : s = Len(mem) + i /\ SameNode(mem'[s], new[i])
         /\ \/ /\ Go(t, changes)
               /\ \A i \in 1..Len(new) : Len(mem) + i \in Slots' \ Slots /\ mem'[Len(mem) + i] = new[i]
            \/ Return(t, "refused")
<1>1. /\ IsSeq(mem') /\ \A s \in Slots : mem'[s] = mem[s]
      /\ \/ /\ Len(mem') = Len(mem) + Len(new) /\ Go(t, changes)
            /\ \A i \in 1..Len(new) : mem'[Len(mem) + i] = new[i]
         \/ \E k \in 0..Len(new) - 1 :
               /\ Len(mem') = Len(mem) + k /\ Return(t, "refused")
               /\ \A i \in 1..k : mem'[Len(mem) + i] = Unlinked(new[i])
  BY Allocated
<1>2. Len(mem) \in Nat /\ Len(mem') \in Nat /\ Len(new) \in Nat
  BY <1>1, Sequence DEF MemOK
<1>3. ASSUME NEW i \in 1..Len(new) PROVE SameNode(Unlinked(new[i]), new[i]) /\ SameNode(new[i], new[i])
  BY DEF SameNode, Unlinked, NodeFields
<1>4. CASE /\ Len(mem') = Len(mem) + Len(new) /\ Go(t, changes)
           /\ \A i \in 1..Len(new) : mem'[Len(mem) + i] = new[i]
  <2>1. Slots \subseteq Slots'
    BY <1>2, <1>4 DEF Slots
  <2>2. ASSUME NEW s \in Slots' \ Slots
        PROVE  \E i \in 1..Len(new) : s = Len(mem) + i /\ SameNode(mem'[s], new[i])
    <3>1. s - Len(mem) \in 1..Len(new) /\ s = Len(mem) + (s - Len(mem))
      BY <1>2, <1>4 DEF Slots
    <3> QED
      BY <1>3, <1>4, <3>1
  <2>3. \A i \in 1..Len(new) : Len(mem) + i \in Slots' \ Slots
    BY <1>2, <1>4 DEF Slots
  <2> QED
    BY <1>1, <1>2, <1>4, <2>1, <2>2, <2>3
<1>5. CASE \E k \in 0..Len(new) - 1 :
              /\ Len(mem') = Len(mem) + k /\ Return(t, "refused")
              /\ \A i \in 1..k : mem'[Len(mem) + i] = Unlinked(new[i])
  <2>1. PICK k \in 0..Len(new) - 1 :
              /\ Len(mem') = Len(mem) + k /\ Return(t, "refused")
              /\ \A i \in 1..k : mem'[Len(mem) + i] = Unlinked(new[i])
    BY <1>5
  <2>2. Slots \subseteq Slots'
    BY <1>2, <2>1 DEF Slots
  <2>3. ASSUME NEW s \in Slots' \ Slots
        PROVE  \E i \in 1..Len(new) : s = Len(mem) + i /\ SameNode(mem'[s], new[i])
    <3>1. s - Len(mem) \in 1..k /\ s - Len(mem) \in 1..Len(new) /\ s = Len(mem) + (s - Len(mem))
      BY <1>2, <2>1 DEF Slots
    <3> QED
      BY <1>3, <2>1, <3>1
  <2> QED
    BY <1>1, <1>2, <2>1, <2>2, <2>3
<1> QED
  BY <1>1, <1>4, <1>5

(* What there is to show of a slot with the hashes of id h and byte b.     *)
LeafPlaced(D, s, h, b) ==
  /\ mem[s].value \in AllKeys /\ Passes(D, h, mem[s].value) /\ mem[s].value[D.far[h] + 1] = b
InnerPlaced(D, s, h, b, l, i, w) ==
  /\ mem[s].id = i /\ D.way[i] = w /\ l = D.far[h] + 1
  /\ mem[s].plen \in Nat /\ D.far[i] = l + mem[s].plen
  /\ w \in AllKeys /\ D.far[i] < Len(w) /\ Passes(D, h, w) /\ w[l] = b
  /\ IsSeq(mem[s].prefix) /\ Len(mem[s].prefix) = Stored(mem[s])
  /\ \A j \in 1..Len(mem[s].prefix) : mem[s].prefix[j] = w[l + j]

(* A slot placed under a node it names in its hash fits the chart.           *)
LEMMA FitsAs ==
  \A D, s, h, b :
     s \in Slots /\ s # Root /\ mem[s].hash = <<h, b>> /\ h \in Ids =>
        /\ IsLeaf(s) /\ LeafPlaced(D, s, h, b) => Fits(D, s)
        /\ \A l, i, w : Inner(s) /\ InnerPlaced(D, s, h, b, l, i, w) => Fits(D, s)
<1> SUFFICES ASSUME NEW D, NEW s \in Slots, NEW h \in Ids, NEW b, s # Root, mem[s].hash = <<h, b>>
             PROVE  /\ IsLeaf(s) /\ LeafPlaced(D, s, h, b) => Fits(D, s)
                    /\ \A l, i, w : Inner(s) /\ InnerPlaced(D, s, h, b, l, i, w) => Fits(D, s)
  OBVIOUS
<1>1. mem[s].hash[1] = h /\ mem[s].hash[2] = b
  OBVIOUS
<1>2. LevelOf(D, s) = D.far[h] + 1 /\ \A k : Enters(D, s, k) <=> Passes(D, h, k) /\ k[D.far[h] + 1] = b
  BY <1>1 DEF LevelOf, Enters
<1>3. ASSUME IsLeaf(s), LeafPlaced(D, s, h, b) PROVE Fits(D, s)
  <2>1. ~Inner(s)
    BY <1>3, KindsOf
  <2> QED
    BY <1>1, <1>2, <1>3, <2>1 DEF Fits, LeafFits, LeafPlaced
<1>4. ASSUME NEW l, NEW i, NEW w, Inner(s), InnerPlaced(D, s, h, b, l, i, w) PROVE Fits(D, s)
  <2>1. ~IsLeaf(s)
    BY <1>4, KindsOf
  <2>2. InnerFits(D, s)
    BY <1>2, <1>4 DEF InnerFits, InnerPlaced, Id
  <2> QED
    BY <1>1, <2>1, <2>2 DEF Fits
<1> QED
  BY <1>3, <1>4

(* FitsAs, of the state after the step.                                      *)
LEMMA FitsAsNext ==
  (\A D, s, h, b :
     s \in Slots /\ s # Root /\ mem[s].hash = <<h, b>> /\ h \in Ids =>
        /\ IsLeaf(s) /\ LeafPlaced(D, s, h, b) => Fits(D, s)
        /\ \A l, i, w : Inner(s) /\ InnerPlaced(D, s, h, b, l, i, w) => Fits(D, s))'
BY FitsAs, PTL

(* What a call has built is ready to be linked.                            *)
LEMMA LeafAlone ==
  ASSUME SlotsOK, NEW s, IsLeaf(s), NEW C, NEW k, mem[s].value = k
  PROVE  Finds(C, s, k) /\ ~Inner(s) /\ DOMAIN mem[s].child = {}
<1>1. s \in Slots /\ ~Inner(s) /\ DOMAIN mem[s].child = {}
  BY KindsOf DEF IsLeaf, SlotsOK
<1>2. Follows(C, s, {s}, k)
  BY <1>1 DEF Follows
<1> QED
  BY <1>1, <1>2 DEF Finds, Leads

PutMade(P, M) ==
  /\ M.pc = "putInsert" /\ M.key \in AllKeys
  /\ M.fresh \in Slots \ P /\ IsLeaf(M.fresh) /\ mem[M.fresh].value = M.key

(* A leaf made for a free place is ready to be linked there.                 *)
LEMMA PutReady ==
  \A D, P, M : Placed(D) /\ PutMade(P, M) => Ready(D, P, M)
<1> SUFFICES ASSUME NEW D, NEW P, NEW M, Placed(D), PutMade(P, M)
             PROVE  Ready(D, P, M)
  OBVIOUS
<1>1. /\ Batch(M) = {M.fresh} /\ M.pc = "putInsert" /\ M.key \in AllKeys
      /\ M.fresh \in Slots \ P /\ IsLeaf(M.fresh) /\ mem[M.fresh].value = M.key
  BY DEF PutMade, Batch
<1>2. Finds(D, M.fresh, M.key) /\ ~Inner(M.fresh) /\ DOMAIN mem[M.fresh].child = {}
  BY <1>1, LeafAlone DEF Placed
<1>3. Enters(D, M.fresh, M.key)
  BY <1>1 DEF Placed, Fits, LeafFits
<1> QED
  BY <1>1, <1>2, <1>3 DEF Ready

GrowMade(D, P, M) ==
  /\ M.pc = "growLink" /\ M.key \in AllKeys /\ M.node \in P /\ Inner(M.node) /\ NoChild(M)
  /\ Passes(D, Id(M.node), M.key) /\ M.byte = M.key[D.far[Id(M.node)] + 1]
  /\ {M.fresh, M.fresh + 1} \subseteq Slots \ P
  /\ Inner(M.fresh) /\ Id(M.fresh) = Id(M.node)
  /\ \A b : ChildOf(mem[M.fresh], b) = IF b = M.byte THEN M.fresh + 1 ELSE ChildOf(mem[M.node], b)
  /\ IsLeaf(M.fresh + 1) /\ mem[M.fresh + 1].value = M.key

(* A bigger copy and its new leaf are ready to replace the full node.        *)
LEMMA GrowReady ==
  \A D, P, M : Placed(D) /\ PublicOK(D, P) /\ GrowMade(D, P, M) => Ready(D, P, M)
<1> SUFFICES ASSUME NEW D, NEW P, NEW M, Placed(D), PublicOK(D, P), GrowMade(D, P, M)
             PROVE  Ready(D, P, M)
  OBVIOUS
<1> DEFINE f == M.fresh
           g == M.fresh + 1
           n == M.node
           i == Id(M.node)
<1>1. /\ Batch(M) = {f, g} /\ M.pc = "growLink" /\ M.key \in AllKeys /\ n \in P /\ Inner(n)
      /\ ChildOf(mem[n], M.byte) = Nil /\ Passes(D, i, M.key) /\ M.byte = M.key[D.far[i] + 1]
      /\ {f, g} \subseteq Slots \ P /\ Inner(f) /\ Id(f) = i /\ Id(n) = i
      /\ \A b : ChildOf(mem[f], b) = IF b = M.byte THEN g ELSE ChildOf(mem[n], b)
      /\ IsLeaf(g) /\ mem[g].value = M.key /\ Old(M) = n
  BY DEF GrowMade, Batch, NoChild, Old
<1> HIDE DEF f, g, n, i
<1>2. Finds(D, g, M.key) /\ ~Inner(g) /\ DOMAIN mem[g].child = {} /\ ~IsLeaf(f)
  BY <1>1, LeafAlone, KindsOf DEF Placed
<1>3. \A b \in DOMAIN mem[f].child : mem[f].child[b] \in P \cup {f, g} \cup {Nil}
  <2> SUFFICES ASSUME NEW b \in DOMAIN mem[f].child PROVE mem[f].child[b] \in P \cup {f, g} \cup {Nil}
    OBVIOUS
  <2>1. mem[f].child[b] = ChildOf(mem[f], b)
    BY DEF ChildOf
  <2>2. ChildOf(mem[n], b) \in P \cup {Nil}
    BY <1>1 DEF PublicOK, ChildOf
  <2> QED
    BY <1>1, <2>1, <2>2
<1>4. Enters(D, f, M.key)
  BY <1>1, PassesEnters
<1>5. Finds(D, f, M.key)
  <2>1. ToChild(D, f, M.key) = g
    BY <1>1 DEF ToChild
  <2>2. Leads(D, f, M.key, {f})
    BY LeadsHere
  <2> QED
    BY <1>1, <1>2, <2>1, <2>2, LeadsOn DEF Finds
<1>6. \A k : Leads(D, f, k, {f})
  BY LeadsHere
<1>7. Replaces(D, n, f, {f, g})
  <2>1. ASSUME NEW k \in AllKeys, NEW T, n \in T, Nil \notin T, Follows(D, n, T, k)
        PROVE  Follows(D, f, T \cup {f}, k)
    <3>1. Passes(D, i, k) /\ ToChild(D, n, k) \in T
      BY <1>1, <2>1 DEF Follows
    <3>2. ToChild(D, n, k) = ChildOf(mem[n], k[D.far[i] + 1])
      BY <1>1 DEF ToChild
    <3>3. k[D.far[i] + 1] # M.byte
      BY <1>1, <2>1, <3>1, <3>2
    <3>4. ToChild(D, f, k) = ToChild(D, n, k)
      BY <1>1, <3>2, <3>3 DEF ToChild
    <3> QED
      BY <1>1, <1>2, <3>1, <3>4 DEF Follows
  <2>2. {f} \in SUBSET {f, g} /\ f \in {f}
    OBVIOUS
  <2>3. \A k \in AllKeys : \A T :
           n \in T /\ Nil \notin T /\ Follows(D, n, T, k) => \A y \in {f} : Follows(D, y, T \cup {f}, k)
    BY <2>1
  <2> QED
    BY <2>2, <2>3 DEF Replaces
<1>8. f = M.fresh
  BY DEF f
<1> QED
  BY <1>1, <1>2, <1>3, <1>4, <1>5, <1>6, <1>7, <1>8 DEF Ready

(* A new node with the new leaf under one byte and under another what was  *)
(* there before.                                                           *)
Forked(f, mine, other) ==
  /\ mine # other /\ Inner(f)
  /\ \A b : ChildOf(mem[f], b) = IF b = mine THEN f + 1 ELSE IF b = other THEN f + 2 ELSE Nil
Pronged(P, M) ==
  /\ M.key \in AllKeys /\ {M.fresh, M.fresh + 1, M.fresh + 2} \subseteq Slots \ P
  /\ IsLeaf(M.fresh + 1) /\ mem[M.fresh + 1].value = M.key
  /\ \E mine, other : Forked(M.fresh, mine, other)

(* Below a fork: its two children, each reached by exactly the keys that     *)
(* enter it.                                                                 *)
LEMMA Prongs ==
  ASSUME NEW D, Placed(D), NEW f, NEW mine, NEW other, Forked(f, mine, other),
         {f, f + 1, f + 2} \subseteq Slots
  PROVE  /\ \A b \in DOMAIN mem[f].child : mem[f].child[b] \in {f + 1, f + 2} \cup {Nil}
         /\ \A y \in {f + 1, f + 2} : \A k \in AllKeys : Enters(D, y, k) =>
               /\ Passes(D, Id(f), k) /\ ToChild(D, f, k) = y /\ Enters(D, f, k)
               /\ Leads(D, f, k, {y})
<1>1. ASSUME NEW b \in DOMAIN mem[f].child
      PROVE  mem[f].child[b] \in {f + 1, f + 2} \cup {Nil}
  <2>1. mem[f].child[b] = ChildOf(mem[f], b)
    BY DEF ChildOf
  <2> QED
    BY <2>1 DEF Forked
<1>2. ASSUME NEW y \in {f + 1, f + 2}, NEW k \in AllKeys, Enters(D, y, k)
      PROVE  /\ Passes(D, Id(f), k) /\ ToChild(D, f, k) = y /\ Enters(D, f, k)
             /\ Leads(D, f, k, {y})
  <2>1. PICK b : ChildOf(mem[f], b) = y
    BY <1>2 DEF Forked
  <2>2. Inner(f) /\ f \in Slots /\ y # Nil
    BY <1>2, NoSlots DEF Forked
  <2>3. Under(y, f, b)
    BY <2>1, <2>2, ChildUnder
  <2>4. Passes(D, Id(f), k) /\ k[D.far[Id(f)] + 1] = b
    BY <1>2, <2>2, <2>3, ChildEnters
  <2>5. ToChild(D, f, k) = y
    BY <2>1, <2>4 DEF ToChild
  <2>6. Leads(D, f, k, {f}) /\ Leads(D, y, k, {y})
    BY LeadsHere
  <2>7. Leads(D, f, k, {y})
    BY <2>2, <2>4, <2>5, <2>6, LeadsOn
  <2>8. Enters(D, f, k)
    BY <2>2, <2>4, PassesEnters
  <2> QED
    BY <2>4, <2>5, <2>7, <2>8
<1> QED
  BY <1>1, <1>2

(* What is left to show is that the other prong replaces what was there.   *)
LEMMA ProngsReady ==
  ASSUME NEW D, NEW P, NEW M, Placed(D), PublicOK(D, P), Pronged(P, M),
         M.pc \in Preparing \ {"putInsert", "growLink"},
         \A b \in DOMAIN mem[M.fresh + 2].child : mem[M.fresh + 2].child[b] \in P \cup {Nil},
         \A k \in AllKeys :
            IsLeaf(M.fresh + 2) /\ mem[M.fresh + 2].value = k => Finds(D, Root, k),
         \A k \in AllKeys : \A T : Follows(D, Old(M), T, k) =>
            Enters(D, M.fresh + 2, k) /\ Follows(D, M.fresh + 2, T, k)
  PROVE  Ready(D, P, M)
<1> DEFINE f == M.fresh
           g == M.fresh + 1
           h == M.fresh + 2
           B == {f, g, h}
<1>1. /\ Batch(M) = B /\ M.key \in AllKeys /\ B \subseteq Slots \ P /\ IsLeaf(g) /\ mem[g].value = M.key
  BY DEF Pronged, Batch, Preparing
<1>2. PICK mine, other : Forked(f, mine, other)
  BY DEF Pronged
<1>3. /\ \A b \in DOMAIN mem[f].child : mem[f].child[b] \in {g, h} \cup {Nil}
      /\ \A y \in {g, h} : \A k \in AllKeys : Enters(D, y, k) =>
            /\ Passes(D, Id(f), k) /\ ToChild(D, f, k) = y /\ Enters(D, f, k)
            /\ Leads(D, f, k, {y})
  <2>1. {f, f + 1, f + 2} \subseteq Slots
    BY <1>1
  <2> HIDE DEF f
  <2>2. /\ \A b \in DOMAIN mem[f].child : mem[f].child[b] \in {f + 1, f + 2} \cup {Nil}
        /\ \A y \in {f + 1, f + 2} : \A k \in AllKeys : Enters(D, y, k) =>
              /\ Passes(D, Id(f), k) /\ ToChild(D, f, k) = y /\ Enters(D, f, k)
              /\ Leads(D, f, k, {y})
    BY <1>2, <2>1, Prongs
  <2> QED
    BY <2>2 DEF f
<1>4. Inner(f) /\ ~IsLeaf(f) /\ ~Inner(g) /\ DOMAIN mem[g].child = {} /\ Finds(D, g, M.key)
  <2>1. Inner(f)
    BY <1>2 DEF Forked
  <2> QED
    BY <1>1, <2>1, LeafAlone, KindsOf DEF Placed
<1>5. Enters(D, g, M.key)
  BY <1>1 DEF Placed, Fits, LeafFits
<1>6. Enters(D, f, M.key) /\ Finds(D, f, M.key)
  <2>1. /\ Passes(D, Id(f), M.key) /\ ToChild(D, f, M.key) = g /\ Enters(D, f, M.key)
    BY <1>1, <1>3, <1>5
  <2>2. Leads(D, f, M.key, {f})
    BY LeadsHere
  <2> QED
    BY <1>4, <2>1, <2>2, LeadsOn DEF Finds
<1>7. \A b \in DOMAIN mem[h].child : mem[h].child[b] \in P \cup {Nil}
  OBVIOUS
<1>8. \A k \in AllKeys : IsLeaf(h) /\ mem[h].value = k => Finds(D, Root, k)
  OBVIOUS
<1>9. Replaces(D, Old(M), f, B)
  <2> DEFINE F == {f, h}
  <2>1. F \in SUBSET B /\ f \in F
    OBVIOUS
  <2>2. ASSUME NEW k \in AllKeys, NEW T, Follows(D, Old(M), T, k)
        PROVE  \A y \in F : Follows(D, y, T \cup F, k)
    <3>1. Enters(D, h, k) /\ Follows(D, h, T, k)
      BY <2>2
    <3>2. Follows(D, h, T \cup F, k)
      BY <3>1, FollowsMore
    <3>3. Passes(D, Id(f), k) /\ ToChild(D, f, k) = h
      BY <1>3, <3>1
    <3>4. Follows(D, f, T \cup F, k)
      BY <1>1, <1>4, <3>3 DEF Follows
    <3> QED
      BY <3>2, <3>4
  <2> HIDE DEF F
  <2>3. \A k \in AllKeys : \A T :
           Old(M) \in T /\ Nil \notin T /\ Follows(D, Old(M), T, k) => \A y \in F : Follows(D, y, T \cup F, k)
    BY <2>2
  <2> QED
    BY <2>1, <2>3 DEF Replaces
<1>10. f = M.fresh
  OBVIOUS
<1>11. \A k : Leads(D, f, k, {f})
  BY LeadsHere
<1> HIDE DEF f, g, h
<1>12. \A y \in B : \A b \in DOMAIN mem[y].child : mem[y].child[b] \in P \cup B \cup {Nil}
  BY <1>3, <1>4, <1>7
<1>13. \A y \in B, k \in AllKeys : IsLeaf(y) /\ mem[y].value = k => k = M.key \/ Finds(D, Root, k)
  BY <1>1, <1>4, <1>8
<1>14. \A y \in B : Inner(y) => \A k \in AllKeys :
          Enters(D, y, k) => Enters(D, f, k) /\ Leads(D, f, k, {y})
  BY <1>3, <1>4, <1>11
<1> QED
  BY <1>1, <1>6, <1>9, <1>10, <1>12, <1>13, <1>14 DEF Ready

SplitMade(P, M) ==
  /\ M.pc = "splitLink" /\ Pronged(P, M) /\ M.node \in P /\ Inner(M.node)
  /\ Inner(M.fresh + 2) /\ Id(M.fresh + 2) = Id(M.node) /\ mem[M.fresh + 2].child = mem[M.node].child

(* A fork above a relocated node is ready to replace the node.               *)
LEMMA SplitReady ==
  \A D, P, M : Placed(D) /\ PublicOK(D, P) /\ SplitMade(P, M) => Ready(D, P, M)
<1> SUFFICES ASSUME NEW D, NEW P, NEW M, Placed(D), PublicOK(D, P), SplitMade(P, M)
             PROVE  Ready(D, P, M)
  OBVIOUS
<1> DEFINE h == M.fresh + 2
           n == M.node
<1>1. /\ M.pc = "splitLink" /\ Pronged(P, M) /\ n \in P /\ Inner(n) /\ Inner(h) /\ Id(h) = Id(n)
      /\ mem[h].child = mem[n].child /\ Old(M) = n /\ M.pc \in Preparing \ {"putInsert", "growLink"}
  BY DEF SplitMade, Old, Preparing
<1>2. h \in Slots /\ n \in Slots
  BY <1>1 DEF Inner
<1> HIDE DEF h, n
<1>3. ~IsLeaf(h) /\ ~IsLeaf(n)
  BY <1>1, <1>2, KindsOf
<1>4. \A b \in DOMAIN mem[h].child : mem[h].child[b] \in P \cup {Nil}
  BY <1>1 DEF PublicOK
<1>5. ASSUME NEW k \in AllKeys, NEW T, Follows(D, n, T, k)
      PROVE  Enters(D, h, k) /\ Follows(D, h, T, k)
  <2>1. Passes(D, Id(h), k) /\ ToChild(D, h, k) \in T
    BY <1>1, <1>5 DEF Follows, ToChild, ChildOf
  <2>2. Enters(D, h, k)
    BY <1>1, <1>2, <2>1, PassesEnters
  <2> QED
    BY <1>2, <1>3, <2>1, <2>2 DEF Follows
<1> QED
  BY <1>1, <1>3, <1>4, <1>5, ProngsReady DEF h

LeafSplitMade(P, M) ==
  /\ M.pc = "leafObsolete" /\ Pronged(P, M) /\ M.next \in P /\ IsLeaf(M.next)
  /\ IsLeaf(M.fresh + 2) /\ mem[M.fresh + 2].value = mem[M.next].value

(* A fork above two leaves is ready to replace the leaf.                     *)
LEMMA LeafSplitReady ==
  \A D, P, M : Placed(D) /\ PublicOK(D, P) /\ LeafSplitMade(P, M) => Ready(D, P, M)
<1> SUFFICES ASSUME NEW D, NEW P, NEW M, Placed(D), PublicOK(D, P), LeafSplitMade(P, M)
             PROVE  Ready(D, P, M)
  OBVIOUS
<1> DEFINE h == M.fresh + 2
           n == M.next
<1>1. /\ M.pc = "leafObsolete" /\ Pronged(P, M) /\ n \in P /\ IsLeaf(n) /\ IsLeaf(h)
      /\ mem[h].value = mem[n].value /\ Old(M) = n /\ M.pc \in Preparing \ {"putInsert", "growLink"}
  BY DEF LeafSplitMade, Old, Preparing
<1> HIDE DEF h, n
<1>2. h \in Slots /\ ~Inner(h) /\ DOMAIN mem[h].child = {}
  BY <1>1, LeafAlone DEF IsLeaf, Placed
<1>3. \A k \in AllKeys : IsLeaf(h) /\ mem[h].value = k => Finds(D, Root, k)
  BY <1>1 DEF PublicOK
<1>4. ASSUME NEW k \in AllKeys, NEW T, Follows(D, n, T, k)
      PROVE  Enters(D, h, k) /\ Follows(D, h, T, k)
  <2>1. mem[h].value = k
    BY <1>1, <1>4 DEF Follows
  <2>2. Enters(D, h, k)
    BY <1>1, <1>2, <2>1 DEF Placed, Fits, LeafFits
  <2> QED
    BY <1>2, <2>1, <2>2 DEF Follows
<1> QED
  BY <1>1, <1>2, <1>3, <1>4, ProngsReady DEF h

(* The same of the next state.                                             *)
LEMMA PutReadyNext ==
  (\A D, P, M : Placed(D) /\ PutMade(P, M) => Ready(D, P, M))'
BY PutReady, PTL

(* GrowReady, of the state after the step.                                   *)
LEMMA GrowReadyNext ==
  (\A D, P, M : Placed(D) /\ PublicOK(D, P) /\ GrowMade(D, P, M) => Ready(D, P, M))'
BY GrowReady, PTL

(* SplitReady, of the state after the step.                                  *)
LEMMA SplitReadyNext ==
  (\A D, P, M : Placed(D) /\ PublicOK(D, P) /\ SplitMade(P, M) => Ready(D, P, M))'
BY SplitReady, PTL

(* LeafSplitReady, of the state after the step.                              *)
LEMMA LeafSplitReadyNext ==
  (\A D, P, M : Placed(D) /\ PublicOK(D, P) /\ LeafSplitMade(P, M) => Ready(D, P, M))'
BY LeafSplitReady, PTL

(* The new slots fit their places.                                         *)
LeafHangs(D, n, h, b, key) ==
  n = NewLeaf(key, <<h, b>>) /\ key \in AllKeys /\ Passes(D, h, key) /\ key[D.far[h] + 1] = b

(* A new slot with a leaf that hangs from a charted node fits the chart.     *)
LEMMA NewLeafFits ==
  ASSUME MemOK, NEW s \in Slots' \ Slots, NEW n, SameNode(mem'[s], n),
         NEW D, NEW h \in Ids', NEW b, NEW key, LeafHangs(D, n, h, b, key)
  PROVE  Fits(D, s)' /\ IsLeaf(s)' /\ mem'[s].value = key /\ ~Inner(s)'
<1>a. n = NewLeaf(key, <<h, b>>) /\ key \in AllKeys /\ Passes(D, h, key) /\ key[D.far[h] + 1] = b
  BY DEF LeafHangs
<1>1. mem'[s].kind = 0 /\ mem'[s].hash = <<h, b>> /\ mem'[s].value = key
  BY <1>a, LeafMade DEF SameNode
<1>2. s # Root
  BY DEF MemOK
<1>3. IsLeaf(s)' /\ ~Inner(s)'
  BY <1>1 DEF IsLeaf, Inner
<1>4. LeafPlaced(D, s, h, b)'
  BY <1>a, <1>1 DEF LeafPlaced
<1> QED
  BY <1>1, <1>2, <1>3, <1>4, FitsAsNext

NodeHangs(D, n, h, b, l, i, w) ==
  /\ n.kind # 0 /\ n.hash = <<h, b>> /\ l = D.far[h] + 1 /\ n.id = i /\ w \in AllKeys /\ D.way[i] = w
  /\ n.plen \in Nat /\ D.far[i] = l + n.plen /\ D.far[i] < Len(w) /\ Passes(D, h, w) /\ w[l] = b
  /\ IsSeq(n.prefix) /\ Len(n.prefix) = Stored(n)
  /\ \A j \in 1..Len(n.prefix) : n.prefix[j] = w[l + j]

(* A new slot with a node that hangs from a charted node fits the chart.     *)
LEMMA NewInnerFits ==
  ASSUME MemOK, NEW s \in Slots' \ Slots, NEW n, SameNode(mem'[s], n),
         NEW D, NEW h \in Ids', NEW b, NEW l, NEW i, NEW w, NodeHangs(D, n, h, b, l, i, w)
  PROVE  Fits(D, s)' /\ Inner(s)' /\ ~IsLeaf(s)'
<1>a. /\ n.kind # 0 /\ n.hash = <<h, b>> /\ l = D.far[h] + 1 /\ n.id = i /\ w \in AllKeys /\ D.way[i] = w
      /\ n.plen \in Nat /\ D.far[i] = l + n.plen /\ D.far[i] < Len(w) /\ Passes(D, h, w) /\ w[l] = b
      /\ IsSeq(n.prefix) /\ Len(n.prefix) = Stored(n)
      /\ \A j \in 1..Len(n.prefix) : n.prefix[j] = w[l + j]
  BY DEF NodeHangs
<1>1. /\ mem'[s].kind # 0 /\ mem'[s].hash = <<h, b>> /\ mem'[s].id = i
      /\ mem'[s].plen = n.plen /\ mem'[s].prefix = n.prefix
  BY <1>a DEF SameNode
<1>2. s # Root
  BY DEF MemOK
<1>3. Inner(s)' /\ ~IsLeaf(s)'
  BY <1>1 DEF IsLeaf, Inner
<1>4. InnerPlaced(D, s, h, b, l, i, w)'
  BY <1>a, <1>1 DEF InnerPlaced, Stored
<1> QED
  BY <1>1, <1>2, <1>3, <1>4, FitsAsNext

(* When every new slot fits, the chart places all slots.                     *)
LEMMA BuildPlaced ==
  ASSUME NEW t, NEW M, NEW N, t \in Threads, Turns(t, M, N), NEW C, Placed(C), NEW D, Extends(C, D),
         \A s \in Slots' \ Slots : Fits(D, s)'
  PROVE  Placed(D)'
<1>1. TInv' /\ LInv' /\ Grows
  BY Turned DEF Turns, Moving
<1>2. MemOK' /\ HashesAgree' /\ SlotsOK'
  BY <1>1 DEF TInv, LInv
<1>3. ASSUME NEW s \in Slots' PROVE Fits(D, s)'
  <2>1. CASE s \in Slots
    BY <1>1, <1>2, <2>1, FitsLast
  <2> QED
    BY <2>1
<1> QED
  BY <1>2, <1>3 DEF Placed, Extends

(* What the steps that allocate have in common.                            *)
LEMMA Making ==
  ASSUME NEW t \in Threads, NEW M, NEW N, Moving(t, M, N), UNCHANGED <<todo, load>>,
         NEW to, NEW changes, changes = [pc |-> to, fresh |-> Len(mem) + 1], Go(t, changes),
         \/ M.pc = "put" /\ to = "putInsert"
         \/ M.pc = "growBuild" /\ to = "growLink"
         \/ M.pc = "splitBuild" /\ to = "splitLink"
         \/ M.pc = "leafBuild" /\ to = "leafObsolete"
  PROVE  /\ Makes(M, N) /\ \E c : Changed(N, M, c) /\ DOMAIN c = {"pc", "fresh"}
         /\ N.pc = to /\ N.fresh = Len(mem) + 1 /\ N.key = M.key /\ N.node = M.node
         /\ N.byte = M.byte /\ N.next = M.next
<1>1. M.pc \in Changing
  BY DEF Changing, Putting, Replacing, Growing, Splitting, LeafSplitting
<1>2. Calls(M)
  BY <1>1, ChangingCall
<1>3. DOMAIN changes = {"pc", "fresh"} /\ changes.pc = to /\ changes.fresh = Len(mem) + 1
  OBVIOUS
<1>4. Changed(N, M, changes)
  BY <1>2, <1>3, Outcomes DEF Fields
<1>5. Onward(M, N) /\ N.pc = to /\ N.fresh = Len(mem) + 1 /\ N.claim = M.claim
  BY <1>3, <1>4, Going
<1>6. N.key = M.key
  BY <1>3, <1>4 DEF Changed, Fields
<1> QED
  BY <1>3, <1>4, <1>5, <1>6 DEF Makes, Onward

(* A step that makes the nodes of an insert keeps the chart when they are    *)
(* ready to be linked.                                                       *)
LEMMA BuildsOn ==
  ASSUME NEW t \in Threads, NEW M, NEW N, Turns(t, M, N), UNCHANGED <<todo, load>>,
         M.pc \in {"put", "growBuild", "splitBuild", "leafBuild"},
         NEW C, NEW P, Charted(C, P), NEW D, Extends(C, D),
         \A x \in Slots : mem'[x].child = mem[x].child,
         \A s \in Slots' \ Slots : Fits(D, s)',
         \/ Return(t, "refused")
         \/ /\ Makes(M, N) /\ \E changes : Changed(N, M, changes) /\ DOMAIN changes = {"pc", "fresh"}
            /\ Batch(N) \subseteq Slots' \ Slots /\ Ready(D, P, N)'
  PROVE  Charted(D, P)'
<1>1. /\ TInv /\ LInv /\ Grows /\ M = loc[t] /\ N = loc'[t] /\ Moving(t, M, N) /\ Root \in Slots
  BY DEF Turns, Moving, TInv, MemOK
<1>2. /\ M.pc \in Changing /\ M.pc \in Inserting /\ M.pc # "insert" /\ ~Landed(M)
  BY DEF Changing, Putting, Replacing, Growing, Splitting, LeafSplitting, Inserting, Landed, Linked
<1>3. /\ Placed(C) /\ PublicOK(C, P) /\ InsertKnows(C, P, M) /\ WayKnown(C, M) /\ ChildKnown(M)
      /\ HeldBy(M) \subseteq P \cup {Nil} /\ M.key \in AllKeys /\ M.op = "insert" /\ Calls(M)
      /\ M.node \in Slots
  BY <1>1, <1>2, InsertingCall
<1>4. Leading(C, D, Nil)
  BY <1>1, <1>3, WaysLast
<1>5. PublicOK(D, P)'
  BY PublicStays
<1>6. /\ N # Idle /\ N.op = "insert" /\ N.key = M.key
      /\ Batch(N) \subseteq Batch(M) \cup (Slots' \ Slots)
      /\ ThreadKnows(D, P, N)'
  <2>1. CASE Return(t, "refused")
    <3>1. N.pc = "done" /\ N.op = M.op /\ N.key = M.key /\ N # Idle /\ ~Calls(N)
      BY <1>1, <2>1, ReturnsAs
    <3> QED
      BY <1>3, <3>1 DEF ThreadKnows, Batch, Preparing
  <2>2. CASE /\ Makes(M, N) /\ \E changes : Changed(N, M, changes) /\ DOMAIN changes = {"pc", "fresh"}
             /\ Batch(N) \subseteq Slots' \ Slots /\ Ready(D, P, N)'
    <3>1. /\ Onward(M, N) /\ N.op = "insert" /\ N.key = M.key /\ N.node = M.node /\ N.byte = M.byte
          /\ N.level = M.level
      BY <1>3, <2>2 DEF Makes, Onward, Changed, Fields
    <3>2. \/ M.pc = "put" /\ N.pc = "putInsert"
          \/ M.pc = "growBuild" /\ N.pc = "growLink"
          \/ M.pc = "splitBuild" /\ N.pc = "splitLink"
          \/ M.pc = "leafBuild" /\ N.pc = "leafObsolete"
      BY <2>2 DEF Makes
    <3>3. /\ N.pc \in Changing /\ N # Idle /\ N.pc # "done" /\ N.pc \notin Linked
      BY <3>2 DEF Changing, Putting, Replacing, Growing, Splitting, LeafSplitting, Idle, Linked
    <3>4. HeldBy(N) \subseteq P \cup {Nil}
      BY <1>1, <1>2, <1>3, <3>1, SameHeld
    <3>5. Located(N)
      <4>1. Located(M)
        BY <1>1, <1>3, LocatedNow
      <4>2. N.next = M.next /\ N.any = M.any /\ N.pc # "insert"
        BY <3>1, <3>2 DEF Onward
      <4> QED
        BY <1>2, <1>3, <3>1, <4>1, <4>2 DEF Located
    <3>6. WayKnown(C, N)
      BY <1>3, <3>1, <3>2 DEF WayKnown, AtChild, Seeking
    <3>7. WayKnown(D, N)'
      BY <1>1, <1>3, <3>1, <3>5, <3>6, WayCarried
    <3>8. ChildKnown(N)'
      <4>1. N.pc = "putInsert" => ChildOf(mem[N.node], N.byte) = Nil
        BY <1>3, <3>1, <3>2 DEF ChildKnown, NoChild
      <4>2. N.pc = "putInsert" => ChildOf(mem'[N.node], N.byte) = Nil
        BY <1>3, <3>1, <4>1 DEF ChildOf
      <4> QED
        BY <3>2, <4>2 DEF ChildKnown, NoChild, Unsure
    <3>9. CallKnows(D, P, N)'
      BY <2>2, <3>1, <3>3, <3>4, <3>7, <3>8 DEF CallKnows, InsertKnows
    <3> QED
      BY <2>2, <3>1, <3>3, <3>9 DEF ThreadKnows
  <2> QED
    BY <2>1, <2>2
<1>7. KeysOK(P)'
  BY <1>2, <1>3, <1>6, KeysStay
<1> QED
  BY <1>3, <1>4, <1>5, <1>6, <1>7, Advanced

(* What an insert that is making its nodes may rely on.                      *)
LEMMA MakingCall ==
  ASSUME NEW t \in Threads, NEW M, NEW N, Moving(t, M, N),
         M.pc \in {"put", "growBuild", "splitBuild", "leafBuild"}, NEW C, NEW P, Charted(C, P)
  PROVE  /\ TInv /\ LInv /\ MemOK /\ M = loc[t] /\ Placed(C) /\ PublicOK(C, P) /\ P \subseteq Slots
         /\ Len(mem) \in Nat /\ Ids \subseteq Ids' /\ Slots \subseteq Slots' /\ Slots = Ids
         /\ WayKnown(C, M) /\ ChildKnown(M) /\ Here(M) /\ Reading(M) /\ Current(M) /\ KindsKnown(M)
         /\ HeldBy(M) \subseteq P \cup {Nil} /\ M.key \in AllKeys /\ M.op = "insert"
         /\ M.node \in P /\ M.node \in Slots /\ Inner(M.node) /\ Id(M.node) \in Ids
         /\ LevelOf(C, M.node) \in Nat /\ C.far[Id(M.node)] \in Nat
         /\ Absent(P, M.key) /\ Extends(C, C) /\ C \in Charts
<1>1. TInv /\ LInv /\ MemOK /\ M = loc[t] /\ Slots \subseteq Slots' /\ Grows
  BY DEF Moving, TInv, Grows
<1>2. M.pc \in Inserting /\ M.pc # "insert" /\ ~Landed(M)
  BY DEF Inserting, Putting, Replacing, Growing, Splitting, LeafSplitting, Landed, Linked
<1>3. /\ Placed(C) /\ PublicOK(C, P) /\ WayKnown(C, M) /\ ChildKnown(M)
      /\ HeldBy(M) \subseteq P \cup {Nil} /\ M.key \in AllKeys /\ M.op = "insert"
      /\ Here(M) /\ Reading(M) /\ M.node \in P /\ M.node \in Slots /\ Inner(M.node)
      /\ Knows(M) /\ Current(M) /\ P \subseteq Slots /\ Calls(M)
  BY <1>1, <1>2, InsertingCall
<1>4. Id(M.node) \in Ids /\ LevelOf(C, M.node) \in Nat /\ C.far[Id(M.node)] \in Nat
  BY <1>3, SlotFacts
<1>5. Absent(P, M.key)
  BY <1>1, <1>2, <1>3, KeyComing
<1>6. Len(mem) \in Nat /\ Ids \subseteq Ids' /\ Slots = Ids
  <2>1. Slots = Ids /\ Slots' = Ids'
    BY DEF Slots, Ids
  <2> QED
    BY <1>1, <2>1, Sequence DEF MemOK
<1> QED
  BY <1>1, <1>3, <1>4, <1>5, <1>6 DEF Placed, Extends, Knows

(* Making the leaf for a node with room keeps the chart.                     *)
LEMMA PutLeafCharted ==
  ASSUME NEW t \in Threads, NEW M, NEW N, Moving(t, M, N), PutLeaf(t), UNCHANGED <<todo, load>>,
         NEW C, NEW P, Charted(C, P)
  PROVE  Charted(C, P)'
<1>1. M = loc[t] /\ M.pc = "put" /\ Turns(t, M, N)
  BY MakingTurns DEF Moving, PutLeaf
<1>2. /\ TInv /\ MemOK /\ Placed(C) /\ P \subseteq Slots /\ Len(mem) \in Nat
      /\ WayKnown(C, M) /\ M.key \in AllKeys /\ Id(M.node) \in Ids' /\ Extends(C, C)
  BY <1>1, MakingCall
<1> DEFINE s == Len(mem) + 1
           n == NewLeaf(M.key, <<Id(M.node), M.byte>>)
           new == <<n>>
           changes == [pc |-> "putInsert", fresh |-> s]
<1>3. Allocate(t, new, changes)
  BY <1>1 DEF PutLeaf, LeafUnder, Id
<1>4. /\ IsSeq(new) /\ Len(new) = 1 /\ new[1] = n /\ DOMAIN n = NodeFields
      /\ \A i \in 1..Len(new) : DOMAIN new[i] = NodeFields
  BY Tuples, LeafMade
<1> HIDE DEF new, changes
<1>5. /\ \A x \in Slots : mem'[x] = mem[x]
      /\ \A x \in Slots' \ Slots : \E i \in 1..Len(new) : x = Len(mem) + i /\ SameNode(mem'[x], new[i])
      /\ \/ /\ Go(t, changes)
            /\ \A i \in 1..Len(new) : Len(mem) + i \in Slots' \ Slots /\ mem'[Len(mem) + i] = new[i]
         \/ Return(t, "refused")
  BY <1>2, <1>3, <1>4, NewParts
<1>6. ASSUME NEW x \in Slots' \ Slots PROVE Fits(C, x)' /\ IsLeaf(x)' /\ mem'[x].value = M.key
  <2>1. SameNode(mem'[x], n)
    BY <1>4, <1>5
  <2>2. Passes(C, Id(M.node), M.key) /\ M.key[C.far[Id(M.node)] + 1] = M.byte
    BY <1>1, <1>2 DEF WayKnown, AtChild
  <2> QED
    BY <1>2, <2>1, <2>2, NewLeafFits DEF LeafHangs
<1>7. Placed(C)'
  BY <1>1, <1>2, <1>6, BuildPlaced
<1>8. CASE Go(t, changes) /\ \A i \in 1..Len(new) : Len(mem) + i \in Slots' \ Slots
  <2>1. /\ Makes(M, N) /\ \E c : Changed(N, M, c) /\ DOMAIN c = {"pc", "fresh"}
        /\ N.pc = "putInsert" /\ N.fresh = s /\ N.key = M.key
    BY <1>1, <1>8, Making DEF changes
  <2>2. s \in Slots' \ Slots
    BY <1>4, <1>8
  <2>3. PutMade(P, N)'
    BY <1>2, <1>6, <2>1, <2>2 DEF PutMade
  <2>4. Ready(C, P, N)'
    BY <1>7, <2>3, PutReadyNext
  <2>5. Batch(N) \subseteq Slots' \ Slots
    BY <2>1, <2>2 DEF Batch
  <2> QED
    BY <1>1, <1>2, <1>5, <1>6, <2>1, <2>4, <2>5, BuildsOn
<1>9. CASE Return(t, "refused")
  BY <1>1, <1>2, <1>5, <1>6, <1>9, BuildsOn
<1> QED
  BY <1>5, <1>8, <1>9

(* The parts of a new node.                                                *)
LEMMA SetChildParts ==
  ASSUME NEW n, DOMAIN n = NodeFields, NEW b, NEW c, NEW m, m = SetChild(n, b, c)
  PROVE  /\ DOMAIN m = NodeFields /\ SameNode(m, n) /\ m.word = n.word
         /\ \A x : ChildOf(m, x) = IF x = b THEN c ELSE ChildOf(n, x)
<1>1. /\ DOMAIN m = NodeFields /\ m.kind = n.kind /\ m.word = n.word /\ m.id = n.id
      /\ m.hash = n.hash /\ DOMAIN m.child = DOMAIN n.child \cup {b} /\ m.child[b] = c
      /\ \A x \in DOMAIN n.child : x # b => m.child[x] = n.child[x]
  BY ChildSet
<1>2. m.prefix = n.prefix /\ m.plen = n.plen /\ m.value = n.value
  BY DEF SetChild, NodeFields
<1> QED
  BY <1>1, <1>2 DEF SameNode, ChildOf

(* The fields of a new node.                                                 *)
LEMMA NewNodeParts ==
  ASSUME NEW kind, NEW id, NEW bytes, NEW length, NEW hash, NEW n,
         n = NewNode(kind, id, bytes, length, hash)
  PROVE  /\ DOMAIN n = NodeFields /\ n.kind = kind /\ n.word = 4 /\ n.id = id /\ n.hash = hash
         /\ n.child = NoChildren /\ \A x : ChildOf(n, x) = Nil
         /\ n.plen = length /\ n.prefix = Prefix(bytes, Stored(n))
<1>1. /\ DOMAIN n = NodeFields /\ n.kind = kind /\ n.word = 4 /\ n.id = id /\ n.hash = hash
      /\ n.child = NoChildren /\ DOMAIN n.child = {}
  BY NodeMade
<1>2. n.plen = length /\ n.prefix = Prefix(bytes, IF length < MaxStored THEN length ELSE MaxStored)
  BY DEF NewNode, SetPrefix
<1> QED
  BY <1>1, <1>2 DEF ChildOf, Stored

(* A prefix of which as many bytes are kept as have room.                  *)
LEMMA KeptBytes ==
  ASSUME NEW bytes, IsSeq(bytes), NEW n, n.plen \in Nat, n.prefix = Prefix(bytes, Stored(n)),
         Stored(n) <= Len(bytes)
  PROVE  /\ IsSeq(n.prefix) /\ Len(n.prefix) = Stored(n) /\ Stored(n) \in Nat /\ Stored(n) <= n.plen
         /\ \A j \in 1..Len(n.prefix) : n.prefix[j] = bytes[j]
<1>1. Stored(n) \in Nat /\ Len(bytes) \in Nat /\ Stored(n) <= n.plen
  BY ArtAssumption, Sequence DEF Stored
<1>2. /\ IsSeq(Prefix(bytes, Stored(n)))
      /\ Len(Prefix(bytes, Stored(n))) = (IF Stored(n) < Len(bytes) THEN Stored(n) ELSE Len(bytes))
      /\ \A j \in 1..Stored(n) : j <= Len(bytes) => Prefix(bytes, Stored(n))[j] = bytes[j]
  BY <1>1, Cropped
<1> HIDE DEF Stored
<1>3. Len(n.prefix) = Stored(n)
  BY <1>1, <1>2
<1> QED
  BY <1>1, <1>2, <1>3

(* A node that is to take the place of another.                            *)
LEMMA PlaceTaken ==
  ASSUME NEW t \in Threads, NEW M, NEW N, Moving(t, M, N), M.pc \in {"growBuild", "splitBuild"},
         NEW C, NEW P, Charted(C, P)
  PROVE  LET h == Id(M.parent)
             i == Id(M.node)
             l == C.far[h] + 1
         IN  /\ h \in Ids /\ IdHash(M.parent, M.pbyte) = <<h, M.pbyte>> /\ l = LevelOf(C, M.node) /\ l \in Nat
             /\ M.node # Root /\ C.far[h] \in Nat
             /\ C.way[i] \in AllKeys /\ C.far[i] < Len(C.way[i])
             /\ \A k : Enters(C, M.node, k) <=> Passes(C, h, k) /\ k[l] = M.pbyte
             /\ Enters(C, M.node, C.way[i])
             /\ mem[M.node].plen \in Nat /\ C.far[i] = l + mem[M.node].plen
             /\ IsSeq(mem[M.node].prefix) /\ Len(mem[M.node].prefix) = Stored(mem[M.node])
             /\ \A j \in 1..Len(mem[M.node].prefix) : mem[M.node].prefix[j] = C.way[i][l + j]
<1>1. /\ TInv /\ M = loc[t] /\ Placed(C) /\ M.node \in Slots /\ Inner(M.node) /\ KindsKnown(M) /\ M.op = "insert"
  BY MakingCall
<1>2. M.pc \in Changing /\ M.pc \in Replacing
  BY DEF Changing, Replacing, Growing, Splitting
<1>3. M.parent \in Slots /\ Inner(M.parent) /\ Under(M.node, M.parent, M.pbyte) /\ M.parent # Nil
  BY <1>1, <1>2, ChangingNow DEF KindsKnown
<1>4. /\ M.node # Root /\ LevelOf(C, M.node) = C.far[Id(M.parent)] + 1
      /\ \A k : Enters(C, M.node, k) <=> Passes(C, Id(M.parent), k) /\ k[C.far[Id(M.parent)] + 1] = M.pbyte
  BY <1>1, <1>3, ChildEnters
<1>5. Id(M.parent) \in Ids /\ C.far[Id(M.parent)] \in Nat
  BY <1>1, <1>3, SlotFacts
<1>6. InnerFits(C, M.node)
  BY <1>1 DEF Placed, Fits
<1>7. IdHash(M.parent, M.pbyte) = <<Id(M.parent), M.pbyte>>
  BY DEF IdHash, Id
<1> DEFINE h == Id(M.parent)
           i == Id(M.node)
           l == C.far[h] + 1
<1>8. l = LevelOf(C, M.node) /\ l \in Nat
  BY <1>4, <1>5
<1> HIDE DEF h, i, l
<1>9. /\ mem[M.node].plen \in Nat /\ C.far[i] = l + mem[M.node].plen
      /\ C.way[i] \in AllKeys /\ C.far[i] < Len(C.way[i]) /\ Enters(C, M.node, C.way[i])
      /\ IsSeq(mem[M.node].prefix) /\ Len(mem[M.node].prefix) = Stored(mem[M.node])
      /\ \A j \in 1..Len(mem[M.node].prefix) : mem[M.node].prefix[j] = C.way[i][l + j]
  BY <1>4, <1>6, <1>8 DEF InnerFits, i
<1>10. \A k : Enters(C, M.node, k) <=> Passes(C, h, k) /\ k[l] = M.pbyte
  BY <1>4 DEF h, l
<1> QED
  BY <1>4, <1>5, <1>7, <1>8, <1>9, <1>10 DEF h, i, l

(* The bigger node, before the new leaf is under its byte.                 *)
Bigger(n, hash) == [NewNode(n.kind + 1, n.id, n.prefix, n.plen, hash) EXCEPT !.child = n.child]

(* The fields of the bigger copy of a node.                                  *)
LEMMA BiggerParts ==
  ASSUME NEW n, NEW hash, n.kind \in Nat, IsSeq(n.prefix), n.plen \in Nat, Len(n.prefix) = Stored(n),
         NEW m, m = Bigger(n, hash)
  PROVE  /\ DOMAIN m = NodeFields /\ m.kind # 0 /\ m.id = n.id /\ m.hash = hash /\ m.plen = n.plen
         /\ m.child = n.child /\ m.word = 4
         /\ IsSeq(m.prefix) /\ Len(m.prefix) = Stored(m)
         /\ \A j \in 1..Len(m.prefix) : m.prefix[j] = n.prefix[j]
<1> DEFINE e == NewNode(n.kind + 1, n.id, n.prefix, n.plen, hash)
<1>1. /\ DOMAIN e = NodeFields /\ e.kind = n.kind + 1 /\ e.word = 4 /\ e.id = n.id /\ e.hash = hash
      /\ e.plen = n.plen /\ e.prefix = Prefix(n.prefix, Stored(e))
  BY NewNodeParts
<1> HIDE DEF e
<1>2. m = [e EXCEPT !.child = n.child]
  BY DEF e, Bigger
<1>3. /\ DOMAIN m = NodeFields /\ m.kind = n.kind + 1 /\ m.word = 4 /\ m.id = n.id /\ m.hash = hash
      /\ m.plen = n.plen /\ m.prefix = e.prefix /\ m.child = n.child
  BY <1>1, <1>2 DEF NodeFields
<1>4. Stored(e) = Stored(n) /\ Stored(m) = Stored(n)
  BY <1>1, <1>3 DEF Stored
<1>5. /\ IsSeq(e.prefix) /\ Len(e.prefix) = Stored(e)
      /\ \A j \in 1..Len(e.prefix) : e.prefix[j] = n.prefix[j]
  <2>1. Stored(e) <= Len(n.prefix) /\ e.plen \in Nat
    BY <1>1, <1>4, Sequence
  <2> QED
    BY <1>1, <2>1, KeptBytes
<1> QED
  BY <1>3, <1>4, <1>5

(* Making the bigger node and the leaf keeps the chart.                      *)
LEMMA GrowBuildCharted ==
  ASSUME NEW t \in Threads, NEW M, NEW N, Moving(t, M, N), GrowBuild(t), UNCHANGED <<todo, load>>,
         NEW C, NEW P, Charted(C, P)
  PROVE  Charted(C, P)'
<1>1. M = loc[t] /\ M.pc = "growBuild" /\ Turns(t, M, N)
  BY MakingTurns DEF Moving, GrowBuild
<1>2. /\ TInv /\ MemOK /\ Placed(C) /\ P \subseteq Slots /\ Len(mem) \in Nat /\ Slots \subseteq Slots'
      /\ WayKnown(C, M) /\ ChildKnown(M) /\ M.key \in AllKeys /\ Id(M.node) \in Ids' /\ Extends(C, C)
      /\ M.node \in P /\ M.node \in Slots /\ Inner(M.node) /\ Ids \subseteq Ids'
  BY <1>1, MakingCall
<1>0. PICK f : f = Len(mem) + 1
  OBVIOUS
<1> DEFINE h == Id(M.parent)
           i == Id(M.node)
           l == C.far[h] + 1
           w == C.way[i]
           n == mem[M.node]
           hash == IdHash(M.parent, M.pbyte)
           copy == Bigger(n, hash)
           big == SetChild(copy, M.byte, f + 1)
           leaf == NewLeaf(M.key, <<i, M.byte>>)
           new == <<big, leaf>>
           changes == [pc |-> "growLink", fresh |-> f]
<1>3. Allocate(t, new, changes)
  BY <1>0, <1>1 DEF GrowBuild, LeafUnder, Id, Bigger
<1>4. /\ h \in Ids' /\ hash = <<h, M.pbyte>> /\ l = LevelOf(C, M.node) /\ w \in AllKeys /\ C.far[i] < Len(w)
      /\ Passes(C, h, w) /\ w[l] = M.pbyte /\ n.plen \in Nat /\ C.far[i] = l + n.plen
      /\ IsSeq(n.prefix) /\ Len(n.prefix) = Stored(n)
      /\ \A j \in 1..Len(n.prefix) : n.prefix[j] = w[l + j]
  <2>1. /\ h \in Ids /\ hash = <<h, M.pbyte>> /\ l = LevelOf(C, M.node) /\ l \in Nat
        /\ w \in AllKeys /\ C.far[i] < Len(w)
        /\ \A k : Enters(C, M.node, k) <=> Passes(C, h, k) /\ k[l] = M.pbyte
        /\ Enters(C, M.node, w) /\ n.plen \in Nat /\ C.far[i] = l + n.plen
        /\ IsSeq(n.prefix) /\ Len(n.prefix) = Stored(n)
        /\ \A j \in 1..Len(n.prefix) : n.prefix[j] = w[l + j]
    <3>1. M.pc \in {"growBuild", "splitBuild"}
      BY <1>1
    <3> QED
      BY <3>1, PlaceTaken
  <2> HIDE DEF h, i, l, w, n, hash
  <2>2. Passes(C, h, w) /\ w[l] = M.pbyte
    BY <2>1
  <2> QED
    BY <1>2, <2>1, <2>2
<1>5. Passes(C, i, M.key) /\ M.key[C.far[i] + 1] = M.byte /\ ChildOf(n, M.byte) = Nil
  BY <1>1, <1>2 DEF WayKnown, AtChild, ChildKnown, NoChild
<1>6. n.kind \in Nat /\ i = n.id
  BY <1>2, Kinds DEF MemOK, Id
<1> HIDE DEF h, i, l, w, n, hash
<1>7. /\ DOMAIN copy = NodeFields /\ copy.kind # 0 /\ copy.id = i /\ copy.hash = hash
      /\ copy.plen = n.plen /\ copy.child = n.child /\ IsSeq(copy.prefix) /\ Len(copy.prefix) = Stored(copy)
      /\ \A j \in 1..Len(copy.prefix) : copy.prefix[j] = n.prefix[j]
  BY <1>4, <1>6, BiggerParts
<1> HIDE DEF copy
<1>8. /\ DOMAIN big = NodeFields /\ SameNode(big, copy)
      /\ \A x : ChildOf(big, x) = IF x = M.byte THEN f + 1 ELSE ChildOf(copy, x)
  BY <1>7, SetChildParts
<1>9. DOMAIN leaf = NodeFields
  BY LeafMade
<1> HIDE DEF big, leaf
<1>10. /\ IsSeq(new) /\ Len(new) = 2 /\ new[1] = big /\ new[2] = leaf
       /\ \A j \in 1..Len(new) : DOMAIN new[j] = NodeFields
  BY <1>8, <1>9, Tuples
<1> HIDE DEF new, changes
<1>11. /\ \A x \in Slots : mem'[x] = mem[x]
       /\ \A x \in Slots' \ Slots : \E j \in 1..Len(new) : x = Len(mem) + j /\ SameNode(mem'[x], new[j])
       /\ \/ /\ Go(t, changes)
             /\ \A j \in 1..Len(new) : Len(mem) + j \in Slots' \ Slots /\ mem'[Len(mem) + j] = new[j]
          \/ Return(t, "refused")
  BY <1>2, <1>3, <1>10, NewParts
<1>12. ASSUME NEW x \in Slots' \ Slots
       PROVE  \/ x = f /\ SameNode(mem'[x], big)
              \/ x = f + 1 /\ SameNode(mem'[x], leaf)
  <2>1. PICK j \in 1..Len(new) : x = Len(mem) + j /\ SameNode(mem'[x], new[j])
    BY <1>11
  <2> QED
    BY <1>0, <1>2, <1>10, <2>1
<1>13. ASSUME NEW x \in Slots' \ Slots, SameNode(mem'[x], big)
       PROVE  Fits(C, x)' /\ Inner(x)' /\ Id(x)' = i
  <2>1. SameNode(mem'[x], copy)
    BY <1>8, <1>13 DEF SameNode
  <2>2. \A j \in 1..Len(copy.prefix) : copy.prefix[j] = w[l + j]
    <3>1. Len(copy.prefix) = Len(n.prefix)
      BY <1>4, <1>7 DEF Stored
    <3> QED
      BY <1>4, <1>7, <3>1
  <2>3. l = C.far[h] + 1 /\ C.way[i] = w
    BY DEF l, w
  <2>4. Fits(C, x)' /\ Inner(x)'
    <3>1. /\ copy.kind # 0 /\ copy.hash = <<h, M.pbyte>> /\ copy.id = i /\ copy.plen \in Nat
          /\ C.far[i] = l + copy.plen /\ IsSeq(copy.prefix) /\ Len(copy.prefix) = Stored(copy)
      BY <1>4, <1>7
    <3>2. h \in Ids' /\ w \in AllKeys /\ C.far[i] < Len(w) /\ Passes(C, h, w) /\ w[l] = M.pbyte
      BY <1>4
    <3> QED
      <4>1. NodeHangs(C, copy, h, M.pbyte, l, i, w)
        BY <2>2, <2>3, <3>1, <3>2 DEF NodeHangs
      <4> QED
        BY <1>2, <2>1, <3>2, <4>1, NewInnerFits
  <2>5. Id(x)' = i
    BY <1>7, <2>1 DEF Id, SameNode
  <2> QED
    BY <2>4, <2>5
<1>14. ASSUME NEW x \in Slots' \ Slots, SameNode(mem'[x], leaf)
       PROVE  Fits(C, x)' /\ IsLeaf(x)' /\ mem'[x].value = M.key
  <2>1. LeafHangs(C, leaf, i, M.byte, M.key)
    BY <1>2, <1>5 DEF leaf, LeafHangs
  <2>2. i \in Ids'
    BY <1>2 DEF i
  <2> QED
    BY <1>2, <1>14, <2>1, <2>2, NewLeafFits
<1>15. \A x \in Slots' \ Slots : Fits(C, x)'
  BY <1>12, <1>13, <1>14
<1>16. Placed(C)' /\ PublicOK(C, P)'
  BY <1>1, <1>2, <1>11, <1>15, BuildPlaced, PublicStays
<1>17. CASE /\ Go(t, changes)
            /\ \A j \in 1..Len(new) : Len(mem) + j \in Slots' \ Slots /\ mem'[Len(mem) + j] = new[j]
  <2>1. /\ Makes(M, N) /\ \E c : Changed(N, M, c) /\ DOMAIN c = {"pc", "fresh"}
        /\ N.pc = "growLink" /\ N.fresh = f /\ N.key = M.key /\ N.node = M.node /\ N.byte = M.byte
    BY <1>0, <1>1, <1>17, Making DEF changes
  <2>2. /\ f \in Slots' \ Slots /\ f + 1 \in Slots' \ Slots /\ mem'[f] = big /\ mem'[f + 1] = leaf
    <3>1. Len(mem) + 1 = f /\ Len(mem) + 2 = f + 1 /\ 1 \in 1..2 /\ 2 \in 1..2
      BY <1>0, <1>2
    <3> QED
      BY <1>10, <1>17, <3>1
  <2>3. SameNode(mem'[f], big) /\ SameNode(mem'[f + 1], leaf)
    BY <2>2 DEF SameNode
  <2>4. /\ Inner(f)' /\ Id(f)' = i /\ IsLeaf(f + 1)' /\ mem'[f + 1].value = M.key
    <3>1. Inner(f)' /\ Id(f)' = i
      BY <1>13, <2>2, <2>3
    <3>2. IsLeaf(f + 1)' /\ mem'[f + 1].value = M.key
      BY <1>14, <2>2, <2>3
    <3> QED
      BY <3>1, <3>2
  <2>5. /\ mem'[M.node] = n /\ Inner(M.node)' /\ Id(M.node)' = i
    BY <1>2, <1>11 DEF n, i, Inner, Id
  <2>6. \A b : ChildOf(mem'[f], b) = IF b = N.byte THEN N.fresh + 1 ELSE ChildOf(mem'[N.node], b)
    <3>1. \A b : ChildOf(copy, b) = ChildOf(n, b)
      BY <1>7 DEF ChildOf
    <3> QED
      BY <1>8, <2>1, <2>2, <2>5, <3>1
  <2>7. NoChild(N)'
    BY <1>5, <2>1, <2>5 DEF NoChild
  <2>8. f \notin P /\ f + 1 \notin P
    BY <1>2, <2>2
  <2>9. GrowMade(C, P, N)'
    <3>1. /\ N.pc = "growLink" /\ N.key \in AllKeys /\ N.node \in P /\ Inner(N.node)'
          /\ Passes(C, Id(N.node)', N.key) /\ N.byte = N.key[C.far[Id(N.node)'] + 1]
      BY <1>2, <1>5, <2>1, <2>5
    <3>2. /\ {N.fresh, N.fresh + 1} \subseteq Slots' \ P /\ Inner(N.fresh)'
          /\ Id(N.fresh)' = Id(N.node)' /\ IsLeaf(N.fresh + 1)' /\ mem'[N.fresh + 1].value = N.key
      BY <2>1, <2>2, <2>4, <2>5, <2>8
    <3>3. \A b : ChildOf(mem'[N.fresh], b) = IF b = N.byte THEN N.fresh + 1 ELSE ChildOf(mem'[N.node], b)
      BY <2>1, <2>6
    <3> QED
      BY <2>7, <3>1, <3>2, <3>3 DEF GrowMade
  <2>10. Ready(C, P, N)'
    BY <1>16, <2>9, GrowReadyNext
  <2>11. Batch(N) \subseteq Slots' \ Slots
    BY <2>1, <2>2 DEF Batch
  <2> QED
    BY <1>1, <1>2, <1>11, <1>15, <2>1, <2>10, <2>11, BuildsOn
<1>18. CASE Return(t, "refused")
  BY <1>1, <1>2, <1>11, <1>15, <1>18, BuildsOn
<1> QED
  BY <1>11, <1>17, <1>18

(* A new id f is added to the chart, with the first n bytes of key k.      *)
Mapped(C, f, n, k) == [far |-> [C.far EXCEPT ![f] = n], way |-> [C.way EXCEPT ![f] = k]]

Maps(D, C, f, n, k) == D = Mapped(C, f, n, k)

(* A chart with a new id mapped extends the old one.                         *)
LEMMA MappedChart ==
  ASSUME NEW C \in Charts, NEW f \in Nat \ Ids, NEW n \in Nat, NEW k \in AllKeys,
         NEW D, Maps(D, C, f, n, k)
  PROVE  /\ Extends(C, D) /\ D.far[f] = n /\ D.way[f] = k
         /\ \A l : Passes(D, f, l) <=> n < Len(l) /\ \A j \in 1..n : l[j] = k[j]
<1>1. /\ C.far \in [Nat -> Nat] /\ C.way \in [Nat -> Seq(AllBytes)] /\ k \in Seq(AllBytes)
  BY KeyFacts DEF Charts
<1>2. D.far = [C.far EXCEPT ![f] = n] /\ D.way = [C.way EXCEPT ![f] = k] /\ D = [far |-> D.far, way |-> D.way]
  BY DEF Maps, Mapped
<1>3. D.far \in [Nat -> Nat] /\ D.way \in [Nat -> Seq(AllBytes)]
  <2>1. \A S, g : g \in [Nat -> S] => \A e \in S : [g EXCEPT ![f] = e] \in [Nat -> S]
    OBVIOUS
  <2>2. D.far \in [Nat -> Nat]
    BY <1>1, <1>2, <2>1, Zenon
  <2>3. D.way \in [Nat -> Seq(AllBytes)]
    BY <1>1, <1>2, <2>1, Zenon
  <2> QED
    BY <2>2, <2>3
<1>4. D \in Charts
  BY <1>2, <1>3 DEF Charts
<1>5. D.far[f] = n /\ D.way[f] = k
  BY <1>1, <1>2
<1>6. \A i \in Ids : i \in Nat
  BY DEF Ids
<1>7. \A i \in Ids : D.far[i] = C.far[i] /\ D.way[i] = C.way[i]
  BY <1>1, <1>2, <1>6
<1> QED
  BY <1>4, <1>5, <1>7 DEF Extends, Passes

(* The fields of a node moved below a fork.                                  *)
LEMMA RelocatedParts ==
  ASSUME NEW n, DOMAIN n = NodeFields, NEW hash, NEW bytes, NEW length,
         NEW m, m = Relocated(n, hash, bytes, length)
  PROVE  /\ DOMAIN m = NodeFields /\ m.kind = n.kind /\ m.id = n.id /\ m.hash = hash /\ m.child = n.child
         /\ m.plen = length /\ m.prefix = Prefix(bytes, Stored(m))
<1>1. /\ DOMAIN m = NodeFields /\ m.kind = n.kind /\ m.id = n.id /\ m.hash = hash /\ m.child = n.child
      /\ m.plen = length /\ m.prefix = Prefix(bytes, IF length < MaxStored THEN length ELSE MaxStored)
  BY DEF Relocated, SetPrefix, relocate_node, NodeFields
<1> QED
  BY <1>1 DEF Stored

(* A new node with two children.                                           *)
Fork(id, bytes, length, hash, mine, c, other, d) ==
  SetChild(SetChild(NewNode(InitialNode, id, bytes, length, hash), mine, c), other, d)

IsFork(m, id, bytes, length, hash, mine, c, other, d) ==
  /\ IsSeq(bytes) /\ length \in Nat /\ other # mine
  /\ m = Fork(id, bytes, length, hash, mine, c, other, d) /\ Stored(m) <= Len(bytes)

(* The fields of a fork, and its two children.                               *)
LEMMA ForkParts ==
  ASSUME NEW id, NEW bytes, NEW length, NEW hash, NEW mine, NEW c, NEW other, NEW d, NEW m,
         IsFork(m, id, bytes, length, hash, mine, c, other, d)
  PROVE  /\ DOMAIN m = NodeFields /\ m.kind # 0 /\ m.id = id /\ m.hash = hash /\ m.plen = length
         /\ IsSeq(m.prefix) /\ Len(m.prefix) = Stored(m) /\ Stored(m) <= length /\ Stored(m) \in Nat
         /\ \A j \in 1..Len(m.prefix) : m.prefix[j] = bytes[j]
         /\ \A x : ChildOf(m, x) = IF x = mine THEN c ELSE IF x = other THEN d ELSE Nil
<1>a. /\ IsSeq(bytes) /\ length \in Nat /\ other # mine
      /\ m = Fork(id, bytes, length, hash, mine, c, other, d) /\ Stored(m) <= Len(bytes)
  BY DEF IsFork
<1> DEFINE a == NewNode(InitialNode, id, bytes, length, hash)
           b == SetChild(a, mine, c)
<1>1. /\ DOMAIN a = NodeFields /\ a.kind = InitialNode /\ a.id = id /\ a.hash = hash
      /\ \A x : ChildOf(a, x) = Nil
      /\ a.plen = length /\ a.prefix = Prefix(bytes, Stored(a))
  BY NewNodeParts
<1> HIDE DEF a
<1>2. /\ DOMAIN b = NodeFields /\ SameNode(b, a)
      /\ \A x : ChildOf(b, x) = IF x = mine THEN c ELSE ChildOf(a, x)
  BY <1>1, SetChildParts
<1>3. m = SetChild(b, other, d)
  BY <1>a DEF Fork, a
<1> HIDE DEF b
<1>4. /\ DOMAIN m = NodeFields /\ SameNode(m, b)
      /\ \A x : ChildOf(m, x) = IF x = other THEN d ELSE ChildOf(b, x)
  BY <1>2, <1>3, SetChildParts
<1>5. /\ m.kind = InitialNode /\ m.id = id /\ m.hash = hash /\ m.plen = length /\ m.prefix = a.prefix
  BY <1>1, <1>2, <1>4 DEF SameNode
<1>6. Stored(m) = Stored(a)
  BY <1>1, <1>5 DEF Stored
<1>7. m.prefix = Prefix(bytes, Stored(m)) /\ m.plen \in Nat
  BY <1>a, <1>1, <1>5, <1>6
<1>8. /\ IsSeq(m.prefix) /\ Len(m.prefix) = Stored(m) /\ Stored(m) <= m.plen /\ Stored(m) \in Nat
      /\ \A j \in 1..Len(m.prefix) : m.prefix[j] = bytes[j]
  BY <1>a, <1>7, KeptBytes
<1>9. \A x : ChildOf(m, x) = IF x = mine THEN c ELSE IF x = other THEN d ELSE Nil
  BY <1>a, <1>1, <1>2, <1>4
<1> QED
  BY <1>4, <1>5, <1>8, <1>9 DEF InitialNode

(* The steps that build a fork.                                            *)
(* Node n has the first d bytes of the key up to itself, l of them are up  *)
(* to its place, under byte b of id h.                                     *)
ForkAs(C, M, f, h, b, l, d, n, mine, other) ==
  /\ f = Len(mem) + 1 /\ h \in Ids /\ l \in Nat /\ l = C.far[h] + 1
  /\ Passes(C, h, M.key) /\ M.key[l] = b
  /\ d \in Nat /\ l <= d /\ d < Len(M.key) /\ mine = M.key[d + 1] /\ other # mine
  /\ \E bytes : /\ IsSeq(bytes) /\ n = Fork(f, bytes, d - l, <<h, b>>, mine, f + 1, other, f + 2)
               /\ Stored(n) <= Len(bytes) /\ \A j \in 1..Stored(n) : bytes[j] = M.key[l + j]
ForkTo(M, to) ==
  \/ M.pc = "splitBuild" /\ to = "splitLink"
  \/ M.pc = "leafBuild" /\ to = "leafObsolete"
ThirdFits(D, f, third) ==
  /\ DOMAIN third = NodeFields
  /\ \A x \in Slots' \ Slots : f \in Ids' /\ SameNode(mem'[x], third) => Fits(D, x)'
ThirdMade(P, M, N, f, to, third) ==
  /\ Pronged(P, N)' /\ N.pc = to /\ N.fresh = f /\ N.node = M.node /\ N.next = M.next
  /\ f + 2 \in Slots' \ Slots /\ mem'[f + 2] = third
  => SplitMade(P, N)' \/ LeafSplitMade(P, N)'

ForkSlots(M, f, mine, n, leaf, third, new) ==
  leaf = NewLeaf(M.key, <<f, mine>>) /\ new = <<n, leaf, third>>
ForkChanges(to, f, changes) == changes = [pc |-> to, fresh |-> f]

(* A fork over part of a key: the bytes it stores and the children it has.   *)
LEMMA ForkNode ==
  ASSUME NEW C, NEW M, NEW f, NEW h, NEW b, NEW l, NEW d, NEW n, NEW mine, NEW other,
         ForkAs(C, M, f, h, b, l, d, n, mine, other)
  PROVE  /\ DOMAIN n = NodeFields /\ n.kind # 0 /\ n.id = f /\ n.hash = <<h, b>>
         /\ n.plen \in Nat /\ d = l + n.plen
         /\ IsSeq(n.prefix) /\ Len(n.prefix) = Stored(n)
         /\ \A j \in 1..Len(n.prefix) : n.prefix[j] = M.key[l + j]
         /\ \A x : ChildOf(n, x) = IF x = mine THEN f + 1 ELSE IF x = other THEN f + 2 ELSE Nil
<1> DEFINE length == d - l
<1>1. length \in Nat /\ d = l + length /\ other # mine
  <2>1. l \in Nat /\ d \in Nat /\ l <= d /\ other # mine
    BY DEF ForkAs
  <2> QED
    BY <2>1
<1>2. PICK bytes : /\ IsSeq(bytes) /\ n = Fork(f, bytes, length, <<h, b>>, mine, f + 1, other, f + 2)
                   /\ Stored(n) <= Len(bytes) /\ \A j \in 1..Stored(n) : bytes[j] = M.key[l + j]
  BY DEF ForkAs
<1> HIDE DEF length
<1>a. PICK hash : hash = <<h, b>>
  OBVIOUS
<1>b. PICK c : c = f + 1
  OBVIOUS
<1>c. PICK e : e = f + 2
  OBVIOUS
<1>d. IsFork(n, f, bytes, length, hash, mine, c, other, e)
  BY <1>1, <1>2, <1>a, <1>b, <1>c DEF IsFork
<1>e. /\ DOMAIN n = NodeFields /\ n.kind # 0 /\ n.id = f /\ n.hash = hash /\ n.plen = length
      /\ IsSeq(n.prefix) /\ Len(n.prefix) = Stored(n) /\ Stored(n) <= length /\ Stored(n) \in Nat
      /\ \A j \in 1..Len(n.prefix) : n.prefix[j] = bytes[j]
      /\ \A x : ChildOf(n, x) = IF x = mine THEN c ELSE IF x = other THEN e ELSE Nil
  BY <1>d, ForkParts
<1>3. /\ DOMAIN n = NodeFields /\ n.kind # 0 /\ n.id = f /\ n.hash = <<h, b>> /\ n.plen = length
      /\ IsSeq(n.prefix) /\ Len(n.prefix) = Stored(n) /\ Stored(n) <= length /\ Stored(n) \in Nat
      /\ \A j \in 1..Len(n.prefix) : n.prefix[j] = bytes[j]
      /\ \A x : ChildOf(n, x) = IF x = mine THEN f + 1 ELSE IF x = other THEN f + 2 ELSE Nil
  BY <1>a, <1>b, <1>c, <1>e
<1> QED
  BY <1>1, <1>2, <1>3

(* Making a fork, the new leaf and a third node that fits below the fork     *)
(* keeps the tree charted.                                                   *)
LEMMA ForkCharted ==
  ASSUME NEW t \in Threads, NEW M, NEW N, Turns(t, M, N), UNCHANGED <<todo, load>>,
         NEW C, NEW P, Charted(C, P), NEW to, ForkTo(M, to),
         NEW f, NEW h, NEW b, NEW l, NEW d, NEW n, NEW mine, NEW other,
         ForkAs(C, M, f, h, b, l, d, n, mine, other),
         NEW D, Maps(D, C, f, d, M.key), NEW third, ThirdFits(D, f, third),
         NEW leaf, NEW new, ForkSlots(M, f, mine, n, leaf, third, new),
         NEW changes, ForkChanges(to, f, changes), Allocate(t, new, changes),
         ThirdMade(P, M, N, f, to, third)
  PROVE  Charted(D, P)'
<1>1. /\ TInv /\ MemOK /\ Moving(t, M, N) /\ Placed(C) /\ P \subseteq Slots /\ Len(mem) \in Nat
      /\ Slots \subseteq Slots' /\ M.key \in AllKeys /\ Ids \subseteq Ids' /\ C \in Charts /\ Slots = Ids
      /\ f = Len(mem) + 1
  <2>1. M.pc \in {"put", "growBuild", "splitBuild", "leafBuild"} /\ Moving(t, M, N)
    BY DEF Turns, ForkTo
  <2>2. f = Len(mem) + 1
    BY DEF ForkAs
  <2> QED
    BY <2>1, <2>2, MakingCall
<1>2. Slots' = Ids'
  BY DEF Slots, Ids
<1>3. f \in Nat \ Ids
  BY <1>1 DEF Ids
<1>4. /\ Extends(C, D) /\ D.far[f] = d /\ D.way[f] = M.key
      /\ \A k : Passes(D, f, k) <=> d < Len(k) /\ \A j \in 1..d : k[j] = M.key[j]
      /\ d \in Nat /\ d < Len(M.key) /\ mine = M.key[d + 1] /\ mine # other
  <2>1. d \in Nat /\ d < Len(M.key) /\ mine = M.key[d + 1] /\ mine # other
    BY DEF ForkAs
  <2> QED
    BY <1>1, <1>3, <2>1, MappedChart
<1>5. /\ DOMAIN n = NodeFields /\ n.kind # 0 /\ n.id = f /\ n.hash = <<h, b>>
      /\ n.plen \in Nat /\ d = l + n.plen
      /\ IsSeq(n.prefix) /\ Len(n.prefix) = Stored(n)
      /\ \A j \in 1..Len(n.prefix) : n.prefix[j] = M.key[l + j]
      /\ \A x : ChildOf(n, x) = IF x = mine THEN f + 1 ELSE IF x = other THEN f + 2 ELSE Nil
  BY ForkNode
<1>6. /\ IsSeq(new) /\ Len(new) = 3 /\ new[1] = n /\ new[2] = leaf /\ new[3] = third
      /\ \A j \in 1..Len(new) : DOMAIN new[j] = NodeFields
  <2>1. DOMAIN leaf = NodeFields /\ DOMAIN third = NodeFields
    BY LeafMade DEF ThirdFits, ForkSlots
  <2>2. IsSeq(new) /\ Len(new) = 3 /\ new[1] = n /\ new[2] = leaf /\ new[3] = third
    BY Tuples DEF ForkSlots
  <2> QED
    BY <1>5, <2>1, <2>2
<1>7. /\ \A x \in Slots : mem'[x] = mem[x]
      /\ \A x \in Slots' \ Slots : \E j \in 1..Len(new) : x = Len(mem) + j /\ SameNode(mem'[x], new[j])
      /\ \/ /\ Go(t, changes)
            /\ \A j \in 1..Len(new) : Len(mem) + j \in Slots' \ Slots /\ mem'[Len(mem) + j] = new[j]
         \/ Return(t, "refused")
  BY <1>1, <1>6, NewParts
<1>8. ASSUME NEW x \in Slots' \ Slots
      PROVE  /\ f \in Ids'
             /\ \/ x = f /\ SameNode(mem'[x], n)
                \/ x = f + 1 /\ SameNode(mem'[x], leaf)
                \/ x = f + 2 /\ SameNode(mem'[x], third)
  <2>1. PICK j \in 1..Len(new) : x = Len(mem) + j /\ SameNode(mem'[x], new[j])
    BY <1>7
  <2>2. f \in Ids'
    <3>1. x \in 1..Len(mem') /\ Len(mem') \in Nat
      BY <1>1, <1>6, NewParts DEF Slots
    <3> QED
      BY <1>1, <1>6, <2>1, <3>1 DEF Ids
  <2> QED
    BY <1>1, <1>6, <2>1, <2>2
<1>9. ASSUME NEW x \in Slots' \ Slots, SameNode(mem'[x], n)
      PROVE  Fits(D, x)' /\ Inner(x)'
  <2>1. /\ h \in Ids /\ l = C.far[h] + 1 /\ Passes(C, h, M.key) /\ M.key[l] = b
    BY DEF ForkAs
  <2>2. /\ h \in Ids' /\ l = D.far[h] + 1 /\ Passes(D, h, M.key)
    BY <1>1, <1>4, <2>1, PassesLast DEF Extends
  <2>3. n.plen \in Nat /\ D.far[f] = l + n.plen /\ D.far[f] < Len(M.key)
    BY <1>4, <1>5
  <2> QED
    <3>1. NodeHangs(D, n, h, b, l, f, M.key)
      BY <1>1, <1>4, <1>5, <2>1, <2>2, <2>3 DEF NodeHangs
    <3> QED
      BY <1>1, <1>9, <2>2, <3>1, NewInnerFits
<1>10. ASSUME NEW x \in Slots' \ Slots, f \in Ids', SameNode(mem'[x], leaf)
       PROVE  Fits(D, x)' /\ IsLeaf(x)' /\ mem'[x].value = M.key
  <2>1. LeafHangs(D, leaf, f, mine, M.key)
    BY <1>1, <1>4 DEF LeafHangs, ForkSlots
  <2> QED
    BY <1>1, <1>10, <2>1, NewLeafFits
<1>11. \A x \in Slots' \ Slots : Fits(D, x)'
  BY <1>8, <1>9, <1>10 DEF ThirdFits
<1>12. Placed(D)' /\ PublicOK(D, P)'
  BY <1>1, <1>4, <1>7, <1>11, BuildPlaced, PublicStays
<1>13. CASE /\ Go(t, changes)
            /\ \A j \in 1..Len(new) : Len(mem) + j \in Slots' \ Slots /\ mem'[Len(mem) + j] = new[j]
  <2>1. /\ Makes(M, N) /\ \E c : Changed(N, M, c) /\ DOMAIN c = {"pc", "fresh"}
        /\ N.pc = to /\ N.fresh = f /\ N.key = M.key /\ N.node = M.node /\ N.next = M.next
    <3>1. changes = [pc |-> to, fresh |-> Len(mem) + 1]
      BY <1>1 DEF ForkChanges
    <3> QED
      BY <1>1, <1>13, <3>1, Making DEF ForkTo
  <2>2. /\ f \in Slots' \ Slots /\ f + 1 \in Slots' \ Slots /\ f + 2 \in Slots' \ Slots
        /\ mem'[f] = n /\ mem'[f + 1] = leaf /\ mem'[f + 2] = third
    <3>1. Len(mem) + 1 = f /\ Len(mem) + 2 = f + 1 /\ Len(mem) + 3 = f + 2
          /\ 1 \in 1..3 /\ 2 \in 1..3 /\ 3 \in 1..3
      BY <1>1
    <3> QED
      BY <1>6, <1>13, <3>1
  <2>3. SameNode(mem'[f], n) /\ SameNode(mem'[f + 1], leaf)
    BY <2>2 DEF SameNode
  <2>4. Inner(f)'
    BY <1>9, <2>2, <2>3
  <2>5. IsLeaf(f + 1)' /\ mem'[f + 1].value = M.key
    BY <1>2, <1>10, <2>2, <2>3
  <2>6. Forked(f, mine, other)'
    BY <1>4, <1>5, <2>2, <2>4 DEF Forked
  <2>7. Pronged(P, N)'
    <3>1. {N.fresh, N.fresh + 1, N.fresh + 2} \subseteq Slots' \ P
      BY <1>1, <2>1, <2>2
    <3>2. (\E x, y : Forked(N.fresh, x, y))'
      BY <2>1, <2>6
    <3> QED
      BY <1>1, <2>1, <2>5, <3>1, <3>2 DEF Pronged
  <2>8. Ready(D, P, N)'
    <3>1. SplitMade(P, N)' \/ LeafSplitMade(P, N)'
      BY <2>1, <2>2, <2>7 DEF ThirdMade
    <3> QED
      BY <1>12, <3>1, SplitReadyNext, LeafSplitReadyNext
  <2>9. Batch(N) \subseteq Slots' \ Slots
    BY <2>1, <2>2 DEF Batch, Preparing, ForkTo
  <2> QED
    BY <1>1, <1>4, <1>7, <1>11, <2>1, <2>8, <2>9, BuildsOn DEF ForkTo
<1>14. CASE Return(t, "refused")
  BY <1>1, <1>4, <1>7, <1>11, <1>14, BuildsOn DEF ForkTo
<1> QED
  BY <1>7, <1>13, <1>14

(* The length of the prefix of a fork.                                       *)
LEMMA ForkLength ==
  ASSUME NEW id, NEW bytes, NEW length, NEW hash, NEW mine, NEW c, NEW other, NEW d, NEW m,
         m = Fork(id, bytes, length, hash, mine, c, other, d)
  PROVE  m.plen = length
<1> DEFINE a == NewNode(InitialNode, id, bytes, length, hash)
           b == SetChild(a, mine, c)
<1>1. DOMAIN a = NodeFields /\ a.plen = length
  BY NewNodeParts
<1>2. m = SetChild(b, other, d)
  BY DEF Fork
<1> HIDE DEF a
<1>3. DOMAIN b = NodeFields /\ SameNode(b, a)
  BY <1>1, SetChildParts
<1> HIDE DEF b
<1>4. SameNode(m, b)
  BY <1>2, <1>3, SetChildParts
<1> QED
  BY <1>1, <1>3, <1>4 DEF SameNode

(* What a split is made of: i is the id of the node n that moves, w its    *)
(* way; the fork hangs where the node did, the node below the fork.        *)
SplitParts(C, M, i, w, h, l, d, n) ==
  /\ n = mem[M.node] /\ DOMAIN n = NodeFields /\ n.kind # 0 /\ n.id = i /\ i \in Ids
  /\ w = C.way[i] /\ w \in AllKeys /\ C.far[i] \in Nat /\ C.far[i] < Len(w)
  /\ h \in Ids /\ IdHash(M.parent, M.pbyte) = <<h, M.pbyte>> /\ l \in Nat /\ l = C.far[h] + 1
  /\ Passes(C, h, M.key) /\ M.key[l] = M.pbyte
  /\ n.plen \in Nat /\ C.far[i] = l + n.plen /\ IsSeq(n.prefix) /\ Len(n.prefix) = Stored(n)
  /\ \A j \in 1..Len(n.prefix) : n.prefix[j] = w[l + j]
  /\ M.level = l /\ M.matched \in Nat /\ d = l + M.matched /\ d \in Nat
  /\ M.matched < n.plen /\ d < Len(M.key)
  /\ \A j \in 1..d : M.key[j] = w[j]
  /\ M.miss = w[d + 1] /\ M.miss # M.key[d + 1]
  /\ IsSeq(M.rest) /\ Len(M.rest) = n.plen - M.matched - 1
  /\ \A j \in 1..Len(M.rest) : M.rest[j] = w[d + 1 + j]

(* The node to split has its place: the key leaves its way after matched     *)
(* bytes.                                                                    *)
LEMMA SplitPlace ==
  ASSUME NEW t \in Threads, NEW M, NEW N, Moving(t, M, N), M.pc = "splitBuild",
         NEW C, NEW P, Charted(C, P)
  PROVE  \E i, w, h, l, d, n : SplitParts(C, M, i, w, h, l, d, n)
<1>1. /\ MemOK /\ WayKnown(C, M) /\ M.node \in Slots /\ Inner(M.node) /\ Id(M.node) \in Ids
      /\ LevelOf(C, M.node) \in Nat /\ C.far[Id(M.node)] \in Nat /\ M.key \in AllKeys
  BY MakingCall
<1>2. SplitKnown(C, M)
  BY <1>1 DEF WayKnown
<1>3. PICK i : i = Id(M.node)
  OBVIOUS
<1>4. PICK w : w = C.way[i]
  OBVIOUS
<1>5. PICK h : h = Id(M.parent)
  OBVIOUS
<1>6. PICK l : l = C.far[h] + 1
  OBVIOUS
<1>7. PICK n : n = mem[M.node]
  OBVIOUS
<1>8. PICK d : d = M.level + M.matched
  OBVIOUS
<1>9. /\ h \in Ids /\ IdHash(M.parent, M.pbyte) = <<h, M.pbyte>> /\ l = LevelOf(C, M.node) /\ l \in Nat
      /\ w \in AllKeys /\ C.far[i] < Len(w)
      /\ \A k : Enters(C, M.node, k) <=> Passes(C, h, k) /\ k[l] = M.pbyte
      /\ n.plen \in Nat /\ C.far[i] = l + n.plen /\ IsSeq(n.prefix) /\ Len(n.prefix) = Stored(n)
      /\ \A j \in 1..Len(n.prefix) : n.prefix[j] = w[l + j]
  BY <1>3, <1>4, <1>5, <1>6, <1>7, PlaceTaken
<1>10. /\ Enters(C, M.node, M.key) /\ M.level = LevelOf(C, M.node)
       /\ M.matched \in Nat /\ M.matched < n.plen /\ d < Len(M.key)
       /\ \A j \in 1..d : M.key[j] = w[j]
       /\ M.miss = w[d + 1] /\ M.miss # M.key[d + 1]
       /\ IsSeq(M.rest) /\ Len(M.rest) = n.plen - M.matched - 1
       /\ \A j \in 1..Len(M.rest) : M.rest[j] = w[d + 1 + j]
  BY <1>2, <1>3, <1>4, <1>7, <1>8 DEF SplitKnown
<1>11. DOMAIN n = NodeFields /\ n.kind # 0 /\ n.id = i /\ i \in Ids
  BY <1>1, <1>3, <1>7 DEF MemOK, Inner, Id
<1>12. M.level = l /\ d = l + M.matched /\ d \in Nat /\ Passes(C, h, M.key) /\ M.key[l] = M.pbyte
  BY <1>8, <1>9, <1>10, SMTT(20)
<1>13. SplitParts(C, M, i, w, h, l, d, n)
  BY <1>1, <1>3, <1>4, <1>6, <1>7, <1>9, <1>10, <1>11, <1>12 DEF SplitParts
<1> QED
  BY <1>13

(* The fork a split makes stands on the common part of the key and of the    *)
(* way.                                                                      *)
LEMMA SplitFork ==
  ASSUME NEW C, NEW M, NEW i, NEW w, NEW h, NEW l, NEW d, NEW n, SplitParts(C, M, i, w, h, l, d, n),
         NEW f, f = Len(mem) + 1, NEW mine, mine = M.key[d + 1],
         NEW fork, fork = Fork(f, n.prefix, M.matched, <<h, M.pbyte>>, mine, f + 1, M.miss, f + 2)
  PROVE  ForkAs(C, M, f, h, M.pbyte, l, d, fork, mine, M.miss)
<1>1. fork.plen = M.matched
  BY ForkLength
<1>2. MaxStored \in Nat
  BY ArtAssumption
<1>3. /\ h \in Ids /\ l \in Nat /\ l = C.far[h] + 1 /\ Passes(C, h, M.key) /\ M.key[l] = M.pbyte
      /\ n.plen \in Nat /\ IsSeq(n.prefix) /\ Len(n.prefix) = Stored(n)
      /\ \A j \in 1..Len(n.prefix) : n.prefix[j] = w[l + j]
      /\ M.matched \in Nat /\ d = l + M.matched /\ d \in Nat /\ M.matched < n.plen /\ d < Len(M.key)
      /\ \A j \in 1..d : M.key[j] = w[j]
      /\ M.miss # M.key[d + 1]
  BY DEF SplitParts
<1>4. Stored(fork) <= Len(n.prefix) /\ Stored(fork) <= M.matched /\ Stored(fork) \in Nat
  BY <1>1, <1>2, <1>3 DEF Stored
<1>5. \A j \in 1..Stored(fork) : n.prefix[j] = M.key[l + j]
  <2> SUFFICES ASSUME NEW j \in 1..Stored(fork) PROVE n.prefix[j] = M.key[l + j]
    OBVIOUS
  <2>1. Len(n.prefix) \in Nat
    BY <1>3, Sequence
  <2>2. M.matched \in Nat /\ d = l + M.matched /\ l \in Nat
    BY <1>3
  <2>3. j \in 1..Len(n.prefix) /\ l + j \in 1..d
    BY <1>4, <2>1, <2>2
  <2>4. n.prefix[j] = w[l + j] /\ M.key[l + j] = w[l + j]
    BY <1>3, <2>3
  <2> QED
    BY <2>4
<1>6. d - l = M.matched /\ l <= d
  <2>1. \A x, y \in Nat : (x + y) - x = y /\ x <= x + y
    OBVIOUS
  <2> QED
    BY <1>3, <2>1
<1> QED
  BY <1>3, <1>4, <1>5, <1>6, ZenonT(30) DEF ForkAs

IsThird(M, n, f, third) ==
  f = Len(mem) + 1 /\ third = Relocated(n, <<f, M.miss>>, M.rest, n.plen - (M.matched + 1))

(* The node moved below that fork fits there.                                *)
LEMMA SplitThird ==
  ASSUME MemOK, NEW C, NEW M, NEW i, NEW w, NEW h, NEW l, NEW d, NEW n, SplitParts(C, M, i, w, h, l, d, n),
         C \in Charts, M.key \in AllKeys,
         NEW f, NEW third, IsThird(M, n, f, third), NEW D, Maps(D, C, f, d, M.key)
  PROVE  ThirdFits(D, f, third) /\ third.kind # 0 /\ third.id = i /\ third.child = n.child
<1>1. /\ DOMAIN n = NodeFields /\ n.kind # 0 /\ n.id = i /\ i \in Ids
      /\ w = C.way[i] /\ w \in AllKeys /\ C.far[i] \in Nat /\ C.far[i] < Len(w) /\ l \in Nat
      /\ n.plen \in Nat /\ C.far[i] = l + n.plen
      /\ M.matched \in Nat /\ d = l + M.matched /\ d \in Nat /\ M.matched < n.plen /\ d < Len(M.key)
      /\ \A j \in 1..d : M.key[j] = w[j]
      /\ M.miss = w[d + 1] /\ IsSeq(M.rest) /\ Len(M.rest) = n.plen - M.matched - 1
      /\ \A j \in 1..Len(M.rest) : M.rest[j] = w[d + 1 + j]
  BY DEF SplitParts
<1>2. PICK length : length = n.plen - (M.matched + 1)
  OBVIOUS
<1>3. length \in Nat /\ length = Len(M.rest) /\ C.far[i] = d + 1 + length
  <2>1. /\ l \in Nat /\ n.plen \in Nat /\ C.far[i] = l + n.plen /\ M.matched \in Nat /\ d = l + M.matched
        /\ M.matched < n.plen /\ Len(M.rest) = n.plen - M.matched - 1
    BY <1>1
  <2> QED
    BY <1>2, <2>1
<1>4. PICK hash : hash = <<f, M.miss>>
  OBVIOUS
<1>5. third = Relocated(n, hash, M.rest, length) /\ f = Len(mem) + 1
  BY <1>2, <1>4 DEF IsThird
<1>6. /\ DOMAIN third = NodeFields /\ third.kind = n.kind /\ third.id = n.id /\ third.hash = hash
      /\ third.child = n.child /\ third.plen = length /\ third.prefix = Prefix(M.rest, Stored(third))
  <2>1. DOMAIN n = NodeFields
    BY <1>1
  <2> QED
    BY <1>5, <2>1, RelocatedParts
<1>7. Stored(third) <= Len(M.rest)
  BY <1>3, <1>6, ArtAssumption DEF Stored
<1>8. /\ IsSeq(third.prefix) /\ Len(third.prefix) = Stored(third) /\ Stored(third) \in Nat
      /\ \A j \in 1..Len(third.prefix) : third.prefix[j] = M.rest[j]
  <2>1. IsSeq(M.rest)
    BY <1>1
  <2>2. third.plen \in Nat
    BY <1>3, <1>6
  <2>3. third.prefix = Prefix(M.rest, Stored(third))
    BY <1>6
  <2> QED
    BY <1>7, <2>1, <2>2, <2>3, KeptBytes
<1>9. \A j \in 1..Len(third.prefix) : third.prefix[j] = w[d + 1 + j]
  <2> SUFFICES ASSUME NEW j \in 1..Len(third.prefix) PROVE third.prefix[j] = w[d + 1 + j]
    OBVIOUS
  <2>1. j \in 1..Len(M.rest)
    BY <1>3, <1>7, <1>8
  <2> QED
    BY <1>1, <1>8, <2>1
<1>10. Len(mem) \in Nat /\ f \in Nat \ Ids
  BY <1>5, Sequence DEF MemOK, Ids
<1>11. /\ Extends(C, D) /\ D.far[f] = d
       /\ \A k : Passes(D, f, k) <=> d < Len(k) /\ \A j \in 1..d : k[j] = M.key[j]
  <2>1. d \in Nat
    BY <1>1
  <2>2. D = Mapped(C, f, d, M.key)
    BY DEF Maps
  <2> QED
    BY <1>10, <2>1, <2>2, MappedChart
<1>12. Passes(D, f, w)
  <2>1. Len(w) \in Nat /\ d < Len(w)
    <3>1. w \in AllKeys
      BY <1>1
    <3>2. Len(w) \in Nat
      BY <3>1, KeyFacts
    <3>3. d \in Nat /\ C.far[i] \in Nat /\ C.far[i] < Len(w)
      BY <1>1
    <3>4. length \in Nat /\ C.far[i] = d + 1 + length
      BY <1>3
    <3> QED
      BY <3>2, <3>3, <3>4
  <2>2. \A j \in 1..d : w[j] = M.key[j]
    BY <1>1
  <2> QED
    BY <1>11, <2>1, <2>2
<1>13. D.far[i] = C.far[i] /\ D.way[i] = w
  BY <1>1, <1>11 DEF Extends
<1>14. PICK e : e = d + 1
  OBVIOUS
<1>15. NodeHangs(D, third, f, M.miss, e, i, w)
  BY <1>1, <1>3, <1>4, <1>6, <1>8, <1>9, <1>11, <1>12, <1>13, <1>14 DEF NodeHangs
<1>16. ThirdFits(D, f, third)
  BY <1>6, <1>15, NewInnerFits DEF ThirdFits
<1> QED
  BY <1>1, <1>6, <1>16

(* What a call allocates leaves the other slots as they are.               *)
LEMMA NodeStays ==
  ASSUME MemOK, NEW t, NEW fork, NEW leaf, NEW third, NEW changes,
         Allocate(t, <<fork, leaf, third>>, changes), NEW s \in Slots
  PROVE  mem'[s] = mem[s]
BY Tuples, Allocated

(* Making the nodes of a split keeps the tree charted.                       *)
LEMMA SplitBuildCharted ==
  ASSUME NEW t \in Threads, NEW M, NEW N, Moving(t, M, N), SplitBuild(t), UNCHANGED <<todo, load>>,
         NEW C, NEW P, Charted(C, P)
  PROVE  \E D : Charted(D, P)'
<1>1. M = loc[t] /\ Turns(t, M, N) /\ M.pc = "splitBuild"
  BY MakingTurns DEF Moving, SplitBuild
<1>2. PICK i, w, h, l, d, n : SplitParts(C, M, i, w, h, l, d, n)
  BY <1>1, SplitPlace
<1>3. /\ MemOK /\ M.key \in AllKeys /\ C \in Charts /\ Slots \subseteq Slots'
      /\ M.node \in P /\ M.node \in Slots /\ Inner(M.node)
  BY <1>1, MakingCall
<1>4. /\ n = mem[M.node] /\ IdHash(M.parent, M.pbyte) = <<h, M.pbyte>>
      /\ M.level = l /\ d = l + M.matched /\ n.id = i
  BY <1>2 DEF SplitParts
<1>5. PICK f : f = Len(mem) + 1
  OBVIOUS
<1>6. PICK mine : mine = M.key[d + 1]
  OBVIOUS
<1>7. PICK fork : fork = Fork(f, n.prefix, M.matched, <<h, M.pbyte>>, mine, f + 1, M.miss, f + 2)
  OBVIOUS
<1>8. PICK leaf : leaf = NewLeaf(M.key, <<f, mine>>)
  OBVIOUS
<1>9. PICK third : IsThird(M, n, f, third)
  BY <1>5 DEF IsThird
<1>10. PICK new : new = <<fork, leaf, third>>
  OBVIOUS
<1>11. PICK changes : ForkChanges("splitLink", f, changes)
  BY DEF ForkChanges
<1>12. PICK D : Maps(D, C, f, d, M.key)
  BY DEF Maps
<1>13. Allocate(t, new, changes)
  <2>1. mine = M.key[M.level + M.matched + 1]
    BY <1>4, <1>6
  <2>2. fork = SetChild(SetChild(NewNode(InitialNode, f, n.prefix, M.matched, IdHash(M.parent, M.pbyte)),
                                 mine, f + 1), M.miss, f + 2)
    BY <1>4, <1>7 DEF Fork
  <2>3. third = [SetPrefix(relocate_node(n, <<f, M.miss>>), M.rest, n.plen - (M.matched + 1))
                    EXCEPT !.word = @ + 2]
    BY <1>9 DEF IsThird, Relocated
  <2>4. leaf = LeafUnder(t, f, mine)
    BY <1>1, <1>8 DEF LeafUnder
  <2>5. changes = [pc |-> "splitLink", fresh |-> f]
    BY <1>11 DEF ForkChanges
  <2> QED
    BY <1>1, <1>4, <1>5, <1>10, <2>1, <2>2, <2>3, <2>4, <2>5 DEF SplitBuild
<1>14. ForkAs(C, M, f, h, M.pbyte, l, d, fork, mine, M.miss)
  BY <1>2, <1>5, <1>6, <1>7, SplitFork
<1>15. ThirdFits(D, f, third) /\ third.kind # 0 /\ third.id = i /\ third.child = n.child
  BY <1>2, <1>3, <1>9, <1>12, SplitThird
<1>16. mem'[M.node] = n
  BY <1>1, <1>3, <1>4, <1>10, <1>13, NodeStays
<1>17. ThirdMade(P, M, N, f, "splitLink", third)
  <2> SUFFICES ASSUME Pronged(P, N)', N.pc = "splitLink", N.fresh = f, N.node = M.node,
                      f + 2 \in Slots' \ Slots, mem'[f + 2] = third
               PROVE  SplitMade(P, N)'
    BY DEF ThirdMade
  <2>1. Inner(f + 2)' /\ Id(f + 2)' = i /\ mem'[f + 2].child = n.child
    BY <1>15 DEF Inner, Id
  <2>2. Inner(M.node)' /\ Id(M.node)' = i /\ mem'[M.node].child = n.child
    BY <1>3, <1>4, <1>16 DEF Inner, Id
  <2> QED
    BY <1>3, <2>1, <2>2 DEF SplitMade
<1>18. ForkTo(M, "splitLink") /\ ForkSlots(M, f, mine, fork, leaf, third, new)
  BY <1>1, <1>8, <1>10 DEF ForkTo, ForkSlots
<1>19. Charted(D, P)'
  BY <1>1, <1>11, <1>12, <1>13, <1>14, <1>15, <1>17, <1>18, ForkCharted
<1> QED
  BY <1>19

(* Two keys that pass a node and enter the same child of it differ below.  *)
LEMMA KeysPart ==
  ASSUME NEW k \in AllKeys, NEW v \in AllKeys, k # v, NEW l \in Nat, l <= Len(k), l <= Len(v),
         \A j \in 1..l : k[j] = v[j], NEW m, m = Agreement(Drop(v, l), Drop(k, l))
  PROVE  /\ m \in Nat /\ l + m < Len(k) /\ l + m < Len(v)
         /\ \A j \in 1..l + m : v[j] = k[j]
         /\ v[l + m + 1] # k[l + m + 1]
<1> DEFINE p == Drop(v, l)
           q == Drop(k, l)
<1>1. IsSeq(k) /\ IsSeq(v) /\ Len(k) \in Nat /\ Len(v) \in Nat
  BY KeySeq, KeyFacts
<1>2. /\ IsSeq(p) /\ Len(p) = Len(v) - l /\ \A j \in 1..Len(v) - l : p[j] = v[l + j]
  BY <1>1, Dropped
<1>3. /\ IsSeq(q) /\ Len(q) = Len(k) - l /\ \A j \in 1..Len(k) - l : q[j] = k[l + j]
  BY <1>1, Dropped
<1>4. m = Agreement(p, q)
  OBVIOUS
<1> HIDE DEF p, q
<1>5. /\ m \in Nat /\ m <= Len(p) /\ m <= Len(q)
      /\ \A j \in 1..m : p[j] = q[j]
      /\ m < Len(p) => m = Len(q) \/ p[m + 1] # q[m + 1]
  BY <1>2, <1>3, <1>4, Agrees, SMTT(20)
<1>6. \A j \in 1..l + m : v[j] = k[j]
  <2> SUFFICES ASSUME NEW j \in 1..l + m, ~(j <= l) PROVE v[j] = k[j]
    OBVIOUS
  <2>1. PICK i \in 1..m : j = l + i
    <3>1. j - l \in 1..m /\ j = l + (j - l)
      BY <1>5
    <3> QED
      BY <3>1
  <2>2. i \in 1..Len(v) - l /\ i \in 1..Len(k) - l
    BY <1>1, <1>2, <1>3, <1>5
  <2>3. p[i] = v[l + i] /\ q[i] = k[l + i] /\ p[i] = q[i]
    BY <1>2, <1>3, <1>5, <2>2
  <2> QED
    BY <2>1, <2>3
<1>7. PICK i \in 1..Len(k) : i <= Len(v) /\ k[i] # v[i]
  BY KeysDiffer
<1>8. ~(i \in 1..l + m)
  BY <1>6, <1>7
<1>9. l + m < Len(k) /\ l + m < Len(v)
  BY <1>1, <1>5, <1>7, <1>8
<1>10. v[l + m + 1] # k[l + m + 1]
  <2>1. m + 1 \in 1..Len(v) - l /\ m + 1 \in 1..Len(k) - l /\ m < Len(p) /\ m # Len(q)
    BY <1>1, <1>2, <1>3, <1>5, <1>9
  <2>2. p[m + 1] # q[m + 1]
    BY <1>5, <2>1
  <2>3. p[m + 1] = v[l + (m + 1)] /\ q[m + 1] = k[l + (m + 1)]
    BY <1>2, <1>3, <2>1
  <2>4. l + (m + 1) = l + m + 1
    BY <1>5
  <2> QED
    BY <2>2, <2>3, <2>4
<1> QED
  BY <1>5, <1>6, <1>9, <1>10

(* What the split of a leaf with key v is made of.                         *)
LeafParts(C, M, v, h, l, m, d) ==
  /\ v = mem[M.next].value /\ v \in AllKeys /\ h \in Ids /\ IdHash(M.node, M.byte) = <<h, M.byte>>
  /\ l \in Nat /\ l = M.level + 1 /\ l = C.far[h] + 1 /\ Passes(C, h, M.key) /\ M.key[l] = M.byte
  /\ m = Agreement(Drop(v, l), Drop(M.key, l)) /\ m \in Nat /\ d = l + m /\ d \in Nat
  /\ d < Len(M.key) /\ d < Len(v)
  /\ \A j \in 1..d : v[j] = M.key[j]
  /\ v[d + 1] # M.key[d + 1]

(* The leaf to split has its place: its key leaves the inserted one after d  *)
(* bytes.                                                                    *)
LEMMA LeafPlace ==
  ASSUME NEW t \in Threads, NEW M, NEW N, Moving(t, M, N), M.pc = "leafBuild",
         NEW C, NEW P, Charted(C, P)
  PROVE  /\ M.next \in P /\ M.next \in Slots /\ IsLeaf(M.next)
         /\ \E v, h, l, m, d : LeafParts(C, M, v, h, l, m, d)
<1>1. /\ MemOK /\ Placed(C) /\ WayKnown(C, M) /\ M.node \in Slots /\ Inner(M.node) /\ Id(M.node) \in Ids
      /\ C.far[Id(M.node)] \in Nat /\ M.key \in AllKeys /\ Reading(M) /\ KindsKnown(M)
      /\ HeldBy(M) \subseteq P \cup {Nil} /\ Absent(P, M.key) /\ M.op = "insert"
  BY MakingCall
<1>2. Under(M.next, M.node, M.byte)
  BY <1>1 DEF Reading, LeafSplitting
<1>3. M.next \in Slots /\ M.next \in P
  BY <1>1, <1>2 DEF Under, HeldBy, Slots, Nil
<1>4. IsLeaf(M.next)
  BY <1>1 DEF KindsKnown, LeafSplitting
<1>5. PICK v : v = mem[M.next].value
  OBVIOUS
<1>6. PICK h : h = Id(M.node)
  OBVIOUS
<1>7. PICK l : l = M.level + 1
  OBVIOUS
<1>8. Passes(C, h, M.key) /\ M.level = C.far[h] /\ M.byte = M.key[l]
  BY <1>1, <1>6, <1>7 DEF WayKnown, AtChild
<1>9. v \in AllKeys /\ Enters(C, M.next, v) /\ v # M.key
  <2>1. Fits(C, M.next)
    BY <1>1, <1>3 DEF Placed
  <2>2. LeafFits(C, M.next)
    BY <1>4, <2>1 DEF Fits
  <2>3. mem[M.next].value # M.key
    BY <1>1, <1>3, <1>4 DEF Absent
  <2> QED
    BY <1>5, <2>2, <2>3 DEF LeafFits
<1>10. C.far[h] \in Nat /\ l = C.far[h] + 1 /\ l \in Nat
  BY <1>1, <1>6, <1>7, <1>8
<1>11. Passes(C, h, v) /\ v[l] = M.byte
  BY <1>1, <1>2, <1>6, <1>9, <1>10, ChildEnters
<1>12. l <= Len(M.key) /\ l <= Len(v) /\ \A j \in 1..l : M.key[j] = v[j]
  <2>1. Len(M.key) \in Nat /\ Len(v) \in Nat
    BY <1>1, <1>9, KeyFacts
  <2>2. C.far[h] < Len(M.key) /\ C.far[h] < Len(v)
    BY <1>8, <1>11 DEF Passes
  <2>3. \A j \in 1..C.far[h] : M.key[j] = v[j]
    BY <1>8, <1>11 DEF Passes
  <2>4. M.key[l] = v[l]
    BY <1>8, <1>11
  <2>5. \A j \in 1..l : j \in 1..C.far[h] \/ j = l
    BY <1>10
  <2> QED
    BY <1>10, <2>1, <2>2, <2>3, <2>4, <2>5
<1>13. PICK m : m = Agreement(Drop(v, l), Drop(M.key, l))
  OBVIOUS
<1>14. PICK d : d = l + m
  OBVIOUS
<1>15. /\ m \in Nat /\ d < Len(M.key) /\ d < Len(v)
       /\ \A j \in 1..d : v[j] = M.key[j]
       /\ v[d + 1] # M.key[d + 1]
  <2>1. PICK k \in AllKeys : k = M.key
    BY <1>1
  <2>2. /\ v \in AllKeys /\ k # v /\ l \in Nat /\ l <= Len(k) /\ l <= Len(v)
        /\ \A j \in 1..l : k[j] = v[j]
        /\ m = Agreement(Drop(v, l), Drop(k, l))
    BY <1>9, <1>10, <1>12, <1>13, <2>1
  <2>3. /\ m \in Nat /\ l + m < Len(k) /\ l + m < Len(v)
        /\ \A j \in 1..l + m : v[j] = k[j]
        /\ v[l + m + 1] # k[l + m + 1]
    BY <2>2, KeysPart
  <2> QED
    BY <1>14, <2>1, <2>3
<1>16. IdHash(M.node, M.byte) = <<h, M.byte>>
  BY <1>6 DEF IdHash, Id
<1>17. d \in Nat
  BY <1>10, <1>14, <1>15, SMTT(20)
<1>18. LeafParts(C, M, v, h, l, m, d)
  BY <1>1, <1>5, <1>6, <1>7, <1>8, <1>9, <1>10, <1>13, <1>14, <1>15, <1>16, <1>17 DEF LeafParts
<1> QED
  BY <1>3, <1>4, <1>18

(* The part of a key that follows its first l bytes.                       *)
LEMMA BytesBelow ==
  \A key, below : \A l, m, d \in Nat :
     IsSeq(key) /\ Len(key) \in Nat /\ below = Drop(key, l) /\ d = l + m /\ d < Len(key) =>
        /\ l <= d /\ d - l = m /\ IsSeq(below) /\ Len(below) \in Nat /\ m <= Len(below)
        /\ \A j \in 1..m : below[j] = key[l + j]
<1> SUFFICES ASSUME NEW key, NEW l \in Nat, NEW m \in Nat, NEW d \in Nat,
                    IsSeq(key), Len(key) \in Nat, d = l + m, d < Len(key), NEW below, below = Drop(key, l)
             PROVE  /\ l <= d /\ d - l = m /\ IsSeq(below) /\ Len(below) \in Nat /\ m <= Len(below)
                    /\ \A j \in 1..m : below[j] = key[l + j]
  OBVIOUS
<1>1. PICK n \in Nat : n = Len(key)
  OBVIOUS
<1>2. l <= d /\ d - l = m /\ l <= n /\ n - l \in Nat /\ m <= n - l
  BY <1>1
<1>3. /\ IsSeq(below) /\ Len(below) = n - l
      /\ \A j \in 1..n - l : below[j] = key[l + j]
  BY <1>1, <1>2, Dropped
<1>4. 1..m \subseteq 1..n - l
  BY <1>2
<1> QED
  BY <1>2, <1>3, <1>4

IsLeafFork(M, v, h, l, m, d, f, mine, other, below, fork) ==
  /\ f = Len(mem) + 1 /\ mine = M.key[d + 1] /\ other = v[d + 1] /\ below = Drop(M.key, l)
  /\ fork = Fork(f, below, m, <<h, M.byte>>, mine, f + 1, other, f + 2)

(* The fork over two leaves stands on the common part of their keys.         *)
LEMMA LeafFork ==
  ASSUME NEW C, NEW M, NEW v, NEW h, NEW l, NEW m, NEW d, LeafParts(C, M, v, h, l, m, d),
         M.key \in AllKeys, NEW f, NEW mine, NEW other, NEW below, NEW fork,
         IsLeafFork(M, v, h, l, m, d, f, mine, other, below, fork)
  PROVE  ForkAs(C, M, f, h, M.byte, l, d, fork, mine, other)
<1>1. fork.plen = m
  BY ForkLength DEF IsLeafFork
<1>2. MaxStored \in Nat
  BY ArtAssumption
<1>3. /\ h \in Ids /\ l \in Nat /\ l = C.far[h] + 1 /\ Passes(C, h, M.key) /\ M.key[l] = M.byte
      /\ m \in Nat /\ d = l + m /\ d \in Nat /\ d < Len(M.key) /\ v[d + 1] # M.key[d + 1]
  BY DEF LeafParts
<1>4. Stored(fork) <= m /\ Stored(fork) \in Nat
  BY <1>1, <1>2, <1>3 DEF Stored
<1>5. IsSeq(M.key) /\ Len(M.key) \in Nat
  BY KeySeq, KeyFacts
<1>6. /\ l <= d /\ d - l = m /\ IsSeq(below) /\ Len(below) \in Nat /\ m <= Len(below)
      /\ \A j \in 1..m : below[j] = M.key[l + j]
  <2>1. PICK key : key = M.key
    OBVIOUS
  <2>2. below = Drop(key, l)
    BY <2>1 DEF IsLeafFork
  <2>3. IsSeq(key) /\ Len(key) \in Nat /\ d < Len(key)
    BY <1>3, <1>5, <2>1
  <2>4. l \in Nat /\ m \in Nat /\ d \in Nat /\ d = l + m
    BY <1>3
  <2>5. /\ l <= d /\ d - l = m /\ IsSeq(below) /\ Len(below) \in Nat /\ m <= Len(below)
        /\ \A j \in 1..m : below[j] = key[l + j]
    BY <2>2, <2>3, <2>4, BytesBelow
  <2> QED
    BY <2>1, <2>5
<1>7. Stored(fork) <= Len(below) /\ 1..Stored(fork) \subseteq 1..m
  <2>1. PICK r \in Nat : r = Stored(fork)
    BY <1>4
  <2>2. PICK c \in Nat : c = Len(below)
    BY <1>6
  <2>3. r <= m /\ m <= c /\ m \in Nat
    BY <1>3, <1>4, <1>6, <2>1, <2>2
  <2>4. r <= c /\ 1..r \subseteq 1..m
    BY <2>3
  <2> QED
    BY <2>1, <2>2, <2>4
<1>8. \A j \in 1..Stored(fork) : below[j] = M.key[l + j]
  BY <1>6, <1>7
<1>9. /\ f = Len(mem) + 1 /\ mine = M.key[d + 1] /\ other = v[d + 1]
      /\ fork = Fork(f, below, m, <<h, M.byte>>, mine, f + 1, other, f + 2)
  BY DEF IsLeafFork
<1> QED
  BY <1>3, <1>6, <1>7, <1>8, <1>9, ZenonT(30) DEF ForkAs

IsMovedLeaf(v, d, f, other, third) ==
  f = Len(mem) + 1 /\ other = v[d + 1] /\ third = NewLeaf(v, <<f, other>>)

(* The copy of the old leaf fits below that fork.                            *)
LEMMA LeafThird ==
  ASSUME MemOK, NEW C, NEW M, NEW v, NEW h, NEW l, NEW m, NEW d, LeafParts(C, M, v, h, l, m, d),
         C \in Charts, M.key \in AllKeys, NEW f, NEW D, Maps(D, C, f, d, M.key),
         NEW other, NEW third, IsMovedLeaf(v, d, f, other, third)
  PROVE  ThirdFits(D, f, third)
<1>1. v \in AllKeys /\ d \in Nat /\ d < Len(v) /\ \A j \in 1..d : v[j] = M.key[j]
  BY DEF LeafParts
<1>2. Len(mem) \in Nat /\ f \in Nat \ Ids
  BY Sequence DEF MemOK, Ids, IsMovedLeaf
<1>3. /\ Extends(C, D) /\ D.far[f] = d
      /\ \A k : Passes(D, f, k) <=> d < Len(k) /\ \A j \in 1..d : k[j] = M.key[j]
  <2>1. d \in Nat
    BY <1>1
  <2> QED
    BY <1>2, <2>1, MappedChart
<1>4. LeafHangs(D, third, f, other, v)
  BY <1>1, <1>3 DEF LeafHangs, IsMovedLeaf
<1>5. DOMAIN third = NodeFields
  BY LeafMade DEF IsMovedLeaf
<1> QED
  BY <1>4, <1>5, NewLeafFits DEF ThirdFits

(* The level of an insert that splits a leaf is a number.                    *)
LEMMA LeafLevel ==
  ASSUME NEW t \in Threads, NEW M, NEW N, Moving(t, M, N), M.pc = "leafBuild",
         NEW C, NEW P, Charted(C, P)
  PROVE  M.level \in Nat
<1>1. WayKnown(C, M) /\ C.far[Id(M.node)] \in Nat
  BY MakingCall
<1> QED
  BY <1>1 DEF WayKnown, AtChild

(* Making the nodes of a leaf split keeps the tree charted.                  *)
LEMMA LeafBuildCharted ==
  ASSUME NEW t \in Threads, NEW M, NEW N, Moving(t, M, N), LeafBuild(t), UNCHANGED <<todo, load>>,
         NEW C, NEW P, Charted(C, P)
  PROVE  \E D : Charted(D, P)'
<1>1. M = loc[t] /\ Turns(t, M, N) /\ M.pc = "leafBuild"
  BY MakingTurns DEF Moving, LeafBuild
<1>2. M.next \in P /\ M.next \in Slots /\ IsLeaf(M.next)
  BY <1>1, LeafPlace
<1>3. PICK v, h, l, m, d : LeafParts(C, M, v, h, l, m, d)
  BY <1>1, LeafPlace
<1>4. MemOK /\ M.key \in AllKeys /\ C \in Charts /\ Slots \subseteq Slots'
  BY <1>1, MakingCall
<1>5. /\ v = mem[M.next].value /\ IdHash(M.node, M.byte) = <<h, M.byte>> /\ l = M.level + 1
      /\ m = Agreement(Drop(v, l), Drop(M.key, l)) /\ d = l + m
      /\ l \in Nat /\ m \in Nat /\ d < Len(M.key)
  BY <1>3 DEF LeafParts
<1>5a. M.level \in Nat
  BY <1>1, LeafLevel
<1>6. PICK f : f = Len(mem) + 1
  OBVIOUS
<1>7. PICK mine : mine = M.key[d + 1]
  OBVIOUS
<1>8. PICK other : other = v[d + 1]
  OBVIOUS
<1>9. PICK below : below = Drop(M.key, l)
  OBVIOUS
<1>10. PICK fork : fork = Fork(f, below, m, <<h, M.byte>>, mine, f + 1, other, f + 2)
  OBVIOUS
<1>11. PICK leaf : leaf = NewLeaf(M.key, <<f, mine>>)
  OBVIOUS
<1>12. PICK third : third = NewLeaf(v, <<f, other>>)
  OBVIOUS
<1>13. PICK new : new = <<fork, leaf, third>>
  OBVIOUS
<1>14. PICK changes : ForkChanges("leafObsolete", f, changes)
  BY DEF ForkChanges
<1>15. PICK D : Maps(D, C, f, d, M.key)
  BY DEF Maps
<1>16. Allocate(t, new, changes)
  <2>1. mine = below[m + 1]
    <3>1. IsSeq(M.key) /\ Len(M.key) \in Nat
      BY <1>4, KeySeq, KeyFacts
    <3>2. l <= Len(M.key) /\ m + 1 \in 1..Len(M.key) - l /\ d + 1 = l + (m + 1)
      BY <1>5, <3>1
    <3> QED
      BY <1>5, <1>7, <1>9, <3>1, <3>2, Dropped
  <2>2. other = v[M.level + m + 2]
    <3>1. M.level + m + 2 = d + 1
      BY <1>5, <1>5a
    <3> QED
      BY <1>8, <3>1
  <2>3. fork = SetChild(SetChild(NewNode(InitialNode, f, below, m, IdHash(M.node, M.byte)),
                                 mine, f + 1), other, f + 2)
    BY <1>5, <1>10 DEF Fork
  <2>4. leaf = LeafUnder(t, f, mine)
    BY <1>1, <1>11 DEF LeafUnder
  <2>5. changes = [pc |-> "leafObsolete", fresh |-> f]
    BY <1>14 DEF ForkChanges
  <2>6. below = Drop(M.key, M.level + 1) /\ m = Agreement(Drop(v, M.level + 1), below)
    BY <1>5, <1>9
  <2> QED
    BY <1>1, <1>5, <1>6, <1>12, <1>13, <2>1, <2>2, <2>3, <2>4, <2>5, <2>6 DEF LeafBuild
<1>17. ForkAs(C, M, f, h, M.byte, l, d, fork, mine, other)
  <2>1. IsLeafFork(M, v, h, l, m, d, f, mine, other, below, fork)
    BY <1>6, <1>7, <1>8, <1>9, <1>10 DEF IsLeafFork
  <2> QED
    BY <1>3, <1>4, <2>1, LeafFork
<1>18. ThirdFits(D, f, third)
  BY <1>3, <1>4, <1>6, <1>8, <1>12, <1>15, LeafThird DEF IsMovedLeaf
<1>19. mem'[M.next] = mem[M.next]
  BY <1>2, <1>4, <1>13, <1>16, NodeStays
<1>20. ThirdMade(P, M, N, f, "leafObsolete", third)
  <2> SUFFICES ASSUME Pronged(P, N)', N.pc = "leafObsolete", N.fresh = f, N.next = M.next,
                      f + 2 \in Slots' \ Slots, mem'[f + 2] = third
               PROVE  LeafSplitMade(P, N)'
    BY DEF ThirdMade
  <2>1. third.kind = 0 /\ third.value = v
    BY <1>12, LeafMade
  <2>2. IsLeaf(f + 2)' /\ mem'[f + 2].value = v
    BY <2>1 DEF IsLeaf
  <2>3. IsLeaf(M.next)' /\ mem'[M.next].value = v
    BY <1>2, <1>4, <1>5, <1>19 DEF IsLeaf
  <2> QED
    BY <1>2, <2>2, <2>3 DEF LeafSplitMade
<1>21. ForkTo(M, "leafObsolete") /\ ForkSlots(M, f, mine, fork, leaf, third, new)
  BY <1>1, <1>11, <1>13 DEF ForkTo, ForkSlots
<1>22. Charted(D, P)'
  BY <1>1, <1>14, <1>15, <1>16, <1>17, <1>18, <1>20, <1>21, ForkCharted
<1> QED
  BY <1>22

(* Every step that makes nodes keeps the tree charted.                       *)
LEMMA MakeCharted ==
  ASSUME NEW t \in Threads, NEW M, NEW N, Moving(t, M, N), MakeStep(t), UNCHANGED <<todo, load>>,
         NEW C, NEW P, Charted(C, P)
  PROVE  \E D : Charted(D, P)'
<1>1. CASE PutLeaf(t)
  BY <1>1, PutLeafCharted
<1>2. CASE GrowBuild(t)
  BY <1>2, GrowBuildCharted
<1>3. CASE SplitBuild(t)
  BY <1>3, SplitBuildCharted
<1>4. CASE LeafBuild(t)
  BY <1>4, LeafBuildCharted
<1> QED
  BY <1>1, <1>2, <1>3, <1>4 DEF MakeStep
-----------------------------------------------------------------------------
(* The steps that link what a call has built.                              *)
LEMMA LeadsOnNext ==
  (\A C, s, p, k, E :
     /\ Leads(C, s, k, {p}) /\ Inner(p) /\ Passes(C, Id(p), k)
     /\ Leads(C, ToChild(C, p, k), k, E)
     => Leads(C, s, k, E))'
BY LeadsOn, PTL

(* The call that has linked its leaf is the only one with its key.         *)
LEMMA KeyLanded ==
  \A t \in Threads, k \in AllKeys : \A M :
     /\ NoKeyTwice(load, todo) /\ (load # <<>> => t = Loader)
     /\ M.op = "insert" /\ M.key = k /\ First(t, M) /\ Landed(loc[t])
     => ~Coming(k)
<1> SUFFICES ASSUME NEW t \in Threads, NEW k \in AllKeys, NEW M,
                    NoKeyTwice(load, todo), load # <<>> => t = Loader,
                    M.op = "insert", M.key = k, First(t, M), Landed(loc[t])
             PROVE  ~Coming(k)
  OBVIOUS
<1>1. \A i, j : Loads(i, k) /\ Loads(j, k) => i = j
  BY DEF NoKeyTwice, Loads
<1>2. \A u, w \in Threads : \A i, j : Inserts(u, i, k) /\ Inserts(w, j, k) => u = w /\ i = j
  BY DEF NoKeyTwice, Inserts
<1>3. \A i : Loads(i, k) => \A u \in Threads : \A j : ~Inserts(u, j, k)
  BY DEF NoKeyTwice, Inserts, Loads
<1>4. CASE load # <<>>
  <2>1. Loads(1, k) /\ t = Loader
    BY <1>4 DEF First
  <2> QED
    BY <1>1, <1>3, <2>1 DEF Coming
<1>5. CASE load = <<>>
  <2>1. Inserts(t, 1, k)
    BY <1>5 DEF First, Inserts
  <2> QED
    BY <1>2, <1>3, <1>5, <2>1 DEF Coming
<1> QED
  BY <1>4, <1>5

(* KeyLanded, of the state after the step.                                   *)
LEMMA KeyLandedNext ==
  (\A t \in Threads, k \in AllKeys : \A M :
     /\ NoKeyTwice(load, todo) /\ (load # <<>> => t = Loader)
     /\ M.op = "insert" /\ M.key = k /\ First(t, M) /\ Landed(loc[t])
     => ~Coming(k))'
BY KeyLanded, PTL

(* A key that was just linked comes from no other call.                      *)
LEMMA KeyLinked ==
  ASSUME NEW t \in Threads, NEW M, NEW N, Turns(t, M, N), UNCHANGED <<todo, load>>, Calls(M),
         NEW C, NEW P, Charted(C, P), M.op = "insert", Landed(N)
  PROVE  ~Coming(M.key)'
<1>1. TInv /\ M = loc[t] /\ N = loc'[t]
  BY DEF Turns, Moving
<1>2. KeysOK(P) /\ QueueOK /\ M # Idle
  BY <1>1 DEF Charted, TInv, Calls, Idle
<1>3. First(t, M) /\ M.key \in AllKeys /\ NoKeyTwice(load, todo)
  BY <1>1, <1>2 DEF KeysOK
<1>4. load # <<>> => t = Loader
  BY <1>1, <1>2 DEF QueueOK, Due
<1>5. NoKeyTwice(load, todo)' /\ First(t, M)' /\ (load' # <<>> => t = Loader')
  BY <1>3, <1>4 DEF First, Loads, Loader
<1>6. Landed(loc[t])'
  BY <1>1
<1> QED
  BY <1>3, <1>5, <1>6, KeyLandedNext
(* The pointer that is changed, and what it leads to before and after.     *)
LEMMA LinkForm ==
  ASSUME NEW t \in Threads, NEW M, NEW N, Moving(t, M, N), LinkStep(t)
  PROVE  /\ Turns(t, M, N) /\ UNCHANGED retired /\ M = loc[t] /\ Calls(M)
         /\ N # Idle /\ N.op = M.op /\ N.key = M.key
         /\ \E p, b : Hooks(M, N, p, b) /\ change(p, b, M.fresh)
<1>1. M = loc[t] /\ Calls(M) /\ UNCHANGED retired /\ M.pc \in Changing
  BY DEF LinkStep, PutInsert, GrowLink, SplitLink, LeafLink, Moving, Calls, Changing, Putting, Replacing,
         Growing, Splitting, LeafSplitting
<1>2. Turns(t, M, N)
  BY HookingTurns DEF LinkStep
<1>3. PICK to : /\ Go(t, [pc |-> to])
                /\ \/ M.pc \in {"putInsert", "leafLink"} /\ to = "unlock"
                      /\ change(M.node, M.byte, M.fresh)
                   \/ M.pc = "growLink" /\ to = "growObsolete" /\ change(M.parent, M.pbyte, M.fresh)
                   \/ M.pc = "splitLink" /\ to = "splitUnlock" /\ change(M.parent, M.pbyte, M.fresh)
  BY <1>1 DEF LinkStep, PutInsert, GrowLink, SplitLink, LeafLink
<1>4. Changed(N, M, [pc |-> to])
  BY <1>1, <1>3, Outcomes DEF Fields
<1>5. Onward(M, N) /\ N.pc = to /\ N.claim = M.claim
  BY <1>4, Going
<1>6. N.key = M.key /\ N # Idle
  BY <1>3, <1>4, <1>5 DEF Changed, Fields, Idle
<1>7. \E p, b : Hooks(M, N, p, b) /\ change(p, b, M.fresh)
  BY <1>3, <1>5 DEF Hooks
<1> QED
  BY <1>1, <1>2, <1>5, <1>6, <1>7 DEF Onward

(* What is known of the link: p is the node that is changed, b the byte, c *)
(* the child that was there.                                               *)
LinksUp(C, P, M, p, b, c) ==
  /\ Placed(C) /\ PublicOK(C, P) /\ Ready(C, P, M) /\ M.pc \in Preparing /\ M.key \in AllKeys
  /\ p \in P /\ Inner(p) /\ Live(p) /\ Under(M.fresh, p, b) /\ change(p, b, M.fresh)
  /\ c = ChildOf(mem[p], b) /\ c # p /\ c \in P \cup {Nil}
  /\ Extends(C, C) /\ Leading(C, C, c)
  /\ HeldBy(M) \subseteq P \cup {Nil}
  /\ Inner(c) => M.pc \in {"growLink", "splitLink"} /\ c = M.node

(* Where a link step hooks the fresh node in, and what it leads to there.    *)
LEMMA LinkPlace ==
  ASSUME NEW t \in Threads, NEW M, NEW N, Turns(t, M, N), NEW C, NEW P, Charted(C, P),
         NEW p, NEW b, Hooks(M, N, p, b), change(p, b, M.fresh)
  PROVE  \E c : LinksUp(C, P, M, p, b, c)
<1>1. M = loc[t] /\ TInv /\ LInv /\ Moving(t, M, N) /\ Grows
  BY DEF Turns, Moving
<1>2. /\ M.pc \in Changing /\ Keeps(M, p) /\ M.pc \in Preparing
  BY HookingOwns
<1>3. M.pc \in Inserting /\ M.pc # "insert"
  BY <1>2 DEF Changing, Inserting, Putting, Replacing, Growing, Splitting, LeafSplitting
<1>4. /\ Placed(C) /\ PublicOK(C, P) /\ InsertKnows(C, P, M) /\ ChildKnown(M)
      /\ HeldBy(M) \subseteq P \cup {Nil} /\ M.key \in AllKeys /\ M.op = "insert"
      /\ Here(M) /\ Reading(M) /\ Building(M) /\ M.node \in P /\ M.node \in Slots /\ Inner(M.node)
      /\ Knows(M) /\ Current(M) /\ P \subseteq Slots
  BY <1>1, <1>3, InsertingCall
<1>5. Ready(C, P, M)
  BY <1>2, <1>4 DEF InsertKnows
<1>6. M.parent # Nil => M.parent \in P /\ Inner(M.parent)
  BY <1>4 DEF HeldBy, Knows, KindsKnown
<1>7. M.pc \in {"growLink", "splitLink"} => M.parent # Nil
  BY <1>1, <1>2, ChangingCall DEF Replacing, Growing, Splitting
<1>8. p \in P /\ Inner(p)
  BY <1>4, <1>6, <1>7 DEF Hooks
<1>9. Under(M.fresh, p, b)
  BY <1>4 DEF Building, Hooks
<1>10. Live(p)
  BY <1>1, <1>2 DEF Live
<1>11. PICK c : c = ChildOf(mem[p], b)
  OBVIOUS
<1>12. M.pc = "putInsert" => c = Nil
  BY <1>4, <1>11 DEF ChildKnown, NoChild, Hooks
<1>13. M.pc # "putInsert" => c = Old(M)
  BY <1>4, <1>11 DEF Current, HasChild, ChildOf, Old, Hooks
<1>14. c \in P \cup {Nil}
  BY <1>4, <1>8, <1>11 DEF PublicOK, ChildOf
<1>15. c # p
  <2>1. CASE c = Nil
    BY <1>4, <1>8, <2>1, NoSlots
  <2>2. CASE c # Nil
    <3>1. LevelOf(C, c) = C.far[Id(p)] + 1
      BY <1>4, <1>8, <1>11, <2>2, ChildUnder, ChildEnters
    <3>2. LevelOf(C, p) \in Nat /\ mem[p].plen \in Nat /\ C.far[Id(p)] = LevelOf(C, p) + mem[p].plen
      BY <1>4, <1>8, SlotFacts
    <3> QED
      BY <3>1, <3>2
  <2> QED
    BY <2>1, <2>2
<1>16. Extends(C, C)
  BY <1>4 DEF Extends, Placed
<1>17. Leading(C, C, c)
  <2>1. Batch(M) \subseteq Slots /\ p \notin Batch(M)
    BY <1>4, <1>5, <1>8 DEF Ready
  <2>2. c # Nil => Replaces(C, c, M.fresh, Batch(M))
    BY <1>5, <1>12, <1>13 DEF Ready
  <2>3. p \in Slots
    BY <1>4, <1>8
  <2> QED
    BY <1>1, <1>4, <1>11, <1>16, <2>1, <2>2, <2>3, WaysHooked
<1>18. Inner(c) => M.pc \in {"growLink", "splitLink"} /\ c = M.node
  <2>1. M.pc = "leafLink" => c = M.next /\ IsLeaf(M.next)
    BY <1>4, <1>13 DEF Old, Knows, KindsKnown, LeafSplitting
  <2>2. M.pc \in {"growLink", "splitLink"} => c = M.node
    BY <1>13 DEF Old
  <2> QED
    BY <1>12, <2>1, <2>2, NoSlots DEF Hooks, Inner, IsLeaf
<1>19. LinksUp(C, P, M, p, b, c)
  BY <1>2, <1>4, <1>5, <1>8, <1>9, <1>10, <1>11, <1>14, <1>15, <1>16, <1>17, <1>18 DEF LinksUp
<1> QED
  BY <1>19

(* The way that a key takes through the node that is linked.               *)
LEMMA LinkLeads ==
  ASSUME Grows, NEW C, NEW P, NEW M, NEW p, NEW b, NEW c, LinksUp(C, P, M, p, b, c),
         NEW k \in AllKeys, Enters(C, M.fresh, k), NEW E, Leads(C, M.fresh, k, E),
         c \notin E, Nil \notin E
  PROVE  Leads(C, Root, k, E)'
<1>1. /\ Placed(C) /\ PublicOK(C, P) /\ p \in P /\ Inner(p) /\ Live(p) /\ Under(M.fresh, p, b)
      /\ change(p, b, M.fresh) /\ c # p /\ Extends(C, C) /\ Leading(C, C, c) /\ p \in Slots
  BY DEF LinksUp, PublicOK
<1>2. Passes(C, Id(p), k) /\ k[C.far[Id(p)] + 1] = b
  BY <1>1, ChildEnters
<1>3. Enters(C, p, k)
  BY <1>1, <1>2, PassesEnters
<1>4. Leads(C, Root, k, {p})
  BY <1>1, <1>3 DEF PublicOK
<1>5. Leads(C, Root, k, {p})'
  BY <1>1, <1>4, NoSlots DEF Leading
<1>6. Leads(C, M.fresh, k, E)'
  BY <1>1 DEF Leading
<1>7. Inner(p)' /\ Id(p)' = Id(p)
  BY <1>1, SlotsLast
<1>8. ToChild(C, p, k)' = M.fresh
  <2>1. b \in DOMAIN mem'[p].child /\ mem'[p].child[b] = M.fresh
    BY <1>1, ChildChanged DEF Placed
  <2> QED
    BY <1>2, <1>7, <2>1 DEF ToChild, ChildOf
<1>9. Passes(C, Id(p)', k) /\ Leads(C, ToChild(C, p, k), k, E)'
  BY <1>2, <1>6, <1>7, <1>8
<1> QED
  BY <1>5, <1>7, <1>9, LeadsOnNext

(* After the link the key is found, and so is every key that was found       *)
(* before.                                                                   *)
LEMMA LinkFinds ==
  ASSUME Grows, NEW C, NEW P, NEW M, NEW p, NEW b, NEW c, LinksUp(C, P, M, p, b, c)
  PROVE  /\ Finds(C, Root, M.key)'
         /\ \A k \in AllKeys : Finds(C, Root, k) => Finds(C, Root, k)'
<1>1. Enters(C, M.fresh, M.key) /\ Finds(C, M.fresh, M.key) /\ M.key \in AllKeys /\ Leading(C, C, c)
  BY DEF LinksUp, Ready
<1>2. Leads(C, Root, M.key, {})'
  BY <1>1, LinkLeads DEF Finds
<1>3. \A k \in AllKeys : Finds(C, Root, k) => Finds(C, Root, k)'
  BY <1>1 DEF Leading, Finds
<1> QED
  BY <1>2, <1>3 DEF Finds

(* A node that is replaced is not live any more.                           *)
LEMMA LinkKills ==
  ASSUME NEW t \in Threads, NEW M, NEW N, Turns(t, M, N), NEW C, NEW P,
         NEW p, NEW b, Hooks(M, N, p, b), NEW c, LinksUp(C, P, M, p, b, c), Inner(c)
  PROVE  ~Live(c)'
<1>1. /\ M = loc[t] /\ N = loc'[t] /\ TInv /\ LInv /\ Moving(t, M, N)
      /\ \A u \in Threads : u # t => loc'[u] = loc[u]
  BY DEF Turns, Moving
<1>2. c # p /\ change(p, b, M.fresh) /\ p \in Slots /\ c \in Slots
  BY DEF LinksUp, Inner
<1>3. M.pc \in {"growLink", "splitLink"} /\ c = M.node /\ p = M.parent
  BY DEF LinksUp, Hooks
<1>4. Owns(M, c) /\ Taken(c)
  <2>1. Owns(M, c)
    BY <1>3 DEF Owns, Copies, CopiesNode
  <2> QED
    BY <1>1, <2>1, Unchanging
<1>5. ~Free(c)'
  <2>1. mem'[c].word = mem[c].word
    BY <1>1, <1>2, ChildChanged DEF TInv
  <2> QED
    BY <1>4, <2>1 DEF Free, Taken
<1>6. ASSUME NEW u \in Threads PROVE ~Keeps(loc'[u], c)
  <2>1. CASE u = t
    BY <1>1, <1>2, <1>3, <2>1 DEF Hooks, Onward, Keeps, KeepsNode, KeepsParent, KeepsNext
  <2>2. CASE u # t
    <3>1. loc'[u] = loc[u] /\ ~Owns(loc[u], c)
      BY <1>1, <1>4, <2>2, Unchanging
    <3> QED
      BY <3>1 DEF Owns
  <2> QED
    BY <2>1, <2>2
<1> QED
  BY <1>5, <1>6 DEF Live

(* After the link the nodes of the batch are public.                         *)
LEMMA LinkPublic ==
  ASSUME NEW t \in Threads, NEW M, NEW N, Turns(t, M, N), NEW C, NEW P,
         NEW p, NEW b, Hooks(M, N, p, b), NEW c, LinksUp(C, P, M, p, b, c),
         NEW Q, Q = P \cup Batch(M)
  PROVE  PublicOK(C, Q)'
<1>1. /\ TInv /\ LInv /\ Moving(t, M, N) /\ Grows /\ MemOK /\ Writes(M, N) /\ Locks(M, N)
  BY DEF Turns, Moving, TInv, Careful
<1>2. /\ Placed(C) /\ PublicOK(C, P) /\ Ready(C, P, M) /\ M.pc \in Preparing /\ M.key \in AllKeys
      /\ p \in P /\ Inner(p) /\ change(p, b, M.fresh) /\ c # p /\ c \in P \cup {Nil}
      /\ Extends(C, C) /\ Leading(C, C, c) /\ P \subseteq Slots /\ p \in Slots
  BY DEF LinksUp, PublicOK
<1>3. /\ Batch(M) \subseteq Slots \ P /\ M.fresh \in Batch(M) /\ Q \subseteq Slots /\ Slots \subseteq Slots'
  BY <1>1, <1>2, FreshIn DEF Ready, Grows
<1>4. Q \subseteq Slots' /\ Root \in Q
  BY <1>2, <1>3 DEF PublicOK
<1>5. /\ \A x \in Slots : x # p => mem'[x] = mem[x]
      /\ DOMAIN mem'[p].child = DOMAIN mem[p].child \cup {b} /\ mem'[p].child[b] = M.fresh
      /\ \A x \in DOMAIN mem[p].child : x # b => mem'[p].child[x] = mem[p].child[x]
  BY <1>1, <1>2, ChildChanged
<1>6. ASSUME NEW s \in Q, NEW x \in DOMAIN mem'[s].child PROVE mem'[s].child[x] \in Q \cup {Nil}
  <2>1. CASE s = p
    BY <1>2, <1>3, <1>5, <1>6, <2>1 DEF PublicOK
  <2>2. CASE s # p /\ s \in P
    BY <1>2, <1>3, <1>5, <1>6, <2>2 DEF PublicOK
  <2>3. CASE s # p /\ s \in Batch(M)
    BY <1>2, <1>3, <1>5, <1>6, <2>3 DEF Ready
  <2> QED
    BY <1>6, <2>1, <2>2, <2>3
<1>7. ASSUME NEW s \in Q, NEW k \in AllKeys, IsLeaf(s)', mem'[s].value = k
      PROVE  Finds(C, Root, k)'
  <2>1. s \in Slots /\ IsLeaf(s) /\ mem[s].value = k
    BY <1>1, <1>2, <1>3, <1>7, SlotsLast
  <2>2. k = M.key \/ Finds(C, Root, k)
    BY <1>2, <2>1 DEF PublicOK, Ready
  <2> QED
    BY <1>1, <2>2, LinkFinds
<1>8. ASSUME NEW s \in Q, Inner(s)', Live(s)', NEW k \in AllKeys, Enters(C, s, k)'
      PROVE  Leads(C, Root, k, {s})'
  <2>1. s \in Slots /\ Inner(s) /\ Enters(C, s, k)
    BY <1>1, <1>2, <1>3, <1>8, SlotsLast
  <2>2. s # c
    BY <1>8, <2>1, LinkKills
  <2>3. s # Nil
    BY <2>1, NoSlots
  <2>4. CASE s \in P
    <3>1. Live(s)
      BY <1>1, <1>8, <2>1, NotRevived
    <3>2. Leads(C, Root, k, {s})
      BY <1>2, <2>1, <2>4, <3>1 DEF PublicOK
    <3> QED
      BY <1>2, <2>2, <2>3, <3>2 DEF Leading
  <2>5. CASE s \in Batch(M)
    <3>1. Enters(C, M.fresh, k) /\ Leads(C, M.fresh, k, {s})
      BY <1>2, <2>1, <2>5 DEF Ready
    <3> QED
      BY <1>1, <2>2, <2>3, <3>1, LinkLeads
  <2> QED
    BY <2>4, <2>5
<1> QED
  BY <1>4, <1>6, <1>7, <1>8 DEF PublicOK

(* A link step keeps the chart and adds exactly the inserted key to what the *)
(* tree holds.                                                               *)
LEMMA LinkCharted ==
  ASSUME NEW t \in Threads, NEW M, NEW N, Moving(t, M, N), LinkStep(t), UNCHANGED <<todo, load>>,
         NEW C, NEW P, Charted(C, P), NEW Q, Q = P \cup Batch(M)
  PROVE  /\ Charted(C, Q)' /\ ~Holds(M.key) /\ M.key \in AllKeys
         /\ \A k \in AllKeys : Holds(k)' <=> Holds(k) \/ k = M.key
<1>1. /\ Turns(t, M, N) /\ UNCHANGED retired /\ M = loc[t] /\ Calls(M)
      /\ N # Idle /\ N.op = M.op /\ N.key = M.key
  BY LinkForm
<1>2. PICK p, b : Hooks(M, N, p, b) /\ change(p, b, M.fresh)
  BY LinkForm
<1>3. PICK c : LinksUp(C, P, M, p, b, c)
  BY <1>1, <1>2, LinkPlace
<1>4. TInv /\ LInv /\ Grows
  BY <1>1 DEF Turns, Moving
<1>5. /\ Placed(C) /\ PublicOK(C, P) /\ Ready(C, P, M) /\ M.key \in AllKeys /\ p \in Slots
      /\ c \in P \cup {Nil} /\ Extends(C, C) /\ Leading(C, C, c) /\ HeldBy(M) \subseteq P \cup {Nil}
      /\ M.pc \in Preparing
  BY <1>3 DEF LinksUp, PublicOK
<1>6. /\ M.op = "insert" /\ M.pc \in Changing /\ N.pc \in {"unlock", "growObsolete", "splitUnlock"}
  BY <1>1, <1>2, HookingOwns, ChangingCall DEF Hooks
<1>7. Landed(N) /\ N.pc \in Linked /\ Batch(N) = {} /\ Calls(N)
  BY <1>6 DEF Landed, Linked, Batch, Preparing, Calls
<1>8. PublicOK(C, Q)'
  BY <1>1, <1>2, <1>3, LinkPublic
<1>9. ~Coming(M.key)' /\ \A k : Coming(k)' => Coming(k)
  BY <1>1, <1>6, <1>7, KeyLinked, ComingBefore
<1>10. KeysOK(P) /\ \A k \in AllKeys : Finds(C, Root, k) => ~Coming(k)
  <2>1. KeysOK(P)
    BY DEF Charted
  <2> QED
    BY <1>5, <2>1, HoldsIs DEF KeysOK
<1>11. \A s \in Q \ P, k \in AllKeys : IsLeaf(s)' /\ mem'[s].value = k => ~Coming(k)'
  <2> SUFFICES ASSUME NEW s \in Batch(M), NEW k \in AllKeys, IsLeaf(s)', mem'[s].value = k
               PROVE  ~Coming(k)'
    OBVIOUS
  <2>1. s \in Slots
    BY <1>5 DEF Ready
  <2>2. IsLeaf(s) /\ mem[s].value = k
    BY <1>4, <1>5, <2>1, SlotsLast
  <2>3. k = M.key \/ Finds(C, Root, k)
    BY <1>5, <2>2 DEF Ready
  <2> QED
    BY <1>9, <1>10, <2>3
<1>12. KeysOK(Q)'
  BY <1>1, <1>7, <1>11, KeysStay
<1>13. Finds(C, Root, M.key)'
  BY <1>3, <1>4, LinkFinds
<1>14. ThreadKnows(C, Q, N)'
  <2>1. WayKnown(C, N)'
    BY <1>6 DEF WayKnown, Seeking, AtChild
  <2>2. ChildKnown(N)'
    BY <1>6 DEF ChildKnown, Unsure
  <2>3. N.pc \notin Preparing
    BY <1>6 DEF Preparing
  <2>4. InsertKnows(C, Q, N)'
    BY <1>1, <1>13, <2>1, <2>2, <2>3 DEF InsertKnows
  <2>5. HeldBy(N) \subseteq Q \cup {Nil}
    BY <1>1, <1>2, <1>5, <1>6, SameHeld DEF Hooks, Turns
  <2>6. N.op = "insert" /\ N.pc # "done"
    BY <1>1, <1>6
  <2> QED
    BY <2>4, <2>5, <2>6 DEF ThreadKnows, CallKnows
<1>15. Slots' = Slots
  BY <1>4, <1>5, <1>2, ChildChanged DEF TInv, Slots
<1>16. Charted(C, Q)'
  BY <1>1, <1>5, <1>7, <1>8, <1>12, <1>14, <1>15, Advanced
<1>17. ~Holds(M.key)
  <2>1. ~Landed(M)
    BY <1>5 DEF Landed, Linked, Preparing
  <2>2. Absent(P, M.key)
    BY <1>1, <1>4, <1>6, <2>1, KeyComing
  <2> QED
    BY <1>5, <2>2, HoldsIs
<1>18. \A k \in AllKeys : (Holds(k)' <=> Finds(C, Root, k)') /\ (Holds(k)' <=> ~Absent(Q, k)')
  <2>1. Placed(C)'
    BY <1>1, <1>5, <1>15, BuildPlaced
  <2> QED
    BY <1>8, <2>1, HoldsNext
<1>19. ASSUME NEW k \in AllKeys, Holds(k) \/ k = M.key PROVE Holds(k)'
  BY <1>3, <1>4, <1>5, <1>18, <1>19, LinkFinds, HoldsIs
<1>20. ASSUME NEW k \in AllKeys, Holds(k)' PROVE Holds(k) \/ k = M.key
  <2>1. PICK s \in Q : IsLeaf(s)' /\ mem'[s].value = k
    BY <1>18, <1>20 DEF Absent
  <2>2. s \in Slots
    BY <1>5, <2>1 DEF Ready, PublicOK
  <2>3. IsLeaf(s) /\ mem[s].value = k
    BY <1>4, <1>5, <2>1, <2>2, SlotsLast
  <2>4. CASE s \in P
    <3>1. ~Absent(P, k)
      BY <2>3, <2>4 DEF Absent
    <3> QED
      BY <1>5, <3>1, HoldsIs
  <2>5. CASE s \in Batch(M)
    BY <1>5, <2>3, <2>5, HoldsIs DEF Ready
  <2> QED
    BY <2>1, <2>4, <2>5
<1> QED
  BY <1>5, <1>16, <1>17, <1>19, <1>20
-----------------------------------------------------------------------------
(* Calls begin and end.                                                    *)
LEMMA Heads ==
  ASSUME NEW S, NEW s \in Seq(S), s # <<>>
  PROVE  1 \in DOMAIN s /\ s[1] = Head(s) /\ s[1] \in S
OBVIOUS

(* A call that begins knows what the tree holds.                           *)
LEMMA BeginCharted ==
  ASSUME NEW t \in Threads, TInv, TInv', LInv, BeginCall(t),
         NEW C, NEW P, Charted(C, P)
  PROVE  Charted(C, P)' /\ UNCHANGED mem
<1> SUFFICES ASSUME NEW M, NEW N, M = loc[t], N = loc'[t] PROVE Charted(C, P)' /\ UNCHANGED mem
  OBVIOUS
<1>1. Turns(t, M, N) /\ UNCHANGED <<mem, todo, load, retired>> /\ M = Idle
  BY BeginTurns DEF BeginCall
<1>2. /\ Grows /\ Placed(C) /\ PublicOK(C, P) /\ KeysOK(P) /\ QueueOK /\ MemOK
      /\ \A u \in Threads : u # t => loc'[u] = loc[u]
  BY <1>1, PlacedNow DEF Turns, Moving, Charted, TInv
<1>3. PICK c : /\ loc' = [loc EXCEPT ![t] = Start([op |-> c.op, key |-> c.key, missing |-> ~Holds(c.key)])]
               /\ c \in IF load # <<>> THEN {[op |-> "insert", key |-> Head(load)]}
                        ELSE IF todo[t] # <<>> THEN {Head(todo[t])} ELSE {}
  BY DEF BeginCall
<1>4. PICK missing : /\ N = Start([op |-> c.op, key |-> c.key, missing |-> missing])
                     /\ ~missing => Holds(c.key)
  BY <1>2, <1>3 DEF QueueOK
<1>5. /\ N.op = c.op /\ N.key = c.key /\ N.missing = missing /\ N.pc = c.op
      /\ N.node = Nil /\ N.next = Root /\ N.any = Nil
      /\ N = Start(N)
  BY <1>4 DEF Start
<1>6. c.op \in {"lookup", "insert"} /\ c.key \in AllKeys /\ First(t, N)
  <2>1. CASE load # <<>>
    <3>1. load \in Seq(AllKeys)
      BY <1>2 DEF QueueOK
    <3>2. 1 \in DOMAIN load /\ load[1] = Head(load) /\ load[1] \in AllKeys
      BY <2>1, <3>1
    <3>3. c.op = "insert" /\ c.key = Head(load)
      BY <1>3, <2>1
    <3> QED
      BY <1>5, <2>1, <3>2, <3>3 DEF First, Loads
  <2>2. CASE load = <<>>
    <3>1. todo[t] # <<>> /\ c = Head(todo[t])
      BY <1>3, <2>2
    <3>2. todo[t] \in Seq([op : {"lookup", "insert"}, key : AllKeys])
      BY <1>2 DEF QueueOK
    <3>3. 1 \in DOMAIN todo[t] /\ todo[t][1] = c /\ c \in [op : {"lookup", "insert"}, key : AllKeys]
      <4>1. PICK S : S = [op : {"lookup", "insert"}, key : AllKeys]
        OBVIOUS
      <4>2. PICK s : s = todo[t]
        OBVIOUS
      <4>3. s \in Seq(S) /\ s # <<>> /\ c = Head(s)
        BY <3>1, <3>2, <4>1, <4>2
      <4>4. 1 \in DOMAIN s /\ s[1] = Head(s) /\ s[1] \in S
        BY <4>3, Heads
      <4> QED
        BY <4>1, <4>2, <4>3, <4>4
    <3>4. todo[t][1] = [op |-> N.op, key |-> N.key]
      BY <1>5, <3>3
    <3>5. c.op \in {"lookup", "insert"} /\ c.key \in AllKeys
      BY <3>3
    <3> QED
      BY <2>2, <3>3, <3>4, <3>5 DEF First
  <2> QED
    BY <2>1, <2>2
<1>7. ~Landed(M) /\ N # Idle /\ Calls(N)
  BY <1>1, <1>5, <1>6 DEF Landed, Linked, Idle, Calls, Start
<1>8. N.op = "lookup" => Certain(C, N)
  <2>1. ~N.missing => Finds(C, Root, N.key)
    BY <1>2, <1>4, <1>5, <1>6, HoldsIs
  <2> QED
    BY <1>5, <2>1, NoSlots DEF Certain, Root, Nil
<1>9. CallKnows(C, P, N) /\ Batch(N) = {} /\ N.pc \notin Preparing
  BY <1>5, <1>6, <1>8, StartKnows
<1>10. Extends(C, C) /\ \A X : Leading(C, C, X)
  <2>1. Extends(C, C)
    BY <1>2 DEF Extends, Placed
  <2>2. \A x \in Slots : mem'[x].child = mem[x].child
    BY <1>1
  <2> QED
    BY <1>2, <2>1, <2>2, WaysLast
<1>11. CallKnows(C, P, N)'
  <2>1. Located(N)
    <3>1. Inner(Root) /\ Root \in Slots
      BY <1>2, Kinds DEF MemOK, Inner
    <3> QED
      BY <1>5, <1>6, <3>1 DEF Located
  <2>2. N.op = "insert" => ChildKnown(N)'
    BY <1>5 DEF ChildKnown, Unsure
  <2>3. Nil \in P \cup {Nil} /\ Batch(N) \cap P = {} /\ N.key \in AllKeys
    BY <1>5, <1>6, <1>9
  <2> QED
    BY <1>2, <1>9, <1>10, <2>1, <2>2, <2>3, CallCarried
<1>12. ThreadKnows(C, P, N)'
  BY <1>5, <1>6, <1>11 DEF ThreadKnows
<1>13. PublicOK(C, P)'
  BY <1>1, <1>10, PublicStays
<1>14. KeysOK(P)'
  <2>1. \A k : Coming(k)' => Coming(k)
    BY <1>1, <1>7, ComingBefore
  <2>2. \A k : Absent(P, k)' <=> Absent(P, k)
    BY <1>1 DEF Absent, IsLeaf, Slots
  <2>3. NoKeyTwice(load, todo)'
    BY <1>1, <1>2 DEF KeysOK
  <2>4. ASSUME NEW u \in Threads, NEW U, U = loc'[u], U # Idle PROVE First(u, U)' /\ U.key \in AllKeys
    <3>1. First(u, U) /\ U.key \in AllKeys
      BY <1>2, <1>5, <1>6, <2>4 DEF KeysOK
    <3> QED
      BY <1>1, <3>1 DEF First, Loads
  <2> QED
    BY <1>2, <2>1, <2>2, <2>3, <2>4 DEF KeysOK
<1>15. Slots' = Slots
  BY <1>1 DEF Slots
<1>16. Charted(C, P)'
  BY <1>1, <1>9, <1>10, <1>12, <1>13, <1>14, <1>15, Advanced
<1> QED
  BY <1>1, <1>16

(* What is left of the calls when the first is done.                       *)
LEMMA Tails ==
  ASSUME NEW S, NEW s \in Seq(S), s # <<>>
  PROVE  \A i \in DOMAIN Tail(s) : /\ i \in Nat /\ i + 1 # 1 /\ i + 1 \in DOMAIN s
                                   /\ Tail(s)[i] = s[i + 1]
OBVIOUS

(* The end of a call leaves no key with two inserts.                         *)
LEMMA KeysLeft ==
  ASSUME NEW t \in Threads, TInv, EndCall(t), NoKeyTwice(load, todo)
  PROVE  NoKeyTwice(load, todo)'
<1>1. /\ QueueOK /\ loc[t].pc = "done"
      /\ IF load # <<>> THEN load' = Tail(load) /\ UNCHANGED todo
         ELSE todo' = [todo EXCEPT ![t] = Tail(@)] /\ UNCHANGED load
  BY DEF EndCall, TInv
<1>2. CASE load # <<>>
  <2>1. \A i \in DOMAIN load' : i \in Nat /\ i + 1 \in DOMAIN load /\ load'[i] = load[i + 1]
    BY <1>1, <1>2, Tails DEF QueueOK
  <2>2. todo' = todo
    BY <1>1, <1>2
  <2>3. \A i, j \in DOMAIN load' : load'[i] = load'[j] => i = j
    <3> SUFFICES ASSUME NEW i \in DOMAIN load', NEW j \in DOMAIN load', load'[i] = load'[j] PROVE i = j
      OBVIOUS
    <3>1. i + 1 = j + 1 /\ i \in Nat /\ j \in Nat
      BY <2>1 DEF NoKeyTwice
    <3> QED
      BY <3>1
  <2> QED
    BY <2>1, <2>2, <2>3 DEF NoKeyTwice
<1>3. CASE load = <<>>
  <2>1. /\ \A u \in Threads : u # t => todo'[u] = todo[u]
        /\ \A i \in DOMAIN todo'[t] : i \in Nat /\ i + 1 \in DOMAIN todo[t] /\ todo'[t][i] = todo[t][i + 1]
    <3>1. todo[t] # <<>>
      BY <1>1, <1>3 DEF QueueOK, Due, Idle
    <3>2. todo[t] \in Seq([op : {"lookup", "insert"}, key : AllKeys]) /\ todo'[t] = Tail(todo[t])
      BY <1>1, <1>3 DEF QueueOK
    <3> QED
      BY <1>1, <1>3, <3>1, <3>2, Tails DEF QueueOK
  <2>2. load' = load /\ DOMAIN load = {}
    BY <1>1, <1>3
  <2>3. ASSUME NEW u \in Threads, NEW w \in Threads, NEW i, NEW j, NEW k \in AllKeys,
               Inserts(u, i, k)', Inserts(w, j, k)'
        PROVE  u = w /\ i = j
    <3>1. PICK a : Inserts(u, a, k) /\ (IF u = t THEN a = i + 1 /\ i \in Nat ELSE a = i)
      BY <2>1, <2>3 DEF Inserts
    <3>2. PICK b : Inserts(w, b, k) /\ (IF w = t THEN b = j + 1 /\ j \in Nat ELSE b = j)
      BY <2>1, <2>3 DEF Inserts
    <3>3. u = w /\ a = b
      BY <3>1, <3>2 DEF NoKeyTwice, Inserts
    <3> QED
      BY <3>1, <3>2, <3>3
  <2> QED
    BY <2>2, <2>3 DEF NoKeyTwice, Inserts
<1> QED
  BY <1>2, <1>3

(* The end of a call makes no key come that was not coming.                  *)
LEMMA ComingLeft ==
  ASSUME NEW t \in Threads, TInv, EndCall(t), NEW k, Coming(k)'
  PROVE  Coming(k)
<1>0. QueueOK /\ loc[t] # Idle
  BY DEF EndCall, TInv, Idle
<1>1. /\ loc' = [loc EXCEPT ![t] = Idle]
      /\ IF load # <<>> THEN load' = Tail(load) /\ UNCHANGED todo
         ELSE todo' = [todo EXCEPT ![t] = Tail(@)] /\ UNCHANGED load
  BY DEF EndCall
<1>2. CASE \E i : Loads(i, k)'
  <2>1. PICK i : i \in DOMAIN load' /\ load'[i] = k
    BY <1>2 DEF Loads
  <2>2. load # <<>>
    BY <1>1, <2>1
  <2>3. Loads(i + 1, k) /\ i + 1 # 1
    BY <1>0, <1>1, <2>1, <2>2, Tails DEF QueueOK, Loads
  <2> QED
    BY <2>3 DEF Coming
<1>3. CASE \E u \in Threads : \E i : Inserts(u, i, k)' /\ (i = 1 /\ load' = <<>> => ~Landed(loc'[u]))
  <2>1. PICK u \in Threads : \E i : Inserts(u, i, k)' /\ (i = 1 /\ load' = <<>> => ~Landed(loc'[u]))
    BY <1>3
  <2>2. PICK i : Inserts(u, i, k)' /\ (i = 1 /\ load' = <<>> => ~Landed(loc'[u]))
    BY <2>1
  <2>3. CASE load # <<>>
    <3>1. Inserts(u, i, k)
      BY <1>1, <2>2, <2>3 DEF Inserts
    <3> QED
      BY <2>3, <3>1 DEF Coming
  <2>4. CASE load = <<>> /\ u # t
    <3>1. todo'[u] = todo[u] /\ loc'[u] = loc[u] /\ load' = load
      BY <1>0, <1>1, <2>4 DEF QueueOK
    <3>2. Inserts(u, i, k) /\ (i = 1 /\ load = <<>> => ~Landed(loc[u]))
      BY <2>2, <3>1 DEF Inserts
    <3> QED
      BY <3>2 DEF Coming
  <2>5. CASE load = <<>> /\ u = t
    <3>1. todo[t] # <<>> /\ todo[t] \in Seq([op : {"lookup", "insert"}, key : AllKeys])
      BY <1>0, <2>5 DEF QueueOK, Due
    <3>2. todo'[t] = Tail(todo[t])
      BY <1>0, <1>1, <2>5 DEF QueueOK
    <3>3. i \in DOMAIN todo'[t] /\ todo'[t][i] = [op |-> "insert", key |-> k]
      BY <2>2, <2>5 DEF Inserts
    <3>4. Inserts(t, i + 1, k) /\ i + 1 # 1
      BY <3>1, <3>2, <3>3, Tails DEF Inserts
    <3> QED
      BY <3>4 DEF Coming
  <2> QED
    BY <2>3, <2>4, <2>5
<1> QED
  BY <1>2, <1>3 DEF Coming

(* The end of a call keeps the chart.                                        *)
LEMMA EndCharted ==
  ASSUME NEW t \in Threads, TInv, TInv', LInv, EndCall(t),
         NEW C, NEW P, Charted(C, P)
  PROVE  Charted(C, P)' /\ UNCHANGED mem
<1> SUFFICES ASSUME NEW M, NEW N, M = loc[t], N = loc'[t] PROVE Charted(C, P)' /\ UNCHANGED mem
  OBVIOUS
<1>1. Turns(t, M, N) /\ UNCHANGED <<mem, retired>> /\ M.pc = "done"
  BY EndTurns DEF EndCall
<1>2. /\ Grows /\ Placed(C) /\ PublicOK(C, P) /\ KeysOK(P) /\ QueueOK
      /\ \A u \in Threads : u # t => loc'[u] = loc[u]
  BY <1>1, PlacedNow DEF Turns, Moving, Charted, TInv
<1>3. N = Idle
  BY <1>2 DEF EndCall, QueueOK
<1>4. Extends(C, C) /\ \A X : Leading(C, C, X)
  <2>1. Extends(C, C)
    BY <1>2 DEF Extends, Placed
  <2>2. \A x \in Slots : mem'[x].child = mem[x].child
    BY <1>1
  <2> QED
    BY <1>2, <2>1, <2>2, WaysLast
<1>5. PublicOK(C, P)'
  BY <1>1, <1>4, PublicStays
<1>6. KeysOK(P)'
  <2>1. \A k : Coming(k)' => Coming(k)
    BY ComingLeft
  <2>2. \A k : Absent(P, k)' <=> Absent(P, k)
    BY <1>1 DEF Absent, IsLeaf, Slots
  <2>3. NoKeyTwice(load, todo)'
    BY <1>2, KeysLeft DEF KeysOK
  <2>4. ASSUME NEW u \in Threads, NEW U, U = loc'[u], U # Idle PROVE First(u, U)' /\ U.key \in AllKeys
    <3>1. u # t /\ U = loc[u]
      BY <1>2, <1>3, <2>4
    <3>2. First(u, U) /\ U.key \in AllKeys
      BY <1>2, <2>4, <3>1 DEF KeysOK
    <3>3. load = <<>>
      BY <1>1, <1>2, <2>4, <3>1 DEF QueueOK, Due, Idle
    <3>4. load' = load /\ todo'[u] = todo[u]
      BY <1>2, <3>1, <3>3 DEF EndCall, QueueOK
    <3> QED
      BY <3>2, <3>3, <3>4 DEF First
  <2> QED
    BY <1>2, <2>1, <2>2, <2>3, <2>4 DEF KeysOK
<1>7. ThreadKnows(C, P, N)' /\ Batch(N) = {}
  BY <1>3 DEF ThreadKnows, Calls, Idle, Batch, Preparing
<1>8. Slots' = Slots
  BY <1>1 DEF Slots
<1>9. Charted(C, P)'
  BY <1>1, <1>4, <1>5, <1>6, <1>7, <1>8, Advanced
<1> QED
  BY <1>1, <1>9
-----------------------------------------------------------------------------
(* What the client sees of a call: only a step that links changes it, or   *)
(* one with which the call returns.                                        *)
Plain(M, changes) ==
  /\ DOMAIN changes \subseteq Fields \ {"op", "key", "missing"} /\ "pc" \in DOMAIN changes
  /\ changes.pc \notin {"idle", "done"}
  /\ changes.pc \in Linked <=> M.pc \in Linked
LeavesWith(M, result) ==
  \/ M.pc \in Looking
  \/ M.pc \notin Linked \cup Looking /\ result = "refused"
  \/ M.pc \in Linked /\ result = "inserted"
Takes(t, M) ==
  \/ M.pc \notin Linked /\ Restart(t)
  \/ \E result : Return(t, result) /\ LeavesWith(M, result)
  \/ \E changes : Go(t, changes) /\ Plain(M, changes)

(* A step of lookup takes one of the forms the refinement tells apart.       *)
LEMMA LookupTakes ==
  ASSUME NEW t, lookup(t), NEW M, M = loc[t]
  PROVE  Takes(t, M)
<1> USE DEF Takes, LeavesWith, Plain, Linked, Looking, Fields
<1>1. CASE LookupRoot(t)
  BY <1>1 DEF LookupRoot
<1>2. CASE Search(t)
  BY <1>2 DEF Search
<1>3. CASE LookupMiss(t)
  BY <1>3 DEF LookupMiss
<1>4. CASE LookupHit(t)
  BY <1>4 DEF LookupHit
<1>5. CASE LookupLeaf(t)
  BY <1>5 DEF LookupLeaf, Check
<1>6. CASE LeafReadLock(t)
  BY <1>6 DEF LeafReadLock
<1>7. CASE LeafRead(t)
  BY <1>7 DEF LeafRead
<1>8. CASE Descend(t)
  BY <1>8 DEF Descend
<1>9. CASE Couple(t)
  BY <1>9 DEF Couple, Check
<1> QED
  BY <1>1, <1>2, <1>3, <1>4, <1>5, <1>6, <1>7, <1>8, <1>9 DEF lookup

(* A step of the descent of insert takes one of those forms.                 *)
LEMMA DescendTakes ==
  ASSUME NEW t, WalkStep(t), NEW M, M = loc[t]
  PROVE  Takes(t, M)
<1> USE DEF Takes, Plain, Linked, Fields
<1>0. ASSUME NEW kt, M.pc \in {"prefix", "anyCheck"}, CheckPrefixPessimistic(t, kt) PROVE Takes(t, M)
  BY <1>0, PrefixGoes
<1>1. CASE Visit(t)
  BY <1>1 DEF Visit
<1>2. CASE PrefixStep(t)
  BY <1>0, <1>2 DEF PrefixStep
<1>3. CASE AnyLock(t)
  BY <1>3 DEF AnyLock
<1>4. CASE AnyChild(t)
  BY <1>4 DEF AnyChild
<1>5. CASE AnyCheck(t)
  BY <1>0, <1>5 DEF AnyCheck
<1>6. CASE ReadChild(t)
  BY <1>6 DEF ReadChild
<1>7. CASE ChildCheck(t)
  BY <1>7 DEF ChildCheck, Check
<1>8. CASE Further(t)
  BY <1>8 DEF Further
<1>9. CASE Room(t)
  BY <1>9 DEF Room
<1>10. CASE PutParent(t)
  BY <1>10 DEF PutParent
<1> QED
  BY <1>1, <1>2, <1>3, <1>4, <1>5, <1>6, <1>7, <1>8, <1>9, <1>10 DEF WalkStep, descend

(* A lock step takes one of those forms.                                     *)
LEMMA LockTakes ==
  ASSUME NEW t, LockStep(t), NEW M, M = loc[t]
  PROVE  Takes(t, M)
<1> USE DEF Takes, Plain, Linked, Fields
<1>1. CASE PutLock(t) \/ LeafLockNode(t) \/ LeafWriteLock(t)
  BY <1>1 DEF PutLock, LeafLockNode, LeafWriteLock, Upgrade
<1>2. CASE LockParent(t, "growParent", "growNode") \/ LockNode(t, "growNode", "growBuild")
  BY <1>2 DEF LockParent, LockNode, Upgrade
<1>3. CASE LockParent(t, "splitParent", "splitNode") \/ LockNode(t, "splitNode", "splitBuild")
  BY <1>3 DEF LockParent, LockNode, Upgrade
<1> QED
  BY <1>1, <1>2, <1>3 DEF LockStep

(* An unlock, a mark and a making step take one of those forms.              *)
LEMMA OtherTakes ==
  ASSUME NEW t, UnlockStep(t) \/ MarkStep(t) \/ MakeStep(t), NEW M, M = loc[t]
  PROVE  Takes(t, M)
<1> USE DEF Takes, Plain, LeavesWith, Linked, Looking, Fields
<1>1. CASE UnlockStep(t)
  BY <1>1 DEF UnlockStep, Unlock, Undo, GrowUnlock, SplitUnlock, GrowObsolete, SplitObsolete,
              LeafObsolete
<1>2. CASE MarkStep(t)
  BY <1>2 DEF MarkStep, GrowMark, SplitMark, LeafMark
<1>3. ASSUME NEW new, NEW changes, Allocate(t, new, changes), DOMAIN changes = {"pc", "fresh"},
             M.pc \in {"put", "growBuild", "splitBuild", "leafBuild"}, changes.pc \in Preparing
      PROVE  Takes(t, M)
  <2>1. Go(t, changes) \/ Return(t, "refused")
    BY <1>3 DEF Allocate
  <2> QED
    BY <1>3, <2>1 DEF Preparing
<1>4. CASE PutLeaf(t)
  <2>1. M.pc = "put" /\ \E new : Allocate(t, new, [pc |-> "putInsert", fresh |-> Len(mem) + 1])
    BY <1>4 DEF PutLeaf
  <2> QED
    BY <1>3, <2>1 DEF Preparing
<1>5. CASE GrowBuild(t)
  <2>1. M.pc = "growBuild" /\ \E new : Allocate(t, new, [pc |-> "growLink", fresh |-> Len(mem) + 1])
    BY <1>5, Zenon DEF GrowBuild
  <2> QED
    BY <1>3, <2>1 DEF Preparing
<1>6. CASE SplitBuild(t)
  <2>1. M.pc = "splitBuild" /\ \E new : Allocate(t, new, [pc |-> "splitLink", fresh |-> Len(mem) + 1])
    BY <1>6, Zenon DEF SplitBuild
  <2> QED
    BY <1>3, <2>1 DEF Preparing
<1>7. CASE LeafBuild(t)
  <2>1. M.pc = "leafBuild" /\ \E new : Allocate(t, new, [pc |-> "leafObsolete", fresh |-> Len(mem) + 1])
    BY <1>7, Zenon DEF LeafBuild
  <2> QED
    BY <1>3, <2>1 DEF Preparing
<1> QED
  BY <1>1, <1>2, <1>4, <1>5, <1>6, <1>7 DEF MakeStep

(* The call as ArtMap sees it.  An insertion that has linked its leaf is in *)
(* the tree, one that has not is not.                                      *)
View(M) ==
  IF M = Idle THEN Map!Idle
  ELSE IF M.op = "lookup"
  THEN IF M.pc = "done" THEN [op |-> "answered", tid |-> M.result]
       ELSE [op |-> "lookup", key |-> M.key, missing |-> M.missing]
  ELSE IF M.pc = "done" /\ M.result = "refused" THEN Map!Idle
  ELSE [op |-> IF Landed(M) THEN "inserted" ELSE "insert", key |-> M.key]

(* The tree holds the key of an insert in progress exactly when that insert  *)
(* has linked it.                                                            *)
LEMMA HoldsOwn ==
  ASSUME TInv, LInv, NEW C, NEW P, Charted(C, P), NEW t \in Threads, NEW M, M = loc[t],
         Calls(M), M.op = "insert"
  PROVE  M.key \in AllKeys /\ (Holds(M.key) <=> Landed(M))
<1>1. Placed(C) /\ PublicOK(C, P)
  BY PlacedNow DEF Charted
<1>2. M # Idle /\ M.pc # "done"
  BY DEF Calls, Idle
<1>3. M.key \in AllKeys
  BY <1>2 DEF Charted, KeysOK
<1>4. CASE Landed(M)
  <2>1. M.pc \in Linked
    BY <1>2, <1>4 DEF Landed
  <2>2. Finds(C, Root, M.key)
    BY <2>1 DEF Charted, ThreadKnows, CallKnows, InsertKnows
  <2> QED
    BY <1>1, <1>3, <1>4, <2>2, HoldsIs
<1>5. CASE ~Landed(M)
  <2>1. Absent(P, M.key)
    BY <1>5, KeyComing
  <2> QED
    BY <1>1, <1>3, <1>5, <2>1, HoldsIs
<1> QED
  BY <1>3, <1>4, <1>5

(* CallOf, which asks the tree, shows of every thread what View reads off    *)
(* its own record.                                                           *)
LEMMA CallViewed ==
  \A C, P : TInv /\ LInv /\ Charted(C, P) => \A t \in Threads : CallOf(t) = View(loc[t])
<1> SUFFICES ASSUME NEW C, NEW P, TInv, LInv, Charted(C, P), NEW t \in Threads
             PROVE  CallOf(t) = View(loc[t])
  OBVIOUS
<1>1. PICK M : M = loc[t]
  OBVIOUS
<1>2. CASE M.pc = "done" \/ M = Idle
  BY <1>1, <1>2 DEF CallOf, View, Landed, Map!Idle
<1>3. CASE M.pc # "done" /\ M # Idle /\ M.op = "lookup"
  BY <1>1, <1>3 DEF CallOf, View
<1>4. CASE M.pc # "done" /\ M # Idle /\ M.op # "lookup"
  <2>1. Calls(M) /\ M.op = "insert"
    <3>1. CallOK(M)
      BY <1>1, <1>4 DEF TInv, LocalOK
    <3>2. InsertOK(M) /\ M.op = "insert"
      BY <1>4, <3>1 DEF CallOK
    <3> QED
      BY <1>4, <3>2 DEF InsertOK, Calls, Descending, Putting, Replacing, Growing, Splitting, LeafSplitting
  <2>2. Holds(M.key) <=> Landed(M)
    BY <1>1, <2>1, HoldsOwn
  <2> QED
    BY <1>1, <1>4, <2>2 DEF CallOf, View
<1> QED
  BY <1>2, <1>3, <1>4
(* CallViewed, of the state after the step.                                  *)
LEMMA CallViewedNext ==
  (\A C, P : TInv /\ LInv /\ Charted(C, P) => \A t \in Threads : CallOf(t) = View(loc[t]))'
BY CallViewed, PTL
-----------------------------------------------------------------------------
(* Every step leaves a chart.                                              *)
LEMMA CallCharted ==
  ASSUME NEW t \in Threads, NEW M, NEW N, Moving(t, M, N), lookup(t) \/ insert(t),
         UNCHANGED <<todo, load>>, NEW C, NEW P, Charted(C, P)
  PROVE  \/ LinkStep(t) /\ \E Q : Charted(C, Q)'
         \/ Takes(t, M) /\ \E D : Charted(D, P)'
<1>0. M = loc[t]
  BY DEF Moving
<1>1. CASE lookup(t)
  BY <1>0, <1>1, LookupCharted, LookupTakes
<1>2. CASE WalkStep(t)
  BY <1>0, <1>2, WalkCharted, DescendTakes
<1>3. CASE LockStep(t)
  BY <1>0, <1>3, LockCharted, LockTakes
<1>4. CASE UnlockStep(t)
  BY <1>0, <1>4, UnlockCharted, OtherTakes
<1>5. CASE MarkStep(t)
  BY <1>0, <1>5, MarkCharted, OtherTakes
<1>6. CASE MakeStep(t)
  BY <1>0, <1>6, MakeCharted, OtherTakes
<1>7. CASE LinkStep(t)
  BY <1>7, LinkCharted
<1> QED
  BY <1>1, <1>2, <1>3, <1>4, <1>5, <1>6, <1>7, Sorted

(* A step that does nothing.                                               *)
LEMMA NothingCharted ==
  ASSUME NEW C, NEW P, Charted(C, P), UNCHANGED vars
  PROVE  Charted(C, P)'
<1>1. /\ mem' = mem /\ loc' = loc /\ retired' = retired /\ todo' = todo /\ load' = load
      /\ Slots' = Slots /\ Ids' = Ids
  BY DEF vars, Slots, Ids
<1>2. \A s : /\ LevelOf(C, s)' = LevelOf(C, s) /\ (IsLeaf(s)' <=> IsLeaf(s)) /\ (Inner(s)' <=> Inner(s))
             /\ (Live(s)' <=> Live(s)) /\ Id(s)' = Id(s)
  BY <1>1 DEF LevelOf, IsLeaf, Inner, Live, Keeps, Free, Id
<1>3. \A s, k : Enters(C, s, k)' <=> Enters(C, s, k)
  BY <1>1, <1>2 DEF Enters
<1>4. \A s, k, E : Leads(C, s, k, E)' <=> Leads(C, s, k, E)
  <2>1. \A s, T, k : Follows(C, s, T, k)' <=> Follows(C, s, T, k)
    BY <1>1, <1>2 DEF Follows, ToChild
  <2> QED
    BY <2>1 DEF Leads
<1>5. \A s, k : Finds(C, s, k)' <=> Finds(C, s, k)
  BY <1>4 DEF Finds
<1>6. \A s \in Slots' : Fits(C, s)'
  <2>1. \A s : (LeafFits(C, s)' <=> LeafFits(C, s)) /\ (InnerFits(C, s)' <=> InnerFits(C, s))
    BY <1>1, <1>2, <1>3 DEF LeafFits, InnerFits, Stored
  <2> QED
    BY <1>1, <1>2, <2>1 DEF Charted, Fits
<1>7. PublicOK(C, P)'
  BY <1>1, <1>2, <1>3, <1>4, <1>5 DEF Charted, PublicOK
<1>8. KeysOK(P)'
  <2>1. \A k : Coming(k)' <=> Coming(k)
    BY <1>1 DEF Coming, Loads, Inserts
  <2>2. \A k : Absent(P, k)' <=> Absent(P, k)
    BY <1>1, <1>2 DEF Absent
  <2>3. \A t \in Threads : \A M : M = loc'[t] /\ M # Idle => First(t, M)' /\ M.key \in AllKeys
    <3>1. \A t, M : First(t, M)' <=> First(t, M)
      BY <1>1 DEF First, Loads
    <3> QED
      BY <1>1, <3>1 DEF Charted, KeysOK
  <2>4. NoKeyTwice(load, todo)'
    BY <1>1 DEF Charted, KeysOK
  <2>5. \A k \in AllKeys : Coming(k)' => Absent(P, k)'
    BY <2>1, <2>2 DEF Charted, KeysOK
  <2> QED
    BY <2>3, <2>4, <2>5 DEF KeysOK
<1>9. ASSUME NEW t \in Threads, NEW M, M = loc'[t] PROVE ThreadKnows(C, P, M)'
  <2>1. M = loc[t] /\ ThreadKnows(C, P, M)
    BY <1>1, <1>9 DEF Charted
  <2>2. LookupKnows(C, M)' <=> LookupKnows(C, M)
    <3>1. \A c, s, b : Under(c, s, b)' <=> Under(c, s, b)
      BY <1>1 DEF Under, IdHash
    <3> QED
      BY <1>1, <1>2, <1>3, <3>1 DEF LookupKnows
  <2>3. (Certain(C, M)' <=> Certain(C, M)) /\ (Answered(C, M)' <=> Answered(C, M))
    BY <1>1, <1>5 DEF Certain, Answered
  <2>4. WayKnown(C, M)' <=> WayKnown(C, M)
    <3>1. SplitKnown(C, M)' <=> SplitKnown(C, M)
      BY <1>1, <1>2, <1>3 DEF SplitKnown
    <3>2. \A c, s : Through(C, c, Id(s))' <=> Through(C, c, Id(s))
      BY <1>2, <1>3 DEF Through
    <3> QED
      BY <1>1, <1>2, <1>3, <3>1, <3>2 DEF WayKnown
  <2>5. ChildKnown(M)' <=> ChildKnown(M)
    BY <1>1 DEF ChildKnown, NoChild, Word
  <2>6. Ready(C, P, M)' <=> Ready(C, P, M)
    <3>1. \A c, f, B : Replaces(C, c, f, B)' <=> Replaces(C, c, f, B)
      <4>1. \A s, T, k : Follows(C, s, T, k)' <=> Follows(C, s, T, k)
        BY <1>1, <1>2 DEF Follows, ToChild
      <4> QED
        BY <4>1 DEF Replaces
    <3> QED
      BY <1>1, <1>2, <1>3, <1>4, <1>5, <3>1 DEF Ready
  <2> QED
    BY <1>5, <2>1, <2>2, <2>3, <2>4, <2>5, <2>6 DEF ThreadKnows, CallKnows, InsertKnows
<1> QED
  BY <1>1, <1>6, <1>7, <1>8, <1>9 DEF Charted

(* A step of the tree keeps the map invariant.                               *)
LEMMA StepCharted ==
  ASSUME TInv, TInv', LInv, MapInv, [Next]_vars
  PROVE  MapInv'
<1>1. PICK C, P : Charted(C, P)
  BY DEF MapInv
<1>2. CASE UNCHANGED vars
  BY <1>1, <1>2, NothingCharted DEF MapInv
<1>3. ASSUME NEW t \in Threads, Step(t) PROVE MapInv'
  <2>1. CASE BeginCall(t)
    BY <1>1, <2>1, BeginCharted DEF MapInv
  <2>2. CASE EndCall(t)
    BY <1>1, <2>2, EndCharted DEF MapInv
  <2>3. CASE (lookup(t) \/ insert(t)) /\ UNCHANGED <<todo, load>>
    <3>1. Grows /\ \A u \in Threads : u # t => loc'[u] = loc[u]
      BY <2>3, Stirring DEF Alone
    <3>2. Moving(t, loc[t], loc'[t])
      BY <2>3, <3>1, Movement
    <3>3. \E D, Q : Charted(D, Q)'
      BY <1>1, <2>3, <3>2, CallCharted
    <3> QED
      BY <3>3 DEF MapInv
  <2> QED
    BY <1>3, <2>1, <2>2, <2>3 DEF Step
<1> QED
  BY <1>2, <1>3 DEF Next

(* At first there is only the root, which has no prefix.                   *)
LEMMA ChartedInitially ==
  ASSUME Init
  PROVE  MapInv
<1> DEFINE C == [far |-> [i \in Nat |-> 0], way |-> [i \in Nat |-> <<>>]]
           P == {Root}
<1>1. PICK sc \in Scenarios :
        /\ mem = <<NewNode(TopKind, 1, <<>>, 0, <<0, 0>>)>> /\ todo = sc.ops /\ load = sc.load
        /\ \A t \in Threads : loc[t] = Idle
  BY DEF Init
<1>2. /\ Slots = {Root} /\ Root = 1
      /\ mem[Root].id = 1 /\ mem[Root].kind # 0 /\ mem[Root].plen = 0
      /\ mem[Root].prefix = Prefix(<<>>, IF 0 < MaxStored THEN 0 ELSE MaxStored)
      /\ DOMAIN mem[Root].child = {}
  <2>1. Len(mem) = 1 /\ mem[1] = NewNode(TopKind, 1, <<>>, 0, <<0, 0>>)
    BY <1>1
  <2>2. /\ mem[1].id = 1 /\ mem[1].kind = TopKind /\ mem[1].plen = 0 /\ mem[1].child = NoChildren
        /\ mem[1].prefix = Prefix(<<>>, IF 0 < MaxStored THEN 0 ELSE MaxStored)
    BY <2>1 DEF NewNode, SetPrefix
  <2> QED
    BY <2>1, <2>2, Kinds DEF Slots, Root, NoChildren
<1>3. C \in Charts /\ C.far[1] = 0
  BY DEF Charts
<1> HIDE DEF C
<1>4. Inner(Root) /\ ~IsLeaf(Root) /\ Id(Root) = 1 /\ LevelOf(C, Root) = 0
  BY <1>2 DEF Inner, IsLeaf, Id, LevelOf
<1>5. IsSeq(mem[Root].prefix) /\ Len(mem[Root].prefix) = Stored(mem[Root]) /\ Len(mem[Root].prefix) = 0
  <2>1. IsSeq(<<>>) /\ MaxStored \in Nat
    BY ArtAssumption DEF IsSeq
  <2>2. mem[Root].prefix = Prefix(<<>>, 0) /\ Stored(mem[Root]) = 0
    BY <1>2, <2>1 DEF Stored
  <2> QED
    BY <2>1, <2>2, Cropped
<1>6. \A s \in Slots : Fits(C, s)
  <2>1. InnerFits(C, Root)
    BY <1>2, <1>3, <1>4, <1>5 DEF InnerFits
  <2> QED
    BY <1>2, <1>4, <2>1 DEF Fits
<1>7. PublicOK(C, P)
  BY <1>2, <1>4, LeadsHere DEF PublicOK
<1>8. KeysOK(P)
  <2>1. NoKeyTwice(load, todo)
    BY <1>1, KeysAssumption
  <2>2. \A k : Absent(P, k)
    BY <1>4 DEF Absent
  <2> QED
    BY <1>1, <2>1, <2>2 DEF KeysOK
<1>9. \A t \in Threads : \A M : M = loc[t] => ThreadKnows(C, P, M)
  BY <1>1 DEF ThreadKnows, Calls, Idle
<1>10. \A t \in Threads : Batch(loc[t]) = {}
  BY <1>1 DEF Batch, Idle, Preparing
<1>11. Charted(C, P)
  BY <1>3, <1>6, <1>7, <1>8, <1>9, <1>10 DEF Charted
<1> QED
  BY <1>11 DEF MapInv

(* Whatever calls do, there is a chart that explains the tree: what was    *)
(* linked is found on the way that its key takes through the chart, and    *)
(* every call knows of its way and of its key what its next step needs.    *)
THEOREM MapInvariant == Spec => []MapInv
<1>1. Init => TInv /\ LInv /\ MapInv
  BY Initially, LockInitially, ChartedInitially
<1>2. TInv /\ LInv /\ MapInv /\ [Next]_vars => TInv' /\ LInv' /\ MapInv'
  BY Steps, StepsLocked, StepCharted
<1> QED
  BY <1>1, <1>2, PTL DEF Spec
-----------------------------------------------------------------------------
(* Every step is one of the map, or none.                                  *)
LEMMA PlacedThen ==
  (\A C, P : TInv /\ LInv /\ Charted(C, P) => Placed(C))'
<1>1. \A C, P : TInv /\ LInv /\ Charted(C, P) => Placed(C)
  BY PlacedNow
<1> QED
  BY <1>1, PTL

(* What no step links, no key is added by.                                 *)
LEMMA SameKeys ==
  ASSUME TInv, TInv', LInv, LInv', Grows, NEW C, NEW P, Charted(C, P), NEW D, Charted(D, P)'
  PROVE  \A k \in AllKeys : Holds(k)' <=> Holds(k)
<1>1. Placed(C) /\ PublicOK(C, P)
  BY PlacedNow DEF Charted
<1>2. Placed(D)' /\ PublicOK(D, P)'
  BY PlacedThen DEF Charted
<1>3. \A k : Absent(P, k)' <=> Absent(P, k)
  BY <1>1 DEF PublicOK, Absent, IsLeaf, Grows, Lasting
<1> QED
  BY <1>1, <1>2, <1>3, HoldsIs, HoldsNext


(* The other calls are seen as before.                                     *)
LEMMA Becomes ==
  ASSUME \A u \in Threads : CallOf(u) = View(loc[u]), \A u \in Threads : CallOf(u)' = View(loc'[u]),
         NEW t \in Threads, \A u \in Threads : u # t => loc'[u] = loc[u]
  PROVE  /\ Map!Become(t, View(loc'[t]))
         /\ View(loc'[t]) = View(loc[t]) => UNCHANGED [u \in Threads |-> CallOf(u)]
<1>1. \A u \in Threads : u # t => CallOf(u)' = CallOf(u)
  OBVIOUS
<1> QED
  BY <1>1 DEF Map!Become

(* A restart or a plain move does not change what the abstract map sees of a *)
(* call.                                                                     *)
LEMMA ViewStays ==
  ASSUME NEW M, Calls(M), M.op \in {"lookup", "insert"}, NEW N,
         \/ M.pc \notin Linked /\ N = Start(M)
         \/ \E changes : Changed(N, M, changes) /\ Plain(M, changes)
  PROVE  View(N) = View(M)
<1>1. M # Idle /\ M.pc # "done"
  BY DEF Calls, Idle
<1>2. N # Idle /\ N.pc # "done" /\ N.op = M.op /\ N.key = M.key /\ N.missing = M.missing
      /\ (N.pc \in Linked <=> M.pc \in Linked)
  <2>1. CASE M.pc \notin Linked /\ N = Start(M)
    BY <2>1 DEF Start, Idle, Linked
  <2>2. CASE \E changes : Changed(N, M, changes) /\ Plain(M, changes)
    <3>1. PICK changes : Changed(N, M, changes) /\ Plain(M, changes)
      BY <2>2
    <3>2. N.pc = changes.pc /\ N.op = M.op /\ N.key = M.key /\ N.missing = M.missing
      BY <3>1 DEF Changed, Plain, Fields
    <3> QED
      BY <3>1, <3>2 DEF Plain, Idle
  <2> QED
    BY <2>1, <2>2
<1> QED
  BY <1>1, <1>2 DEF View, Landed

(* What a lookup returns was right when the call began, or is right now.   *)
LEMMA LookupAnswers ==
  ASSUME TInv', LInv', NEW t \in Threads, NEW M, NEW N, Moving(t, M, N), M.op = "lookup", Calls(M),
         NEW result, Return(t, result), NEW D, NEW P, Charted(D, P)',
         \A k \in AllKeys : Holds(k)' <=> Holds(k), M.key \in AllKeys
  PROVE  \E found \in BOOLEAN :
            /\ IF found THEN Holds(M.key) ELSE M.missing
            /\ View(M) = [op |-> "lookup", key |-> M.key, missing |-> M.missing]
            /\ View(N) = [op |-> "answered", tid |-> IF found THEN M.key ELSE Map!NoTid]
<1>1. /\ N.pc = "done" /\ N.op = M.op /\ N.key = M.key /\ N.missing = M.missing
      /\ N.result = result /\ N # Idle
  BY ReturnsAs
<1>2. M # Idle /\ M.pc # "done" /\ N = loc'[t]
  BY DEF Calls, Idle, Moving
<1>3. Answered(D, N)'
  BY <1>1, <1>2 DEF Charted, ThreadKnows
<1>4. result # NoTid => result = M.key /\ Holds(M.key)
  <2>1. Placed(D)' /\ PublicOK(D, P)'
    BY PlacedThen DEF Charted
  <2> QED
    BY <1>1, <1>3, <2>1, HoldsNext DEF Answered
<1>5. result = NoTid => M.missing
  BY <1>1, <1>3 DEF Answered
<1>6. /\ View(M) = [op |-> "lookup", key |-> M.key, missing |-> M.missing]
      /\ View(N) = [op |-> "answered", tid |-> result]
  BY <1>1, <1>2 DEF View
<1>7. CASE result = NoTid
  <2> WITNESS FALSE \in BOOLEAN
  <2> QED
    BY <1>5, <1>6, <1>7 DEF Map!NoTid, NoTid
<1>8. CASE result # NoTid
  <2> WITNESS TRUE \in BOOLEAN
  <2> QED
    BY <1>4, <1>6, <1>8
<1> QED
  BY <1>7, <1>8

(* A step of lookup or insert is one of a call in progress.                  *)
LEMMA Underway ==
  ASSUME TInv, NEW t \in Threads, lookup(t) \/ insert(t), NEW M, M = loc[t]
  PROVE  Calls(M) /\ M.op \in {"lookup", "insert"} /\ (M.pc \in Looking <=> M.op = "lookup")
<1>1. Calls(M)
  <2>1. CASE lookup(t)
    BY <2>1 DEF lookup, LookupRoot, Search, LookupMiss, LookupHit, LookupLeaf, LeafReadLock, LeafRead,
                Descend, Couple, Calls
  <2>2. CASE WalkStep(t)
    BY <2>2 DEF WalkStep, descend, Visit, PrefixStep, AnyLock, AnyChild, AnyCheck, ReadChild,
                ChildCheck, Further, Room, PutParent, Calls
  <2>3. CASE LockStep(t)
    BY <2>3 DEF LockStep, PutLock, LeafLockNode, LeafWriteLock, LockParent, LockNode, Calls
  <2>4. CASE UnlockStep(t) \/ LinkStep(t)
    BY <2>4 DEF UnlockStep, Unlock, Undo, GrowUnlock, SplitUnlock, GrowObsolete, SplitObsolete,
                LeafObsolete, LinkStep, PutInsert, GrowLink, SplitLink, LeafLink, Calls
  <2>5. CASE MarkStep(t) \/ MakeStep(t)
    BY <2>5 DEF MarkStep, GrowMark, SplitMark, LeafMark, MakeStep, PutLeaf, GrowBuild, SplitBuild,
                LeafBuild, Calls
  <2> QED
    BY <2>1, <2>2, <2>3, <2>4, <2>5, Sorted
<1>2. CallOK(M)
  BY <1>1, Callers
<1>3. LookupOK(M) => M.pc \in Looking
  BY DEF LookupOK
<1>4. InsertOK(M) => M.pc \notin Looking
  BY DEF InsertOK, Looking, Descending, Putting, Replacing, Growing, Splitting, LeafSplitting
<1> QED
  BY <1>1, <1>2, <1>3, <1>4 DEF CallOK

(* A step of a call is a step of the abstract map or leaves it as it was.    *)
LEMMA CallSteps ==
  ASSUME LInv', NEW t \in Threads, NEW M, NEW N, Moving(t, M, N), lookup(t) \/ insert(t),
         UNCHANGED <<todo, load>>, NEW C, NEW P, Charted(C, P)
  PROVE  [Map!Next]_(Map!vars)
<1>1. /\ TInv /\ TInv' /\ LInv /\ Grows /\ M = loc[t] /\ N = loc'[t]
      /\ \A u \in Threads : u # t => loc'[u] = loc[u]
  BY DEF Moving
<1>2. Calls(M) /\ M.op \in {"lookup", "insert"} /\ (M.pc \in Looking <=> M.op = "lookup")
  BY <1>1, Underway
<1>3. M.key \in AllKeys
  <2>1. M # Idle
    BY <1>2 DEF Calls, Idle
  <2> QED
    BY <1>1, <2>1 DEF Charted, KeysOK
<1>4. PICK D, Q : /\ Charted(D, Q)'
                  /\ LinkStep(t) \/ (Takes(t, M) /\ Q = P)
  BY CallCharted
<1>5. /\ \A u \in Threads : CallOf(u) = View(loc[u])
      /\ \A u \in Threads : CallOf(u)' = View(loc'[u])
  BY <1>1, <1>4, CallViewed, CallViewedNext
<1>6. /\ Map!Become(t, View(N))
      /\ View(N) = View(M) => UNCHANGED [u \in Threads |-> CallOf(u)]
  BY <1>1, <1>5, Becomes
<1>7. CallOf(t) = View(M) /\ [u \in Threads |-> CallOf(u)][t] = View(M)
  BY <1>1, <1>5
<1>8. CASE LinkStep(t)
  <2>1. /\ M.key \in AllKeys
        /\ \A k \in AllKeys : Holds(k)' <=> Holds(k) \/ k = M.key
    BY <1>8, LinkCharted
  <2>2. M.op = "insert" /\ ~Landed(M) /\ N.op = "insert" /\ N.key = M.key /\ Landed(N)
        /\ M # Idle /\ N # Idle /\ N.pc # "done" /\ M.pc # "done"
    <3>1. N # Idle /\ N.op = M.op /\ N.key = M.key /\ \E p, b : Hooks(M, N, p, b)
      BY <1>8, LinkForm
    <3> QED
      BY <1>2, <3>1 DEF Hooks, Landed, Linked, Looking, Calls, Idle
  <2>3. View(M) = [op |-> "insert", key |-> M.key] /\ View(N) = [op |-> "inserted", key |-> M.key]
    BY <2>2 DEF View
  <2>4. {k \in AllKeys : Holds(k)'} = {k \in AllKeys : Holds(k)} \cup {M.key}
    BY <2>1
  <2>5. Map!TakeEffect(t)
    BY <1>6, <1>7, <2>3, <2>4 DEF Map!TakeEffect
  <2> QED
    BY <2>5 DEF Map!Next
<1>9. CASE Takes(t, M) /\ Q = P
  <2>1. \A k \in AllKeys : Holds(k)' <=> Holds(k)
    BY <1>1, <1>4, <1>9, SameKeys
  <2>2. UNCHANGED {k \in AllKeys : Holds(k)}
    BY <2>1
  <2>3. CASE View(N) = View(M)
    BY <1>6, <2>2, <2>3 DEF Map!vars
  <2>4. CASE (M.pc \notin Linked /\ Restart(t)) \/ \E changes : Go(t, changes) /\ Plain(M, changes)
    <3>1. View(N) = View(M)
      BY <1>2, <2>4, Outcomes, ViewStays DEF Plain
    <3> QED
      BY <2>3, <3>1
  <2>5. ASSUME NEW result, Return(t, result), LeavesWith(M, result) PROVE [Map!Next]_(Map!vars)
    <3>1. CASE M.op = "lookup"
      <4>1. PICK found \in BOOLEAN :
               /\ IF found THEN Holds(M.key) ELSE M.missing
               /\ View(M) = [op |-> "lookup", key |-> M.key, missing |-> M.missing]
               /\ View(N) = [op |-> "answered", tid |-> IF found THEN M.key ELSE Map!NoTid]
        BY <1>1, <1>2, <1>3, <1>4, <1>9, <2>1, <2>5, <3>1, LookupAnswers
      <4>2. found => M.key \in {k \in AllKeys : Holds(k)}
        BY <1>3, <4>1
      <4>3. Map!Answer(t, found)
        BY <1>6, <1>7, <2>2, <4>1, <4>2 DEF Map!Answer
      <4> QED
        BY <4>3 DEF Map!Next
    <3>2. CASE M.op = "insert"
      <4>1. N.pc = "done" /\ N.op = M.op /\ N.key = M.key /\ N.result = result /\ N # Idle
        BY <2>5, ReturnsAs
      <4>2. M # Idle /\ M.pc # "done"
        BY <1>2 DEF Calls, Idle
      <4>3. CASE M.pc \in Linked
        <5>1. result = "inserted"
          BY <1>2, <2>5, <3>2, <4>3 DEF LeavesWith
        <5>2. View(N) = View(M)
          BY <3>2, <4>1, <4>2, <4>3, <5>1 DEF View, Landed
        <5> QED
          BY <2>3, <5>2
      <4>4. CASE M.pc \notin Linked
        <5>1. result = "refused"
          BY <1>2, <2>5, <3>2, <4>4 DEF LeavesWith
        <5>2. View(N) = Map!Idle /\ View(M) = [op |-> "insert", key |-> M.key]
          BY <3>2, <4>1, <4>2, <4>4, <5>1 DEF View, Landed
        <5>3. Map!Refuse(t)
          BY <1>6, <1>7, <2>2, <5>2 DEF Map!Refuse
        <5> QED
          BY <5>3 DEF Map!Next
      <4> QED
        BY <4>3, <4>4
    <3> QED
      BY <1>2, <3>1, <3>2
  <2> QED
    BY <1>9, <2>4, <2>5 DEF Takes
<1> QED
  BY <1>4, <1>8, <1>9

(* Beginning a call begins it in the abstract map.                           *)
LEMMA BeginSteps ==
  ASSUME TInv, TInv', LInv, LInv', NEW t \in Threads, BeginCall(t), NEW C, NEW P, Charted(C, P)
  PROVE  Map!Next
<1> SUFFICES ASSUME NEW M, NEW N, M = loc[t], N = loc'[t] PROVE Map!Next
  OBVIOUS
<1>1. /\ Grows /\ Charted(C, P)' /\ M = Idle
      /\ \A u \in Threads : u # t => loc'[u] = loc[u]
  BY BeginTurns, BeginCharted DEF Turns, Moving, BeginCall
<1>2. /\ \A u \in Threads : CallOf(u) = View(loc[u])
      /\ \A u \in Threads : CallOf(u)' = View(loc'[u])
  BY <1>1, CallViewed, CallViewedNext
<1>3. Map!Become(t, View(N)) /\ [u \in Threads |-> CallOf(u)][t] = Map!Idle
  BY <1>1, <1>2, Becomes DEF View
<1>4. UNCHANGED {k \in AllKeys : Holds(k)}
  BY <1>1, SameKeys
<1>5. PICK c : N = Start([op |-> c.op, key |-> c.key, missing |-> ~Holds(c.key)])
  BY DEF BeginCall, TInv, QueueOK
<1>6. N.op = c.op /\ N.key = c.key /\ N.missing = ~Holds(c.key) /\ N.pc = c.op
  BY <1>5 DEF Start
<1>7. c.key \in AllKeys /\ c.op \in {"lookup", "insert"}
  <2>1. PICK op \in {"lookup", "insert"}, key \in AllKeys : \E missing :
           loc' = [loc EXCEPT ![t] = Start([op |-> op, key |-> key, missing |-> missing])]
    BY Begun
  <2>2. N.op = op /\ N.key = key
    BY <2>1 DEF Start, TInv, QueueOK
  <2> QED
    BY <1>6, <2>1, <2>2
<1>8. N # Idle /\ N.pc # "done" /\ N.pc \notin Linked
  BY <1>6, <1>7 DEF Idle, Linked
<1>9. CASE c.op = "insert"
  <2>1. View(N) = [op |-> "insert", key |-> c.key]
    BY <1>6, <1>8, <1>9 DEF View, Landed
  <2>2. Map!Invoke(t)
    BY <1>3, <1>4, <1>7, <2>1 DEF Map!Invoke
  <2> QED
    BY <2>2 DEF Map!Next
<1>10. CASE c.op = "lookup"
  <2>1. View(N) = [op |-> "lookup", key |-> c.key, missing |-> ~Holds(c.key)]
    BY <1>6, <1>8, <1>10 DEF View
  <2>2. (c.key \notin {k \in AllKeys : Holds(k)}) = ~Holds(c.key)
    BY <1>7
  <2>3. Map!Become(t, [op |-> "lookup", key |-> c.key, missing |-> c.key \notin {k \in AllKeys : Holds(k)}])
    BY <1>3, <2>1, <2>2
  <2>4. Map!Invoke(t)
    BY <1>3, <1>4, <1>7, <2>3 DEF Map!Invoke
  <2> QED
    BY <2>4 DEF Map!Next
<1> QED
  BY <1>7, <1>9, <1>10

(* Ending a call ends it in the abstract map, where a refused one has ended  *)
(* already.                                                                  *)
LEMMA EndSteps ==
  ASSUME TInv, TInv', LInv, LInv', NEW t \in Threads, EndCall(t), NEW C, NEW P, Charted(C, P)
  PROVE  [Map!Next]_(Map!vars)
<1> SUFFICES ASSUME NEW M, NEW N, M = loc[t], N = loc'[t] PROVE [Map!Next]_(Map!vars)
  OBVIOUS
<1>1. /\ Grows /\ Charted(C, P)' /\ M.pc = "done"
      /\ \A u \in Threads : u # t => loc'[u] = loc[u]
  BY EndTurns, EndCharted DEF Turns, Moving, EndCall
<1>2. /\ \A u \in Threads : CallOf(u) = View(loc[u])
      /\ \A u \in Threads : CallOf(u)' = View(loc'[u])
  BY <1>1, CallViewed, CallViewedNext
<1>3. View(N) = Map!Idle
  BY DEF EndCall, TInv, QueueOK, View
<1>4. /\ Map!Become(t, Map!Idle) /\ [u \in Threads |-> CallOf(u)][t] = View(M)
      /\ View(M) = Map!Idle => UNCHANGED [u \in Threads |-> CallOf(u)]
  BY <1>1, <1>2, <1>3, Becomes
<1>5. UNCHANGED {k \in AllKeys : Holds(k)}
  BY <1>1, SameKeys
<1>6. CASE View(M) = Map!Idle
  BY <1>4, <1>5, <1>6 DEF Map!vars
<1>7. CASE View(M) # Map!Idle
  <2>1. View(M).op \in {"answered", "inserted"}
    BY <1>1, <1>7 DEF View, Landed
  <2>2. Map!ReturnFromInsert(t) \/ Map!ReturnFromLookup(t)
    BY <1>4, <1>5, <2>1 DEF Map!ReturnFromInsert, Map!ReturnFromLookup
  <2> QED
    BY <2>2 DEF Map!Next
<1> QED
  BY <1>6, <1>7

(* Every step of the tree is a step of the abstract map or leaves it as it   *)
(* was.                                                                      *)
LEMMA MapSteps ==
  ASSUME TInv, TInv', LInv, LInv', MapInv, [Next]_vars
  PROVE  [Map!Next]_(Map!vars)
<1>1. PICK C, P : Charted(C, P)
  BY DEF MapInv
<1>2. CASE UNCHANGED vars
  <2>1. Charted(C, P)' /\ loc' = loc /\ mem' = mem /\ Slots' = Slots
    BY <1>1, <1>2, NothingCharted DEF vars, Slots
  <2>2. Grows
    BY <2>1 DEF Grows, Lasting, TInv, MemOK
  <2>3. /\ \A u \in Threads : CallOf(u) = View(loc[u])
        /\ \A u \in Threads : CallOf(u)' = View(loc'[u])
    BY <1>1, <2>1, CallViewed, CallViewedNext
  <2>4. UNCHANGED [u \in Threads |-> CallOf(u)]
    BY <2>1, <2>3
  <2>5. UNCHANGED {k \in AllKeys : Holds(k)}
    BY <1>1, <2>1, <2>2, SameKeys
  <2> QED
    BY <2>4, <2>5 DEF Map!vars
<1>3. ASSUME NEW t \in Threads, Step(t) PROVE [Map!Next]_(Map!vars)
  <2>1. CASE BeginCall(t)
    BY <1>1, <2>1, BeginSteps
  <2>2. CASE EndCall(t)
    BY <1>1, <2>2, EndSteps
  <2>3. CASE (lookup(t) \/ insert(t)) /\ UNCHANGED <<todo, load>>
    <3>1. Grows /\ \A u \in Threads : u # t => loc'[u] = loc[u]
      BY <2>3, Stirring DEF Alone
    <3>2. Moving(t, loc[t], loc'[t])
      BY <2>3, <3>1, Movement
    <3> QED
      BY <1>1, <2>3, <3>2, CallSteps
  <2> QED
    BY <1>3, <2>1, <2>2, <2>3 DEF Step
<1> QED
  BY <1>2, <1>3 DEF Next

(* The initial states of the tree are initial states of the abstract map.    *)
LEMMA MapInitially ==
  ASSUME Init
  PROVE  Map!Init
<1>1. TInv /\ LInv /\ \A t \in Threads : loc[t] = Idle
  BY Initially, LockInitially DEF Init
<1>2. PICK C, P : Charted(C, P)
  BY ChartedInitially DEF MapInv
<1>3. ASSUME NEW k \in AllKeys PROVE ~Holds(k)
  <2>1. Placed(C) /\ PublicOK(C, P)
    BY <1>1, <1>2, PlacedNow DEF Charted
  <2>2. Absent(P, k)
    <3>1. Slots = {Root} /\ ~IsLeaf(Root)
      <4>1. Len(mem) = 1 /\ mem[1] = NewNode(TopKind, 1, <<>>, 0, <<0, 0>>)
        BY DEF Init
      <4>2. mem[1].kind = TopKind
        BY <4>1 DEF NewNode, SetPrefix
      <4> QED
        BY <4>1, <4>2, Kinds DEF Slots, Root, IsLeaf
    <3> QED
      BY <2>1, <3>1 DEF PublicOK, Absent
  <2> QED
    BY <2>1, <2>2, HoldsIs
<1>4. \A t \in Threads : CallOf(t) = Map!Idle
  BY <1>1 DEF CallOf, Map!Idle
<1> QED
  BY <1>3, <1>4 DEF Map!Init

(* The tree is a map: an insertion takes effect at the instant when the    *)
(* pointer to its leaf is stored, or it is refused without effect; a lookup *)
(* that finds its key returns the TID of a key that is there, one that     *)
(* misses has begun when the key was not.                                  *)
THEOREM ImplementsMapHolds == Spec => ImplementsMap
<1>1. Init => TInv /\ LInv /\ MapInv
  BY Initially, LockInitially, ChartedInitially
<1>2. TInv /\ LInv /\ MapInv /\ [Next]_vars => TInv' /\ LInv' /\ MapInv'
  BY Steps, StepsLocked, StepCharted
<1>3. TInv /\ LInv /\ MapInv /\ [Next]_vars /\ TInv' /\ LInv' => [Map!Next]_(Map!vars)
  BY MapSteps
<1> QED
  BY <1>1, <1>2, <1>3, MapInitially, PTL DEF Spec, ImplementsMap, Map!Spec
=============================================================================
