--------------------------- MODULE ArtTreeProofs ---------------------------
(***************************************************************************)
(* The tree with optimistic lock coupling, for any number of threads, any  *)
(* node sizes and any calls, whether or not a dereference table runs full. *)
(***************************************************************************)
EXTENDS ArtTree, FiniteSetTheorems, SequenceTheorems, TLAPS

-----------------------------------------------------------------------------
(* Sequences whose elements nothing is said of.                            *)
IsSeq(s) == \E S : s \in Seq(S)

LEMMA Sequence ==
  ASSUME NEW s, IsSeq(s)
  PROVE  Len(s) \in Nat /\ DOMAIN s = 1..Len(s)
  BY LenProperties DEF IsSeq

Joined(s, u) == s \o u

LEMMA Appended ==
  ASSUME NEW s, IsSeq(s), NEW u, IsSeq(u), NEW w, w = Joined(s, u)
  PROVE  /\ IsSeq(w) /\ Len(w) = Len(s) + Len(u)
         /\ \A i \in 1..Len(w) : w[i] = IF i <= Len(s) THEN s[i] ELSE u[i - Len(s)]
<1>1. PICK S : s \in Seq(S)
  BY DEF IsSeq
<1>2. PICK U : u \in Seq(U)
  BY DEF IsSeq
<1>3. s \in Seq(S \cup U) /\ u \in Seq(S \cup U)
  BY <1>1, <1>2, SeqMonotonic
<1>4. /\ w \in Seq(S \cup U) /\ Len(w) = Len(s) + Len(u)
      /\ \A i \in 1..Len(s) + Len(u) : w[i] = IF i <= Len(s) THEN s[i] ELSE u[i - Len(s)]
  BY <1>3, ConcatProperties DEF Joined
<1> QED
  BY <1>4 DEF IsSeq

LEMMA Replaced ==
  ASSUME NEW s, IsSeq(s), NEW i \in 1..Len(s), NEW e
  PROVE  /\ IsSeq([s EXCEPT ![i] = e])
         /\ Len([s EXCEPT ![i] = e]) = Len(s)
         /\ [s EXCEPT ![i] = e][i] = e
         /\ \A j \in 1..Len(s) : j # i => [s EXCEPT ![i] = e][j] = s[j]
<1>1. PICK S : s \in Seq(S)
  BY DEF IsSeq
<1>2. s \in Seq(S \cup {e}) /\ e \in S \cup {e}
  BY <1>1, SeqMonotonic
<1> QED
  BY <1>2, ExceptSeq DEF IsSeq

LEMMA Tuples ==
  /\ \A a : IsSeq(<<a>>) /\ Len(<<a>>) = 1 /\ <<a>>[1] = a /\ DOMAIN <<a>> = 1..1
  /\ \A a, b : /\ IsSeq(<<a, b>>) /\ Len(<<a, b>>) = 2 /\ DOMAIN <<a, b>> = 1..2
               /\ <<a, b>>[1] = a /\ <<a, b>>[2] = b
  /\ \A a, b, c : /\ IsSeq(<<a, b, c>>) /\ Len(<<a, b, c>>) = 3 /\ DOMAIN <<a, b, c>> = 1..3
                  /\ <<a, b, c>>[1] = a /\ <<a, b, c>>[2] = b /\ <<a, b, c>>[3] = c
<1>1. \A a : <<a>> \in Seq({a})
  OBVIOUS
<1>2. \A a, b : <<a, b>> \in Seq({a, b})
  OBVIOUS
<1>3. \A a, b, c : <<a, b, c>> \in Seq({a, b, c})
  OBVIOUS
<1>4. \A a : Len(<<a>>) = 1 /\ <<a>>[1] = a
  OBVIOUS
<1>5. \A a, b : Len(<<a, b>>) = 2 /\ <<a, b>>[1] = a /\ <<a, b>>[2] = b
  OBVIOUS
<1>6. \A a, b, c : /\ Len(<<a, b, c>>) = 3
                   /\ <<a, b, c>>[1] = a /\ <<a, b, c>>[2] = b /\ <<a, b, c>>[3] = c
  OBVIOUS
<1>7. \A a : DOMAIN <<a>> = 1..1
  BY <1>1, <1>4, LenProperties
<1>8. \A a, b : DOMAIN <<a, b>> = 1..2
  BY <1>2, <1>5, LenProperties
<1>9. \A a, b, c : DOMAIN <<a, b, c>> = 1..3
  BY <1>3, <1>6, LenProperties
<1>10. \A a : IsSeq(<<a>>)
  BY <1>1 DEF IsSeq
<1>11. \A a, b : IsSeq(<<a, b>>)
  BY <1>2 DEF IsSeq
<1>12. \A a, b, c : IsSeq(<<a, b, c>>)
  BY <1>3 DEF IsSeq
<1> QED
  BY <1>4, <1>5, <1>6, <1>7, <1>8, <1>9, <1>10, <1>11, <1>12

LEMMA Listed ==
  ASSUME NEW n \in Nat, NEW f, f = [i \in 1..n |-> f[i]]
  PROVE  IsSeq(f) /\ Len(f) = n
<1>1. f \in [1..n -> {f[i] : i \in 1..n}]
  OBVIOUS
<1>2. f \in Seq({f[i] : i \in 1..n})
  BY <1>1, SeqDef
<1>3. Len(f) = n
  BY <1>1, <1>2, LenProperties
<1> QED
  BY <1>2, <1>3 DEF IsSeq
-----------------------------------------------------------------------------
(* Memory: what every slot is, and what stays of it for ever.              *)
NodeFields == {"kind", "word", "id", "prefix", "plen", "child", "value", "hash"}

MemOK ==
  /\ IsSeq(mem) /\ Root \in Slots /\ IsSeq(retired) /\ Len(retired) = Len(mem)
  /\ \A s \in Slots :
        /\ DOMAIN mem[s] = NodeFields
        /\ mem[s].kind \in 0..TopKind /\ mem[s].word \in Nat
        /\ \A b \in DOMAIN mem[s].child : mem[s].child[b] \in Slots \cup {Nil}
  /\ mem[Root].kind = TopKind /\ mem[Root].plen = 0 /\ mem[Root].prefix = <<>>

(* A slot stays what it was made for; its version word never decreases.    *)
Lasting(s) ==
  /\ mem'[s].kind = mem[s].kind /\ mem'[s].id = mem[s].id /\ mem'[s].prefix = mem[s].prefix
  /\ mem'[s].plen = mem[s].plen /\ mem'[s].value = mem[s].value
  /\ mem'[s].hash = mem[s].hash /\ mem'[s].word >= mem[s].word

Grows == Slots \subseteq Slots' /\ \A s \in Slots : Lasting(s)

LEMMA WordAdded ==
  ASSUME MemOK, NEW s \in Slots, NEW n \in Nat, AddToWord(s, n)
  PROVE  /\ IsSeq(mem') /\ Len(mem') = Len(mem)
         /\ \A x \in Slots : x # s => mem'[x] = mem[x]
         /\ DOMAIN mem'[s] = NodeFields
         /\ mem'[s].word = mem[s].word + n /\ mem'[s].child = mem[s].child
         /\ Lasting(s)
<1>1. /\ s \in 1..Len(mem) /\ IsSeq(mem) /\ DOMAIN mem = 1..Len(mem)
      /\ mem[s].word \in Nat /\ DOMAIN mem[s] = NodeFields
  BY Sequence DEF MemOK, Slots
<1> DEFINE e == [mem[s] EXCEPT !.word = @ + n]
<1>2. mem' = [mem EXCEPT ![s] = e]
  BY DEF AddToWord
<1>3. /\ DOMAIN e = NodeFields /\ e.word = mem[s].word + n /\ e.child = mem[s].child
      /\ e.kind = mem[s].kind /\ e.id = mem[s].id /\ e.prefix = mem[s].prefix
      /\ e.plen = mem[s].plen /\ e.value = mem[s].value /\ e.hash = mem[s].hash
  BY <1>1 DEF NodeFields
<1> HIDE DEF e
<1>4. /\ IsSeq(mem') /\ Len(mem') = Len(mem) /\ mem'[s] = e
      /\ \A x \in Slots : x # s => mem'[x] = mem[x]
  BY <1>1, <1>2, Replaced DEF Slots
<1> QED
  BY <1>1, <1>3, <1>4 DEF Lasting

LEMMA ChildChanged ==
  ASSUME MemOK, NEW s \in Slots, NEW b, NEW c, change(s, b, c)
  PROVE  /\ IsSeq(mem') /\ Len(mem') = Len(mem)
         /\ \A x \in Slots : x # s => mem'[x] = mem[x]
         /\ DOMAIN mem'[s] = NodeFields
         /\ mem'[s].word = mem[s].word
         /\ DOMAIN mem'[s].child = DOMAIN mem[s].child \cup {b}
         /\ mem'[s].child[b] = c
         /\ \A x \in DOMAIN mem[s].child : x # b => mem'[s].child[x] = mem[s].child[x]
         /\ Lasting(s)
<1>1. /\ s \in 1..Len(mem) /\ IsSeq(mem) /\ DOMAIN mem = 1..Len(mem)
      /\ DOMAIN mem[s] = NodeFields /\ mem[s].word \in Nat
  BY Sequence DEF MemOK, Slots
<1> DEFINE g == Merge(mem[s].child, [x \in {b} |-> c])
           e == [mem[s] EXCEPT !.child = g]
<1>2. mem' = [mem EXCEPT ![s] = e]
  BY DEF change, SetChild
<1>3. /\ DOMAIN g = DOMAIN mem[s].child \cup {b} /\ g[b] = c
      /\ \A x \in DOMAIN mem[s].child : x # b => g[x] = mem[s].child[x]
  BY DEF Merge
<1> HIDE DEF g
<1>4. /\ DOMAIN e = NodeFields /\ e.word = mem[s].word /\ e.child = g
      /\ e.kind = mem[s].kind /\ e.id = mem[s].id /\ e.prefix = mem[s].prefix
      /\ e.plen = mem[s].plen /\ e.value = mem[s].value /\ e.hash = mem[s].hash
  BY <1>1 DEF NodeFields
<1> HIDE DEF e
<1>5. /\ IsSeq(mem') /\ Len(mem') = Len(mem) /\ mem'[s] = e
      /\ \A x \in Slots : x # s => mem'[x] = mem[x]
  BY <1>1, <1>2, Replaced DEF Slots
<1> QED
  BY <1>1, <1>3, <1>4, <1>5 DEF Lasting

Unmarked(k) == [i \in 1..k |-> {}]

(* The slots allocated by a call: all of them, or some from the first on.  *)
LEMMA Allocated ==
  ASSUME MemOK, NEW t, NEW new, NEW changes, IsSeq(new), Allocate(t, new, changes)
  PROVE  /\ IsSeq(mem') /\ IsSeq(retired') /\ Len(retired') = Len(mem')
         /\ \A s \in Slots : mem'[s] = mem[s] /\ retired'[s] = retired[s]
         /\ \A s \in Slots' \ Slots : retired'[s] = {}
         /\ \/ /\ Len(mem') = Len(mem) + Len(new) /\ Go(t, changes)
               /\ \A i \in 1..Len(new) : mem'[Len(mem) + i] = new[i]
            \/ \E k \in 0..Len(new) - 1 :
                  /\ Len(mem') = Len(mem) + k /\ Return(t, "refused")
                  /\ \A i \in 1..k : mem'[Len(mem) + i] = Unlinked(new[i])
<1>1. /\ Len(mem) \in Nat /\ IsSeq(mem) /\ IsSeq(retired) /\ Len(retired) = Len(mem)
      /\ Len(new) \in Nat /\ DOMAIN new = 1..Len(new)
  BY Sequence DEF MemOK
<1>2. ASSUME NEW k \in Nat, NEW more, IsSeq(more), Len(more) = k,
             mem' = Joined(mem, more), retired' = Joined(retired, Unmarked(k))
      PROVE  /\ IsSeq(mem') /\ IsSeq(retired') /\ Len(retired') = Len(mem')
             /\ \A s \in Slots : mem'[s] = mem[s] /\ retired'[s] = retired[s]
             /\ \A s \in Slots' \ Slots : retired'[s] = {}
             /\ Len(mem') = Len(mem) + k
             /\ \A i \in 1..k : mem'[Len(mem) + i] = more[i]
  <2> DEFINE none == Unmarked(k)
  <2>1. IsSeq(none) /\ Len(none) = k /\ \A i \in 1..k : none[i] = {}
    BY Listed DEF Unmarked
  <2> HIDE DEF none
  <2>2. /\ IsSeq(mem') /\ Len(mem') = Len(mem) + Len(more)
        /\ \A i \in 1..Len(mem') : mem'[i] = IF i <= Len(mem) THEN mem[i] ELSE more[i - Len(mem)]
    BY <1>1, <1>2, Appended
  <2>5. /\ \A i \in 1..Len(mem) : mem'[i] = mem[i]
        /\ \A i \in 1..k : mem'[Len(mem) + i] = more[i]
    BY <1>1, <1>2, <2>2
  <2>3. /\ IsSeq(retired') /\ Len(retired') = Len(retired) + Len(none)
        /\ \A i \in 1..Len(retired') :
              retired'[i] = IF i <= Len(retired) THEN retired[i] ELSE none[i - Len(retired)]
    BY <1>1, <1>2, <2>1, Appended DEF none
  <2>6. /\ \A i \in 1..Len(mem) : retired'[i] = retired[i]
        /\ \A i \in 1..k : retired'[Len(mem) + i] = {}
    BY <1>1, <2>1, <2>3, SMTT(30)
  <2>4. ASSUME NEW s \in Slots' \ Slots PROVE retired'[s] = {}
    <3>1. s - Len(mem) \in 1..k /\ Len(mem) + (s - Len(mem)) = s
      BY <1>1, <1>2, <2>2 DEF Slots
    <3> QED
      BY <2>6, <3>1
  <2> QED
    BY <1>1, <1>2, <2>1, <2>2, <2>3, <2>4, <2>5, <2>6 DEF Slots
<1>3. CASE /\ mem' = mem \o new /\ retired' = retired \o [i \in DOMAIN new |-> {}]
           /\ Go(t, changes)
  <2>1. /\ mem' = Joined(mem, new) /\ retired' = Joined(retired, Unmarked(Len(new)))
        /\ Go(t, changes)
    BY <1>1, <1>3 DEF Joined, Unmarked
  <2> QED
    BY <1>1, <1>2, <2>1
<1>4. ASSUME NEW k \in 0..Len(new) - 1,
             mem' = mem \o [j \in 1..k |-> Unlinked(new[j])],
             retired' = retired \o [j \in 1..k |-> {}],
             Return(t, "refused")
      PROVE  /\ IsSeq(mem') /\ IsSeq(retired') /\ Len(retired') = Len(mem')
             /\ \A s \in Slots : mem'[s] = mem[s] /\ retired'[s] = retired[s]
             /\ \A s \in Slots' \ Slots : retired'[s] = {}
             /\ Len(mem') = Len(mem) + k
             /\ \A i \in 1..k : mem'[Len(mem) + i] = Unlinked(new[i])
  <2> DEFINE more == [j \in 1..k |-> Unlinked(new[j])]
  <2>1. k \in Nat
    BY <1>1
  <2>2. IsSeq(more) /\ Len(more) = k /\ \A i \in 1..k : more[i] = Unlinked(new[i])
    BY <2>1, Listed
  <2> HIDE DEF more
  <2>3. mem' = Joined(mem, more) /\ retired' = Joined(retired, Unmarked(k))
    BY <1>4 DEF more, Joined, Unmarked
  <2> QED
    BY <1>2, <2>1, <2>2, <2>3
<1> QED
  BY <1>3, <1>4 DEF Allocate
-----------------------------------------------------------------------------
(* What a thread knows of the slots it has reached.                        *)
Fields == {"pc", "op", "key", "missing", "node", "next", "parent", "v", "pv", "lv", "level",
           "byte", "pbyte", "optimistic", "cursor", "any", "matched", "miss", "rest", "fresh",
           "claim"}

(* Version v of slot s was read and no lock was held then.                 *)
Versioned(s, v) == s \in Slots /\ v \in Nat /\ Readable(v) /\ v <= Word(s)

(* c was read as a child of s, after the version v; Garbage would show.    *)
Fetched(c, s, v) ==
  /\ c \in Slots \cup {Nil, Garbage}
  /\ c = Garbage => Word(s) # v

(* c was allocated to hang under byte b of s.                              *)
Under(c, s, b) == c \in Slots /\ mem[c].hash = IdHash(s, b)

Looking == {"lookup", "search", "miss", "hit", "leaf", "leafLock", "leafRead", "descend", "couple"}

LookupOK(L) ==
  /\ L.pc \in Looking
  /\ L.parent = Nil /\ L.cursor = Nil /\ L.any = Nil
  /\ IF L.pc = "lookup" THEN L.node = Nil ELSE Versioned(L.node, L.v)
  /\ IF L.pc = "hit" THEN Fetched(L.next, L.node, L.v) ELSE L.next \in Slots
  /\ L.pc \in {"leafRead", "couple"} => Versioned(L.next, L.lv)

Descending == {"prefix", "any", "anyChild", "anyCheck", "child", "childCheck", "further"}
Putting == {"room", "parent", "lockNode", "put", "putInsert", "unlock"}
Growing == {"growParent", "growNode", "growBuild", "growLink", "growObsolete", "growMark",
            "growUnlock"}
Splitting == {"splitParent", "splitNode", "splitBuild", "splitLink", "splitUnlock",
              "splitObsolete", "splitMark"}
LeafSplitting == {"leafLockNode", "leafWrite", "leafBuild", "leafObsolete", "leafMark", "leafLink"}
Replacing == Growing \cup Splitting \cup {"undo"}

(* At insert the thread has the node above in node, elsewhere in parent.   *)
Arriving(L) ==
  /\ L.next \in Slots /\ L.any \in Slots \cup {Nil} /\ L.parent \in Slots \cup {Nil}
  /\ \/ L.node = Nil /\ L.next = Root /\ L.level = 0
     \/ Versioned(L.node, L.pv) /\ Under(L.next, L.node, L.byte)

Here(L) ==
  /\ Versioned(L.node, L.v)
  /\ \/ L.parent = Nil /\ L.node = Root
     \/ Versioned(L.parent, L.pv) /\ Under(L.node, L.parent, L.pbyte)

Seeking == {"any", "anyChild", "anyCheck"}

(* The root has no prefix and never grows.                                 *)
Arrived(L) ==
  /\ Here(L)
  /\ L.parent = Nil => /\ L.pc \notin Replacing \cup Seeking
                       /\ L.pc = "prefix" => L.level = 0

(* The child that the key leads to, and the leaf that some key is taken of. *)
Reading(L) ==
  /\ IF L.pc = "childCheck"
     THEN Fetched(L.next, L.node, L.v) /\ (L.next \in Slots => Under(L.next, L.node, L.byte))
     ELSE L.next \in Slots \cup {Nil}
  /\ L.pc \in LeafSplitting \cup {"further"} => Under(L.next, L.node, L.byte)
  /\ L.pc \in Seeking => L.cursor \in Slots
  /\ L.pc \in {"anyChild", "anyCheck"} => Versioned(L.cursor, L.lv)
  /\ IF L.pc = "anyCheck" THEN L.any # Nil /\ Fetched(L.any, L.cursor, L.lv)
                          ELSE L.any \in Slots \cup {Nil}

(* The node that replaces another one.                                     *)
Building(L) ==
  /\ L.pc \in {"growParent", "growNode", "growBuild"} => mem[L.node].kind < TopKind
  /\ L.pc \in {"growLink", "splitLink"} => Under(L.fresh, L.parent, L.pbyte)
  /\ L.pc \in {"putInsert", "leafObsolete", "leafMark", "leafLink"} =>
        Under(L.fresh, L.node, L.byte)

InsertOK(L) ==
  /\ L.pc \in {"insert"} \cup Descending \cup Putting \cup Replacing \cup LeafSplitting
  /\ L.cursor \in Slots \cup {Nil}
  /\ IF L.pc = "insert" THEN Arriving(L) ELSE Arrived(L) /\ Reading(L) /\ Building(L)

CallOK(L) ==
  /\ DOMAIN L = Fields /\ L.key \in Seq(AllBytes)
  /\ \/ L.op = "lookup" /\ LookupOK(L)
     \/ L.op = "insert" /\ InsertOK(L)

LocalOK == \A t \in Threads : loc[t] = Idle \/ loc[t].pc = "done" \/ CallOK(loc[t])

(* A call is one of those still to be made; one thread loads the tree.     *)
Loader == CHOOSE u \in Threads : TRUE
Due(t) == IF load = <<>> THEN todo[t] # <<>> ELSE t = Loader

QueueOK ==
  /\ DOMAIN loc = Threads
  /\ load \in Seq(AllKeys)
  /\ todo \in [Threads -> Seq([op : {"lookup", "insert"}, key : AllKeys])]
  /\ \A t \in Threads : loc[t] # Idle => Due(t)

TInv == MemOK /\ HashesAgree /\ LocalOK /\ QueueOK

LEMMA Gone ==
  ASSUME NEW t \in Threads, DOMAIN loc = Threads, DOMAIN loc[t] = Fields,
         NEW changes, DOMAIN changes \subseteq Fields, Go(t, changes)
  PROVE  /\ DOMAIN loc' = Threads /\ \A u \in Threads : u # t => loc'[u] = loc[u]
         /\ DOMAIN loc'[t] = Fields
         /\ \A f \in Fields : loc'[t][f] = IF f \in DOMAIN changes THEN changes[f] ELSE loc[t][f]
  BY DEF Go, Merge

(* What a thread knows stays true while others extend and change memory.   *)
LEMMA Known ==
  ASSUME MemOK, Grows, \A s \in Slots' : mem'[s].word \in Nat
  PROVE  /\ \A s, v : Versioned(s, v) => Versioned(s, v)'
         /\ \A c, s, v : s \in Slots /\ v <= Word(s) /\ v \in Nat /\ Fetched(c, s, v) => Fetched(c, s, v)'
         /\ \A c, s, b : s \in Slots /\ Under(c, s, b) => Under(c, s, b)'
<1>1. \A s \in Slots : /\ s \in Slots' /\ Word(s) \in Nat /\ Word(s)' \in Nat /\ Word(s)' >= Word(s)
                       /\ mem'[s].hash = mem[s].hash /\ mem'[s].id = mem[s].id
  BY DEF MemOK, Grows, Lasting, Word
<1>2. \A s, v : Versioned(s, v) => Versioned(s, v)'
  BY <1>1 DEF Versioned
<1>3. ASSUME NEW c, NEW s \in Slots, NEW v \in Nat, v <= Word(s), Fetched(c, s, v)
      PROVE  Fetched(c, s, v)'
  <2>1. c \in Slots' \cup {Nil, Garbage}
    BY <1>1, <1>3 DEF Fetched
  <2>2. c = Garbage => Word(s)' # v
    BY <1>1, <1>3 DEF Fetched
  <2> QED
    BY <2>1, <2>2 DEF Fetched
<1>4. \A c, s, b : s \in Slots /\ Under(c, s, b) => Under(c, s, b)'
  BY <1>1 DEF Under, IdHash
<1> QED
  BY <1>2, <1>3, <1>4
LEMMA CallLasts ==
  ASSUME MemOK, Grows, \A s \in Slots' : mem'[s].word \in Nat, NEW L, CallOK(L)
  PROVE  CallOK(L)'
<1>1. Slots \subseteq Slots'
  BY DEF Grows
<1>2. /\ \A s, v : Versioned(s, v) => Versioned(s, v)'
      /\ \A c, s, v : Versioned(s, v) /\ Fetched(c, s, v) => Fetched(c, s, v)'
      /\ \A c, s, v, b : Versioned(s, v) /\ Under(c, s, b) => Under(c, s, b)'
  BY Known DEF Versioned
<1>3. \A s, v : Versioned(s, v) => s \in Slots /\ s \in Slots'
  BY <1>1 DEF Versioned
<1>4. ASSUME LookupOK(L) PROVE LookupOK(L)'
  BY <1>1, <1>2, <1>4 DEF LookupOK, Looking
<1>5. ASSUME Arriving(L) PROVE Arriving(L)'
  BY <1>1, <1>2, <1>5 DEF Arriving
<1>6. ASSUME Arrived(L), Reading(L), Building(L) PROVE Arrived(L)' /\ Reading(L)' /\ Building(L)'
  <2>1. Arrived(L)'
    BY <1>2, <1>6 DEF Arrived, Here
  <2>2. Versioned(L.node, L.v) /\ L.node \in Slots
    BY <1>3, <1>6 DEF Arrived, Here
  <2>3. Reading(L)'
    <3>1. Under(L.next, L.node, L.byte) => Under(L.next, L.node, L.byte)'
      BY <1>2, <2>2
    <3>2. Versioned(L.cursor, L.lv) => Versioned(L.cursor, L.lv)'
      BY <1>2
    <3>3. L.pc = "anyCheck" => Fetched(L.any, L.cursor, L.lv)'
      BY <1>2, <1>6 DEF Reading
    <3>4. L.pc = "childCheck" => /\ Fetched(L.next, L.node, L.v)'
                                 /\ L.next \in Slots' => Under(L.next, L.node, L.byte)'
      <4>1. Fetched(L.next, L.node, L.v) /\ L.next \in Slots' => L.next \in Slots
        BY DEF Fetched, Slots, Nil, Garbage
      <4> QED
        BY <1>2, <1>6, <2>2, <3>1, <4>1 DEF Reading
    <3> QED
      BY <1>1, <1>6, <3>1, <3>2, <3>3, <3>4 DEF Reading
  <2>4. L.pc \in {"growLink", "splitLink"} => Versioned(L.parent, L.pv)
    BY <1>6 DEF Arrived, Here, Replacing, Growing, Splitting
  <2>5. mem'[L.node].kind = mem[L.node].kind
    BY <2>2 DEF Grows, Lasting
  <2>6. Building(L)'
    BY <1>2, <1>6, <2>2, <2>4, <2>5 DEF Building
  <2> QED
    BY <2>1, <2>3, <2>6
<1>7. ASSUME InsertOK(L) PROVE InsertOK(L)'
  BY <1>1, <1>5, <1>6, <1>7 DEF InsertOK
<1> QED
  BY <1>4, <1>7 DEF CallOK
-----------------------------------------------------------------------------
(* What each kind of write does to memory as a whole.                      *)
Sound == MemOK /\ HashesAgree

LEMMA Kept ==
  ASSUME Sound, UNCHANGED <<mem, retired>>
  PROVE  Sound' /\ Grows
<1>1. Sound'
  BY DEF Sound, MemOK, HashesAgree, Slots, Bytes, IdHash
<1>2. Grows
  BY DEF Sound, MemOK, Grows, Lasting, Slots
<1> QED
  BY <1>1, <1>2

LEMMA WordSound ==
  ASSUME Sound, NEW s \in Slots, NEW n \in Nat, AddToWord(s, n), UNCHANGED retired
  PROVE  Sound' /\ Grows
<1>1. /\ IsSeq(mem') /\ Len(mem') = Len(mem) /\ Slots' = Slots
      /\ \A x \in Slots : x # s => mem'[x] = mem[x]
      /\ DOMAIN mem'[s] = NodeFields
      /\ mem'[s].word = mem[s].word + n /\ mem'[s].child = mem[s].child
      /\ Lasting(s)
  BY WordAdded DEF Sound, Slots
<1>2. \A x \in Slots : /\ Lasting(x) /\ mem'[x].child = mem[x].child
                       /\ DOMAIN mem'[x] = NodeFields /\ mem'[x].word \in Nat
  BY <1>1, SMTT(30) DEF Sound, MemOK, Lasting
<1>3. Grows
  BY <1>1, <1>2 DEF Grows
<1>4. MemOK'
  BY <1>1, <1>2 DEF Sound, MemOK, Lasting
<1>5. HashesAgree'
  <2>1. ASSUME NEW x \in Slots, NEW y \in DOMAIN mem'[x].child, mem'[x].child[y] # Nil
        PROVE  mem'[mem'[x].child[y]].hash = <<mem'[x].id, y>>
    <3>1. /\ y \in DOMAIN mem[x].child /\ mem[x].child[y] \in Slots
          /\ mem'[x].child[y] = mem[x].child[y]
      BY <1>2, <2>1 DEF Sound, MemOK
    <3>2. mem[mem[x].child[y]].hash = <<mem[x].id, y>>
      BY <2>1, <3>1 DEF Sound, HashesAgree, Bytes, IdHash
    <3> QED
      BY <1>2, <3>1, <3>2 DEF Lasting
  <2>2. \A x \in Slots : \A r \in retired'[x] : r.hash = mem'[x].hash
    BY <1>2 DEF Sound, HashesAgree, Lasting
  <2> QED
    BY <1>1, <2>1, <2>2 DEF HashesAgree, Bytes, IdHash
<1> QED
  BY <1>3, <1>4, <1>5 DEF Sound

LEMMA ChangeSound ==
  ASSUME Sound, NEW s \in Slots, NEW b, NEW c, Under(c, s, b), change(s, b, c), UNCHANGED retired
  PROVE  Sound' /\ Grows
<1>1. /\ IsSeq(mem') /\ Len(mem') = Len(mem) /\ Slots' = Slots
      /\ \A x \in Slots : x # s => mem'[x] = mem[x]
      /\ DOMAIN mem'[s] = NodeFields
      /\ mem'[s].word = mem[s].word
      /\ DOMAIN mem'[s].child = DOMAIN mem[s].child \cup {b}
      /\ mem'[s].child[b] = c
      /\ \A x \in DOMAIN mem[s].child : x # b => mem'[s].child[x] = mem[s].child[x]
      /\ Lasting(s)
  BY ChildChanged DEF Sound, Slots
<1>2. \A x \in Slots : Lasting(x) /\ DOMAIN mem'[x] = NodeFields /\ mem'[x].word \in Nat
  BY <1>1 DEF Sound, MemOK, Lasting
<1>3. Grows
  BY <1>1, <1>2 DEF Grows
<1>4. c \in Slots /\ mem[c].hash = <<mem[s].id, b>>
  BY DEF Under, IdHash
<1>5. MemOK'
  <2>1. \A x \in Slots : \A y \in DOMAIN mem'[x].child : mem'[x].child[y] \in Slots \cup {Nil}
    BY <1>1, <1>4 DEF Sound, MemOK
  <2> QED
    BY <1>1, <1>2, <2>1 DEF Sound, MemOK, Lasting
<1>6. HashesAgree'
  <2>1. ASSUME NEW x \in Slots, NEW y \in DOMAIN mem'[x].child, mem'[x].child[y] # Nil
        PROVE  mem'[mem'[x].child[y]].hash = <<mem'[x].id, y>>
    <3>1. mem'[x].child[y] \in Slots
      BY <1>1, <1>4, <2>1 DEF Sound, MemOK
    <3>2. mem[mem'[x].child[y]].hash = <<mem[x].id, y>>
      <4>1. CASE x = s /\ y = b
        BY <1>1, <1>4, <4>1
      <4>2. CASE ~(x = s /\ y = b)
        <5>1. y \in DOMAIN mem[x].child /\ mem'[x].child[y] = mem[x].child[y]
          BY <1>1, <2>1, <4>2
        <5> QED
          BY <2>1, <5>1 DEF Sound, HashesAgree, Bytes, IdHash
      <4> QED
        BY <4>1, <4>2
    <3> QED
      BY <1>2, <3>1, <3>2 DEF Lasting
  <2>2. \A x \in Slots : \A r \in retired'[x] : r.hash = mem'[x].hash
    BY <1>2 DEF Sound, HashesAgree, Lasting
  <2> QED
    BY <1>1, <2>1, <2>2 DEF HashesAgree, Bytes, IdHash
<1> QED
  BY <1>3, <1>5, <1>6 DEF Sound

LEMMA MarkSound ==
  ASSUME Sound, NEW t, NEW s \in Slots, NEW owner, NEW byte, Under(s, owner, byte),
         Mark(t, s, owner, byte), UNCHANGED mem
  PROVE  Sound' /\ Grows
<1>1. /\ IsSeq(retired) /\ Len(retired) = Len(mem) /\ DOMAIN retired = Slots /\ s \in 1..Len(retired)
  BY Sequence DEF Sound, MemOK, Slots
<1> DEFINE e == retired[s] \cup {[by |-> t, hash |-> IdHash(owner, byte), waiting |-> loc[t].claim]}
<1>2. retired' = [retired EXCEPT ![s] = e]
  BY DEF Mark
<1>3. \A r \in e : r \in retired[s] \/ r.hash = mem[s].hash
  BY DEF Under
<1> HIDE DEF e
<1>4. /\ IsSeq(retired') /\ Len(retired') = Len(mem) /\ retired'[s] = e
      /\ \A x \in Slots : x # s => retired'[x] = retired[x]
  BY <1>1, <1>2, Replaced DEF Slots
<1>5. MemOK'
  BY <1>4 DEF Sound, MemOK, Slots
<1>6. HashesAgree'
  BY <1>3, <1>4 DEF Sound, HashesAgree, Bytes, IdHash, Slots
<1>7. Grows
  BY DEF Sound, MemOK, Grows, Lasting, Slots
<1> QED
  BY <1>5, <1>6, <1>7 DEF Sound
(* A new node, whose children are in memory or new themselves.             *)
Hangs(n, b, new) ==
  \/ n.child[b] = Nil
  \/ n.child[b] \in Slots /\ mem[n.child[b]].hash = <<n.id, b>>
  \/ \E j \in 1..Len(new) : n.child[b] = Len(mem) + j /\ new[j].hash = <<n.id, b>>

NewNodeOK(n, new) ==
  /\ DOMAIN n = NodeFields /\ n.kind \in 0..TopKind /\ n.word \in Nat
  /\ \A b \in DOMAIN n.child : Hangs(n, b, new)

NewOK(new) == IsSeq(new) /\ \A i \in 1..Len(new) : NewNodeOK(new[i], new)

LEMMA UnlinkedNode ==
  ASSUME NEW n, DOMAIN n = NodeFields
  PROVE  /\ DOMAIN Unlinked(n) = NodeFields /\ Unlinked(n).kind = n.kind
         /\ Unlinked(n).word = n.word /\ Unlinked(n).id = n.id
         /\ \A b \in DOMAIN Unlinked(n).child :
               /\ b \in DOMAIN n.child /\ Unlinked(n).child[b] = n.child[b]
               /\ n.child[b] \in Slots
  BY DEF Unlinked, NodeFields

LEMMA AllocateSound ==
  ASSUME Sound, NEW t, NEW new, NewOK(new), NEW changes, Allocate(t, new, changes)
  PROVE  /\ Sound' /\ Grows
         /\ \/ /\ Go(t, changes) /\ Slots' = 1..Len(mem) + Len(new)
               /\ \A i \in 1..Len(new) : mem'[Len(mem) + i] = new[i]
            \/ Return(t, "refused")
<1>1. /\ Len(mem) \in Nat /\ IsSeq(new) /\ Len(new) \in Nat /\ DOMAIN new = 1..Len(new)
      /\ Len(mem') \in Nat
  BY Sequence, Allocated DEF Sound, MemOK, NewOK
<1>2. /\ IsSeq(mem') /\ IsSeq(retired') /\ Len(retired') = Len(mem')
      /\ \A s \in Slots : mem'[s] = mem[s] /\ retired'[s] = retired[s]
      /\ \A s \in Slots' \ Slots : retired'[s] = {}
  BY Allocated DEF Sound, NewOK
<1>3. \/ /\ Len(mem') = Len(mem) + Len(new) /\ Go(t, changes)
         /\ \A i \in 1..Len(new) : mem'[Len(mem) + i] = new[i]
      \/ \E k \in 0..Len(new) - 1 :
            /\ Len(mem') = Len(mem) + k /\ Return(t, "refused")
            /\ \A i \in 1..k : mem'[Len(mem) + i] = Unlinked(new[i])
  BY Allocated DEF Sound, NewOK
<1>4. Slots \subseteq Slots'
  BY <1>1, <1>3 DEF Slots
<1>5. Grows
  BY <1>2, <1>4 DEF Grows, Lasting, Sound, MemOK
<1>6. ASSUME NEW s \in Slots' \ Slots
      PROVE  /\ DOMAIN mem'[s] = NodeFields /\ mem'[s].kind \in 0..TopKind /\ mem'[s].word \in Nat
             /\ \A b \in DOMAIN mem'[s].child :
                   \/ mem'[s].child[b] = Nil
                   \/ /\ mem'[s].child[b] \in Slots'
                      /\ mem'[mem'[s].child[b]].hash = <<mem'[s].id, b>>
  <2> DEFINE i == s - Len(mem)
  <2>1. s \in 1..Len(mem') /\ s \notin 1..Len(mem)
    BY <1>6 DEF Slots
  <2>2. CASE /\ Len(mem') = Len(mem) + Len(new)
             /\ \A j \in 1..Len(new) : mem'[Len(mem) + j] = new[j]
    <3>1. i \in 1..Len(new) /\ Len(mem) + i = s
      BY <1>1, <2>1, <2>2
    <3>2. mem'[s] = new[i]
      BY <2>2, <3>1
    <3>3. /\ DOMAIN new[i] = NodeFields /\ new[i].kind \in 0..TopKind /\ new[i].word \in Nat
      BY <3>1 DEF NewOK, NewNodeOK, Hangs
    <3>4. ASSUME NEW b \in DOMAIN new[i].child, new[i].child[b] # Nil
          PROVE  new[i].child[b] \in Slots' /\ mem'[new[i].child[b]].hash = <<new[i].id, b>>
      <4>1. CASE new[i].child[b] \in Slots /\ mem[new[i].child[b]].hash = <<new[i].id, b>>
        BY <1>2, <1>4, <4>1
      <4>2. ASSUME NEW j \in 1..Len(new), new[i].child[b] = Len(mem) + j,
                   new[j].hash = <<new[i].id, b>>
            PROVE  new[i].child[b] \in Slots' /\ mem'[new[i].child[b]].hash = <<new[i].id, b>>
        <5>1. Len(mem) + j \in 1..Len(mem')
          BY <1>1, <2>2
        <5> QED
          BY <2>2, <4>2, <5>1 DEF Slots
      <4> QED
        BY <3>1, <3>4, <4>1, <4>2 DEF NewOK, NewNodeOK, Hangs
    <3> QED
      BY <3>2, <3>3, <3>4
  <2>3. ASSUME NEW k \in 0..Len(new) - 1, Len(mem') = Len(mem) + k,
               \A j \in 1..k : mem'[Len(mem) + j] = Unlinked(new[j])
        PROVE  /\ DOMAIN mem'[s] = NodeFields /\ mem'[s].kind \in 0..TopKind /\ mem'[s].word \in Nat
               /\ \A b \in DOMAIN mem'[s].child :
                     \/ mem'[s].child[b] = Nil
                     \/ /\ mem'[s].child[b] \in Slots'
                        /\ mem'[mem'[s].child[b]].hash = <<mem'[s].id, b>>
    <3>1. i \in 1..k /\ i \in 1..Len(new) /\ Len(mem) + i = s
      BY <1>1, <2>1, <2>3
    <3> DEFINE n == new[i]
    <3>2. mem'[s] = Unlinked(n)
      BY <2>3, <3>1
    <3>3. DOMAIN n = NodeFields /\ n.kind \in 0..TopKind /\ n.word \in Nat
      BY <3>1 DEF NewOK, NewNodeOK, Hangs
    <3>4. \A b \in DOMAIN n.child : n.child[b] \in Slots => mem[n.child[b]].hash = <<n.id, b>>
      <4>1. \A b \in DOMAIN n.child :
              \/ n.child[b] = Nil
              \/ n.child[b] \in Slots /\ mem[n.child[b]].hash = <<n.id, b>>
              \/ \E j \in 1..Len(new) : n.child[b] = Len(mem) + j /\ new[j].hash = <<n.id, b>>
        BY <3>1 DEF NewOK, NewNodeOK, Hangs
      <4>2. Nil \notin Slots /\ \A j \in 1..Len(new) : Len(mem) + j \notin Slots
        BY <1>1 DEF Slots, Nil
      <4> QED
        BY <4>1, <4>2
    <3> HIDE DEF n
    <3>5. /\ DOMAIN mem'[s] = NodeFields /\ mem'[s].kind = n.kind
          /\ mem'[s].word = n.word /\ mem'[s].id = n.id
          /\ \A b \in DOMAIN mem'[s].child :
                /\ b \in DOMAIN n.child /\ mem'[s].child[b] = n.child[b]
                /\ n.child[b] \in Slots
      BY <3>2, <3>3, UnlinkedNode
    <3> QED
      BY <1>2, <1>4, <3>3, <3>4, <3>5
  <2> QED
    BY <1>3, <2>2, <2>3
<1>7. MemOK'
  <2>1. \A s \in Slots : \A b \in DOMAIN mem'[s].child : mem'[s].child[b] \in Slots' \cup {Nil}
    BY <1>2, <1>4 DEF Sound, MemOK
  <2>2. \A s \in Slots' :
           /\ DOMAIN mem'[s] = NodeFields
           /\ mem'[s].kind \in 0..TopKind /\ mem'[s].word \in Nat
           /\ \A b \in DOMAIN mem'[s].child : mem'[s].child[b] \in Slots' \cup {Nil}
    BY <1>2, <1>6, <2>1 DEF Sound, MemOK
  <2> QED
    BY <1>2, <1>4, <2>2 DEF Sound, MemOK
<1>8. HashesAgree'
  <2>1. ASSUME NEW s \in Slots, NEW b \in DOMAIN mem'[s].child, mem'[s].child[b] # Nil
        PROVE  mem'[mem'[s].child[b]].hash = <<mem'[s].id, b>>
    <3>1. mem'[s] = mem[s] /\ mem[s].child[b] \in Slots
      BY <1>2, <2>1 DEF Sound, MemOK
    <3>2. mem[mem[s].child[b]].hash = <<mem[s].id, b>>
      BY <2>1, <3>1 DEF Sound, HashesAgree, Bytes, IdHash
    <3> QED
      BY <1>2, <3>1, <3>2
  <2>2. \A s \in Slots : \A r \in retired'[s] : r.hash = mem'[s].hash
    BY <1>2 DEF Sound, HashesAgree
  <2>3. \A s \in Slots' \ Slots : \A r \in retired'[s] : r.hash = mem'[s].hash
    BY <1>2
  <2>4. \A s \in Slots' : \A b \in DOMAIN mem'[s].child :
           mem'[s].child[b] # Nil => mem'[mem'[s].child[b]].hash = <<mem'[s].id, b>>
    BY <1>6, <2>1
  <2> QED
    BY <2>2, <2>3, <2>4 DEF HashesAgree, Bytes, IdHash
<1> QED
  BY <1>1, <1>3, <1>5, <1>7, <1>8 DEF Sound, Slots
-----------------------------------------------------------------------------
(* A step of thread t: what the other threads know stays true.             *)
LEMMA OthersKnow ==
  ASSUME TInv, Sound', Grows, NEW t \in Threads, DOMAIN loc' = Threads,
         \A u \in Threads : u # t => loc'[u] = loc[u],
         \A M : M = loc'[t] => M = Idle \/ M.pc = "done" \/ CallOK(M)'
  PROVE  LocalOK'
<1>1. MemOK /\ \A s \in Slots' : mem'[s].word \in Nat
  BY DEF TInv, Sound, MemOK
<1>2. ASSUME NEW u \in Threads PROVE (loc[u] = Idle \/ loc[u].pc = "done" \/ CallOK(loc[u]))'
  <2> SUFFICES ASSUME NEW M, M = loc'[u] PROVE M = Idle \/ M.pc = "done" \/ CallOK(M)'
    BY DEF Idle
  <2>1. CASE u = t
    BY <2>1
  <2>2. CASE u # t
    <3>1. M = loc[u]
      BY <2>2
    <3>2. M = Idle \/ M.pc = "done" \/ CallOK(M)
      BY <3>1 DEF TInv, LocalOK
    <3> QED
      BY <1>1, <3>2, CallLasts
  <2> QED
    BY <2>1, <2>2
<1> QED
  BY <1>2 DEF LocalOK

LEMMA OthersKeep ==
  ASSUME TInv, Sound', Grows, NEW t \in Threads, DOMAIN loc' = Threads,
         \A u \in Threads : u # t => loc'[u] = loc[u],
         \A M : M = loc'[t] => M = Idle \/ M.pc = "done" \/ CallOK(M)',
         loc[t] # Idle, UNCHANGED <<todo, load>>
  PROVE  TInv'
<1>1. LocalOK'
  BY OthersKnow
<1>2. QueueOK'
  BY DEF TInv, QueueOK, Due
<1> QED
  BY <1>1, <1>2 DEF TInv, Sound

(* M are the local variables L, with the changes of a step.                *)
Changed(M, L, changes) ==
  /\ DOMAIN M = Fields
  /\ \A f \in Fields : M[f] = IF f \in DOMAIN changes THEN changes[f] ELSE L[f]

LEMMA Goes ==
  ASSUME TInv, Sound', Grows, UNCHANGED <<todo, load>>,
         NEW t \in Threads, DOMAIN loc[t] = Fields,
         NEW changes, DOMAIN changes \subseteq Fields, Go(t, changes),
         \A M : Changed(M, loc[t], changes) => CallOK(M)'
  PROVE  TInv'
<1>1. /\ DOMAIN loc' = Threads /\ \A u \in Threads : u # t => loc'[u] = loc[u]
      /\ Changed(loc'[t], loc[t], changes)
  BY Gone DEF TInv, QueueOK, Changed
<1>2. ASSUME NEW M, M = loc'[t] PROVE CallOK(M)'
  BY <1>1, <1>2
<1>3. loc[t] # Idle
  BY DEF Idle, Fields
<1> QED
  BY <1>1, <1>2, <1>3, OthersKeep

LEMMA Restarts ==
  ASSUME TInv, Sound', Grows, UNCHANGED <<todo, load>>,
         NEW t \in Threads, CallOK(loc[t]), Restart(t)
  PROVE  TInv'
<1>1. /\ DOMAIN loc' = Threads /\ \A u \in Threads : u # t => loc'[u] = loc[u]
      /\ loc'[t] = Start(loc[t])
  BY DEF TInv, QueueOK, Restart
<1>2. Root \in Slots'
  BY DEF Sound, MemOK
<1>3. loc[t].key \in Seq(AllBytes) /\ loc[t].op \in {"lookup", "insert"}
  BY DEF CallOK
<1>4. ASSUME NEW M, M = Start(loc[t]) PROVE CallOK(M)'
  <2>1. /\ DOMAIN M = Fields /\ M.key \in Seq(AllBytes) /\ M.pc = M.op /\ M.op = loc[t].op
        /\ M.node = Nil /\ M.next = Root /\ M.parent = Nil /\ M.cursor = Nil /\ M.any = Nil
        /\ M.level = 0
    BY <1>3, <1>4 DEF Start, Fields
  <2>2. CASE M.op = "lookup"
    BY <1>2, <2>1, <2>2 DEF CallOK, LookupOK, Looking
  <2>3. CASE M.op = "insert"
    BY <1>2, <2>1, <2>3 DEF CallOK, InsertOK, Arriving
  <2> QED
    BY <1>3, <2>1, <2>2, <2>3
<1>5. loc[t] # Idle
  BY DEF CallOK, Idle, Fields
<1> QED
  BY <1>1, <1>4, <1>5, OthersKeep

LEMMA Returns ==
  ASSUME TInv, Sound', Grows, UNCHANGED <<todo, load>>,
         NEW t \in Threads, CallOK(loc[t]), NEW result, Return(t, result)
  PROVE  TInv'
<1>1. /\ DOMAIN loc' = Threads /\ \A u \in Threads : u # t => loc'[u] = loc[u]
      /\ loc'[t].pc = "done"
  BY DEF TInv, QueueOK, Return
<1>2. loc[t] # Idle
  BY DEF CallOK, Idle, Fields
<1> QED
  BY <1>1, <1>2, OthersKeep
-----------------------------------------------------------------------------
(* The steps of Tree::lookup.                                              *)
LEMMA LookupNow ==
  ASSUME TInv, NEW t \in Threads, loc[t].pc \in Looking
  PROVE  /\ CallOK(loc[t]) /\ DOMAIN loc[t] = Fields /\ loc[t].key \in Seq(AllBytes)
         /\ loc[t].op = "lookup" /\ LookupOK(loc[t]) /\ Sound
<1>1. loc[t] # Idle /\ loc[t].pc # "done"
  BY DEF Looking, Idle
<1>2. CallOK(loc[t])
  BY <1>1 DEF TInv, LocalOK
<1>3. ~InsertOK(loc[t])
  BY DEF InsertOK, Looking, Descending, Putting, Replacing, Growing, Splitting, LeafSplitting
<1> QED
  BY <1>2, <1>3 DEF CallOK, TInv, Sound

LEMMA LookupGoes ==
  ASSUME TInv, Sound', Grows, UNCHANGED <<todo, load>>,
         NEW t \in Threads, loc[t].pc \in Looking,
         NEW changes, DOMAIN changes \subseteq Fields \ {"op", "key"}, Go(t, changes),
         \A M : Changed(M, loc[t], changes) => LookupOK(M)'
  PROVE  TInv'
<1>1. /\ DOMAIN loc[t] = Fields /\ loc[t].key \in Seq(AllBytes) /\ loc[t].op = "lookup"
  BY LookupNow
<1>2. ASSUME NEW M, Changed(M, loc[t], changes) PROVE CallOK(M)'
  <2>1. M.op = "lookup" /\ M.key = loc[t].key /\ DOMAIN M = Fields
    BY <1>1, <1>2 DEF Changed, Fields
  <2> QED
    BY <1>1, <1>2, <2>1 DEF CallOK
<1> QED
  BY <1>1, <1>2, Goes

(* A child read without a lock is one of the node, unless a version shows. *)
LEMMA Peeked ==
  ASSUME Sound, NEW s, NEW v, Versioned(s, v), NEW b
  PROVE  /\ Fetched(Peek(s, b), s, v)
         /\ Peek(s, b) \in Slots => Under(Peek(s, b), s, b)
<1>1. CASE IsLocked(Word(s))
  BY <1>1 DEF Peek, Versioned, Readable, Fetched, Slots, Garbage
<1>2. CASE ~IsLocked(Word(s))
  <2>1. CASE b \in DOMAIN mem[s].child
    <3>1. Peek(s, b) = mem[s].child[b]
      BY <1>2, <2>1 DEF Peek, ChildOf
    <3>2. mem[s].child[b] \in Slots \cup {Nil} /\ Garbage \notin Slots \cup {Nil}
      BY <2>1 DEF Sound, MemOK, Versioned, Slots, Nil, Garbage
    <3>3. mem[s].child[b] \in Slots => Under(mem[s].child[b], s, b)
      BY <2>1 DEF Sound, HashesAgree, Bytes, Versioned, Under, Slots, Nil
    <3> QED
      BY <3>1, <3>2, <3>3 DEF Fetched
  <2>2. CASE b \notin DOMAIN mem[s].child
    BY <1>2, <2>2 DEF Peek, ChildOf, Fetched, Slots, Nil, Garbage
  <2> QED
    BY <2>1, <2>2
<1> QED
  BY <1>1, <1>2

LEMMA LookupSteps ==
  ASSUME TInv, NEW t \in Threads, lookup(t), UNCHANGED <<todo, load>>
  PROVE  TInv'
<1> DEFINE L == loc[t]
<1>1. L.pc \in Looking /\ UNCHANGED <<mem, retired>>
  BY DEF lookup, Looking, LookupRoot, Search, LookupMiss, LookupHit, LookupLeaf, LeafReadLock,
         LeafRead, Descend, Couple
<1>2. /\ DOMAIN L = Fields /\ LookupOK(L) /\ Sound /\ CallOK(L)
  BY <1>1, LookupNow
<1>3. Sound' /\ Grows /\ Slots' = Slots
  BY <1>1, <1>2, Kept DEF Slots
<1>4. ASSUME NEW result, Return(t, result) PROVE TInv'
  BY <1>2, <1>3, <1>4, Returns
<1>5. ASSUME Restart(t) PROVE TInv'
  BY <1>2, <1>3, <1>5, Restarts
<1>6. ASSUME NEW s \in Slots, Readable(Word(s)) PROVE Versioned(s, Word(s))
  BY <1>2, <1>6 DEF Versioned, Word, Sound, MemOK
<1>7. \A s, v : Versioned(s, v) => Versioned(s, v)'
  BY <1>1 DEF Versioned, Word, Slots
<1>8. CASE LookupRoot(t)
  <2> DEFINE changes == [pc |-> "search", node |-> Root, v |-> Word(Root), optimistic |-> FALSE]
  <2>1. L.pc = "lookup" /\ Readable(Word(Root)) /\ Go(t, changes)
    BY <1>8 DEF LookupRoot
  <2>2. Versioned(Root, Word(Root))
    BY <1>2, <1>6, <2>1 DEF Sound, MemOK
  <2>3. ASSUME NEW M, Changed(M, L, changes) PROVE LookupOK(M)'
    BY <1>2, <1>3, <1>7, <2>1, <2>2, <2>3 DEF Changed, Fields, LookupOK, Looking
  <2>4. DOMAIN changes \subseteq Fields \ {"op", "key"}
    BY DEF Fields
  <2> QED
    BY <1>1, <1>3, <2>1, <2>3, <2>4, LookupGoes
<1>9. CASE Search(t)
  <2> DEFINE level == L.level + mem[L.node].plen
             hit == [pc |-> "hit", level |-> level,
                     optimistic |-> L.optimistic
                                    \/ checkPrefix(mem[L.node], L.key, L.level).optimistic,
                     next |-> Peek(L.node, L.key[level + 1])]
  <2>1. /\ L.pc = "search"
        /\ Go(t, [pc |-> "miss"]) \/ Return(t, NoTid) \/ Go(t, hit)
    BY <1>9 DEF Search
  <2>2. Versioned(L.node, L.v) /\ L.next \in Slots
    BY <1>2, <2>1 DEF LookupOK
  <2>3. CASE Go(t, [pc |-> "miss"])
    <3>1. ASSUME NEW M, Changed(M, L, [pc |-> "miss"]) PROVE LookupOK(M)'
      BY <1>2, <1>3, <1>7, <2>1, <2>2, <3>1 DEF Changed, Fields, LookupOK, Looking
    <3> QED
      BY <1>1, <1>3, <2>3, <3>1, LookupGoes DEF Fields
  <2>4. CASE Go(t, hit)
    <3>1. Fetched(hit.next, L.node, L.v)
      BY <1>2, <2>2, Peeked
    <3>2. DOMAIN hit \subseteq Fields \ {"op", "key"} /\ hit.pc = "hit"
          /\ DOMAIN hit = {"pc", "level", "optimistic", "next"}
      BY DEF Fields
    <3> HIDE DEF hit
    <3>3. ASSUME NEW M, Changed(M, L, hit) PROVE LookupOK(M)'
      <4>1. /\ M.pc = "hit" /\ M.next = hit.next /\ M.node = L.node /\ M.v = L.v
            /\ M.parent = L.parent /\ M.cursor = L.cursor /\ M.any = L.any
        BY <3>2, <3>3 DEF Changed, Fields
      <4>2. Fetched(M.next, M.node, M.v)'
        BY <1>1, <1>3, <3>1, <4>1 DEF Fetched, Word
      <4> QED
        BY <1>2, <1>7, <2>2, <4>1, <4>2 DEF LookupOK, Looking
    <3> QED
      BY <1>1, <1>3, <2>4, <3>2, <3>3, LookupGoes
  <2> QED
    BY <1>4, <2>1, <2>3, <2>4
<1>10. CASE LookupMiss(t)
  BY <1>4, <1>5, <1>10 DEF LookupMiss
<1>11. CASE LookupHit(t)
  <2>1. L.pc = "hit" /\ Versioned(L.node, L.v) /\ Fetched(L.next, L.node, L.v)
    BY <1>2, <1>11 DEF LookupHit, LookupOK
  <2>2. CASE Word(L.node) # L.v \/ L.next = Nil
    BY <1>4, <1>5, <1>11, <2>2 DEF LookupHit
  <2>3. CASE Word(L.node) = L.v /\ L.next # Nil
    <3>1. L.next \in Slots
      BY <2>1, <2>3 DEF Fetched
    <3>2. Go(t, [pc |-> "leaf"]) \/ Go(t, [pc |-> "descend", level |-> L.level + 1])
      BY <1>11, <2>3 DEF LookupHit
    <3>3. ASSUME NEW M, Changed(M, L, [pc |-> "leaf"]) PROVE LookupOK(M)'
      BY <1>2, <1>3, <1>7, <2>1, <3>1, <3>3 DEF Changed, Fields, LookupOK, Looking
    <3>4. ASSUME NEW M, Changed(M, L, [pc |-> "descend", level |-> L.level + 1])
          PROVE  LookupOK(M)'
      BY <1>2, <1>3, <1>7, <2>1, <3>1, <3>4 DEF Changed, Fields, LookupOK, Looking
    <3>5. CASE Go(t, [pc |-> "leaf"])
      BY <1>1, <1>3, <3>3, <3>5, LookupGoes DEF Fields
    <3>6. CASE Go(t, [pc |-> "descend", level |-> L.level + 1])
      BY <1>1, <1>3, <3>4, <3>6, LookupGoes DEF Fields
    <3> QED
      BY <3>2, <3>5, <3>6
  <2> QED
    BY <2>2, <2>3
<1>12. CASE LookupLeaf(t)
  <2>1. L.pc = "leaf" /\ (Restart(t) \/ Go(t, [pc |-> "leafLock"]))
    BY <1>12 DEF LookupLeaf, Check
  <2>2. ASSUME NEW M, Changed(M, L, [pc |-> "leafLock"]) PROVE LookupOK(M)'
    BY <1>2, <1>3, <1>7, <2>1, <2>2 DEF Changed, Fields, LookupOK, Looking
  <2>3. CASE Go(t, [pc |-> "leafLock"])
    BY <1>1, <1>3, <2>2, <2>3, LookupGoes DEF Fields
  <2> QED
    BY <1>5, <2>1, <2>3
<1>13. CASE LeafReadLock(t) \/ Descend(t)
  <2> DEFINE w == Word(L.next)
             changes(pc) == [pc |-> pc, lv |-> w]
  <2>1. /\ L.pc \in {"leafLock", "descend"}
        /\ \/ Restart(t)
           \/ Readable(w) /\ \E pc \in {"leafRead", "couple"} : Go(t, changes(pc))
    BY <1>13 DEF LeafReadLock, Descend
  <2>3. ASSUME Readable(w), NEW pc \in {"leafRead", "couple"}, Go(t, changes(pc)) PROVE TInv'
    <3>1. Versioned(L.next, w)
      BY <1>2, <1>6, <2>1, <2>3 DEF LookupOK
    <3>2. ASSUME NEW M, Changed(M, L, changes(pc)) PROVE LookupOK(M)'
      BY <1>2, <1>3, <1>7, <2>1, <3>1, <3>2 DEF Changed, Fields, LookupOK, Looking
    <3>3. DOMAIN changes(pc) \subseteq Fields \ {"op", "key"}
      BY DEF Fields
    <3> QED
      BY <1>1, <1>3, <2>3, <3>2, <3>3, LookupGoes
  <2> QED
    BY <1>5, <2>1, <2>3
<1>14. CASE LeafRead(t)
  BY <1>4, <1>5, <1>14 DEF LeafRead
<1>15. CASE Couple(t)
  <2> DEFINE changes == [pc |-> "search", node |-> L.next, v |-> L.lv]
  <2>1. L.pc = "couple" /\ (Restart(t) \/ Go(t, changes))
    BY <1>15 DEF Couple, Check
  <2>2. ASSUME NEW M, Changed(M, L, changes) PROVE LookupOK(M)'
    BY <1>2, <1>3, <1>7, <2>1, <2>2 DEF Changed, Fields, LookupOK, Looking
  <2>3. CASE Go(t, changes)
    BY <1>1, <1>3, <2>2, <2>3, LookupGoes DEF Fields
  <2> QED
    BY <1>5, <2>1, <2>3
<1> QED
  BY <1>8, <1>9, <1>10, <1>11, <1>12, <1>13, <1>14, <1>15 DEF lookup
-----------------------------------------------------------------------------
(* The steps of Tree::insert on the way down.                              *)
Inserting == {"insert"} \cup Descending \cup Putting \cup Replacing \cup LeafSplitting

LEMMA InsertNow ==
  ASSUME TInv, NEW t \in Threads, loc[t].pc \in Inserting
  PROVE  /\ CallOK(loc[t]) /\ DOMAIN loc[t] = Fields /\ loc[t].key \in Seq(AllBytes)
         /\ loc[t].op = "insert" /\ InsertOK(loc[t]) /\ Sound
         /\ loc[t].pc # "insert" =>
               /\ Arrived(loc[t]) /\ Here(loc[t]) /\ Reading(loc[t]) /\ Building(loc[t])
               /\ loc[t].node \in Slots
               /\ loc[t].parent = Nil \/ loc[t].parent \in Slots
<1>1. loc[t] # Idle /\ loc[t].pc # "done" /\ loc[t].pc \notin Looking
  BY DEF Inserting, Looking, Idle, Descending, Putting, Replacing, Growing, Splitting, LeafSplitting
<1>2. CallOK(loc[t])
  BY <1>1 DEF TInv, LocalOK
<1>3. ~LookupOK(loc[t])
  BY <1>1 DEF LookupOK
<1> QED
  BY <1>2, <1>3 DEF CallOK, TInv, Sound, InsertOK, Arrived, Here, Versioned

LEMMA InsertGoes ==
  ASSUME TInv, Sound', Grows, UNCHANGED <<todo, load>>,
         NEW t \in Threads, loc[t].pc \in Inserting,
         NEW changes, DOMAIN changes \subseteq Fields \ {"op", "key"}, Go(t, changes),
         \A M : Changed(M, loc[t], changes) => InsertOK(M)'
  PROVE  TInv'
<1>1. /\ DOMAIN loc[t] = Fields /\ loc[t].key \in Seq(AllBytes) /\ loc[t].op = "insert"
  BY InsertNow
<1>2. ASSUME NEW M, Changed(M, loc[t], changes) PROVE CallOK(M)'
  <2>1. M.op = "insert" /\ M.key = loc[t].key /\ DOMAIN M = Fields
    BY <1>1, <1>2 DEF Changed, Fields
  <2> QED
    BY <1>1, <1>2, <2>1 DEF CallOK
<1> QED
  BY <1>1, <1>2, Goes

(* What a call knows of the path to its node lasts.                        *)
LEMMA StillHere ==
  ASSUME Sound, Sound', Grows, NEW L, Here(L)
  PROVE  /\ Here(L)'
         /\ \A c, b : Under(c, L.node, b) => Under(c, L.node, b)'
         /\ \A c, b : L.parent # Nil /\ Under(c, L.parent, b) => Under(c, L.parent, b)'
         /\ mem'[L.node].kind = mem[L.node].kind
         /\ Slots \subseteq Slots'
<1>1. MemOK /\ \A s \in Slots' : mem'[s].word \in Nat
  BY DEF Sound, MemOK
<1>2. /\ \A s, v : Versioned(s, v) => Versioned(s, v)'
      /\ \A c, s, b : s \in Slots /\ Under(c, s, b) => Under(c, s, b)'
  BY <1>1, Known
<1>3. L.node \in Slots /\ (L.parent # Nil => L.parent \in Slots)
  BY DEF Here, Versioned
<1>4. Here(L)'
  <2>1. Versioned(L.node, L.v)'
    BY <1>2 DEF Here
  <2>2. CASE L.parent = Nil /\ L.node = Root
    BY <2>1, <2>2 DEF Here
  <2>3. CASE Versioned(L.parent, L.pv) /\ Under(L.node, L.parent, L.pbyte)
    <3>1. L.parent \in Slots /\ Versioned(L.parent, L.pv)'
      BY <1>2, <2>3 DEF Versioned
    <3>2. Under(L.node, L.parent, L.pbyte)'
      BY <1>2, <2>3, <3>1
    <3> QED
      BY <2>1, <3>1, <3>2 DEF Here
  <2> QED
    BY <2>2, <2>3 DEF Here
<1>5. mem'[L.node].kind = mem[L.node].kind /\ Slots \subseteq Slots'
  BY <1>3 DEF Grows, Lasting
<1> QED
  BY <1>2, <1>3, <1>4, <1>5

LEMMA RootMatches ==
  ASSUME NEW k \in Seq(AllBytes)
  PROVE  Agreement(<<>>, Drop(k, 0)) = 0
<1> DEFINE q == Drop(k, 0)
<1>1. q \in Seq(AllBytes)
  BY SubSeqProperties DEF Drop
<1> HIDE DEF q
<1>2. Prefix(q, 0) = <<>> /\ Prefix(<<>>, 0) = <<>> /\ Len(<<>>) = 0
  <2>1. Len(q) \in Nat /\ (IF 0 < Len(q) THEN 0 ELSE Len(q)) = 0
    BY <1>1, LenProperties
  <2>2. Len(<<>>) = 0
    OBVIOUS
  <2> QED
    BY <1>1, <2>1, <2>2, SubSeqEmpty DEF Prefix
<1>3. \A i \in 0..0 : /\ Prefix(<<>>, i) = Prefix(q, i)
                      /\ i < 0 => i >= Len(q) \/ <<>>[i + 1] # q[i + 1]
  BY <1>2
<1> QED
  BY <1>2, <1>3 DEF Agreement, q

(* The prefix is compared at the root or below a parent, never elsewhere.  *)
LEMMA PrefixCompared ==
  ASSUME TInv, NEW t \in Threads, loc[t].pc \in {"prefix", "anyCheck"},
         loc[t].any \in Slots \cup {Nil},
         NEW kt, loc[t].pc = "prefix" => kt = <<>>,
         CheckPrefixPessimistic(t, kt), UNCHANGED <<mem, retired, todo, load>>
  PROVE  TInv'
<1> DEFINE L == loc[t]
           n == mem[L.node]
           p == n.prefix \o SubSeq(kt, L.level + Len(n.prefix) + 1, L.level + n.plen)
           m == Agreement(p, Drop(L.key, L.level))
           rest == IF n.plen > MaxStored THEN Drop(kt, L.level + m + 1) ELSE Drop(p, m + 1)
           child == [pc |-> "child", level |-> L.level + m, byte |-> L.key[L.level + m + 1]]
           split == [pc |-> "splitParent", matched |-> m, miss |-> p[m + 1],
                     rest |-> Prefix(rest, n.plen - m - 1)]
<1>1. IF m = n.plen THEN Go(t, child) ELSE Go(t, split)
  BY DEF CheckPrefixPessimistic
<1>2. /\ Sound /\ L.pc \in Inserting /\ Arrived(L) /\ Here(L) /\ Reading(L) /\ InsertOK(L)
      /\ L.key \in Seq(AllBytes)
  BY InsertNow DEF Inserting, Descending
<1>3. Sound' /\ Grows
  BY <1>2, Kept
<1>4. Slots' = Slots /\ \A K : Here(K) => Here(K)'
  BY DEF Here, Versioned, Under, Word, IdHash, Slots
<1>5. L.parent = Nil => m = n.plen
  <2> SUFFICES ASSUME L.parent = Nil PROVE m = n.plen
    OBVIOUS
  <2>1. L.pc = "prefix" /\ L.level = 0 /\ L.node = Root
    BY <1>2 DEF Arrived, Here, Seeking, Versioned, Slots, Nil
  <2>2. n.plen = 0 /\ n.prefix = <<>> /\ kt = <<>>
    BY <1>2, <2>1 DEF Sound, MemOK
  <2>3. p = <<>>
    <3>1. Len(<<>>) = 0 /\ SubSeq(<<>>, 1, 0) = <<>> /\ <<>> \o <<>> = <<>>
      BY SubSeqEmpty
    <3> QED
      BY <2>1, <2>2, <3>1
  <2> QED
    BY <1>2, <2>1, <2>2, <2>3, RootMatches
<1>6. /\ DOMAIN child = {"pc", "level", "byte"} /\ child.pc = "child"
      /\ DOMAIN split = {"pc", "matched", "miss", "rest"} /\ split.pc = "splitParent"
  OBVIOUS
<1> HIDE DEF m, child, split
<1>7. ASSUME NEW M, Changed(M, L, child) PROVE InsertOK(M)'
  <2>1. /\ M.pc = "child" /\ M.node = L.node /\ M.v = L.v /\ M.parent = L.parent
        /\ M.pv = L.pv /\ M.pbyte = L.pbyte /\ M.next = L.next /\ M.any = L.any
        /\ M.cursor = L.cursor
    BY <1>6, <1>7 DEF Changed, Fields
  <2>2. Here(M)'
    <3>1. Here(M)
      BY <1>2, <2>1 DEF Here
    <3> QED
      BY <1>4, <3>1
  <2>3. Arrived(M)'
    BY <2>1, <2>2 DEF Arrived, Replacing, Growing, Splitting, Seeking
  <2>4. Reading(M)'
    BY <1>2, <1>4, <2>1 DEF Reading, LeafSplitting, Seeking
  <2>5. Building(M)'
    BY <2>1 DEF Building
  <2> QED
    BY <1>2, <1>4, <2>1, <2>3, <2>4, <2>5 DEF InsertOK, Descending
<1>8. ASSUME NEW M, L.parent # Nil, Changed(M, L, split) PROVE InsertOK(M)'
  <2>1. /\ M.pc = "splitParent" /\ M.node = L.node /\ M.v = L.v /\ M.parent = L.parent
        /\ M.pv = L.pv /\ M.pbyte = L.pbyte /\ M.next = L.next /\ M.any = L.any
        /\ M.cursor = L.cursor
    BY <1>6, <1>8 DEF Changed, Fields
  <2>2. Here(M)'
    <3>1. Here(M)
      BY <1>2, <2>1 DEF Here
    <3> QED
      BY <1>4, <3>1
  <2>3. Arrived(M)'
    BY <1>8, <2>1, <2>2 DEF Arrived
  <2>4. Reading(M)'
    BY <1>2, <1>4, <2>1 DEF Reading, LeafSplitting, Seeking
  <2>5. Building(M)'
    BY <2>1 DEF Building
  <2> QED
    BY <1>2, <1>4, <2>1, <2>3, <2>4, <2>5 DEF InsertOK, Replacing, Splitting
<1>9. CASE Go(t, child)
  BY <1>2, <1>3, <1>6, <1>7, <1>9, InsertGoes DEF Fields
<1>10. CASE L.parent # Nil /\ Go(t, split)
  BY <1>2, <1>3, <1>6, <1>8, <1>10, InsertGoes DEF Fields
<1> QED
  BY <1>1, <1>5, <1>9, <1>10

(* It is enough to know before the step what the call knows after it.      *)
LEMMA Moves ==
  ASSUME TInv, Sound', Grows, UNCHANGED <<todo, load>>,
         NEW t \in Threads, loc[t].pc \in Inserting,
         NEW changes, DOMAIN changes \subseteq Fields \ {"op", "key"}, Go(t, changes),
         \A M : Changed(M, loc[t], changes) => InsertOK(M)
  PROVE  TInv'
<1>1. /\ DOMAIN loc[t] = Fields /\ loc[t].key \in Seq(AllBytes) /\ loc[t].op = "insert"
  BY InsertNow
<1>2. MemOK /\ \A s \in Slots' : mem'[s].word \in Nat
  BY DEF TInv, Sound, MemOK
<1>3. ASSUME NEW M, Changed(M, loc[t], changes) PROVE CallOK(M)'
  <2>1. M.op = "insert" /\ M.key = loc[t].key /\ DOMAIN M = Fields
    BY <1>1, <1>3 DEF Changed, Fields
  <2>2. CallOK(M)
    BY <1>1, <1>3, <2>1 DEF CallOK
  <2> QED
    BY <1>2, <2>2, CallLasts
<1> QED
  BY <1>1, <1>3, Goes

(* The call stays where it is, and knows what it knew of the path to it.   *)
Staying(M, L) ==
  /\ M.node = L.node /\ M.v = L.v /\ M.parent = L.parent /\ M.pv = L.pv /\ M.pbyte = L.pbyte

LEMMA StaysHere ==
  ASSUME NEW L, NEW M, Staying(M, L), Here(L),
         L.parent = Nil => M.pc \notin Replacing \cup Seeking \cup {"prefix"}
  PROVE  Arrived(M)
<1>1. Here(M)
  BY DEF Here, Staying
<1> QED
  BY <1>1 DEF Arrived, Staying

LEMMA DescendSteps ==
  ASSUME TInv, NEW t \in Threads, descend(t), UNCHANGED <<todo, load>>
  PROVE  TInv'
<1> DEFINE L == loc[t]
<1>1. L.pc \in {"insert", "prefix", "any", "anyChild", "anyCheck", "child", "childCheck", "further"}
      /\ UNCHANGED <<mem, retired>>
  BY DEF descend, Visit, PrefixStep, AnyLock, AnyChild, AnyCheck, ReadChild, ChildCheck, Further
<1>2. /\ DOMAIN L = Fields /\ InsertOK(L) /\ Sound /\ CallOK(L) /\ L.pc \in Inserting
      /\ L.pc # "insert" => Arrived(L) /\ Here(L) /\ Reading(L) /\ Building(L)
  BY <1>1, InsertNow DEF Inserting, Descending
<1>3. Sound' /\ Grows
  BY <1>1, <1>2, Kept
<1>4. ASSUME NEW result, Return(t, result) PROVE TInv'
  BY <1>2, <1>3, <1>4, Returns
<1>5. ASSUME Restart(t) PROVE TInv'
  BY <1>2, <1>3, <1>5, Restarts
<1>6. ASSUME NEW s \in Slots, Readable(Word(s)) PROVE Versioned(s, Word(s))
  BY <1>2, <1>6 DEF Versioned, Word, Sound, MemOK
<1>7. ASSUME NEW changes, Go(t, changes), DOMAIN changes \subseteq Fields \ {"op", "key"},
             \A M : Changed(M, L, changes) => InsertOK(M)
      PROVE  TInv'
  BY <1>2, <1>3, <1>7, Moves
<1>8. CASE Visit(t)
  <2> DEFINE changes == [pc |-> "prefix", parent |-> L.node, pbyte |-> L.byte,
                         node |-> L.next, v |-> Word(L.next)]
  <2>1. L.pc = "insert" /\ (Restart(t) \/ (Readable(Word(L.next)) /\ Go(t, changes)))
    BY <1>8 DEF Visit
  <2>2. Arriving(L) /\ L.cursor \in Slots \cup {Nil}
    BY <1>2, <2>1 DEF InsertOK
  <2>3. ASSUME Readable(Word(L.next)), NEW M, Changed(M, L, changes) PROVE InsertOK(M)
    <3>1. /\ M.pc = "prefix" /\ M.parent = L.node /\ M.pbyte = L.byte /\ M.node = L.next
          /\ M.v = Word(L.next) /\ M.pv = L.pv /\ M.next = L.next /\ M.any = L.any
          /\ M.cursor = L.cursor /\ M.level = L.level
      BY <2>3 DEF Changed, Fields
    <3>2. Versioned(M.node, M.v)
      BY <1>6, <2>2, <2>3, <3>1 DEF Arriving
    <3>3. Here(M) /\ (M.parent = Nil => M.level = 0)
      BY <2>2, <3>1, <3>2 DEF Here, Arriving, Versioned, Slots, Nil
    <3>4. Arrived(M)
      BY <3>1, <3>3 DEF Arrived, Replacing, Growing, Splitting, Seeking
    <3>5. Reading(M) /\ Building(M)
      BY <2>2, <3>1 DEF Reading, Building, Arriving, LeafSplitting, Seeking
    <3> QED
      BY <2>2, <3>1, <3>4, <3>5 DEF InsertOK, Descending
  <2>4. DOMAIN changes \subseteq Fields \ {"op", "key"}
    BY DEF Fields
  <2> HIDE DEF changes
  <2> QED
    BY <1>5, <1>7, <2>1, <2>3, <2>4
<1>9. CASE PrefixStep(t)
  <2>1. L.pc = "prefix" /\ L.any \in Slots \cup {Nil} /\ Arrived(L) /\ L.node \in Slots
    BY <1>2, <1>9 DEF PrefixStep, Reading, Here, Versioned
  <2>2. CASE mem[L.node].plen > MaxStored
    <3> DEFINE changes == [pc |-> "any", cursor |-> L.node]
    <3>1. Go(t, changes)
      BY <1>9, <2>2 DEF PrefixStep
    <3>2. L.parent # Nil
      <4>1. ~(0 > MaxStored)
        BY ArtAssumption
      <4> QED
        BY <1>2, <2>1, <2>2, <4>1 DEF Arrived, Here, Sound, MemOK, Versioned, Slots, Nil
    <3>3. ASSUME NEW M, Changed(M, L, changes) PROVE InsertOK(M)
      <4>1. /\ M.pc = "any" /\ M.cursor = L.node /\ Staying(M, L) /\ M.next = L.next
            /\ M.any = L.any
        BY <3>3 DEF Changed, Fields, Staying
      <4>2. Arrived(M)
        BY <1>2, <2>1, <3>2, <4>1, StaysHere
      <4>3. Reading(M) /\ Building(M)
        BY <1>2, <2>1, <4>1 DEF Reading, Building, LeafSplitting
      <4> QED
        BY <2>1, <4>1, <4>2, <4>3 DEF InsertOK, Descending
    <3> QED
      BY <1>7, <3>1, <3>3 DEF Fields
  <2>3. CASE ~(mem[L.node].plen > MaxStored)
    <3>1. CheckPrefixPessimistic(t, <<>>)
      BY <1>9, <2>3 DEF PrefixStep
    <3> QED
      BY <1>1, <2>1, <3>1, PrefixCompared
  <2> QED
    BY <2>2, <2>3
<1>10. CASE AnyLock(t)
  <2> DEFINE w == Word(L.cursor)
             changes == [pc |-> "anyChild", lv |-> w]
  <2>1. L.pc = "any" /\ (Restart(t) \/ (Readable(w) /\ Go(t, changes)))
    BY <1>10 DEF AnyLock
  <2>2. ASSUME Readable(w), NEW M, Changed(M, L, changes) PROVE InsertOK(M)
    <3>1. /\ M.pc = "anyChild" /\ M.lv = w /\ M.cursor = L.cursor /\ Staying(M, L)
          /\ M.next = L.next /\ M.any = L.any /\ M.byte = L.byte
      BY <2>2 DEF Changed, Fields, Staying
    <3>2. Arrived(M)
      BY <1>2, <2>1, <3>1, StaysHere DEF Arrived, Seeking
    <3>3. L.cursor \in Slots /\ Versioned(L.cursor, w)
      BY <1>2, <1>6, <2>1, <2>2 DEF Reading, Seeking
    <3>4. Reading(M) /\ Building(M)
      BY <1>2, <2>1, <3>1, <3>3 DEF Reading, Building, LeafSplitting, Seeking
    <3> QED
      BY <3>1, <3>2, <3>3, <3>4 DEF InsertOK, Descending
  <2>3. DOMAIN changes \subseteq Fields \ {"op", "key"}
    BY DEF Fields
  <2> HIDE DEF changes
  <2> QED
    BY <1>5, <1>7, <2>1, <2>2, <2>3
<1>11. CASE AnyChild(t)
  <2> DEFINE changes(b) == [pc |-> "anyCheck", any |-> Peek(L.cursor, b)]
  <2>1. PICK b \in AnyChildren(mem[L.cursor]) : L.pc = "anyChild" /\ Go(t, changes(b))
    BY <1>11 DEF AnyChild
  <2>2. L.cursor \in Slots /\ Versioned(L.cursor, L.lv)
    BY <1>2, <2>1 DEF Reading, Seeking
  <2>3. Fetched(Peek(L.cursor, b), L.cursor, L.lv) /\ Peek(L.cursor, b) # Nil
    <3>1. b \in Bytes(mem[L.cursor])
      BY <2>1 DEF AnyChildren
    <3>2. Peek(L.cursor, b) # Nil
      BY <3>1 DEF Peek, ChildOf, Bytes, Garbage, Nil
    <3> QED
      BY <1>2, <2>2, <3>2, Peeked
  <2>4. ASSUME NEW M, Changed(M, L, changes(b)) PROVE InsertOK(M)
    <3>1. /\ M.pc = "anyCheck" /\ M.lv = L.lv /\ M.cursor = L.cursor /\ Staying(M, L)
          /\ M.next = L.next /\ M.any = Peek(L.cursor, b) /\ M.byte = L.byte
      BY <2>4 DEF Changed, Fields, Staying
    <3>2. Arrived(M)
      BY <1>2, <2>1, <3>1, StaysHere DEF Arrived, Seeking
    <3>3. Reading(M) /\ Building(M)
      BY <1>2, <2>1, <2>2, <2>3, <3>1 DEF Reading, Building, LeafSplitting, Seeking
    <3> QED
      BY <2>2, <3>1, <3>2, <3>3 DEF InsertOK, Descending
  <2>5. DOMAIN changes(b) \subseteq Fields \ {"op", "key"}
    BY DEF Fields
  <2> HIDE DEF changes
  <2> QED
    BY <1>7, <2>1, <2>4, <2>5
<1>12. CASE AnyCheck(t)
  <2> DEFINE changes == [pc |-> "any", cursor |-> L.any]
  <2>1. L.pc = "anyCheck" /\ Fetched(L.any, L.cursor, L.lv) /\ L.any # Nil
    BY <1>2, <1>12 DEF AnyCheck, Reading, Seeking
  <2>2. CASE Word(L.cursor) # L.lv
    BY <1>5, <1>12, <2>2 DEF AnyCheck
  <2>3. CASE Word(L.cursor) = L.lv
    <3>1. L.any \in Slots
      BY <2>1, <2>3 DEF Fetched
    <3>2. CheckPrefixPessimistic(t, mem[L.any].value) \/ Go(t, changes)
      BY <1>12, <2>3 DEF AnyCheck
    <3>3. ASSUME NEW M, Changed(M, L, changes) PROVE InsertOK(M)
      <4>1. /\ M.pc = "any" /\ M.cursor = L.any /\ Staying(M, L)
            /\ M.next = L.next /\ M.any = L.any
        BY <3>3 DEF Changed, Fields, Staying
      <4>2. Arrived(M)
        BY <1>2, <2>1, <4>1, StaysHere DEF Arrived, Seeking
      <4>3. Reading(M) /\ Building(M)
        BY <1>2, <2>1, <3>1, <4>1 DEF Reading, Building, LeafSplitting, Seeking
      <4> QED
        BY <3>1, <4>1, <4>2, <4>3 DEF InsertOK, Descending
    <3>4. CASE CheckPrefixPessimistic(t, mem[L.any].value)
      BY <1>1, <2>1, <3>1, <3>4, PrefixCompared
    <3>5. CASE Go(t, changes)
      BY <1>7, <3>3, <3>5 DEF Fields
    <3> QED
      BY <3>2, <3>4, <3>5
  <2> QED
    BY <2>2, <2>3
<1>13. CASE ReadChild(t)
  <2> DEFINE changes == [pc |-> "childCheck", next |-> Peek(L.node, L.byte)]
  <2>1. L.pc = "child" /\ Go(t, changes)
    BY <1>13 DEF ReadChild
  <2>2. ASSUME NEW M, Changed(M, L, changes) PROVE InsertOK(M)
    <3>1. /\ M.pc = "childCheck" /\ M.next = Peek(L.node, L.byte) /\ Staying(M, L)
          /\ M.cursor = L.cursor /\ M.any = L.any /\ M.byte = L.byte
      BY <2>2 DEF Changed, Fields, Staying
    <3>2. Arrived(M)
      BY <1>2, <2>1, <3>1, StaysHere DEF Replacing, Growing, Splitting, Seeking
    <3>3. Fetched(M.next, M.node, M.v) /\ (M.next \in Slots => Under(M.next, M.node, M.byte))
      BY <1>2, <2>1, <3>1, Peeked DEF Staying, Here
    <3>4. Reading(M) /\ Building(M)
      BY <1>2, <2>1, <3>1, <3>3 DEF Reading, Building, LeafSplitting, Seeking
    <3> QED
      BY <1>2, <2>1, <3>1, <3>2, <3>4 DEF InsertOK, Descending
  <2> QED
    BY <1>7, <2>1, <2>2 DEF Fields
<1>14. CASE ChildCheck(t)
  <2> DEFINE changes(pc) == [pc |-> pc]
  <2>1. /\ L.pc = "childCheck" /\ Fetched(L.next, L.node, L.v)
        /\ L.next \in Slots => Under(L.next, L.node, L.byte)
    BY <1>2, <1>14 DEF ChildCheck, Reading
  <2>2. CASE Restart(t)
    BY <1>5, <2>2
  <2>3. ASSUME ~Restart(t) PROVE TInv'
    <3> DEFINE pc == IF L.next = Nil THEN "room" ELSE "further"
    <3>1. Word(L.node) = L.v /\ Go(t, changes(pc))
      BY <1>14, <2>3 DEF ChildCheck, Check
    <3>2. L.next \in Slots \cup {Nil}
      BY <2>1, <3>1 DEF Fetched
    <3>3. ASSUME NEW M, Changed(M, L, changes(pc)) PROVE InsertOK(M)
      <4>1. /\ M.pc = pc /\ M.next = L.next /\ Staying(M, L)
            /\ M.cursor = L.cursor /\ M.any = L.any /\ M.byte = L.byte
        BY <3>3 DEF Changed, Fields, Staying
      <4>2. Arrived(M)
        BY <1>2, <2>1, <4>1, StaysHere DEF Replacing, Growing, Splitting, Seeking
      <4>3. Reading(M) /\ Building(M)
        BY <1>2, <2>1, <3>2, <4>1 DEF Reading, Building, LeafSplitting, Seeking, Staying
      <4> QED
        BY <1>2, <2>1, <4>1, <4>2, <4>3 DEF InsertOK, Descending, Putting
    <3>4. DOMAIN changes(pc) \subseteq Fields \ {"op", "key"}
      BY DEF Fields
    <3> HIDE DEF changes, pc
    <3> QED
      BY <1>7, <3>1, <3>3, <3>4
  <2> QED
    BY <2>2, <2>3
<1>15. CASE Further(t)
  <2> DEFINE down == [pc |-> "insert", level |-> L.level + 1, pv |-> L.v]
  <2>1. /\ L.pc = "further" /\ L.next \in Slots /\ Under(L.next, L.node, L.byte)
    BY <1>2, <1>15 DEF Further, Reading, Under
  <2>2. Restart(t) \/ Go(t, [pc |-> "leafLockNode"]) \/ Go(t, down)
    BY <1>15 DEF Further
  <2>3. ASSUME NEW M, Changed(M, L, [pc |-> "leafLockNode"]) PROVE InsertOK(M)
    <3>1. /\ M.pc = "leafLockNode" /\ M.next = L.next /\ Staying(M, L)
          /\ M.cursor = L.cursor /\ M.any = L.any /\ M.byte = L.byte
      BY <2>3 DEF Changed, Fields, Staying
    <3>2. Arrived(M)
      BY <1>2, <2>1, <3>1, StaysHere DEF Replacing, Growing, Splitting, Seeking
    <3>3. Reading(M) /\ Building(M)
      BY <1>2, <2>1, <3>1 DEF Reading, Building, LeafSplitting, Seeking, Staying
    <3> QED
      BY <1>2, <2>1, <3>1, <3>2, <3>3 DEF InsertOK, LeafSplitting
  <2>4. ASSUME NEW M, Changed(M, L, down) PROVE InsertOK(M)
    <3>1. /\ M.pc = "insert" /\ M.next = L.next /\ M.node = L.node /\ M.pv = L.v
          /\ M.cursor = L.cursor /\ M.any = L.any /\ M.byte = L.byte /\ M.parent = L.parent
      BY <2>4 DEF Changed, Fields
    <3>2. Arriving(M)
      BY <1>2, <2>1, <3>1 DEF Arriving, Here, Reading, Seeking, Versioned
    <3> QED
      BY <1>2, <2>1, <3>1, <3>2 DEF InsertOK
  <2>5. CASE Go(t, [pc |-> "leafLockNode"])
    BY <1>7, <2>3, <2>5 DEF Fields
  <2>6. CASE Go(t, down)
    BY <1>7, <2>4, <2>6 DEF Fields
  <2> QED
    BY <1>5, <2>2, <2>5, <2>6
<1> QED
  BY <1>8, <1>9, <1>10, <1>11, <1>12, <1>13, <1>14, <1>15 DEF descend
-----------------------------------------------------------------------------
(* The steps of Tree::insert that change the tree.                         *)
Changing == Putting \cup Replacing \cup LeafSplitting

(* A step that changes only the location, and the claim it takes.          *)
LEMMA Advances ==
  ASSUME TInv, Sound', Grows, UNCHANGED <<todo, load>>,
         NEW t \in Threads, NEW from, NEW to, loc[t].pc = from, from \in Changing, to \in Changing,
         NEW changes, DOMAIN changes \subseteq {"pc", "claim"}, "pc" \in DOMAIN changes,
         changes.pc = to, Go(t, changes),
         to \in Replacing => loc[t].parent # Nil,
         to \in LeafSplitting => from \in LeafSplitting,
         to \in {"growParent", "growNode", "growBuild"} => mem[loc[t].node].kind < TopKind,
         to \notin {"growLink", "splitLink", "putInsert", "leafObsolete"},
         to \in {"leafMark", "leafLink"} => from \in {"leafObsolete", "leafMark"}
  PROVE  TInv'
<1> DEFINE L == loc[t]
<1>1. /\ InsertOK(L) /\ L.pc \in Inserting /\ L.pc # "insert"
      /\ Arrived(L) /\ Here(L) /\ Reading(L) /\ Building(L)
  <2>1. L.pc \in Inserting /\ L.pc # "insert"
    BY DEF Changing, Inserting, Putting, Replacing, Growing, Splitting, LeafSplitting
  <2> QED
    BY <2>1, InsertNow
<1>2. /\ L.pc \notin {"insert", "childCheck", "anyCheck"}
      /\ to \notin {"insert", "childCheck", "anyCheck", "anyChild", "any", "prefix", "further"}
  BY DEF Changing, Putting, Replacing, Growing, Splitting, LeafSplitting
<1>3. ASSUME NEW M, Changed(M, L, changes) PROVE InsertOK(M)
  <2>1. /\ M.pc = to /\ M.next = L.next /\ Staying(M, L) /\ M.cursor = L.cursor
        /\ M.any = L.any /\ M.byte = L.byte /\ M.fresh = L.fresh
    BY <1>3 DEF Changed, Fields, Staying
  <2>2. Arrived(M)
    BY <1>1, <1>2, <2>1, StaysHere DEF Seeking
  <2>3. Reading(M)
    BY <1>1, <1>2, <2>1 DEF Reading, Seeking, Staying
  <2>4. Building(M)
    BY <1>1, <2>1 DEF Building, Staying
  <2> QED
    BY <1>1, <1>2, <2>1, <2>2, <2>3, <2>4 DEF InsertOK, Changing
<1>4. DOMAIN changes \subseteq Fields \ {"op", "key"}
  BY DEF Fields
<1> QED
  BY <1>1, <1>3, <1>4, Moves

LEMMA ChangingNow ==
  ASSUME TInv, NEW t \in Threads, loc[t].pc \in Changing
  PROVE  /\ loc[t].pc \in Inserting /\ loc[t].pc # "insert"
         /\ CallOK(loc[t]) /\ InsertOK(loc[t]) /\ Sound
         /\ Arrived(loc[t]) /\ Here(loc[t]) /\ Reading(loc[t]) /\ Building(loc[t])
         /\ loc[t].node \in Slots /\ (loc[t].parent # Nil => loc[t].parent \in Slots)
         /\ (loc[t].pc \in Replacing =>
               /\ loc[t].parent # Nil /\ loc[t].parent \in Slots
               /\ Under(loc[t].node, loc[t].parent, loc[t].pbyte))
         /\ (loc[t].pc \in LeafSplitting =>
               loc[t].next \in Slots /\ Under(loc[t].next, loc[t].node, loc[t].byte))
<1>1. loc[t].pc \in Inserting /\ loc[t].pc # "insert"
  BY DEF Changing, Inserting, Putting, Replacing, Growing, Splitting, LeafSplitting
<1>2. /\ CallOK(loc[t]) /\ InsertOK(loc[t]) /\ Sound
      /\ Arrived(loc[t]) /\ Here(loc[t]) /\ Reading(loc[t]) /\ Building(loc[t])
      /\ loc[t].node \in Slots /\ (loc[t].parent # Nil => loc[t].parent \in Slots)
  BY <1>1, InsertNow
<1>3. loc[t].pc \in Replacing =>
        /\ loc[t].parent # Nil /\ loc[t].parent \in Slots
        /\ Under(loc[t].node, loc[t].parent, loc[t].pbyte)
  BY <1>2 DEF Arrived, Here
<1>4. loc[t].pc \in LeafSplitting =>
        loc[t].next \in Slots /\ Under(loc[t].next, loc[t].node, loc[t].byte)
  BY <1>2 DEF Reading, Under
<1> QED
  BY <1>1, <1>2, <1>3, <1>4

(* The leaf that a call allocates.                                         *)
LEMMA LeafMade ==
  ASSUME NEW key, NEW hash, NEW n, n = NewLeaf(key, hash)
  PROVE  /\ DOMAIN n = NodeFields /\ n.kind = 0 /\ n.word = 4 /\ n.hash = hash /\ n.value = key
         /\ n.child = NoChildren /\ DOMAIN n.child = {} /\ n.id = 0
  BY DEF NewLeaf, NewNode, SetPrefix, NodeFields, NoChildren

LEMMA Kinds == TopKind \in Nat \ {0} /\ 0 \in 0..TopKind /\ InitialNode \in 0..TopKind
<1>1. Len(Ladder) \in Nat
  BY ArtAssumption, LenProperties
<1> QED
  BY <1>1 DEF TopKind, InitialNode

(* A call allocates the node that is to hang where its node does, or below *)
(* it; with room for only some of its slots, it returns.                   *)
LEMMA Builds ==
  ASSUME TInv, UNCHANGED <<todo, load>>, NEW t \in Threads,
         NEW to, loc[t].pc \in Changing,
         NEW new, NewOK(new), Len(new) >= 1,
         Allocate(t, new, [pc |-> to, fresh |-> Len(mem) + 1]),
         \/ /\ to \in {"growLink", "splitLink"} /\ loc[t].pc \in Replacing
            /\ new[1].hash = IdHash(loc[t].parent, loc[t].pbyte)
         \/ /\ to \in {"putInsert", "leafObsolete"} 
            /\ to = "leafObsolete" => loc[t].pc \in LeafSplitting
            /\ new[1].hash = IdHash(loc[t].node, loc[t].byte)
  PROVE  TInv'
<1> DEFINE L == loc[t]
           changes == [pc |-> to, fresh |-> Len(mem) + 1]
<1>1. /\ L.pc \in Inserting /\ L.pc # "insert"
      /\ CallOK(L) /\ InsertOK(L) /\ Sound
      /\ Arrived(L) /\ Here(L) /\ Reading(L) /\ L.node \in Slots
      /\ loc[t].pc \in Replacing => L.parent # Nil /\ L.parent \in Slots
      /\ loc[t].pc \in LeafSplitting => L.next \in Slots /\ Under(L.next, L.node, L.byte)
  BY ChangingNow
<1>2. /\ Sound' /\ Grows
      /\ \/ /\ Go(t, changes) /\ Slots' = 1..Len(mem) + Len(new)
            /\ \A i \in 1..Len(new) : mem'[Len(mem) + i] = new[i]
         \/ Return(t, "refused")
  BY <1>1, AllocateSound
<1>3. CASE /\ Go(t, changes) /\ Slots' = 1..Len(mem) + Len(new)
           /\ \A i \in 1..Len(new) : mem'[Len(mem) + i] = new[i]
  <2>1. mem'[Len(mem) + 1] = new[1] /\ Len(mem) + 1 \in Slots'
    BY <1>1, <1>3, Sequence DEF Sound, MemOK, NewOK
  <2>2. ASSUME NEW M, Changed(M, L, changes) PROVE InsertOK(M)'
    <3>1. /\ M.pc = to /\ M.next = L.next /\ Staying(M, L) /\ M.cursor = L.cursor
          /\ M.any = L.any /\ M.byte = L.byte /\ M.fresh = Len(mem) + 1
      BY <2>2 DEF Changed, Fields, Staying
    <3>2. Here(M) /\ L.next \in Slots \cup {Nil} /\ L.any \in Slots \cup {Nil}
          /\ L.cursor \in Slots \cup {Nil}
      BY <1>1, <3>1 DEF Here, Staying, Reading, InsertOK, Changing, Putting, Replacing, Growing,
                        Splitting, LeafSplitting
    <3>3. /\ Here(M)' /\ Slots \subseteq Slots' /\ mem'[M.node].id = mem[M.node].id
          /\ M.parent \in Slots => mem'[M.parent].id = mem[M.parent].id
          /\ Under(M.next, M.node, M.byte) => Under(M.next, M.node, M.byte)'
      BY <1>1, <1>2, <3>1, <3>2, StillHere DEF Grows, Lasting, Staying
    <3>4. Arrived(M)'
      BY <1>1, <3>1, <3>3 DEF Arrived, Replacing, Growing, Splitting, Seeking, Staying
    <3>5. Reading(M)'
      BY <1>1, <3>1, <3>2, <3>3 DEF Reading, LeafSplitting, Seeking, Staying
    <3>6. CASE /\ to \in {"growLink", "splitLink"} /\ loc[t].pc \in Replacing
               /\ new[1].hash = IdHash(L.parent, L.pbyte)
      <4>1. Under(M.fresh, M.parent, M.pbyte)'
        BY <1>1, <2>1, <3>1, <3>3, <3>6 DEF Under, IdHash, Staying
      <4> QED
        BY <3>1, <3>2, <3>3, <3>4, <3>5, <3>6, <4>1
           DEF Building, InsertOK, Replacing, Growing, Splitting
    <3>7. CASE /\ to \in {"putInsert", "leafObsolete"}
               /\ new[1].hash = IdHash(L.node, L.byte)
      <4>1. Under(M.fresh, M.node, M.byte)'
        BY <1>1, <2>1, <3>1, <3>3, <3>7 DEF Under, IdHash, Staying
      <4> QED
        BY <3>1, <3>2, <3>3, <3>4, <3>5, <3>7, <4>1 DEF Building, InsertOK, Putting, LeafSplitting
    <3> QED
      BY <3>6, <3>7
  <2> QED
    BY <1>1, <1>2, <1>3, <2>2, InsertGoes DEF Fields
<1> QED
  BY <1>1, <1>2, <1>3, Returns

LEMMA PutSteps ==
  ASSUME TInv, NEW t \in Threads, UNCHANGED <<todo, load>>,
         Room(t) \/ PutParent(t) \/ PutLock(t) \/ PutLeaf(t) \/ PutInsert(t) \/ Unlock(t)
  PROVE  TInv'
<1> DEFINE L == loc[t]
<1>1. L.pc \in Putting
  BY DEF Room, PutParent, PutLock, PutLeaf, PutInsert, Unlock, Putting
<1>2. L.pc \in Changing
  BY <1>1 DEF Changing
<1>3. /\ Sound /\ CallOK(L) /\ Here(L) /\ Arrived(L) /\ Reading(L) /\ Building(L)
      /\ L.node \in Slots /\ L.pc \in Inserting
  BY <1>2, ChangingNow
<1>4. ASSUME Restart(t), UNCHANGED <<mem, retired>> PROVE TInv'
  <2>1. Sound' /\ Grows
    BY <1>3, <1>4, Kept
  <2> QED
    BY <1>3, <1>4, <2>1, Restarts
<1>5. CASE Room(t)
  <2>1. /\ L.pc = "room" /\ UNCHANGED <<mem, retired>>
        /\ \/ Go(t, [pc |-> "parent"])
           \/ /\ Go(t, [pc |-> "growParent"])
              /\ mem[L.node].kind < TopKind
    <3>1. PICK full \in IF IsLocked(mem[L.node].word) /\ mem[L.node].kind < TopKind
                        THEN BOOLEAN ELSE {IsFull(mem[L.node])} :
             Go(t, [pc |-> IF full THEN "growParent" ELSE "parent"])
      BY <1>5 DEF Room
    <3>2. full => mem[L.node].kind < TopKind
      BY <3>1 DEF IsFull
    <3> QED
      BY <1>5, <3>1, <3>2 DEF Room
  <2>2. Sound' /\ Grows
    BY <1>3, <2>1, Kept
  <2>3. CASE Go(t, [pc |-> "parent"])
    BY <1>2, <2>1, <2>2, <2>3, Advances
       DEF Changing, Putting, Replacing, Growing, Splitting, LeafSplitting
  <2>4. CASE Go(t, [pc |-> "growParent"]) /\ mem[L.node].kind < TopKind
    <3>1. L.parent # Nil
      <4>1. mem[Root].kind = TopKind
        BY <1>3 DEF Sound, MemOK
      <4> QED
        BY <1>3, <2>4, <4>1, Kinds DEF Here, Versioned, Slots, Nil
    <3> QED
      BY <1>2, <2>1, <2>2, <2>4, <3>1, Advances
         DEF Changing, Putting, Replacing, Growing, Splitting, LeafSplitting
  <2> QED
    BY <2>1, <2>3, <2>4
<1>6. CASE PutParent(t)
  <2>1. /\ L.pc = "parent" /\ UNCHANGED <<mem, retired>>
        /\ Restart(t) \/ Go(t, [pc |-> "lockNode"])
    BY <1>6 DEF PutParent
  <2>2. Sound' /\ Grows
    BY <1>3, <2>1, Kept
  <2>3. CASE Go(t, [pc |-> "lockNode"])
    BY <1>2, <2>1, <2>2, <2>3, Advances
       DEF Changing, Putting, Replacing, Growing, Splitting, LeafSplitting
  <2> QED
    BY <1>4, <2>1, <2>3
<1>7. CASE PutLock(t)
  <2>1. /\ L.pc = "lockNode" /\ UNCHANGED retired
        /\ \/ AddToWord(L.node, 2) /\ Go(t, [pc |-> "put"])
           \/ Restart(t) /\ UNCHANGED mem
    BY <1>7 DEF PutLock, Upgrade
  <2>2. CASE AddToWord(L.node, 2) /\ Go(t, [pc |-> "put"])
    <3>1. Sound' /\ Grows
      BY <1>3, <2>1, <2>2, WordSound
    <3> QED
      BY <1>2, <2>1, <2>2, <3>1, Advances
         DEF Changing, Putting, Replacing, Growing, Splitting, LeafSplitting
  <2> QED
    BY <1>4, <2>1, <2>2
<1>8. CASE PutLeaf(t)
  <2> DEFINE leaf == LeafUnder(t, mem[L.node].id, L.byte)
             new == <<leaf>>
             changes == [pc |-> "putInsert", fresh |-> Len(mem) + 1]
  <2>1. L.pc = "put" /\ Allocate(t, new, changes)
    BY <1>8 DEF PutLeaf
  <2>2. /\ DOMAIN leaf = NodeFields /\ leaf.kind = 0 /\ leaf.word = 4
        /\ leaf.hash = IdHash(L.node, L.byte) /\ DOMAIN leaf.child = {}
    BY LeafMade DEF LeafUnder, IdHash
  <2> HIDE DEF leaf
  <2>3. IsSeq(new) /\ Len(new) = 1 /\ new[1] = leaf
    BY Tuples
  <2> HIDE DEF new
  <2>4. NewOK(new)
    <3>1. \A i \in 1..Len(new) : i = 1
      BY <2>3
    <3> QED
      BY <2>2, <2>3, <3>1, Kinds DEF NewOK, NewNodeOK, Hangs
  <2>5. Len(new) >= 1 /\ new[1].hash = IdHash(L.node, L.byte)
    BY <2>2, <2>3
  <2> QED
    BY <1>2, <2>1, <2>4, <2>5, Builds
<1>9. CASE PutInsert(t)
  <2>1. /\ L.pc = "putInsert" /\ UNCHANGED retired
        /\ change(L.node, L.byte, L.fresh) /\ Go(t, [pc |-> "unlock"])
    BY <1>9 DEF PutInsert
  <2>2. Under(L.fresh, L.node, L.byte)
    BY <1>3, <2>1 DEF Building
  <2>3. Sound' /\ Grows
    BY <1>3, <2>1, <2>2, ChangeSound
  <2> QED
    BY <1>2, <2>1, <2>3, Advances
       DEF Changing, Putting, Replacing, Growing, Splitting, LeafSplitting
<1>10. CASE Unlock(t)
  <2>1. UNCHANGED retired /\ AddToWord(L.node, 2) /\ Return(t, "inserted")
    BY <1>10 DEF Unlock, writeUnlock
  <2>2. Sound' /\ Grows
    BY <1>3, <2>1, WordSound
  <2> QED
    BY <1>3, <2>1, <2>2, Returns
<1> QED
  BY <1>5, <1>6, <1>7, <1>8, <1>9, <1>10

LEMMA NodeMade ==
  ASSUME NEW kind, NEW id, NEW bytes, NEW length, NEW hash, NEW n,
         n = NewNode(kind, id, bytes, length, hash)
  PROVE  /\ DOMAIN n = NodeFields /\ n.kind = kind /\ n.word = 4 /\ n.id = id /\ n.hash = hash
         /\ n.child = NoChildren /\ DOMAIN n.child = {}
  BY DEF NewNode, SetPrefix, NodeFields, NoChildren

LEMMA ChildSet ==
  ASSUME NEW n, DOMAIN n = NodeFields, NEW b, NEW c, NEW m, m = SetChild(n, b, c)
  PROVE  /\ DOMAIN m = NodeFields /\ m.kind = n.kind /\ m.word = n.word /\ m.id = n.id
         /\ m.hash = n.hash /\ DOMAIN m.child = DOMAIN n.child \cup {b} /\ m.child[b] = c
         /\ \A x \in DOMAIN n.child : x # b => m.child[x] = n.child[x]
<1> DEFINE g == Merge(n.child, [x \in {b} |-> c])
<1>1. m = [n EXCEPT !.child = g]
  BY DEF SetChild
<1>2. /\ DOMAIN g = DOMAIN n.child \cup {b} /\ g[b] = c
      /\ \A x \in DOMAIN n.child : x # b => g[x] = n.child[x]
  BY DEF Merge
<1> HIDE DEF g
<1> QED
  BY <1>1, <1>2 DEF NodeFields

(* The children of a node, for a node that is to have them as well.        *)
LEMMA ChildrenOf ==
  ASSUME Sound, NEW s \in Slots, NEW b \in DOMAIN mem[s].child
  PROVE  \/ mem[s].child[b] = Nil
         \/ mem[s].child[b] \in Slots /\ mem[mem[s].child[b]].hash = <<mem[s].id, b>>
  BY DEF Sound, MemOK, HashesAgree, Bytes, IdHash

LEMMA GrowNode ==
  ASSUME TInv, NEW t \in Threads, UNCHANGED <<todo, load>>, GrowBuild(t)
  PROVE  TInv'
<1> DEFINE L == loc[t]
           n == mem[L.node]
           big == Len(mem) + 1
           made == NewNode(n.kind + 1, n.id, n.prefix, n.plen, IdHash(L.parent, L.pbyte))
           copy == [made EXCEPT !.child = n.child]
           node == SetChild(copy, L.byte, big + 1)
           leaf == LeafUnder(t, n.id, L.byte)
           new == <<node, leaf>>
<1>1. L.pc = "growBuild" /\ Allocate(t, new, [pc |-> "growLink", fresh |-> Len(mem) + 1])
  BY DEF GrowBuild
<1>2. L.pc \in Changing /\ L.pc \in Replacing
  BY <1>1 DEF Changing, Replacing, Growing
<1>3. /\ Sound /\ L.node \in Slots /\ n.kind \in 0..TopKind /\ n.kind < TopKind
      /\ Len(mem) \in Nat
  BY <1>1, <1>2, ChangingNow, Sequence DEF Building, Sound, MemOK
<1>4. /\ DOMAIN made = NodeFields /\ made.kind = n.kind + 1 /\ made.word = 4 /\ made.id = n.id
      /\ made.hash = IdHash(L.parent, L.pbyte)
  BY NodeMade
<1> HIDE DEF made
<1>5. /\ DOMAIN copy = NodeFields /\ copy.kind = n.kind + 1 /\ copy.word = 4 /\ copy.id = n.id
      /\ copy.hash = IdHash(L.parent, L.pbyte) /\ copy.child = n.child
  BY <1>4 DEF NodeFields
<1> HIDE DEF copy
<1>6. /\ DOMAIN node = NodeFields /\ node.kind = n.kind + 1 /\ node.word = 4 /\ node.id = n.id
      /\ node.hash = IdHash(L.parent, L.pbyte)
      /\ DOMAIN node.child = DOMAIN n.child \cup {L.byte} /\ node.child[L.byte] = Len(mem) + 2
      /\ \A x \in DOMAIN n.child : x # L.byte => node.child[x] = n.child[x]
  <2>1. big + 1 = Len(mem) + 2
    BY <1>3
  <2> QED
    BY <1>5, <2>1, ChildSet
<1>7. /\ DOMAIN leaf = NodeFields /\ leaf.kind = 0 /\ leaf.word = 4
      /\ leaf.hash = <<n.id, L.byte>> /\ DOMAIN leaf.child = {}
  BY LeafMade DEF LeafUnder
<1> HIDE DEF node, leaf
<1>8. IsSeq(new) /\ Len(new) = 2 /\ new[1] = node /\ new[2] = leaf
  BY Tuples
<1> HIDE DEF new
<1>9. NewOK(new)
  <2>1. \A i \in 1..Len(new) : i = 1 \/ i = 2
    BY <1>8
  <2>2. ASSUME NEW b \in DOMAIN node.child
        PROVE  Hangs(node, b, new)
    <3>1. CASE b = L.byte
      BY <1>6, <1>7, <1>8, <3>1 DEF Hangs
    <3>2. CASE b # L.byte
      BY <1>3, <1>6, <3>2, ChildrenOf DEF Hangs
    <3> QED
      BY <3>1, <3>2
  <2>3. n.kind + 1 \in 0..TopKind /\ 0 \in 0..TopKind
    BY <1>3, Kinds
  <2>4. NewNodeOK(node, new)
    BY <1>6, <2>2, <2>3 DEF NewNodeOK
  <2>5. NewNodeOK(leaf, new)
    BY <1>7, <2>3 DEF NewNodeOK
  <2> QED
    BY <1>8, <2>1, <2>4, <2>5 DEF NewOK
<1>10. Len(new) >= 1 /\ new[1].hash = IdHash(L.parent, L.pbyte)
  BY <1>6, <1>8
<1> QED
  BY <1>1, <1>2, <1>9, <1>10, Builds

(* What the steps under locks have in common.                              *)
LEMMA LockSteps ==
  ASSUME TInv, NEW t \in Threads, UNCHANGED <<todo, load>>,
         \/ LockParent(t, "growParent", "growNode") \/ LockNode(t, "growNode", "growBuild")
         \/ LockParent(t, "splitParent", "splitNode") \/ LockNode(t, "splitNode", "splitBuild")
         \/ Undo(t)
  PROVE  TInv'
<1> DEFINE L == loc[t]
<1>1. L.pc \in {"growParent", "growNode", "splitParent", "splitNode", "undo"}
  BY DEF LockParent, LockNode, Undo
<1>2. L.pc \in Changing /\ L.pc \in Replacing
  BY <1>1 DEF Changing, Replacing, Growing, Splitting
<1>3. /\ Sound /\ CallOK(L) /\ Building(L) /\ L.node \in Slots /\ L.parent \in Slots /\ L.parent # Nil
  BY <1>2, ChangingNow
<1>4. ASSUME Restart(t), UNCHANGED <<mem, retired>> PROVE TInv'
  <2>1. Sound' /\ Grows
    BY <1>3, <1>4, Kept
  <2> QED
    BY <1>3, <1>4, <2>1, Restarts
<1>5. CASE LockParent(t, "growParent", "growNode") \/ LockParent(t, "splitParent", "splitNode")
  <2>1. PICK to \in {"growNode", "splitNode"} :
          /\ (L.pc = "growParent" /\ to = "growNode") \/ (L.pc = "splitParent" /\ to = "splitNode")
          /\ UNCHANGED retired
          /\ \/ AddToWord(L.parent, 2) /\ Go(t, [pc |-> to, claim |-> Running])
             \/ Restart(t) /\ UNCHANGED mem
    BY <1>5 DEF LockParent, Upgrade
  <2>2. CASE AddToWord(L.parent, 2) /\ Go(t, [pc |-> to, claim |-> Running])
    <3>1. Sound' /\ Grows
      BY <1>3, <2>1, <2>2, WordSound
    <3>2. to = "growNode" => mem[L.node].kind < TopKind
      BY <1>3, <2>1 DEF Building
    <3>3. to \in Changing /\ to \notin LeafSplitting
      BY DEF Changing, Replacing, Growing, Splitting, LeafSplitting
    <3> QED
      BY <1>2, <1>3, <2>1, <2>2, <3>1, <3>2, <3>3, Advances
  <2> QED
    BY <1>4, <2>1, <2>2
<1>6. CASE LockNode(t, "growNode", "growBuild") \/ LockNode(t, "splitNode", "splitBuild")
  <2>1. PICK to \in {"growBuild", "splitBuild"} :
          /\ (L.pc = "growNode" /\ to = "growBuild") \/ (L.pc = "splitNode" /\ to = "splitBuild")
          /\ UNCHANGED retired
          /\ \/ AddToWord(L.node, 2) /\ Go(t, [pc |-> to])
             \/ Go(t, [pc |-> "undo"]) /\ UNCHANGED mem
    BY <1>6 DEF LockNode, Upgrade
  <2>2. CASE AddToWord(L.node, 2) /\ Go(t, [pc |-> to])
    <3>1. Sound' /\ Grows
      BY <1>3, <2>1, <2>2, WordSound
    <3>2. to = "growBuild" => mem[L.node].kind < TopKind
      BY <1>3, <2>1 DEF Building
    <3>3. to \in Changing /\ to \notin LeafSplitting
      BY DEF Changing, Replacing, Growing, Splitting, LeafSplitting
    <3> QED
      BY <1>2, <1>3, <2>1, <2>2, <3>1, <3>2, <3>3, Advances
  <2>3. CASE Go(t, [pc |-> "undo"]) /\ UNCHANGED mem
    <3>1. Sound' /\ Grows
      BY <1>3, <2>1, <2>3, Kept
    <3>2. "undo" \in Changing /\ "undo" \notin LeafSplitting
      BY DEF Changing, Replacing, Growing, Splitting, LeafSplitting
    <3> QED
      BY <1>2, <1>3, <2>1, <2>3, <3>1, <3>2, Advances
  <2> QED
    BY <2>1, <2>2, <2>3
<1>7. CASE Undo(t)
  <2>1. UNCHANGED retired /\ AddToWord(L.parent, 2) /\ Restart(t)
    BY <1>7 DEF Undo, writeUnlock
  <2>2. Sound' /\ Grows
    BY <1>3, <2>1, WordSound
  <2> QED
    BY <1>3, <2>1, <2>2, Restarts
<1> QED
  BY <1>5, <1>6, <1>7

LEMMA GrowSteps ==
  ASSUME TInv, NEW t \in Threads, UNCHANGED <<todo, load>>,
         GrowLink(t) \/ GrowObsolete(t) \/ GrowMark(t) \/ GrowUnlock(t)
  PROVE  TInv'
<1> DEFINE L == loc[t]
<1>1. L.pc \in {"growLink", "growObsolete", "growMark", "growUnlock"}
  BY DEF GrowLink, GrowObsolete, GrowMark, GrowUnlock
<1>2. L.pc \in Changing /\ L.pc \in Replacing
  BY <1>1 DEF Changing, Replacing, Growing
<1>3. /\ Sound /\ CallOK(L) /\ Building(L) /\ L.node \in Slots /\ L.parent \in Slots /\ L.parent # Nil
      /\ Under(L.node, L.parent, L.pbyte)
  BY <1>2, ChangingNow
<1>4. ASSUME Sound', Grows, NEW to \in {"growObsolete", "growMark", "growUnlock"},
             Go(t, [pc |-> to])
      PROVE  TInv'
  <2>1. to \in Changing /\ to \notin LeafSplitting
    BY DEF Changing, Replacing, Growing, Splitting, LeafSplitting
  <2> QED
    BY <1>2, <1>3, <1>4, <2>1, Advances
<1>5. CASE GrowLink(t)
  <2>1. /\ L.pc = "growLink" /\ UNCHANGED retired
        /\ change(L.parent, L.pbyte, L.fresh) /\ Go(t, [pc |-> "growObsolete"])
    BY <1>5 DEF GrowLink
  <2>2. Under(L.fresh, L.parent, L.pbyte)
    BY <1>3, <2>1 DEF Building
  <2>3. Sound' /\ Grows
    BY <1>3, <2>1, <2>2, ChangeSound
  <2> QED
    BY <1>4, <2>1, <2>3
<1>6. CASE GrowObsolete(t)
  <2>1. UNCHANGED retired /\ AddToWord(L.node, 3) /\ Go(t, [pc |-> "growMark"])
    BY <1>6 DEF GrowObsolete, writeUnlockObsolete
  <2>2. Sound' /\ Grows
    BY <1>3, <2>1, WordSound
  <2> QED
    BY <1>4, <2>1, <2>2
<1>7. CASE GrowMark(t)
  <2>1. UNCHANGED mem /\ Mark(t, L.node, L.parent, L.pbyte) /\ Go(t, [pc |-> "growUnlock"])
    BY <1>7 DEF GrowMark
  <2>2. Sound' /\ Grows
    BY <1>3, <2>1, MarkSound
  <2> QED
    BY <1>4, <2>1, <2>2
<1>8. CASE GrowUnlock(t)
  <2>1. UNCHANGED retired /\ AddToWord(L.parent, 2) /\ Return(t, "inserted")
    BY <1>8 DEF GrowUnlock, writeUnlock
  <2>2. Sound' /\ Grows
    BY <1>3, <2>1, WordSound
  <2> QED
    BY <1>3, <2>1, <2>2, Returns
<1> QED
  BY <1>5, <1>6, <1>7, <1>8

LEMMA SplitSteps ==
  ASSUME TInv, NEW t \in Threads, UNCHANGED <<todo, load>>,
         SplitLink(t) \/ SplitUnlock(t) \/ SplitObsolete(t) \/ SplitMark(t)
  PROVE  TInv'
<1> DEFINE L == loc[t]
<1>1. L.pc \in {"splitLink", "splitUnlock", "splitObsolete", "splitMark"}
  BY DEF SplitLink, SplitUnlock, SplitObsolete, SplitMark
<1>2. L.pc \in Changing /\ L.pc \in Replacing
  BY <1>1 DEF Changing, Replacing, Splitting
<1>3. /\ Sound /\ CallOK(L) /\ Building(L) /\ L.node \in Slots /\ L.parent \in Slots /\ L.parent # Nil
      /\ Under(L.node, L.parent, L.pbyte)
  BY <1>2, ChangingNow
<1>4. ASSUME Sound', Grows, NEW to \in {"splitUnlock", "splitObsolete", "splitMark"},
             Go(t, [pc |-> to])
      PROVE  TInv'
  <2>1. to \in Changing /\ to \notin LeafSplitting
    BY DEF Changing, Replacing, Growing, Splitting, LeafSplitting
  <2> QED
    BY <1>2, <1>3, <1>4, <2>1, Advances
<1>5. CASE SplitLink(t)
  <2>1. /\ L.pc = "splitLink" /\ UNCHANGED retired
        /\ change(L.parent, L.pbyte, L.fresh) /\ Go(t, [pc |-> "splitUnlock"])
    BY <1>5 DEF SplitLink
  <2>2. Under(L.fresh, L.parent, L.pbyte)
    BY <1>3, <2>1 DEF Building
  <2>3. Sound' /\ Grows
    BY <1>3, <2>1, <2>2, ChangeSound
  <2> QED
    BY <1>4, <2>1, <2>3
<1>6. CASE SplitUnlock(t)
  <2>1. UNCHANGED retired /\ AddToWord(L.parent, 2) /\ Go(t, [pc |-> "splitObsolete"])
    BY <1>6 DEF SplitUnlock, writeUnlock
  <2>2. Sound' /\ Grows
    BY <1>3, <2>1, WordSound
  <2> QED
    BY <1>4, <2>1, <2>2
<1>7. CASE SplitObsolete(t)
  <2>1. UNCHANGED retired /\ AddToWord(L.node, 3) /\ Go(t, [pc |-> "splitMark"])
    BY <1>7 DEF SplitObsolete, writeUnlockObsolete
  <2>2. Sound' /\ Grows
    BY <1>3, <2>1, WordSound
  <2> QED
    BY <1>4, <2>1, <2>2
<1>8. CASE SplitMark(t)
  <2>1. UNCHANGED mem /\ Mark(t, L.node, L.parent, L.pbyte) /\ Return(t, "inserted")
    BY <1>8 DEF SplitMark
  <2>2. Sound' /\ Grows
    BY <1>3, <2>1, MarkSound
  <2> QED
    BY <1>3, <2>1, <2>2, Returns
<1> QED
  BY <1>5, <1>6, <1>7, <1>8

LEMMA LeafSteps ==
  ASSUME TInv, NEW t \in Threads, UNCHANGED <<todo, load>>,
         \/ LeafLockNode(t) \/ LeafWriteLock(t) \/ LeafObsolete(t) \/ LeafMark(t) \/ LeafLink(t)
  PROVE  TInv'
<1> DEFINE L == loc[t]
<1>1. L.pc \in {"leafLockNode", "leafWrite", "leafObsolete", "leafMark", "leafLink"}
  BY DEF LeafLockNode, LeafWriteLock, LeafObsolete, LeafMark, LeafLink
<1>2. L.pc \in Changing /\ L.pc \in LeafSplitting
  BY <1>1 DEF Changing, LeafSplitting
<1>3. /\ Sound /\ CallOK(L) /\ Building(L) /\ L.node \in Slots /\ L.next \in Slots
      /\ Under(L.next, L.node, L.byte)
  BY <1>2, ChangingNow
<1>4. ASSUME Restart(t), UNCHANGED <<mem, retired>> PROVE TInv'
  <2>1. Sound' /\ Grows
    BY <1>3, <1>4, Kept
  <2> QED
    BY <1>3, <1>4, <2>1, Restarts
<1>5. ASSUME Sound', Grows, NEW to \in {"leafWrite", "leafBuild", "leafMark", "leafLink", "unlock"},
             NEW changes, DOMAIN changes \subseteq {"pc", "claim"}, "pc" \in DOMAIN changes,
             changes.pc = to, Go(t, changes),
             to \in {"leafMark", "leafLink"} => L.pc \in {"leafObsolete", "leafMark"}
      PROVE  TInv'
  <2>1. to \in Changing /\ to \notin Replacing
    BY DEF Changing, Putting, Replacing, Growing, Splitting, LeafSplitting
  <2> QED
    BY <1>2, <1>5, <2>1, Advances
<1>6. CASE LeafLockNode(t)
  <2> DEFINE changes == [pc |-> "leafWrite", claim |-> Running]
  <2>1. /\ L.pc = "leafLockNode" /\ UNCHANGED retired
        /\ \/ AddToWord(L.node, 2) /\ Go(t, changes)
           \/ Restart(t) /\ UNCHANGED mem
    BY <1>6 DEF LeafLockNode, Upgrade
  <2>2. CASE AddToWord(L.node, 2) /\ Go(t, changes)
    <3>1. Sound' /\ Grows
      BY <1>3, <2>1, <2>2, WordSound
    <3> QED
      BY <1>5, <2>2, <3>1
  <2> QED
    BY <1>4, <2>1, <2>2
<1>7. CASE LeafWriteLock(t)
  <2>1. /\ L.pc = "leafWrite" /\ UNCHANGED retired
        /\ \/ AddToWord(L.next, 2) /\ Go(t, [pc |-> "leafBuild"])
           \/ Restart(t) /\ UNCHANGED mem
    BY <1>7 DEF LeafWriteLock
  <2>2. CASE AddToWord(L.next, 2) /\ Go(t, [pc |-> "leafBuild"])
    <3>1. Sound' /\ Grows
      BY <1>3, <2>1, <2>2, WordSound
    <3> QED
      BY <1>5, <2>2, <3>1
  <2> QED
    BY <1>4, <2>1, <2>2
<1>8. CASE LeafObsolete(t)
  <2>1. /\ L.pc = "leafObsolete" /\ UNCHANGED retired /\ AddToWord(L.next, 3)
        /\ Go(t, [pc |-> "leafMark"])
    BY <1>8 DEF LeafObsolete, writeUnlockObsolete
  <2>2. Sound' /\ Grows
    BY <1>3, <2>1, WordSound
  <2> QED
    BY <1>5, <2>1, <2>2
<1>9. CASE LeafMark(t)
  <2>1. /\ L.pc = "leafMark" /\ UNCHANGED mem /\ Mark(t, L.next, L.node, L.byte)
        /\ Go(t, [pc |-> "leafLink"])
    BY <1>9 DEF LeafMark
  <2>2. Sound' /\ Grows
    BY <1>3, <2>1, MarkSound
  <2> QED
    BY <1>5, <2>1, <2>2
<1>10. CASE LeafLink(t)
  <2>1. /\ L.pc = "leafLink" /\ UNCHANGED retired
        /\ change(L.node, L.byte, L.fresh) /\ Go(t, [pc |-> "unlock"])
    BY <1>10 DEF LeafLink
  <2>2. Under(L.fresh, L.node, L.byte)
    BY <1>3, <2>1 DEF Building
  <2>3. Sound' /\ Grows
    BY <1>3, <2>1, <2>2, ChangeSound
  <2> QED
    BY <1>5, <2>1, <2>3
<1> QED
  BY <1>6, <1>7, <1>8, <1>9, <1>10

(* A new node with two of the slots after it as its children.              *)
LEMMA InnerNode ==
  ASSUME Sound, NEW n, DOMAIN n = NodeFields, n.kind \in 0..TopKind, n.word \in Nat,
         DOMAIN n.child = {}, NEW b, NEW c, NEW new, Len(new) = 3,
         new[2].hash = <<n.id, b>>, new[3].hash = <<n.id, c>>,
         NEW m, m = SetChild(SetChild(n, b, Len(mem) + 2), c, Len(mem) + 3)
  PROVE  NewNodeOK(m, new) /\ m.hash = n.hash
<1> DEFINE k == SetChild(n, b, Len(mem) + 2)
<1>1. /\ DOMAIN k = NodeFields /\ k.kind = n.kind /\ k.word = n.word /\ k.id = n.id
      /\ k.hash = n.hash /\ DOMAIN k.child = {b} /\ k.child[b] = Len(mem) + 2
  BY ChildSet
<1> HIDE DEF k
<1>2. m = SetChild(k, c, Len(mem) + 3)
  BY DEF k
<1>3. /\ DOMAIN m = NodeFields /\ m.kind = k.kind /\ m.word = k.word /\ m.id = k.id
      /\ m.hash = k.hash /\ DOMAIN m.child = {b, c} /\ m.child[c] = Len(mem) + 3
      /\ b # c => m.child[b] = Len(mem) + 2
  BY <1>1, <1>2, ChildSet
<1>4. ASSUME NEW x \in DOMAIN m.child PROVE Hangs(m, x, new)
  BY <1>1, <1>3, <1>4 DEF Hangs
<1> QED
  BY <1>1, <1>3, <1>4 DEF NewNodeOK

LEMMA LeafOK ==
  ASSUME NEW key, NEW hash, NEW n, n = NewLeaf(key, hash), NEW new
  PROVE  NewNodeOK(n, new)
  BY LeafMade, Kinds DEF NewNodeOK

(* relocate_node: the copy answers for the same children under the same id. *)
Relocated(n, hash, bytes, length) ==
  [SetPrefix(relocate_node(n, hash), bytes, length) EXCEPT !.word = @ + 2]

LEMMA Moved ==
  ASSUME Sound, NEW s \in Slots, NEW hash, NEW bytes, NEW length, NEW n,
         n = Relocated(mem[s], hash, bytes, length), NEW new
  PROVE  NewNodeOK(n, new) /\ n.hash = hash
<1> DEFINE old == mem[s]
<1>1. DOMAIN old = NodeFields /\ old.kind \in 0..TopKind /\ old.word \in Nat
  BY DEF Sound, MemOK
<1>2. \A b \in DOMAIN old.child :
         \/ old.child[b] = Nil
         \/ old.child[b] \in Slots /\ mem[old.child[b]].hash = <<old.id, b>>
  BY ChildrenOf
<1> HIDE DEF old
<1>3. n = [SetPrefix(relocate_node(old, hash), bytes, length) EXCEPT !.word = @ + 2]
  BY DEF old, Relocated
<1>4. /\ DOMAIN n = NodeFields /\ n.kind = old.kind /\ n.word = old.word + 2 /\ n.id = old.id
      /\ n.child = old.child /\ n.hash = hash
  BY <1>1, <1>3 DEF SetPrefix, relocate_node, NodeFields
<1>5. n.word \in Nat
  BY <1>1, <1>4
<1>6. \A b \in DOMAIN n.child : Hangs(n, b, new)
  BY <1>2, <1>4 DEF Hangs
<1> QED
  BY <1>1, <1>4, <1>5, <1>6 DEF NewNodeOK

LEMMA SplitNode ==
  ASSUME TInv, NEW t \in Threads, UNCHANGED <<todo, load>>, SplitBuild(t)
  PROVE  TInv'
<1> DEFINE L == loc[t]
           n == mem[L.node]
           mine == L.key[L.level + L.matched + 1]
           fresh == Len(mem) + 1
           inner == NewNode(InitialNode, fresh, n.prefix, L.matched, IdHash(L.parent, L.pbyte))
           top == SetChild(SetChild(inner, mine, fresh + 1), L.miss, fresh + 2)
           leaf == LeafUnder(t, fresh, mine)
           copy == relocate_node(n, <<fresh, L.miss>>)
           moved == [SetPrefix(copy, L.rest, n.plen - (L.matched + 1)) EXCEPT !.word = @ + 2]
           new == <<top, leaf, moved>>
<1>1. L.pc = "splitBuild" /\ Allocate(t, new, [pc |-> "splitLink", fresh |-> Len(mem) + 1])
  BY DEF SplitBuild
<1>2. L.pc \in Changing /\ L.pc \in Replacing
  BY <1>1 DEF Changing, Replacing, Splitting
<1>3. Sound /\ L.node \in Slots /\ Len(mem) \in Nat
  BY <1>2, ChangingNow, Sequence DEF Sound, MemOK
<1>4. /\ DOMAIN inner = NodeFields /\ inner.kind = InitialNode /\ inner.word = 4
      /\ inner.id = fresh /\ inner.hash = IdHash(L.parent, L.pbyte) /\ DOMAIN inner.child = {}
  BY NodeMade
<1> HIDE DEF inner
<1>5. leaf.hash = <<fresh, mine>>
  BY LeafMade DEF LeafUnder
<1>6. moved = Relocated(n, <<fresh, L.miss>>, L.rest, n.plen - (L.matched + 1))
  BY DEF Relocated
<1>7. top = SetChild(SetChild(inner, mine, Len(mem) + 2), L.miss, Len(mem) + 3)
  <2>1. fresh + 1 = Len(mem) + 2 /\ fresh + 2 = Len(mem) + 3
    BY <1>3
  <2> QED
    BY <2>1
<1>8. IsSeq(new) /\ Len(new) = 3 /\ new[1] = top /\ new[2] = leaf /\ new[3] = moved
  BY Tuples
<1>9. NewNodeOK(leaf, new)
  BY LeafOK DEF LeafUnder
<1> HIDE DEF leaf, moved, top, new, mine
<1>10. NewNodeOK(moved, new) /\ moved.hash = <<fresh, L.miss>>
  BY <1>3, <1>6, Moved, SMTT(30)
<1>11. NewNodeOK(top, new) /\ top.hash = inner.hash
  <2>1. new[2].hash = <<inner.id, mine>> /\ new[3].hash = <<inner.id, L.miss>>
    BY <1>4, <1>5, <1>8, <1>10
  <2>2. inner.kind \in 0..TopKind /\ inner.word \in Nat
    BY <1>4, Kinds
  <2> QED
    BY <1>3, <1>4, <1>7, <1>8, <2>1, <2>2, InnerNode
<1>12. NewOK(new)
  <2>1. \A i \in 1..Len(new) : i = 1 \/ i = 2 \/ i = 3
    BY <1>8
  <2> QED
    BY <1>8, <1>9, <1>10, <1>11, <2>1 DEF NewOK
<1>13. Len(new) >= 1 /\ new[1].hash = IdHash(L.parent, L.pbyte)
  BY <1>4, <1>8, <1>11
<1> QED
  BY <1>1, <1>2, <1>12, <1>13, Builds

LEMMA SplitLeaf ==
  ASSUME TInv, NEW t \in Threads, UNCHANGED <<todo, load>>, LeafBuild(t)
  PROVE  TInv'
<1> DEFINE L == loc[t]
           key == mem[L.next].value
           below == Drop(L.key, L.level + 1)
           m == Agreement(Drop(key, L.level + 1), below)
           mine == below[m + 1]
           other == key[L.level + m + 2]
           fresh == Len(mem) + 1
           inner == NewNode(InitialNode, fresh, below, m, IdHash(L.node, L.byte))
           top == SetChild(SetChild(inner, mine, fresh + 1), other, fresh + 2)
           leaf == LeafUnder(t, fresh, mine)
           old == NewLeaf(key, <<fresh, other>>)
           new == <<top, leaf, old>>
<1>1. L.pc = "leafBuild" /\ Allocate(t, new, [pc |-> "leafObsolete", fresh |-> Len(mem) + 1])
  BY DEF LeafBuild
<1>2. L.pc \in Changing /\ L.pc \in LeafSplitting
  BY <1>1 DEF Changing, LeafSplitting
<1>3. Sound /\ Len(mem) \in Nat
  BY <1>2, ChangingNow, Sequence DEF Sound, MemOK
<1> HIDE DEF m, mine, other, key, below
<1>4. /\ DOMAIN inner = NodeFields /\ inner.kind = InitialNode /\ inner.word = 4
      /\ inner.id = fresh /\ inner.hash = IdHash(L.node, L.byte) /\ DOMAIN inner.child = {}
  BY NodeMade
<1> HIDE DEF inner
<1>5. leaf.hash = <<fresh, mine>> /\ old.hash = <<fresh, other>>
  BY LeafMade DEF LeafUnder
<1>6. top = SetChild(SetChild(inner, mine, Len(mem) + 2), other, Len(mem) + 3)
  <2>1. fresh + 1 = Len(mem) + 2 /\ fresh + 2 = Len(mem) + 3
    BY <1>3
  <2> QED
    BY <2>1
<1>7. IsSeq(new) /\ Len(new) = 3 /\ new[1] = top /\ new[2] = leaf /\ new[3] = old
  BY Tuples
<1>8. NewNodeOK(leaf, new) /\ NewNodeOK(old, new)
  BY LeafOK DEF LeafUnder
<1> HIDE DEF leaf, old, top, new
<1>9. NewNodeOK(top, new) /\ top.hash = inner.hash
  BY <1>3, <1>4, <1>5, <1>6, <1>7, InnerNode, Kinds, SMTT(30)
<1>10. NewOK(new)
  <2>1. \A i \in 1..Len(new) : i = 1 \/ i = 2 \/ i = 3
    BY <1>7
  <2> QED
    BY <1>7, <1>8, <1>9, <2>1 DEF NewOK
<1>11. Len(new) >= 1 /\ new[1].hash = IdHash(L.node, L.byte)
  BY <1>4, <1>7, <1>9
<1> QED
  BY <1>1, <1>2, <1>10, <1>11, Builds
-----------------------------------------------------------------------------
(* Calls begin and end; every step, and the theorems.                      *)
LEMMA InsertSteps ==
  ASSUME TInv, NEW t \in Threads, insert(t), UNCHANGED <<todo, load>>
  PROVE  TInv'
<1>1. CASE descend(t)
  BY <1>1, DescendSteps
<1>2. CASE insertAndUnlock(t)
  BY <1>2, PutSteps, LockSteps, GrowNode, GrowSteps DEF insertAndUnlock
<1>3. CASE splitPrefix(t)
  BY <1>3, LockSteps, SplitNode, SplitSteps DEF splitPrefix
<1>4. CASE splitLeaf(t)
  BY <1>4, LeafSteps, SplitLeaf DEF splitLeaf
<1>5. CASE Undo(t)
  BY <1>5, LockSteps
<1> QED
  BY <1>1, <1>2, <1>3, <1>4, <1>5 DEF insert

LEMMA Begun ==
  ASSUME TInv, NEW t \in Threads, BeginCall(t)
  PROVE  \E op \in {"lookup", "insert"}, key \in AllKeys : \E missing :
            loc' = [loc EXCEPT ![t] = Start([op |-> op, key |-> key, missing |-> missing])]
<1>1. \E c \in IF load # <<>> THEN {[op |-> "insert", key |-> Head(load)]}
              ELSE IF todo[t] # <<>> THEN {Head(todo[t])} ELSE {} :
         loc' = [loc EXCEPT ![t] = Start([op |-> c.op, key |-> c.key, missing |-> ~Holds(c.key)])]
  BY DEF BeginCall
<1>2. QueueOK
  BY DEF TInv
<1>3. CASE load # <<>>
  <2>1. Head(load) \in AllKeys
    BY <1>2, <1>3, HeadTailProperties DEF QueueOK
  <2>2. PICK c : /\ c = [op |-> "insert", key |-> Head(load)]
                 /\ loc' = [loc EXCEPT ![t] = Start([op |-> c.op, key |-> c.key,
                                                     missing |-> ~Holds(c.key)])]
    BY <1>1, <1>3
  <2>3. c.op \in {"lookup", "insert"} /\ c.key \in AllKeys
    BY <2>1, <2>2
  <2> QED
    BY <2>2, <2>3
<1>4. CASE load = <<>>
  <2>1. PICK c : /\ todo[t] # <<>> /\ c = Head(todo[t])
                 /\ loc' = [loc EXCEPT ![t] = Start([op |-> c.op, key |-> c.key,
                                                     missing |-> ~Holds(c.key)])]
    BY <1>1, <1>4
  <2>2. c \in [op : {"lookup", "insert"}, key : AllKeys]
    BY <1>2, <2>1, HeadTailProperties DEF QueueOK
  <2> QED
    BY <2>1, <2>2
<1> QED
  BY <1>3, <1>4

LEMMA Beginning ==
  ASSUME TInv, NEW t \in Threads, MayBegin(t), BeginCall(t)
  PROVE  TInv'
<1>1. UNCHANGED <<mem, todo, load, retired>>
  BY DEF BeginCall
<1>2. Sound /\ QueueOK
  BY DEF TInv, Sound
<1>3. PICK op \in {"lookup", "insert"}, key \in AllKeys : \E missing :
         loc' = [loc EXCEPT ![t] = Start([op |-> op, key |-> key, missing |-> missing])]
  BY Begun
<1>4. Sound' /\ Grows
  BY <1>1, <1>2, Kept
<1>5. key \in Seq(AllBytes)
  BY ArtAssumption
<1>6. Root \in Slots'
  BY <1>4 DEF Sound, MemOK
<1>7. ASSUME NEW M, M = loc'[t] PROVE CallOK(M)'
  <2>1. PICK missing : M = Start([op |-> op, key |-> key, missing |-> missing])
    BY <1>2, <1>3, <1>7 DEF QueueOK
  <2>2. /\ DOMAIN M = Fields /\ M.key \in Seq(AllBytes) /\ M.pc = M.op /\ M.op = op
        /\ M.node = Nil /\ M.next = Root /\ M.parent = Nil /\ M.cursor = Nil /\ M.any = Nil
        /\ M.level = 0
    BY <1>5, <2>1 DEF Start, Fields
  <2>3. CASE M.op = "lookup"
    BY <1>6, <2>2, <2>3 DEF CallOK, LookupOK, Looking
  <2>4. CASE M.op = "insert"
    BY <1>6, <2>2, <2>4 DEF CallOK, InsertOK, Arriving
  <2> QED
    BY <2>2, <2>3, <2>4
<1>8. DOMAIN loc' = Threads /\ \A u \in Threads : u # t => loc'[u] = loc[u]
  BY <1>2, <1>3 DEF QueueOK
<1>9. LocalOK'
  BY <1>4, <1>7, <1>8, OthersKnow
<1>10. Due(t)
  <2>1. load = <<>> => todo[t] # <<>>
    BY DEF BeginCall
  <2> QED
    BY <2>1 DEF Due, MayBegin, Loader
<1>11. QueueOK'
  BY <1>1, <1>2, <1>8, <1>10 DEF QueueOK, Due
<1> QED
  BY <1>4, <1>9, <1>11 DEF TInv, Sound

LEMMA Ending ==
  ASSUME TInv, NEW t \in Threads, EndCall(t)
  PROVE  TInv'
<1>1. /\ loc[t].pc = "done" /\ loc' = [loc EXCEPT ![t] = Idle] /\ UNCHANGED <<mem, retired>>
      /\ IF load # <<>> THEN load' = Tail(load) /\ UNCHANGED todo
         ELSE todo' = [todo EXCEPT ![t] = Tail(@)] /\ UNCHANGED load
  BY DEF EndCall
<1>2. Sound /\ QueueOK
  BY DEF TInv, Sound
<1>3. Sound' /\ Grows
  BY <1>1, <1>2, Kept
<1>4. /\ DOMAIN loc' = Threads /\ \A u \in Threads : u # t => loc'[u] = loc[u]
      /\ loc'[t] = Idle
  BY <1>1, <1>2 DEF QueueOK
<1>5. LocalOK'
  BY <1>3, <1>4, OthersKnow
<1>6. Due(t)
  <2>1. loc[t] # Idle
    BY <1>1 DEF Idle
  <2> QED
    BY <1>2, <2>1 DEF QueueOK
<1>7. QueueOK'
  <2>1. CASE load # <<>>
    <3>1. load' \in Seq(AllKeys) /\ UNCHANGED todo
      BY <1>1, <1>2, <2>1, HeadTailProperties DEF QueueOK
    <3>2. \A u \in Threads : loc'[u] = Idle
      BY <1>2, <1>4, <1>6, <2>1 DEF QueueOK, Due
    <3> QED
      BY <1>2, <1>4, <3>1, <3>2 DEF QueueOK
  <2>2. CASE load = <<>>
    <3> DEFINE Calls == [op : {"lookup", "insert"}, key : AllKeys]
    <3>1. todo[t] \in Seq(Calls) /\ todo[t] # <<>>
      BY <1>2, <1>6, <2>2 DEF QueueOK, Due
    <3>2. Tail(todo[t]) \in Seq(Calls)
      BY <3>1, HeadTailProperties
    <3>3. todo \in [Threads -> Seq(Calls)]
      BY <1>2 DEF QueueOK
    <3>4. todo' = [todo EXCEPT ![t] = Tail(todo[t])] /\ load' = load
      BY <1>1, <2>2
    <3> HIDE DEF Calls
    <3>5. todo' \in [Threads -> Seq(Calls)] /\ \A u \in Threads : u # t => todo'[u] = todo[u]
      BY <3>2, <3>3, <3>4
    <3>6. \A u \in Threads : loc'[u] # Idle => Due(u)'
      BY <1>2, <1>4, <2>2, <3>4, <3>5 DEF QueueOK, Due
    <3> QED
      BY <1>2, <1>4, <3>4, <3>5, <3>6 DEF QueueOK, Calls
  <2> QED
    BY <2>1, <2>2
<1> QED
  BY <1>3, <1>5, <1>7 DEF TInv, Sound

LEMMA Initially ==
  ASSUME Init
  PROVE  TInv
<1>1. PICK s \in Scenarios :
         /\ mem = <<NewNode(TopKind, 1, <<>>, 0, <<0, 0>>)>>
         /\ loc = [t \in Threads |-> Idle] /\ todo = s.ops /\ load = s.load
         /\ retired = <<{}>>
  BY DEF Init
<1> DEFINE n == NewNode(TopKind, 1, <<>>, 0, <<0, 0>>)
<1>2. /\ DOMAIN n = NodeFields /\ n.kind = TopKind /\ n.word = 4 /\ DOMAIN n.child = {}
      /\ n.plen = 0 /\ n.prefix = <<>>
  BY DEF NewNode, SetPrefix, NodeFields, NoChildren, Prefix
<1> HIDE DEF n
<1>3. /\ mem = <<n>> /\ IsSeq(mem) /\ Len(mem) = 1 /\ mem[1] = n
      /\ IsSeq(retired) /\ Len(retired) = 1 /\ retired[1] = {}
  BY <1>1, Tuples DEF n
<1>4. Slots = {1}
  BY <1>3 DEF Slots
<1>5. MemOK /\ HashesAgree
  BY <1>2, <1>3, <1>4, Kinds DEF MemOK, HashesAgree, Bytes, Root
<1>6. LocalOK
  BY <1>1 DEF LocalOK
<1>7. QueueOK
  BY <1>1, ArtAssumption DEF QueueOK
<1> QED
  BY <1>5, <1>6, <1>7 DEF TInv

LEMMA Steps ==
  ASSUME TInv, [Next]_vars
  PROVE  TInv'
<1>1. CASE UNCHANGED vars
  <2>1. Sound /\ Sound' /\ Grows
    BY <1>1, Kept DEF vars, TInv, Sound
  <2>2. \A M : CallOK(M) => CallOK(M)'
    BY <2>1, CallLasts DEF Sound, MemOK
  <2>3. ASSUME NEW u \in Threads, NEW M, M = loc'[u]
        PROVE  M = Idle \/ M.pc = "done" \/ CallOK(M)'
    BY <1>1, <2>2, <2>3 DEF TInv, LocalOK, vars
  <2>4. LocalOK'
    BY <2>3 DEF LocalOK
  <2>5. QueueOK'
    BY <1>1 DEF TInv, QueueOK, Due, vars
  <2> QED
    BY <2>1, <2>4, <2>5 DEF TInv, Sound
<1>2. ASSUME NEW t \in Threads, Step(t) PROVE TInv'
  BY <1>2, Beginning, Ending, LookupSteps, InsertSteps DEF Step
<1> QED
  BY <1>1, <1>2 DEF Next

(* The tree's memory is sound and every call knows what it needs to.       *)
THEOREM TreeInvariant == Spec => []TInv
<1>1. Init => TInv
  BY Initially
<1>2. TInv /\ [Next]_vars => TInv'
  BY Steps
<1> QED
  BY <1>1, <1>2, PTL DEF Spec

(* N.cpp reads a node that another thread writes and only then looks at    *)
(* its version: what came of the writing never survives that look, so no   *)
(* call ever follows a pointer that is none.                               *)
THEOREM GarbageUnusedHolds == Spec => []GarbageUnused
<1>1. TInv => GarbageUnused
  <2> SUFFICES ASSUME TInv, NEW t \in Threads PROVE Garbage \notin Held(t)
    BY DEF GarbageUnused
  <2> DEFINE L == loc[t]
  <2>1. Garbage \notin Slots \cup {Nil}
    BY DEF Garbage, Nil, Slots
  <2>2. CASE L.pc \in {"idle", "done"}
    BY <2>2 DEF Held
  <2>3. CASE L.pc \notin {"idle", "done"}
    <3>1. CallOK(L)
      BY <2>3 DEF TInv, LocalOK, Idle
    <3>2. CASE LookupOK(L)
      <4>1. L.node \in Slots \cup {Nil} /\ (L.pc # "hit" => L.next \in Slots)
        BY <3>2 DEF LookupOK, Versioned
      <4> QED
        BY <2>1, <2>3, <3>2, <4>1 DEF Held, LookupOK
    <3>3. CASE InsertOK(L)
      <4>1. /\ L.node \in Slots \cup {Nil} /\ L.parent \in Slots \cup {Nil}
            /\ L.cursor \in Slots \cup {Nil}
            /\ L.pc # "childCheck" => L.next \in Slots \cup {Nil}
            /\ L.pc # "anyCheck" => L.any \in Slots \cup {Nil}
        BY <3>3 DEF InsertOK, Arriving, Arrived, Here, Reading, Versioned
      <4> QED
        BY <2>1, <2>3, <4>1 DEF Held
    <3> QED
      BY <3>1, <3>2, <3>3 DEF CallOK
  <2> QED
    BY <2>2, <2>3
<1> QED
  BY <1>1, TreeInvariant, PTL

(* Whoever holds a node finds each child with the two hashes that its slot *)
(* was allocated with, through growth and relocation, and a retired slot   *)
(* is freed with the hashes it was allocated with.                         *)
THEOREM HashesAgreeHolds == Spec => []HashesAgree
<1>1. TInv => HashesAgree
  BY DEF TInv
<1> QED
  BY <1>1, TreeInvariant, PTL

-----------------------------------------------------------------------------
(***************************************************************************)
(* What the version words of the tree protect: nobody else writes to a     *)
(* locked node, a leaf that is split has no other parent, and a node that  *)
(* is replaced is out of reach of every call but those it waits for.       *)
(***************************************************************************)

(* Who owns a slot.  A call that copies a node still owns it, but does not  *)
(* keep it: the copy is going to take its place.                            *)
KeepsNode == {"put", "putInsert", "unlock", "growBuild", "splitBuild", "leafWrite", "leafBuild",
              "leafObsolete", "leafMark", "leafLink"}
CopiesNode == {"growLink", "growObsolete", "splitLink", "splitUnlock", "splitObsolete"}
KeepsParent == {"growNode", "growBuild", "growLink", "growObsolete", "growMark", "growUnlock",
                "undo", "splitNode", "splitBuild", "splitLink", "splitUnlock"}
KeepsNext == {"leafBuild", "leafObsolete"}

Keeps(M, s) ==
  \/ M.pc \in KeepsNode /\ s = M.node
  \/ M.pc \in KeepsParent /\ s = M.parent
  \/ M.pc \in KeepsNext /\ s = M.next

Copies(M, s) == M.pc \in CopiesNode /\ s = M.node
Owns(M, s) == Keeps(M, s) \/ Copies(M, s)

Calls(M) == M.pc \notin {"idle", "done"}
Inner(s) == s \in Slots /\ mem[s].kind # 0
Free(s) == mem[s].word % 4 = 0
Taken(s) == mem[s].word % 4 = 2

(* A slot that is not live is obsolete, about to be, or locked for ever.    *)
Live(s) == Free(s) \/ \E u \in Threads : Keeps(loc[u], s)

HasChild(q, b, s) == b \in DOMAIN mem[q].child /\ mem[q].child[b] = s
Links(q, s) == \E b \in DOMAIN mem[q].child : mem[q].child[b] = s

SlotsOK ==
  /\ \A s \in Slots :
        /\ mem[s].word % 4 \in {0, 1, 2}
        /\ mem[s].kind = 0 => DOMAIN mem[s].child = {}
        /\ mem[s].kind # 0 => mem[s].id \in 1..Len(mem)
  /\ mem[Root].hash = <<0, 0>> /\ retired[Root] = {}
-----------------------------------------------------------------------------
(* What a call knows.                                                       *)
KindsKnown(M) ==
  M.op = "insert" =>
     /\ M.node # Nil => Inner(M.node)
     /\ M.parent # Nil => Inner(M.parent)
     /\ M.pc = "insert" => Inner(M.next)
     /\ M.pc \in LeafSplitting => IsLeaf(M.next)

(* The leaf that a call takes out of the tree.                              *)
Parting(M, s) == M.pc \in {"leafBuild", "leafObsolete", "leafMark", "leafLink"} /\ s = M.next

Locking(M) ==
  /\ \A s : Owns(M, s) => s \in Slots /\ Taken(s) /\ (IsLeaf(s) => Parting(M, s))
  /\ M.pc \in KeepsParent /\ M.pc \in KeepsNode \cup CopiesNode => M.node # M.parent

(* A version that is still the word of a node vouches for the pointer read  *)
(* there; so does a lock.                                                   *)
Current(M) ==
  /\ M.pc = "hit" /\ M.next # Nil /\ Word(M.node) = M.v => Links(M.node, M.next)
  /\ M.pc = "anyCheck" /\ Word(M.cursor) = M.lv => Links(M.cursor, M.any)
  /\ M.pc \in {"childCheck", "further", "leafLockNode"} /\ M.next # Nil /\ Word(M.node) = M.v =>
        HasChild(M.node, M.byte, M.next)
  /\ M.pc = "insert" /\ M.node # Nil /\ Word(M.node) = M.pv => HasChild(M.node, M.byte, M.next)
  /\ M.op = "insert" /\ M.pc # "insert" /\ M.parent # Nil /\ Word(M.parent) = M.pv =>
        HasChild(M.parent, M.pbyte, M.node)
  /\ M.pc \in {"growNode", "growBuild", "growLink", "splitNode", "splitBuild", "splitLink"} =>
        HasChild(M.parent, M.pbyte, M.node)
  /\ M.pc \in {"leafWrite", "leafBuild", "leafObsolete", "leafMark", "leafLink"} =>
        HasChild(M.node, M.byte, M.next)

(* The node that a call has built and not yet linked is its own.            *)
Preparing == {"putInsert", "growLink", "splitLink", "leafObsolete", "leafMark", "leafLink"}

Prepared(M) ==
  M.pc \in Preparing =>
     /\ M.fresh \in Slots \ {Root} /\ Free(M.fresh) /\ retired[M.fresh] = {}
     /\ \A q \in Slots : ~Links(q, M.fresh)

Knows(M) == KindsKnown(M) /\ Locking(M) /\ Current(M) /\ Prepared(M)

KnowsOK == \A t \in Threads : Calls(loc[t]) => Knows(loc[t])
-----------------------------------------------------------------------------
(* What holds between calls.                                                *)
HeldBy(M) ==
  {M.node, M.parent, M.cursor}
     \cup (IF M.pc \in {"hit", "childCheck"} THEN {} ELSE {M.next})
     \cup (IF M.pc = "anyCheck" THEN {} ELSE {M.any})

Apart(M, N) ==
  /\ \A s : ~(Owns(M, s) /\ Owns(N, s))
  /\ M.pc \in Preparing /\ N.pc \in Preparing => M.fresh # N.fresh

ApartOK == \A t, u \in Threads : t # u => Apart(loc[t], loc[u])

UnheldOK ==
  \A t, u \in Threads :
     loc[t].pc \in Preparing /\ Calls(loc[u]) => loc[t].fresh \notin HeldBy(loc[u])

(* Copies of a node have its id; only one of them is live.                  *)
OneLive ==
  \A p, q \in Slots :
     Inner(p) /\ Inner(q) /\ p # q /\ mem[p].id = mem[q].id => ~Live(p) \/ ~Live(q)

LeavesOK ==
  \A s \in Slots :
     IsLeaf(s) /\ ~Free(s) =>
        \/ \E u \in Threads : Parting(loc[u], s)
        \/ \A q \in Slots : Links(q, s) => ~Live(q)

(* A slot whose pointer was overwritten, or that was handed over to be freed, *)
(* has no parent that is live, but for the one that is about to lose it.      *)
Removing(M, s) ==
  M.pc \in {"growObsolete", "growMark", "splitUnlock", "splitObsolete", "splitMark"} /\ s = M.node
Leaving(M, q, s) == M.pc = "leafLink" /\ q = M.node /\ s = M.next
Removed(s) == retired[s] # {} \/ \E u \in Threads : Removing(loc[u], s)

CutOK ==
  \A s \in Slots : Removed(s) =>
     \A q \in Slots : Links(q, s) => ~Live(q) \/ \E u \in Threads : Leaving(loc[u], q, s)

(* From the lock of its parent on a slot is claimed: calls that begin later *)
(* do not hold it.                                                          *)
ClaimsNode == {"growNode", "growBuild", "growLink", "growObsolete", "growMark", "splitNode",
               "splitBuild", "splitLink", "splitUnlock", "splitObsolete", "splitMark"}
ClaimsNext == {"leafWrite", "leafBuild", "leafObsolete", "leafMark"}
Claims(M, s) ==
  \/ M.pc \in ClaimsNode /\ s = M.node
  \/ M.pc \in ClaimsNext /\ s = M.next

GraceOK ==
  \A t \in Threads : Calls(loc[t]) =>
     \A s \in HeldBy(loc[t]) \cap Slots :
        /\ \A u \in Threads : Claims(loc[u], s) => Ticket(t) \in loc[u].claim
        /\ \A r \in retired[s] : Ticket(t) \in r.waiting

LInv ==
  /\ SlotsOK /\ KnowsOK /\ ApartOK /\ UnheldOK
  /\ OneLive /\ LeavesOK /\ CutOK /\ GraceOK
-----------------------------------------------------------------------------
(* Facts of one state.                                                      *)
LEMMA WordBits ==
  ASSUME NEW w \in Nat
  PROVE  /\ Readable(w) <=> w % 4 = 0
         /\ w % 4 = 0 => (w + 2) % 4 = 2 /\ w + 2 # w
         /\ w % 4 = 2 => (w + 2) % 4 = 0 /\ (w + 3) % 4 = 1
         /\ 4 % 4 = 0
  BY DEF Readable, IsLocked, IsObsolete

LEMMA Holdings ==
  ASSUME Root \in Slots, NEW L, CallOK(L)
  PROVE  /\ Calls(L)
         /\ HeldBy(L) \subseteq Slots \cup {Nil}
         /\ \A s : Claims(L, s) \/ Removing(L, s) => s \in HeldBy(L)
<1>1. CASE L.op = "lookup" /\ LookupOK(L)
  <2>1. L.node \in Slots \cup {Nil} /\ (L.pc # "hit" => L.next \in Slots)
    BY <1>1 DEF LookupOK, Versioned
  <2> QED
    BY <1>1, <2>1 DEF LookupOK, Calls, HeldBy, Claims, Removing, Looking, ClaimsNode, ClaimsNext
<1>2. CASE L.op = "insert" /\ InsertOK(L)
  <2>1. Calls(L)
    BY <1>2 DEF InsertOK, Calls, Descending, Putting, Replacing, Growing, Splitting, LeafSplitting
  <2>2. /\ L.cursor \in Slots \cup {Nil} /\ L.node \in Slots \cup {Nil}
        /\ L.parent \in Slots \cup {Nil}
        /\ L.pc # "childCheck" => L.next \in Slots \cup {Nil}
        /\ L.pc # "anyCheck" => L.any \in Slots \cup {Nil}
    BY <1>2 DEF InsertOK, Arriving, Arrived, Here, Reading, Versioned
  <2>3. L.pc # "hit"
    BY <1>2 DEF InsertOK, Descending, Putting, Replacing, Growing, Splitting, LeafSplitting
  <2>4. \A s : Claims(L, s) \/ Removing(L, s) => s \in HeldBy(L)
    BY DEF HeldBy, Claims, Removing, ClaimsNode, ClaimsNext
  <2> QED
    BY <2>1, <2>2, <2>3, <2>4 DEF HeldBy
<1> QED
  BY <1>1, <1>2 DEF CallOK

LEMMA Callers ==
  ASSUME TInv, NEW t \in Threads, Calls(loc[t])
  PROVE  /\ CallOK(loc[t]) /\ HeldBy(loc[t]) \subseteq Slots \cup {Nil}
         /\ \A s : Claims(loc[t], s) \/ Removing(loc[t], s) => s \in HeldBy(loc[t]) \cap Slots
<1>1. loc[t] # Idle /\ loc[t].pc # "done"
  BY DEF Calls, Idle
<1>2. CallOK(loc[t]) /\ Root \in Slots
  BY <1>1 DEF TInv, LocalOK, MemOK
<1>3. \A s : Claims(loc[t], s) \/ Removing(loc[t], s) => s # Nil
  <2>1. CallOK(loc[t]) /\ loc[t].pc \in ClaimsNode \cup ClaimsNext \cup
           {"growObsolete", "growMark", "splitUnlock", "splitObsolete", "splitMark"} => InsertOK(loc[t])
    BY DEF CallOK, LookupOK, Looking, ClaimsNode, ClaimsNext
  <2>2. loc[t].pc \in ClaimsNext /\ InsertOK(loc[t]) => loc[t].next \in Slots
    BY DEF InsertOK, Reading, Under, ClaimsNext, LeafSplitting, Descending, Putting, Replacing
  <2>3. loc[t].pc \in ClaimsNode /\ InsertOK(loc[t]) => loc[t].node \in Slots
    BY DEF InsertOK, Arrived, Here, Versioned, ClaimsNode
  <2>4. Nil \notin Slots
    BY DEF Slots, Nil
  <2> QED
    BY <1>2, <2>1, <2>2, <2>3, <2>4 DEF Claims, Removing, ClaimsNode
<1> QED
  BY <1>2, <1>3, Holdings

LEMMA Idlers ==
  ASSUME NEW M, ~Calls(M)
  PROVE  /\ \A s : ~Owns(M, s) /\ ~Keeps(M, s) /\ ~Claims(M, s) /\ ~Parting(M, s) /\ ~Removing(M, s)
         /\ \A q, s : ~Leaving(M, q, s)
         /\ M.pc \notin Preparing
  BY DEF Calls, Owns, Keeps, Copies, Claims, Parting, Removing, Leaving, Preparing,
         KeepsNode, CopiesNode, KeepsParent, KeepsNext, ClaimsNode, ClaimsNext

(* A pointer is under one byte of its parent, and no pointer leads to the root. *)
LEMMA Pointers ==
  ASSUME TInv, SlotsOK, NEW q \in Slots, NEW s \in Slots, Links(q, s)
  PROVE  /\ Inner(q) /\ s # Root
         /\ \A b, c : HasChild(q, b, s) /\ HasChild(q, c, s) => b = c
         /\ \A p \in Slots : Links(p, s) => Inner(p) /\ mem[p].id = mem[q].id
<1>1. Nil \notin Slots
  BY DEF Slots, Nil
<1>2. \A p \in Slots : \A b : HasChild(p, b, s) => mem[s].hash = <<mem[p].id, b>>
  <2> SUFFICES ASSUME NEW p \in Slots, NEW b, HasChild(p, b, s) PROVE mem[s].hash = <<mem[p].id, b>>
    OBVIOUS
  <2>1. b \in Bytes(mem[p]) /\ mem[p].child[b] = s
    BY <1>1 DEF HasChild, Bytes
  <2>2. mem[mem[p].child[b]].hash = IdHash(p, b)
    BY <2>1 DEF TInv, HashesAgree
  <2> QED
    BY <2>1, <2>2 DEF IdHash
<1>3. \A p \in Slots : Links(p, s) => Inner(p) /\ \E b : HasChild(p, b, s)
  BY DEF SlotsOK, Inner, Links, HasChild
<1>4. s # Root
  <2>1. mem[q].id # 0
    BY <1>3 DEF SlotsOK, Inner
  <2>2. PICK b : mem[s].hash = <<mem[q].id, b>>
    BY <1>2, <1>3
  <2> QED
    BY <2>1, <2>2 DEF SlotsOK
<1> QED
  BY <1>2, <1>3, <1>4

LEMMA OneParent ==
  ASSUME TInv, SlotsOK, OneLive, NEW p \in Slots, NEW q \in Slots, NEW s \in Slots,
         p # q, Links(p, s), Links(q, s)
  PROVE  ~Live(p) \/ ~Live(q)
  BY Pointers DEF OneLive

LEMMA RootUnclaimed ==
  TInv /\ SlotsOK /\ KnowsOK => \A u \in Threads : ~Claims(loc[u], Root)
<1> SUFFICES ASSUME TInv, SlotsOK, KnowsOK, NEW u \in Threads, NEW M, M = loc[u], Claims(M, Root)
             PROVE  FALSE
  OBVIOUS
<1>1. CallOK(M) /\ M.pc \in ClaimsNode \cup ClaimsNext
  BY Callers, Idlers DEF Claims
<1>2. InsertOK(M) /\ M.op = "insert" /\ KindsKnown(M)
  <2>1. InsertOK(M) /\ M.op = "insert"
    BY <1>1 DEF CallOK, LookupOK, Looking, ClaimsNode, ClaimsNext
  <2>2. Calls(M)
    BY <1>1, Idlers
  <2> QED
    BY <2>1, <2>2 DEF KnowsOK, Knows
<1>3. \E q, b : Inner(q) /\ Under(Root, q, b)
  <2>1. CASE M.pc \in ClaimsNode /\ Root = M.node
    <3>1. M.pc \in Replacing
      BY <2>1 DEF ClaimsNode, Replacing, Growing, Splitting
    <3>2. M.parent # Nil /\ Under(M.node, M.parent, M.pbyte)
      BY <1>2, <3>1 DEF InsertOK, Arrived, Here, Replacing, Growing, Splitting
    <3> QED
      BY <1>2, <2>1, <3>2 DEF KindsKnown
  <2>2. CASE M.pc \in ClaimsNext /\ Root = M.next
    <3>1. M.pc \in LeafSplitting
      BY <2>2 DEF ClaimsNext, LeafSplitting
    <3>2. Under(M.next, M.node, M.byte) /\ M.node \in Slots
      BY <1>2, <3>1 DEF InsertOK, Reading, Arrived, Here, Versioned, LeafSplitting
    <3>3. M.node # Nil
      BY <3>2 DEF Slots, Nil
    <3> QED
      BY <1>2, <2>2, <3>2, <3>3 DEF KindsKnown
  <2> QED
    BY <1>1, <2>1, <2>2 DEF Claims
<1> QED
  BY <1>3 DEF Under, IdHash, SlotsOK, Inner

(* A slot that some call has claimed is not found in a node that is not locked. *)
LEMMA NotFound ==
  ASSUME TInv, LInv, NEW q \in Slots, NEW s \in Slots, Links(q, s), Free(q)
  PROVE  retired[s] = {} /\ \A u \in Threads : ~Claims(loc[u], s)
<1>1. Live(q) /\ ~Taken(q)
  BY DEF Live, Free, Taken
<1>2. \A u \in Threads : ~Owns(loc[u], q)
  BY <1>1, Idlers DEF LInv, KnowsOK, Knows, Locking
<1>3. \A u \in Threads : ~Leaving(loc[u], q, s)
  BY <1>2 DEF Leaving, Owns, Keeps, KeepsNode
<1>4. ~Removed(s)
  BY <1>1, <1>3 DEF LInv, CutOK
<1>5. ASSUME NEW u \in Threads, Claims(loc[u], s) PROVE FALSE
  <2> DEFINE M == loc[u]
  <2>1. Calls(M)
    BY <1>5, Idlers
  <2>2. Locking(M) /\ Current(M)
    BY <2>1 DEF LInv, KnowsOK, Knows
  <2>3. ~Removing(M, s)
    BY <1>4 DEF Removed
  <2>4. \E p : Keeps(M, p) /\ Links(p, s)
    <3>1. CASE M.pc \in {"growNode", "growBuild", "growLink", "splitNode", "splitBuild", "splitLink"}
      BY <1>5, <2>2, <3>1 DEF Current, HasChild, Links, Keeps, KeepsParent, Claims, ClaimsNext
    <3>2. CASE M.pc \in {"leafWrite", "leafBuild", "leafObsolete", "leafMark"}
      BY <1>5, <2>2, <3>2 DEF Current, HasChild, Links, Keeps, KeepsNode, Claims, ClaimsNode
    <3> QED
      BY <1>5, <2>3, <3>1, <3>2 DEF Claims, Removing, ClaimsNode, ClaimsNext
  <2>5. PICK p : Keeps(M, p) /\ Links(p, s)
    BY <2>4
  <2>6. p \in Slots /\ Live(p) /\ p # q
    BY <1>2, <2>2, <2>5 DEF Locking, Owns, Live
  <2> QED
    BY <1>1, <2>5, <2>6, OneParent DEF LInv
<1> QED
  BY <1>4, <1>5 DEF Removed
-----------------------------------------------------------------------------
(* What a step may do that turns the local variables M of its thread into N. *)

(* Words change by locking what was free and by unlocking what is owned;    *)
(* children change in what is kept; records are made of what is claimed.    *)
Writes(M, N) ==
  \A s \in Slots :
     /\ \/ mem'[s].word = mem[s].word
        \/ Free(s) /\ Keeps(N, s) /\ Calls(M) /\ s \in HeldBy(M) /\ mem'[s].word % 4 = 2
        \/ Owns(M, s) /\ ~Owns(N, s) /\ mem'[s].word % 4 = 1
        \/ Keeps(M, s) /\ ~Owns(N, s) /\ mem'[s].word % 4 = 0
     /\ mem'[s].child = mem[s].child \/ (Keeps(M, s) /\ Inner(s))
     /\ \A x : Links(s, x)' => Links(s, x) \/ (M.pc \in Preparing /\ x = M.fresh)
     /\ \A r \in retired'[s] : r \in retired[s] \/ (Claims(M, s) /\ r.waiting = M.claim)

Locks(M, N) ==
  /\ \A s \in Slots : /\ Keeps(N, s) => Keeps(M, s) \/ Free(s)
                      /\ Copies(N, s) => Owns(M, s)
  /\ \A s : Claims(N, s) =>
        \/ Claims(M, s) /\ N.claim = M.claim
        \/ N.claim = Running /\ Calls(M) /\ HeldBy(N) \subseteq HeldBy(M)
  /\ N.pc \in Preparing => (M.pc \in Preparing /\ N.fresh = M.fresh) \/ N.fresh \notin Slots

(* A pointer comes from a node that is not locked.                          *)
Acquires(M, N) ==
  Calls(N) =>
     \A s \in HeldBy(N) :
        \/ s \in {Nil, Root}
        \/ Calls(M) /\ s \in HeldBy(M)
        \/ \E q \in Slots : Free(q) /\ Links(q, s)

Cuts(M, N) ==
  \A s \in Slots :
     /\ Parting(M, s) => Parting(N, s) \/ \A q \in Slots' : Links(q, s)' => ~Live(q)'
     /\ Removing(N, s) \/ retired'[s] # {} =>
           \/ Removed(s)
           \/ \A q \in Slots' : Links(q, s)' => ~Live(q)' \/ Leaving(N, q, s)
     /\ \A q \in Slots : Leaving(M, q, s) => Leaving(N, q, s) \/ ~Links(q, s)'

(* New slots: leaves, new nodes, and at most one copy of the node.          *)
Copying(M) == M.pc \in {"growBuild", "splitBuild"} /\ ~Live(M.node)'

Adds(M) ==
  \A s \in Slots' \ Slots :
     /\ mem'[s].word % 4 = 0 /\ retired'[s] = {}
     /\ mem'[s].kind = 0 => DOMAIN mem'[s].child = {}
     /\ mem'[s].kind # 0 =>
           /\ mem'[s].id \in 1..Len(mem')
           /\ mem'[s].id > Len(mem) \/ (Copying(M) /\ mem'[s].id = mem[M.node].id)
     /\ \A p \in Slots' \ Slots :
           p # s /\ mem'[p].kind # 0 /\ mem'[s].kind # 0 => mem'[p].id # mem'[s].id
     /\ \A x \in Slots : Links(s, x)' => Copying(M) /\ Links(M.node, x)

Careful(M, N) == Writes(M, N) /\ Locks(M, N) /\ Acquires(M, N) /\ Cuts(M, N) /\ Adds(M)

(* The step of thread t that does so.                                       *)
Moving(t, M, N) ==
  /\ TInv /\ TInv' /\ LInv /\ Grows
  /\ M = loc[t] /\ N = loc'[t]
  /\ \A u \in Threads : u # t => loc'[u] = loc[u]
  /\ \A u \in Threads : u # t /\ Calls(loc[u]) => Ticket(u)' = Ticket(u)
  /\ Calls(M) /\ Calls(N) => Ticket(t)' = Ticket(t)

Turns(t, M, N) == Moving(t, M, N) /\ Careful(M, N) /\ (Calls(N) => Knows(N)')

LEMMA Unchanging ==
  ASSUME NEW t \in Threads, NEW M, NEW N, Moving(t, M, N)
  PROVE  /\ Slots \subseteq Slots' /\ Root \in Slots
         /\ \A s \in Slots : /\ mem[s].word \in Nat /\ mem'[s].word \in Nat
                             /\ mem'[s].word >= mem[s].word
                             /\ mem'[s].kind = mem[s].kind /\ mem'[s].id = mem[s].id
                             /\ IsLeaf(s)' <=> IsLeaf(s)
                             /\ Inner(s)' <=> Inner(s)
         /\ \A u \in Threads : \A s : Owns(loc[u], s) => s \in Slots /\ Taken(s)
         /\ \A u \in Threads : u # t => \A s : Owns(loc[u], s) => ~Owns(M, s)
<1>1. /\ Slots \subseteq Slots' /\ Root \in Slots
      /\ \A s \in Slots : /\ mem[s].word \in Nat /\ mem'[s].word \in Nat
                          /\ mem'[s].word >= mem[s].word
                          /\ mem'[s].kind = mem[s].kind /\ mem'[s].id = mem[s].id
  BY DEF Moving, TInv, MemOK, Grows, Lasting
<1>2. \A s \in Slots : (IsLeaf(s)' <=> IsLeaf(s)) /\ (Inner(s)' <=> Inner(s))
  BY <1>1 DEF IsLeaf, Inner
<1>3. \A u \in Threads : \A s : Owns(loc[u], s) => s \in Slots /\ Taken(s)
  BY Idlers DEF Moving, LInv, KnowsOK, Knows, Locking
<1>4. \A u \in Threads : u # t => \A s : Owns(loc[u], s) => ~Owns(M, s)
  BY DEF Moving, LInv, ApartOK, Apart
<1> QED
  BY <1>1, <1>2, <1>3, <1>4

(* What is not live stays so.                                               *)
LEMMA NotRevived ==
  ASSUME NEW t \in Threads, NEW M, NEW N, Moving(t, M, N), Writes(M, N), Locks(M, N),
         NEW s \in Slots, Live(s)'
  PROVE  Live(s)
<1>1. CASE Free(s)'
  <2>1. Free(s) \/ Keeps(M, s)
    BY <1>1 DEF Writes, Free
  <2> QED
    BY <2>1 DEF Live, Moving
<1>2. ASSUME NEW u \in Threads, Keeps(loc'[u], s) PROVE Live(s)
  <2>1. CASE u # t
    BY <1>2, <2>1 DEF Moving, Live
  <2>2. CASE u = t
    <3>1. Keeps(M, s) \/ Free(s)
      BY <1>2, <2>2 DEF Moving, Locks
    <3> QED
      BY <3>1 DEF Live, Moving
  <2> QED
    BY <2>1, <2>2
<1> QED
  BY <1>1, <1>2 DEF Live
-----------------------------------------------------------------------------
(* What other calls know stays true.                                        *)
LEMMA Vouched ==
  ASSUME NEW t \in Threads, NEW M, NEW N, Moving(t, M, N), Writes(M, N), NEW q, NEW v, Versioned(q, v)
  PROVE  Word(q)' = v => Word(q) = v /\ mem'[q].child = mem[q].child
<1> SUFFICES ASSUME Word(q)' = v PROVE Word(q) = v /\ mem'[q].child = mem[q].child
  OBVIOUS
<1>1. q \in Slots /\ Readable(v) /\ Word(q) = v
  BY Unchanging DEF Versioned, Word
<1>2. ~Taken(q)
  BY <1>1, WordBits DEF Taken, Word, Versioned
<1>3. ~Keeps(M, q)
  BY <1>2, Unchanging DEF Moving, Owns
<1> QED
  BY <1>1, <1>3 DEF Writes

LEMMA Protected ==
  ASSUME NEW t \in Threads, NEW M, NEW N, Turns(t, M, N), NEW u \in Threads, u # t,
         NEW q, Keeps(loc[u], q)
  PROVE  q \in Slots /\ mem'[q].child = mem[q].child
<1>1. Owns(loc[u], q)
  BY DEF Owns
<1>2. q \in Slots /\ ~Owns(M, q)
  BY <1>1, Unchanging DEF Turns
<1>3. Writes(M, N) /\ ~Keeps(M, q)
  BY <1>2 DEF Turns, Moving, Careful, Owns
<1> QED
  BY <1>2, <1>3 DEF Writes

LEMMA StillCurrent ==
  ASSUME NEW t \in Threads, NEW M, NEW N, Turns(t, M, N), NEW u \in Threads, u # t,
         NEW U, U = loc[u], Calls(U)
  PROVE  Current(U)'
<1>1. CallOK(U) /\ Current(U)
  BY Callers DEF Turns, Moving, LInv, KnowsOK, Knows
<1>2. \A q, v : Versioned(q, v) /\ Word(q)' = v => Word(q) = v /\ mem'[q].child = mem[q].child
  BY Vouched DEF Turns, Careful
<1>3. \A q : Keeps(U, q) => mem'[q].child = mem[q].child
  BY Protected
<1>4. \A q : mem'[q].child = mem[q].child =>
         \A b, s : /\ HasChild(q, b, s) => HasChild(q, b, s)'
                   /\ Links(q, s) => Links(q, s)'
  BY DEF HasChild, Links
<1>5. U.pc = "hit" => Versioned(U.node, U.v)
  <2>1. U.pc = "hit" => ~InsertOK(U)
    BY DEF InsertOK, Descending, Putting, Replacing, Growing, Splitting, LeafSplitting
  <2> QED
    BY <1>1, <2>1 DEF CallOK, LookupOK
<1>6. U.pc # "hit" /\ (U.op = "insert" \/ U.pc \notin Looking) => InsertOK(U)
  BY <1>1 DEF CallOK, LookupOK
<1>7. U.pc \in {"anyCheck", "childCheck", "further", "leafLockNode", "insert"} =>
         /\ U.pc = "anyCheck" => Versioned(U.cursor, U.lv)
         /\ U.pc = "insert" /\ U.node # Nil => Versioned(U.node, U.pv)
         /\ U.pc \in {"childCheck", "further", "leafLockNode"} => Versioned(U.node, U.v)
  BY <1>6 DEF InsertOK, Reading, Arrived, Here, Arriving, Looking
<1>8. U.op = "insert" /\ U.pc # "insert" /\ U.parent # Nil => Versioned(U.parent, U.pv)
  BY <1>1 DEF CallOK, InsertOK, Arrived, Here
<1>9. U.pc = "hit" /\ U.next # Nil /\ Word(U.node)' = U.v => Links(U.node, U.next)'
  BY <1>1, <1>2, <1>4, <1>5 DEF Current
<1>10. U.pc = "anyCheck" /\ Word(U.cursor)' = U.lv => Links(U.cursor, U.any)'
  BY <1>1, <1>2, <1>4, <1>7 DEF Current
<1>11. U.pc \in {"childCheck", "further", "leafLockNode"} /\ U.next # Nil /\ Word(U.node)' = U.v =>
          HasChild(U.node, U.byte, U.next)'
  BY <1>1, <1>2, <1>4, <1>7 DEF Current
<1>12. U.pc = "insert" /\ U.node # Nil /\ Word(U.node)' = U.pv => HasChild(U.node, U.byte, U.next)'
  BY <1>1, <1>2, <1>4, <1>7 DEF Current
<1>13. U.op = "insert" /\ U.pc # "insert" /\ U.parent # Nil /\ Word(U.parent)' = U.pv =>
          HasChild(U.parent, U.pbyte, U.node)'
  BY <1>1, <1>2, <1>4, <1>8 DEF Current
<1>14. U.pc \in {"growNode", "growBuild", "growLink", "splitNode", "splitBuild", "splitLink"} =>
          HasChild(U.parent, U.pbyte, U.node)'
  BY <1>1, <1>3, <1>4 DEF Current, Keeps, KeepsParent
<1>15. U.pc \in {"leafWrite", "leafBuild", "leafObsolete", "leafMark", "leafLink"} =>
          HasChild(U.node, U.byte, U.next)'
  BY <1>1, <1>3, <1>4 DEF Current, Keeps, KeepsNode
<1> QED
  BY <1>9, <1>10, <1>11, <1>12, <1>13, <1>14, <1>15 DEF Current

LEMMA StillKnown ==
  ASSUME NEW t \in Threads, NEW M, NEW N, Turns(t, M, N), NEW u \in Threads, u # t,
         NEW U, U = loc[u], Calls(U)
  PROVE  Knows(U)'
<1>1. Knows(U) /\ TInv /\ LInv
  BY DEF Turns, Moving, LInv, KnowsOK
<1>2. KindsKnown(U)'
  BY <1>1, Unchanging DEF Turns, Knows, KindsKnown, Inner, IsLeaf
<1>3. Locking(U)'
  <2>1. ASSUME NEW s, Owns(U, s) PROVE (s \in Slots /\ Taken(s) /\ (IsLeaf(s) => Parting(U, s)))'
    <3>1. s \in Slots /\ Taken(s) /\ ~Free(s) /\ ~Owns(M, s) /\ (IsLeaf(s) => Parting(U, s))
      BY <1>1, <2>1, Unchanging DEF Turns, Knows, Locking, Free, Taken
    <3>2. mem'[s].word = mem[s].word
      BY <3>1 DEF Turns, Moving, Careful, Writes, Owns
    <3> QED
      BY <3>1, <3>2, Unchanging DEF Turns, Taken
  <2> QED
    BY <1>1, <2>1 DEF Knows, Locking
<1>4. Prepared(U)'
  <2> SUFFICES ASSUME U.pc \in Preparing
               PROVE  (/\ U.fresh \in Slots \ {Root} /\ Free(U.fresh) /\ retired[U.fresh] = {}
                       /\ \A q \in Slots : ~Links(q, U.fresh))'
    BY DEF Prepared
  <2> DEFINE x == U.fresh
  <2>1. /\ x \in Slots \ {Root} /\ Free(x) /\ retired[x] = {} /\ ~Taken(x)
        /\ \A q \in Slots : ~Links(q, x)
    BY <1>1 DEF Knows, Prepared, Free, Taken
  <2>2. /\ M.pc \in Preparing => M.fresh # x
        /\ Calls(M) => x \notin HeldBy(M)
    BY <1>1 DEF Turns, Moving, LInv, ApartOK, Apart, UnheldOK
  <2> HIDE DEF x
  <2>3. ~Owns(M, x) /\ ~Claims(M, x)
    BY <2>1, <2>2, Unchanging, Callers, Idlers DEF Turns, Moving
  <2>4. mem'[x].word = mem[x].word /\ retired'[x] = {}
    BY <2>1, <2>2, <2>3 DEF Turns, Moving, Careful, Writes, Owns
  <2>5. ASSUME NEW q \in Slots' PROVE ~Links(q, x)'
    <3>1. CASE q \in Slots
      BY <2>1, <2>2, <3>1 DEF Turns, Moving, Careful, Writes
    <3>2. CASE q \notin Slots
      <4>1. Links(q, x)' => Copying(M) /\ Links(M.node, x)
        BY <2>1, <3>2 DEF Turns, Moving, Careful, Adds
      <4>2. Copying(M) => Owns(M, M.node)
        BY DEF Copying, Owns, Keeps, KeepsNode
      <4>3. Copying(M) => M.node \in Slots
        BY <4>2, Unchanging DEF Turns, Moving
      <4> QED
        BY <2>1, <4>1, <4>3
    <3> QED
      BY <3>1, <3>2
  <2> QED
    BY <2>1, <2>4, <2>5, Unchanging DEF Turns, Free, x
<1>5. Current(U)'
  BY StillCurrent
<1> QED
  BY <1>2, <1>3, <1>4, <1>5 DEF Knows
-----------------------------------------------------------------------------
(* Each part of the invariant after such a step.                            *)
LEMMA SlotsStay ==
  ASSUME NEW t \in Threads, NEW M, NEW N, Turns(t, M, N)
  PROVE  SlotsOK'
<1>1. TInv /\ SlotsOK /\ Writes(M, N) /\ Adds(M)
  BY DEF Turns, Moving, LInv, Careful
<1>2. Len(mem) \in Nat /\ Len(mem') \in Nat /\ Len(mem) <= Len(mem')
  <2>1. Len(mem) \in Nat /\ Len(mem') \in Nat
    BY Sequence DEF Turns, Moving, TInv, MemOK
  <2>2. Len(mem) > 0 => Len(mem) \in Slots'
    BY <2>1, Unchanging DEF Turns, Slots
  <2> QED
    BY <2>1, <2>2 DEF Slots
<1>3. ASSUME NEW s \in Slots
      PROVE  /\ mem'[s].word % 4 \in {0, 1, 2}
             /\ mem'[s].kind = 0 => DOMAIN mem'[s].child = {}
             /\ mem'[s].kind # 0 => mem'[s].id \in 1..Len(mem')
  <2>1. mem'[s].word % 4 \in {0, 1, 2}
    BY <1>1 DEF SlotsOK, Writes
  <2>2. mem'[s].kind = 0 => DOMAIN mem'[s].child = {}
    BY <1>1, Unchanging DEF Turns, SlotsOK, Writes, Inner
  <2>3. mem'[s].kind # 0 => mem'[s].id \in 1..Len(mem')
    BY <1>1, <1>2, Unchanging DEF Turns, SlotsOK
  <2> QED
    BY <2>1, <2>2, <2>3
<1>4. \A s \in Slots' \ Slots :
        /\ mem'[s].word % 4 \in {0, 1, 2}
        /\ mem'[s].kind = 0 => DOMAIN mem'[s].child = {}
        /\ mem'[s].kind # 0 => mem'[s].id \in 1..Len(mem')
  BY <1>1 DEF Adds
<1>5. ~Claims(M, Root)
  BY RootUnclaimed DEF Turns, Moving, LInv
<1>6. mem'[Root].hash = <<0, 0>>
  BY <1>1, Unchanging DEF Turns, Moving, SlotsOK, Grows, Lasting
<1>7. retired'[Root] = {}
  BY <1>1, <1>5, Unchanging DEF Turns, SlotsOK, Writes
<1> QED
  BY <1>3, <1>4, <1>6, <1>7 DEF SlotsOK

LEMMA ApartStays ==
  ASSUME NEW t \in Threads, NEW M, NEW N, Turns(t, M, N)
  PROVE  ApartOK'
<1>1. ASSUME NEW u \in Threads, u # t
      PROVE  Apart(N, loc[u]) /\ Apart(loc[u], N)
  <2> DEFINE U == loc[u]
  <2>1. ASSUME NEW s, Owns(N, s), Owns(U, s) PROVE FALSE
    <3>1. s \in Slots /\ Taken(s) /\ ~Free(s) /\ ~Owns(M, s)
      BY <1>1, <2>1, Unchanging DEF Turns, Free, Taken
    <3> QED
      BY <2>1, <3>1 DEF Turns, Moving, Careful, Locks, Owns
  <2>2. N.pc \in Preparing /\ U.pc \in Preparing => N.fresh # U.fresh
    <3>1. U.pc \in Preparing => Prepared(U)
      BY Idlers DEF Turns, Moving, LInv, KnowsOK, Knows
    <3>2. M.pc \in Preparing /\ U.pc \in Preparing => M.fresh # U.fresh
      BY <1>1 DEF Turns, Moving, LInv, ApartOK, Apart
    <3> QED
      BY <3>1, <3>2 DEF Turns, Moving, Careful, Locks, Prepared
  <2> QED
    BY <2>1, <2>2 DEF Apart
<1>2. \A u, w \in Threads : u # w /\ u # t /\ w # t => Apart(loc[u], loc[w])
  BY DEF Turns, Moving, LInv, ApartOK
<1>3. ASSUME NEW u \in Threads, NEW w \in Threads, u # w PROVE Apart(loc'[u], loc'[w])
  BY <1>1, <1>2, <1>3 DEF Turns, Moving
<1> QED
  BY <1>3 DEF ApartOK, Apart, Owns, Keeps, Copies
LEMMA Gains ==
  ASSUME NEW t \in Threads, NEW M, NEW N, Turns(t, M, N),
         NEW u \in Threads, Calls(loc'[u]), NEW s \in HeldBy(loc'[u])
  PROVE  /\ s \in Slots \cup {Nil}
         /\ \/ s \in {Nil, Root}
            \/ Calls(loc[u]) /\ s \in HeldBy(loc[u])
            \/ \E q \in Slots : Free(q) /\ Links(q, s)
<1>1. \/ s \in {Nil, Root}
      \/ Calls(loc[u]) /\ s \in HeldBy(loc[u])
      \/ \E q \in Slots : Free(q) /\ Links(q, s)
  BY DEF Turns, Moving, Careful, Acquires
<1>2. \A q \in Slots : Links(q, s) => s \in Slots \cup {Nil}
  BY DEF Turns, Moving, TInv, MemOK, Links
<1>3. Calls(loc[u]) => HeldBy(loc[u]) \subseteq Slots \cup {Nil}
  BY Callers DEF Turns, Moving
<1> QED
  BY <1>1, <1>2, <1>3, Unchanging DEF Turns

LEMMA UnheldStays ==
  ASSUME NEW t \in Threads, NEW M, NEW N, Turns(t, M, N)
  PROVE  UnheldOK'
<1> SUFFICES ASSUME NEW a \in Threads, NEW b \in Threads,
                    NEW x, x = loc'[a].fresh, loc'[a].pc \in Preparing,
                    Calls(loc'[b]), x \in HeldBy(loc'[b])
             PROVE  FALSE
  BY DEF UnheldOK, HeldBy, Calls
<1>1. /\ x \in Slots \cup {Nil}
      /\ \/ x \in {Nil, Root}
         \/ Calls(loc[b]) /\ x \in HeldBy(loc[b])
         \/ \E q \in Slots : Free(q) /\ Links(q, x)
  BY Gains
<1>2. ASSUME NEW A, A = loc[a], A.pc \in Preparing, A.fresh = x PROVE FALSE
  <2>1. Prepared(A)
    BY <1>2, Idlers DEF Turns, Moving, LInv, KnowsOK, Knows
  <2>2. Calls(loc[b]) => x \notin HeldBy(loc[b])
    BY <1>2 DEF Turns, Moving, LInv, UnheldOK
  <2> QED
    BY <1>1, <1>2, <2>1, <2>2 DEF Prepared, Slots, Nil
<1>3. CASE a # t
  BY <1>2, <1>3 DEF Turns, Moving
<1>4. CASE a = t
  <2>1. x \notin Slots
    BY <1>2, <1>4 DEF Turns, Moving, Careful, Locks
  <2>2. Prepared(N)'
    BY <1>4, Idlers DEF Turns, Moving, Knows
  <2>3. x \in Slots'
    BY <1>4, <2>2 DEF Turns, Moving, Prepared
  <2> QED
    BY <1>1, <2>1, <2>3 DEF Slots, Nil
<1> QED
  BY <1>3, <1>4

(* The node that a call copies is kept until the copy is there.             *)
LEMMA Copied ==
  ASSUME NEW t \in Threads, NEW M, NEW N, Turns(t, M, N), Copying(M)
  PROVE  M.node \in Slots /\ Inner(M.node) /\ Live(M.node) /\ ~Live(M.node)' /\ Keeps(M, M.node)
<1>1. Keeps(M, M.node) /\ M.pc \in {"growBuild", "splitBuild"} /\ ~Live(M.node)'
  BY DEF Copying, Keeps, KeepsNode
<1>2. Live(M.node)
  BY <1>1 DEF Turns, Moving, Live
<1>3. Calls(M)
  BY <1>1 DEF Calls
<1>4. Locking(M)
  BY <1>3 DEF Turns, Moving, LInv, KnowsOK, Knows
<1>5. M.node \in Slots /\ ~IsLeaf(M.node)
  BY <1>1, <1>4 DEF Locking, Owns, Parting
<1> QED
  BY <1>1, <1>2, <1>5 DEF Inner, IsLeaf

LEMMA OneLiveStays ==
  ASSUME NEW t \in Threads, NEW M, NEW N, Turns(t, M, N)
  PROVE  OneLive'
<1> SUFFICES ASSUME NEW p \in Slots', NEW q \in Slots', Inner(p)', Inner(q)', p # q,
                    mem'[p].id = mem'[q].id
             PROVE  ~Live(p)' \/ ~Live(q)'
  BY DEF OneLive
<1>1. OneLive /\ SlotsOK /\ Adds(M)
  BY DEF Turns, Moving, LInv, Careful
<1>2. \A s \in Slots : Live(s)' => Live(s)
  BY NotRevived DEF Turns, Careful
<1>3. CASE p \in Slots /\ q \in Slots
  BY <1>1, <1>2, <1>3, Unchanging DEF Turns, OneLive
<1>4. CASE p \notin Slots /\ q \notin Slots
  BY <1>1, <1>4 DEF Adds, Inner
<1>5. ASSUME NEW n \in Slots' \ Slots, NEW o \in Slots, Inner(n)', Inner(o)',
             mem'[n].id = mem'[o].id
      PROVE  ~Live(o)'
  <2>1. Inner(o) /\ mem'[o].id = mem[o].id /\ mem[o].id \in 1..Len(mem)
    BY <1>1, <1>5, Unchanging DEF Turns, SlotsOK, Inner
  <2>2. Len(mem) \in Nat
    BY Sequence DEF Turns, Moving, TInv, MemOK
  <2>3. mem'[n].id \in 1..Len(mem') /\ (mem'[n].id > Len(mem) \/ (Copying(M) /\ mem'[n].id = mem[M.node].id))
    BY <1>1, <1>5 DEF Adds, Inner
  <2>4. Copying(M) /\ mem[M.node].id = mem[o].id
    BY <1>5, <2>1, <2>2, <2>3
  <2>5. Live(M.node) /\ ~Live(M.node)' /\ Inner(M.node) /\ M.node \in Slots
    BY <2>4, Copied
  <2> QED
    BY <1>1, <1>2, <2>1, <2>4, <2>5 DEF OneLive
<1> QED
  BY <1>3, <1>4, <1>5

(* A pointer to a slot of old is old, or copied, or leads to a prepared node. *)
LEMMA Pointed ==
  ASSUME NEW t \in Threads, NEW M, NEW N, Turns(t, M, N),
         NEW q \in Slots', NEW s \in Slots, Links(q, s)'
  PROVE  \/ q \in Slots /\ Links(q, s)
         \/ q \in Slots /\ M.pc \in Preparing /\ s = M.fresh
         \/ Copying(M) /\ Links(M.node, s)
  BY DEF Turns, Moving, Careful, Writes, Adds

LEMMA LeavesStay ==
  ASSUME NEW t \in Threads, NEW M, NEW N, Turns(t, M, N)
  PROVE  LeavesOK'
<1> SUFFICES ASSUME NEW s \in Slots', IsLeaf(s)', ~Free(s)'
             PROVE  \/ \E u \in Threads : Parting(loc'[u], s)
                    \/ \A q \in Slots' : Links(q, s)' => ~Live(q)'
  BY DEF LeavesOK, Parting
<1>1. s \in Slots /\ IsLeaf(s)
  <2>1. s \in Slots
    BY DEF Turns, Moving, Careful, Adds, Free
  <2> QED
    BY <2>1, Unchanging DEF Turns
<1>2. CASE Free(s)
  <2>1. Keeps(N, s)
    BY <1>1, <1>2, Unchanging DEF Turns, Moving, Careful, Writes, Free, Taken, Owns
  <2>2. Locking(N)'
    BY <2>1, Idlers DEF Turns, Moving, Knows
  <2>3. Parting(N, s)
    BY <2>1, <2>2 DEF Locking, Owns
  <2> QED
    BY <2>3 DEF Turns, Moving
<1>3. CASE ~Free(s)
  <2>1. CASE \E u \in Threads : Parting(loc[u], s)
    <3>1. PICK u \in Threads : Parting(loc[u], s)
      BY <2>1
    <3>2. CASE u # t
      BY <3>1, <3>2 DEF Turns, Moving
    <3>3. CASE u = t
      <4>1. Parting(N, s) \/ \A q \in Slots' : Links(q, s)' => ~Live(q)'
        BY <1>1, <3>1, <3>3 DEF Turns, Moving, Careful, Cuts
      <4> QED
        BY <4>1 DEF Turns, Moving
    <3> QED
      BY <3>2, <3>3
  <2>2. CASE \A q \in Slots : Links(q, s) => ~Live(q)
    <3>1. ASSUME NEW q \in Slots', Links(q, s)' PROVE ~Live(q)'
      <4>1. CASE q \in Slots /\ Links(q, s)
        BY <2>2, <4>1, NotRevived DEF Turns, Careful
      <4>2. CASE M.pc \in Preparing /\ s = M.fresh
        <5>1. Prepared(M)
          BY <4>2, Idlers DEF Turns, Moving, LInv, KnowsOK, Knows
        <5> QED
          BY <1>3, <4>2, <5>1 DEF Prepared
      <4>3. CASE Copying(M) /\ Links(M.node, s)
        BY <2>2, <4>3, Copied
      <4> QED
        BY <1>1, <3>1, <4>1, <4>2, <4>3, Pointed
    <3> QED
      BY <3>1
  <2> QED
    BY <1>1, <1>3, <2>1, <2>2 DEF Turns, Moving, LInv, LeavesOK
<1> QED
  BY <1>2, <1>3

LEMMA CutStays ==
  ASSUME NEW t \in Threads, NEW M, NEW N, Turns(t, M, N)
  PROVE  CutOK'
<1> SUFFICES ASSUME NEW s \in Slots', Removed(s)', NEW q \in Slots', Links(q, s)', Live(q)'
             PROVE  \E u \in Threads : Leaving(loc'[u], q, s)
  BY DEF CutOK, Leaving
<1>1. retired'[s] # {} \/ \E u \in Threads : Removing(loc'[u], s)
  BY DEF Removed, Removing
<1>2. s \in Slots
  <2>1. CASE retired'[s] # {}
    BY <2>1 DEF Turns, Moving, Careful, Adds
  <2>2. ASSUME NEW u \in Threads, Removing(loc'[u], s) PROVE s \in Slots
    <3>1. /\ TInv' /\ Calls(loc'[u])
      BY <2>2, Idlers DEF Turns, Moving
    <3>2. s \in HeldBy(loc'[u])
      BY <2>2 DEF Removing, HeldBy
    <3>3. s \in Slots \cup {Nil}
      BY <3>1, <3>2, Gains
    <3> QED
      BY <3>3 DEF Slots, Nil
  <2> QED
    BY <1>1, <2>1, <2>2
<1>3. CASE ~Removed(s)
  <2>1. retired'[s] # {} \/ Removing(N, s)
    BY <1>1, <1>3 DEF Turns, Moving, Removed
  <2>2. Leaving(N, q, s)
    BY <1>2, <1>3, <2>1 DEF Turns, Moving, Careful, Cuts
  <2> QED
    BY <2>2 DEF Turns, Moving
<1>4. CASE Removed(s)
  <2>1. \A p \in Slots : Links(p, s) => ~Live(p) \/ \E u \in Threads : Leaving(loc[u], p, s)
    BY <1>2, <1>4 DEF Turns, Moving, LInv, CutOK
  <2>2. CASE q \in Slots /\ Links(q, s)
    <3>1. PICK u \in Threads : Leaving(loc[u], q, s)
      BY <2>1, <2>2, NotRevived DEF Turns, Careful
    <3>2. CASE u = t
      BY <1>2, <2>2, <3>1, <3>2 DEF Turns, Moving, Careful, Cuts
    <3> QED
      BY <3>1, <3>2 DEF Turns, Moving
  <2>3. CASE M.pc \in Preparing /\ s = M.fresh
    <3>1. Prepared(M)
      BY <2>3, Idlers DEF Turns, Moving, LInv, KnowsOK, Knows
    <3>2. PICK u \in Threads : Removing(loc[u], s)
      BY <1>4, <2>3, <3>1 DEF Removed, Prepared
    <3>3. Calls(loc[u]) /\ s \in HeldBy(loc[u])
      BY <3>2, Idlers, Callers DEF Turns, Moving
    <3> QED
      BY <2>3, <3>3 DEF Turns, Moving, LInv, UnheldOK
  <2>4. CASE Copying(M) /\ Links(M.node, s)
    <3>1. PICK u \in Threads : Leaving(loc[u], M.node, s)
      BY <2>1, <2>4, Copied
    <3>2. Keeps(loc[u], M.node) /\ loc[u].pc = "leafLink"
      BY <3>1 DEF Leaving, Keeps, KeepsNode
    <3>3. u = t
      BY <2>4, <3>2, Copied, Unchanging DEF Turns, Owns
    <3> QED
      BY <2>4, <3>2, <3>3 DEF Turns, Moving, Copying
  <2> QED
    BY <1>2, <2>2, <2>3, <2>4, Pointed
<1> QED
  BY <1>3, <1>4

LEMMA KnowsStay ==
  ASSUME NEW t \in Threads, NEW M, NEW N, Turns(t, M, N)
  PROVE  KnowsOK'
<1> SUFFICES ASSUME NEW u \in Threads, NEW U, U = loc'[u], Calls(U) PROVE Knows(U)'
  BY DEF KnowsOK, Calls
<1>1. CASE u = t
  BY <1>1 DEF Turns, Moving
<1>2. CASE u # t
  BY <1>2, StillKnown DEF Turns, Moving
<1> QED
  BY <1>1, <1>2

LEMMA GraceStays ==
  ASSUME NEW t \in Threads, NEW M, NEW N, Turns(t, M, N)
  PROVE  GraceOK'
<1>1. TInv' /\ SlotsOK' /\ KnowsOK'
  BY SlotsStay, KnowsStay DEF Turns, Moving
<1>2. \A w \in Threads : ~Claims(loc'[w], Root)
  <2>1. (TInv /\ SlotsOK /\ KnowsOK => \A u \in Threads : ~Claims(loc[u], Root))'
    BY RootUnclaimed, PTL
  <2> QED
    BY <1>1, <2>1 DEF Claims
<1>3. ASSUME NEW u \in Threads, Calls(loc'[u]), NEW s \in Slots', s \in HeldBy(loc'[u])
      PROVE  /\ \A w \in Threads : Claims(loc'[w], s) => Ticket(u)' \in loc'[w].claim
             /\ \A r \in retired'[s] : Ticket(u)' \in r.waiting
  <2>1. s \in Slots /\ s # Nil
    <3>1. Nil \notin Slots'
      BY DEF Slots, Nil
    <3>2. s \in Slots \cup {Nil}
      BY <1>3, Gains
    <3> QED
      BY <3>1, <3>2
  <2>2. CASE s = Root
    BY <1>1, <1>2, <2>2 DEF SlotsOK
  <2>3. CASE Calls(loc[u]) /\ s \in HeldBy(loc[u])
    <3>1. Ticket(u)' = Ticket(u)
      BY <1>3, <2>3 DEF Turns, Moving
    <3>2. /\ \A w \in Threads : Claims(loc[w], s) => Ticket(u) \in loc[w].claim
          /\ \A r \in retired[s] : Ticket(u) \in r.waiting
      BY <2>1, <2>3 DEF Turns, Moving, LInv, GraceOK
    <3>3. Ticket(u) \in Running
      BY <2>3 DEF Running, Calls
    <3>4. Claims(N, s) => Ticket(u) \in N.claim
      BY <3>2, <3>3 DEF Turns, Moving, Careful, Locks
    <3>5. \A w \in Threads : Claims(loc'[w], s) => Ticket(u) \in loc'[w].claim
      BY <3>2, <3>4 DEF Turns, Moving
    <3>6. \A r \in retired'[s] : Ticket(u) \in r.waiting
      BY <2>1, <3>2 DEF Turns, Moving, Careful, Writes
    <3> QED
      BY <3>1, <3>5, <3>6
  <2>4. CASE /\ ~(Calls(loc[u]) /\ s \in HeldBy(loc[u]))
             /\ \E q \in Slots : Free(q) /\ Links(q, s)
    <3>1. retired[s] = {} /\ \A w \in Threads : ~Claims(loc[w], s)
      BY <2>1, <2>4, NotFound DEF Turns, Moving
    <3>2. retired'[s] = {}
      BY <2>1, <3>1 DEF Turns, Moving, Careful, Writes
    <3>3. u = t
      BY <1>3, <2>4 DEF Turns, Moving
    <3>4. ~Claims(N, s)
      BY <1>3, <2>4, <3>1, <3>3 DEF Turns, Moving, Careful, Locks
    <3>5. \A w \in Threads : ~Claims(loc'[w], s)
      BY <3>1, <3>4 DEF Turns, Moving
    <3> QED
      BY <3>2, <3>5
  <2> QED
    BY <1>3, <2>1, <2>2, <2>3, <2>4, Gains
<1> QED
  BY <1>3 DEF GraceOK, Calls, HeldBy, Claims

LEMMA Turned ==
  ASSUME NEW t \in Threads, NEW M, NEW N, Turns(t, M, N)
  PROVE  LInv'
BY SlotsStay, KnowsStay, ApartStays, UnheldStays, OneLiveStays, LeavesStay, CutStays, GraceStays
   DEF LInv
-----------------------------------------------------------------------------
(* What the steps have in common.                                           *)
Bound == KeepsNode \cup CopiesNode \cup KeepsParent \cup {"splitMark"}

LEMMA Loose ==
  ASSUME NEW M, M.pc \notin Bound
  PROVE  /\ \A s : ~Owns(M, s) /\ ~Keeps(M, s) /\ ~Claims(M, s) /\ ~Parting(M, s) /\ ~Removing(M, s)
         /\ \A q, s : ~Leaving(M, q, s)
         /\ M.pc \notin Preparing /\ Locking(M)' /\ Prepared(M)'
  BY DEF Bound, Owns, Keeps, Copies, Claims, Parting, Removing, Leaving, Preparing, Locking, Prepared,
         KeepsNode, CopiesNode, KeepsParent, KeepsNext, ClaimsNode, ClaimsNext

LEMMA Movement ==
  ASSUME TInv, TInv', LInv, Grows, NEW t \in Threads, UNCHANGED <<todo, load>>,
         \A u \in Threads : u # t => loc'[u] = loc[u]
  PROVE  Moving(t, loc[t], loc'[t])
  BY DEF Moving, Ticket

(* A call begins anew, returns, or goes on.                                 *)
LEMMA Outcomes ==
  ASSUME NEW t \in Threads, NEW M, NEW N, Moving(t, M, N), Calls(M)
  PROVE  /\ Restart(t) => N = Start(M)
         /\ \A result : Return(t, result) => ~Calls(N)
         /\ \A changes : Go(t, changes) /\ DOMAIN changes \subseteq Fields => Changed(N, M, changes)
<1>1. CallOK(M) /\ DOMAIN loc = Threads
  BY Callers DEF Moving, TInv, QueueOK
<1>2. DOMAIN M = Fields
  BY <1>1 DEF CallOK
<1>3. Restart(t) => N = Start(M)
  BY <1>1 DEF Restart, Moving
<1>4. ASSUME NEW result, Return(t, result) PROVE ~Calls(N)
  BY <1>1, <1>4 DEF Return, Moving, Calls
<1>5. ASSUME NEW changes, Go(t, changes), DOMAIN changes \subseteq Fields PROVE Changed(N, M, changes)
  BY <1>1, <1>2, <1>5, Gone DEF Changed, Moving
<1> QED
  BY <1>3, <1>4, <1>5

LEMMA Restarted ==
  ASSUME NEW t \in Threads, NEW M, NEW N, Moving(t, M, N), Calls(M), N = Start(M)
  PROVE  Knows(N)' /\ Acquires(M, N) /\ N.pc \notin Bound
<1>1. CallOK(M)
  BY Callers DEF Moving
<1>2. /\ N.pc = M.op /\ N.op = M.op /\ N.op \in {"lookup", "insert"}
      /\ N.node = Nil /\ N.next = Root /\ N.parent = Nil /\ N.cursor = Nil /\ N.any = Nil
  BY <1>1 DEF Start, CallOK
<1>3. N.pc \notin Bound
  BY <1>2 DEF Bound, KeepsNode, CopiesNode, KeepsParent
<1>4. Inner(Root)'
  BY Kinds DEF Moving, TInv, MemOK, Inner
<1>5. KindsKnown(N)'
  BY <1>2, <1>4 DEF KindsKnown, LeafSplitting
<1>6. Current(N)'
  BY <1>2 DEF Current
<1>7. Acquires(M, N)
  BY <1>2 DEF Acquires, HeldBy
<1> QED
  BY <1>3, <1>5, <1>6, <1>7, Loose DEF Knows

LEMMA Quietly ==
  ASSUME NEW t \in Threads, NEW M, NEW N, Moving(t, M, N), UNCHANGED <<mem, retired>>,
         Acquires(M, N), \A s : ~Parting(M, s), \A q, s : ~Leaving(M, q, s),
         \/ N.pc \notin Bound
         \/ M.pc \in {"growNode", "splitNode"} /\ N.pc = "undo" /\ N.parent = M.parent
  PROVE  Careful(M, N)
<1>1. /\ N.pc \notin Preparing
      /\ \A s : Keeps(N, s) => Keeps(M, s)
      /\ \A s : ~Copies(N, s) /\ ~Claims(N, s) /\ ~Removing(N, s)
  <2>1. CASE N.pc \notin Bound
    BY <2>1, Loose DEF Owns
  <2>2. CASE M.pc \in {"growNode", "splitNode"} /\ N.pc = "undo" /\ N.parent = M.parent
    BY <2>2 DEF Preparing, Keeps, Copies, Claims, Removing, KeepsNode, CopiesNode, KeepsParent,
                KeepsNext, ClaimsNode, ClaimsNext
  <2> QED
    BY <2>1, <2>2
<1>2. Slots' = Slots
  BY DEF Slots
<1>3. Writes(M, N)
  BY DEF Writes, Links
<1>4. Locks(M, N)
  BY <1>1 DEF Locks
<1>5. Cuts(M, N)
  BY <1>1, <1>2 DEF Cuts, Removed
<1>6. Adds(M)
  BY <1>2 DEF Adds
<1> QED
  BY <1>3, <1>4, <1>5, <1>6 DEF Careful

(* A step that only reads: the call begins anew, returns, or goes on.       *)
LEMMA Reads ==
  ASSUME NEW t \in Threads, NEW M, NEW N, Moving(t, M, N), UNCHANGED <<mem, retired>>,
         Calls(M), \A s : ~Parting(M, s), \A q, s : ~Leaving(M, q, s),
         \/ N = Start(M)
         \/ ~Calls(N)
         \/ N.pc \notin Bound /\ Acquires(M, N) /\ KindsKnown(N)' /\ Current(N)'
  PROVE  Turns(t, M, N)
<1>1. CASE N = Start(M)
  BY <1>1, Restarted, Quietly DEF Turns
<1>2. CASE ~Calls(N)
  <2>1. Acquires(M, N) /\ N.pc \notin Bound
    BY <1>2 DEF Acquires, Calls, Bound, KeepsNode, CopiesNode, KeepsParent
  <2> QED
    BY <1>2, <2>1, Quietly DEF Turns
<1>3. CASE N.pc \notin Bound /\ Acquires(M, N) /\ KindsKnown(N)' /\ Current(N)'
  BY <1>3, Quietly, Loose DEF Turns, Knows
<1> QED
  BY <1>1, <1>2, <1>3

LEMMA StillFree ==
  ASSUME TInv, NEW s, NEW v, Versioned(s, v), Word(s) = v
  PROVE  s \in Slots /\ Free(s) /\ ~IsLocked(Word(s))
  BY WordBits DEF Versioned, Free, Word, Readable

(* What is read of a node that is not locked is a child of it.              *)
LEMMA PeekedChild ==
  ASSUME TInv, NEW s, NEW v, Versioned(s, v), NEW b, Peek(s, b) # Nil, Word(s) = v
  PROVE  HasChild(s, b, Peek(s, b)) /\ Links(s, Peek(s, b))
<1>1. ~IsLocked(Word(s))
  BY StillFree
<1>2. Peek(s, b) = ChildOf(mem[s], b)
  BY <1>1 DEF Peek
<1> QED
  BY <1>2 DEF ChildOf, HasChild, Links

LEMMA LookupTurns ==
  ASSUME NEW t \in Threads, NEW M, NEW N, Moving(t, M, N), lookup(t)
  PROVE  Turns(t, M, N)
<1>1. M.pc \in Looking /\ UNCHANGED <<mem, retired>>
  BY DEF lookup, Looking, LookupRoot, Search, LookupMiss, LookupHit, LookupLeaf, LeafReadLock,
         LeafRead, Descend, Couple, Moving
<1>2. M = loc[t] /\ TInv /\ LInv
  BY DEF Moving
<1>3. /\ DOMAIN M = Fields /\ M.op = "lookup" /\ LookupOK(M)
  BY <1>1, <1>2, LookupNow
<1>4. /\ Calls(M) /\ \A s : ~Parting(M, s) /\ \A q : ~Leaving(M, q, s)
  BY <1>1 DEF Calls, Looking, Parting, Leaving
<1>5. Current(M)
  BY <1>2, <1>4 DEF LInv, KnowsOK, Knows
<1>6. CASE Restart(t) \/ \E result : Return(t, result)
  BY <1>1, <1>4, <1>6, Outcomes, Reads
<1>7. ASSUME NEW changes, Go(t, changes), DOMAIN changes \subseteq Fields \ {"op"},
             \A L : Changed(L, M, changes) /\ L.op = "lookup" =>
                /\ L.pc \in Looking /\ Acquires(M, L)
                /\ L.pc = "hit" /\ L.next # Nil /\ Word(L.node) = L.v => Links(L.node, L.next)
      PROVE  Turns(t, M, N)
  <2>1. Changed(N, M, changes)
    BY <1>4, <1>7, Outcomes
  <2>2. N.op = "lookup"
    BY <1>3, <1>7, <2>1 DEF Changed, Fields
  <2>3. /\ N.pc \in Looking /\ Acquires(M, N)
        /\ N.pc = "hit" /\ N.next # Nil /\ Word(N.node) = N.v => Links(N.node, N.next)
    BY <1>7, <2>1, <2>2
  <2>4. KindsKnown(N)' /\ Current(N)'
    BY <1>1, <2>2, <2>3 DEF KindsKnown, Current, Looking, Word, Links
  <2>5. N.pc \notin Bound
    BY <2>3 DEF Looking, Bound, KeepsNode, CopiesNode, KeepsParent
  <2> QED
    BY <1>1, <1>4, <2>3, <2>4, <2>5, Reads
<1>8. CASE LookupRoot(t)
  <2> DEFINE changes == [pc |-> "search", node |-> Root, v |-> Word(Root), optimistic |-> FALSE]
  <2>1. M.pc = "lookup" /\ Go(t, changes)
    BY <1>2, <1>8 DEF LookupRoot
  <2>2. ASSUME NEW L, Changed(L, M, changes) PROVE L.pc = "search" /\ Acquires(M, L)
    BY <1>4, <2>1, <2>2 DEF Changed, Fields, Acquires, HeldBy
  <2>3. DOMAIN changes \subseteq Fields \ {"op"}
    BY DEF Fields
  <2> QED
    BY <1>7, <2>1, <2>2, <2>3 DEF Looking
<1>9. CASE Search(t)
  <2> DEFINE level == M.level + mem[M.node].plen
             hit == [pc |-> "hit", level |-> level,
                     optimistic |-> M.optimistic
                                    \/ checkPrefix(mem[M.node], M.key, M.level).optimistic,
                     next |-> Peek(M.node, M.key[level + 1])]
  <2>1. /\ M.pc = "search"
        /\ Go(t, [pc |-> "miss"]) \/ Return(t, NoTid) \/ Go(t, hit)
    BY <1>2, <1>9 DEF Search
  <2>2. ASSUME Go(t, [pc |-> "miss"]) PROVE Turns(t, M, N)
    <3>1. ASSUME NEW L, Changed(L, M, [pc |-> "miss"]) PROVE L.pc = "miss" /\ Acquires(M, L)
      BY <1>4, <2>1, <3>1 DEF Changed, Fields, Acquires, HeldBy
    <3> QED
      BY <1>7, <2>2, <3>1 DEF Looking, Fields
  <2>3. ASSUME Go(t, hit) PROVE Turns(t, M, N)
    <3>1. /\ hit.pc = "hit" /\ DOMAIN hit = {"pc", "level", "optimistic", "next"}
          /\ hit.next = Peek(M.node, M.key[level + 1])
      OBVIOUS
    <3> HIDE DEF hit, level
    <3>2. ASSUME NEW L, Changed(L, M, hit)
          PROVE  /\ L.pc = "hit" /\ Acquires(M, L)
                 /\ L.next # Nil /\ Word(L.node) = L.v => Links(L.node, L.next)
      <4>1. /\ L.pc = "hit" /\ L.next = hit.next /\ L.node = M.node /\ L.v = M.v
            /\ L.parent = M.parent /\ L.cursor = M.cursor /\ L.any = M.any
        BY <3>1, <3>2 DEF Changed, Fields
      <4>2. Acquires(M, L)
        BY <1>4, <2>1, <4>1 DEF Acquires, HeldBy
      <4>3. Versioned(M.node, M.v)
        BY <1>3, <2>1 DEF LookupOK
      <4> QED
        BY <1>2, <3>1, <4>1, <4>2, <4>3, PeekedChild
    <3> QED
      BY <1>7, <2>3, <3>1, <3>2 DEF Looking, Fields
  <2> QED
    BY <1>6, <2>1, <2>2, <2>3
<1>10. CASE LookupMiss(t)
  BY <1>6, <1>10 DEF LookupMiss
<1>11. CASE LookupHit(t)
  <2>1. CASE Word(M.node) # M.v \/ M.next = Nil
    BY <1>2, <1>6, <1>11, <2>1 DEF LookupHit
  <2>2. CASE Word(M.node) = M.v /\ M.next # Nil
    <3>1. M.pc = "hit" /\ \/ Go(t, [pc |-> "leaf"])
                          \/ Go(t, [pc |-> "descend", level |-> M.level + 1])
      BY <1>2, <1>11, <2>2 DEF LookupHit
    <3>2. M.node \in Slots /\ Free(M.node) /\ Links(M.node, M.next)
      BY <1>2, <1>3, <1>5, <2>2, <3>1, StillFree DEF LookupOK, Current
    <3>3. ASSUME NEW L, Changed(L, M, [pc |-> "leaf"]) PROVE L.pc = "leaf" /\ Acquires(M, L)
      BY <1>4, <3>1, <3>2, <3>3 DEF Changed, Fields, Acquires, HeldBy
    <3>4. ASSUME NEW L, Changed(L, M, [pc |-> "descend", level |-> M.level + 1])
          PROVE  L.pc = "descend" /\ Acquires(M, L)
      BY <1>4, <3>1, <3>2, <3>4 DEF Changed, Fields, Acquires, HeldBy
    <3>5. CASE Go(t, [pc |-> "leaf"])
      BY <1>7, <3>3, <3>5 DEF Looking, Fields
    <3>6. CASE Go(t, [pc |-> "descend", level |-> M.level + 1])
      BY <1>7, <3>4, <3>6 DEF Looking, Fields
    <3> QED
      BY <3>1, <3>5, <3>6
  <2> QED
    BY <2>1, <2>2
<1>12. CASE LookupLeaf(t)
  <2>1. M.pc = "leaf" /\ (Restart(t) \/ Go(t, [pc |-> "leafLock"]))
    BY <1>2, <1>12 DEF LookupLeaf, Check
  <2>2. ASSUME NEW L, Changed(L, M, [pc |-> "leafLock"]) PROVE L.pc = "leafLock" /\ Acquires(M, L)
    BY <1>4, <2>1, <2>2 DEF Changed, Fields, Acquires, HeldBy
  <2>3. CASE Go(t, [pc |-> "leafLock"])
    BY <1>7, <2>2, <2>3 DEF Looking, Fields
  <2> QED
    BY <1>6, <2>1, <2>3
<1>13. CASE LeafReadLock(t) \/ Descend(t)
  <2> DEFINE changes(pc) == [pc |-> pc, lv |-> Word(M.next)]
  <2>1. /\ M.pc \in {"leafLock", "descend"}
        /\ Restart(t) \/ \E pc \in {"leafRead", "couple"} : Go(t, changes(pc))
    BY <1>2, <1>13 DEF LeafReadLock, Descend
  <2>2. ASSUME NEW pc \in {"leafRead", "couple"}, Go(t, changes(pc)) PROVE Turns(t, M, N)
    <3>1. ASSUME NEW L, Changed(L, M, changes(pc)) PROVE L.pc = pc /\ Acquires(M, L)
      BY <1>4, <2>1, <3>1 DEF Changed, Fields, Acquires, HeldBy
    <3>2. DOMAIN changes(pc) \subseteq Fields \ {"op"}
      BY DEF Fields
    <3> QED
      BY <1>7, <2>2, <3>1, <3>2 DEF Looking
  <2> QED
    BY <1>6, <2>1, <2>2
<1>14. CASE LeafRead(t)
  BY <1>6, <1>14 DEF LeafRead
<1>15. CASE Couple(t)
  <2> DEFINE changes == [pc |-> "search", node |-> M.next, v |-> M.lv]
  <2>1. M.pc = "couple" /\ (Restart(t) \/ Go(t, changes))
    BY <1>2, <1>15 DEF Couple, Check
  <2>2. ASSUME NEW L, Changed(L, M, changes) PROVE L.pc = "search" /\ Acquires(M, L)
    BY <1>4, <2>1, <2>2 DEF Changed, Fields, Acquires, HeldBy
  <2>3. CASE Go(t, changes)
    BY <1>7, <2>2, <2>3 DEF Looking, Fields
  <2> QED
    BY <1>6, <2>1, <2>3
<1> QED
  BY <1>8, <1>9, <1>10, <1>11, <1>12, <1>13, <1>14, <1>15 DEF lookup

LEMMA StaysKnown ==
  ASSUME NEW M, NEW L, Staying(L, M), M.op = "insert", L.op = "insert", M.pc # "insert",
         KindsKnown(M), Current(M), L.pc \in Inserting, L.pc # "insert", L.pc \notin Bound,
         L.pc \in LeafSplitting => IsLeaf(L.next),
         L.pc = "anyCheck" /\ Word(L.cursor) = L.lv => Links(L.cursor, L.any),
         L.pc \in {"childCheck", "further", "leafLockNode"} /\ L.next # Nil /\ Word(L.node) = L.v =>
            HasChild(L.node, L.byte, L.next)
  PROVE  KindsKnown(L) /\ Current(L)
<1>1. KindsKnown(L)
  BY DEF KindsKnown, Staying
<1>2. L.pc # "hit"
  BY DEF Inserting, Descending, Putting, Replacing, Growing, Splitting, LeafSplitting
<1>3. /\ L.pc \notin {"growNode", "growBuild", "growLink", "splitNode", "splitBuild", "splitLink"}
      /\ L.pc \notin {"leafWrite", "leafBuild", "leafObsolete", "leafMark", "leafLink"}
  BY DEF Bound, KeepsNode, CopiesNode, KeepsParent
<1>4. L.parent # Nil /\ Word(L.parent) = L.pv => HasChild(L.parent, L.pbyte, L.node)
  BY DEF Current, Staying
<1> QED
  BY <1>1, <1>2, <1>3, <1>4 DEF Current

LEMMA PrefixGoes ==
  ASSUME NEW t, NEW kt, CheckPrefixPessimistic(t, kt)
  PROVE  \E changes : /\ Go(t, changes) /\ changes.pc \in {"child", "splitParent"}
                      /\ "pc" \in DOMAIN changes
                      /\ DOMAIN changes \subseteq {"pc", "level", "byte", "matched", "miss", "rest"}
<1> DEFINE L == loc[t]
           n == mem[L.node]
           p == n.prefix \o SubSeq(kt, L.level + Len(n.prefix) + 1, L.level + n.plen)
           m == Agreement(p, Drop(L.key, L.level))
           rest == IF n.plen > MaxStored THEN Drop(kt, L.level + m + 1) ELSE Drop(p, m + 1)
           further == [pc |-> "child", level |-> L.level + m, byte |-> L.key[L.level + m + 1]]
           split == [pc |-> "splitParent", matched |-> m, miss |-> p[m + 1],
                     rest |-> Prefix(rest, n.plen - m - 1)]
<1>1. Go(t, further) \/ Go(t, split)
  BY DEF CheckPrefixPessimistic
<1>2. /\ further.pc = "child" /\ DOMAIN further = {"pc", "level", "byte"}
      /\ split.pc = "splitParent" /\ DOMAIN split = {"pc", "matched", "miss", "rest"}
  OBVIOUS
<1> HIDE DEF further, split
<1> QED
  BY <1>1, <1>2

LEMMA DescendTurns ==
  ASSUME NEW t \in Threads, NEW M, NEW N, Moving(t, M, N), descend(t) \/ Room(t) \/ PutParent(t)
  PROVE  Turns(t, M, N)
<1>1. M.pc \in {"insert", "room", "parent"} \cup Descending /\ UNCHANGED <<mem, retired>>
  BY DEF descend, Visit, PrefixStep, AnyLock, AnyChild, AnyCheck, ReadChild, ChildCheck, Further,
         Room, PutParent, Moving, Descending
<1>2. M = loc[t] /\ TInv /\ LInv
  BY DEF Moving
<1>3. /\ DOMAIN M = Fields /\ M.op = "insert" /\ InsertOK(M) /\ M.pc \in Inserting
      /\ M.pc # "insert" => Here(M) /\ Reading(M)
  BY <1>1, <1>2, InsertNow DEF Inserting, Putting
<1>4. /\ Calls(M) /\ \A s : ~Parting(M, s) /\ \A q : ~Leaving(M, q, s)
  BY <1>1 DEF Calls, Descending, Parting, Leaving
<1>5. Current(M) /\ KindsKnown(M)
  BY <1>2, <1>4 DEF LInv, KnowsOK, Knows
<1>6. CASE Restart(t)
  BY <1>1, <1>4, <1>6, Outcomes, Reads
<1>7. ASSUME NEW changes, Go(t, changes), DOMAIN changes \subseteq Fields \ {"op"},
             \A L : Changed(L, M, changes) /\ L.op = "insert" =>
                L.pc \notin Bound /\ Acquires(M, L) /\ KindsKnown(L) /\ Current(L)
      PROVE  Turns(t, M, N)
  <2>1. Changed(N, M, changes)
    BY <1>4, <1>7, Outcomes
  <2>2. N.op = "insert"
    BY <1>3, <1>7, <2>1 DEF Changed, Fields
  <2>3. N.pc \notin Bound /\ Acquires(M, N) /\ KindsKnown(N) /\ Current(N)
    BY <1>7, <2>1, <2>2
  <2>4. KindsKnown(N)' /\ Current(N)'
    BY <1>1, <2>3 DEF KindsKnown, Current, Word, Links, HasChild, Inner, IsLeaf, Slots
  <2> QED
    BY <1>1, <1>4, <2>3, <2>4, Reads
<1>8. ASSUME NEW changes, Go(t, changes), M.pc # "insert",
             DOMAIN changes \subseteq Fields \ {"op", "node", "v", "parent", "pv", "pbyte"},
             \A L : Changed(L, M, changes) /\ L.op = "insert" /\ Staying(L, M) =>
                /\ L.pc \in Inserting /\ L.pc # "insert" /\ L.pc \notin Bound /\ Acquires(M, L)
                /\ L.pc \in LeafSplitting => IsLeaf(L.next)
                /\ L.pc = "anyCheck" /\ Word(L.cursor) = L.lv => Links(L.cursor, L.any)
                /\ /\ L.pc \in {"childCheck", "further", "leafLockNode"}
                   /\ L.next # Nil /\ Word(L.node) = L.v
                   => HasChild(L.node, L.byte, L.next)
      PROVE  Turns(t, M, N)
  <2>1. ASSUME NEW L, Changed(L, M, changes), L.op = "insert"
        PROVE  L.pc \notin Bound /\ Acquires(M, L) /\ KindsKnown(L) /\ Current(L)
    <3>1. Staying(L, M)
      BY <1>8, <2>1 DEF Changed, Fields, Staying
    <3>2. /\ L.pc \in Inserting /\ L.pc # "insert" /\ L.pc \notin Bound /\ Acquires(M, L)
          /\ L.pc \in LeafSplitting => IsLeaf(L.next)
          /\ L.pc = "anyCheck" /\ Word(L.cursor) = L.lv => Links(L.cursor, L.any)
          /\ /\ L.pc \in {"childCheck", "further", "leafLockNode"}
             /\ L.next # Nil /\ Word(L.node) = L.v
             => HasChild(L.node, L.byte, L.next)
      BY <1>8, <2>1, <3>1
    <3> QED
      BY <1>3, <1>5, <1>8, <2>1, <3>1, <3>2, StaysKnown
  <2> QED
    BY <1>7, <1>8, <2>1
<1>9. Bound \cap ({"insert", "room", "parent", "lockNode", "growParent", "splitParent", "leafLockNode"}
                  \cup Descending) = {}
  BY DEF Bound, KeepsNode, CopiesNode, KeepsParent, Descending
<1>10. ASSUME NEW kt, CheckPrefixPessimistic(t, kt), M.pc \in {"prefix", "anyCheck"},
              M.pc = "anyCheck" => Word(M.cursor) = M.lv
       PROVE  Turns(t, M, N)
  <2>1. PICK changes : /\ Go(t, changes) /\ changes.pc \in {"child", "splitParent"}
                       /\ "pc" \in DOMAIN changes
                       /\ DOMAIN changes \subseteq {"pc", "level", "byte", "matched", "miss", "rest"}
    BY <1>10, PrefixGoes
  <2>2. ASSUME NEW L, Changed(L, M, changes) PROVE L.pc \in {"child", "splitParent"} /\ Acquires(M, L)
    <3>1. /\ L.pc = changes.pc /\ L.next = M.next /\ L.node = M.node /\ L.parent = M.parent
          /\ L.cursor = M.cursor /\ L.any = M.any
      BY <2>1, <2>2 DEF Changed, Fields
    <3>2. M.pc = "anyCheck" => M.any = Nil \/ (M.cursor \in Slots /\ Free(M.cursor) /\ Links(M.cursor, M.any))
      BY <1>2, <1>3, <1>5, <1>10, StillFree DEF Reading, Current
    <3> QED
      BY <1>4, <1>10, <2>1, <3>1, <3>2 DEF Acquires, HeldBy
  <2>3. \A pc \in {"child", "splitParent"} :
          pc \in Inserting /\ pc \notin Bound /\ pc # "insert" /\ pc \notin LeafSplitting
    BY <1>9 DEF Inserting, Descending, Replacing, Splitting, LeafSplitting
  <2> QED
    BY <1>8, <1>10, <2>1, <2>2, <2>3 DEF Fields
<1>11. CASE Visit(t)
  <2> DEFINE changes == [pc |-> "prefix", parent |-> M.node, pbyte |-> M.byte,
                         node |-> M.next, v |-> Word(M.next)]
  <2>1. M.pc = "insert" /\ (Restart(t) \/ Go(t, changes))
    BY <1>2, <1>11 DEF Visit
  <2>2. ASSUME NEW L, Changed(L, M, changes), L.op = "insert"
        PROVE  L.pc \notin Bound /\ Acquires(M, L) /\ KindsKnown(L) /\ Current(L)
    <3>1. /\ L.pc = "prefix" /\ L.parent = M.node /\ L.pbyte = M.byte /\ L.node = M.next
          /\ L.pv = M.pv /\ L.next = M.next /\ L.any = M.any /\ L.cursor = M.cursor
      BY <2>2 DEF Changed, Fields
    <3>2. Acquires(M, L)
      BY <1>4, <2>1, <3>1 DEF Acquires, HeldBy
    <3>3. KindsKnown(L)
      BY <1>3, <1>5, <2>1, <3>1 DEF KindsKnown, LeafSplitting
    <3>4. Current(L)
      BY <1>3, <1>5, <2>1, <3>1 DEF Current
    <3> QED
      BY <1>9, <3>1, <3>2, <3>3, <3>4 DEF Descending
  <2>3. DOMAIN changes \subseteq Fields \ {"op"}
    BY DEF Fields
  <2> QED
    BY <1>6, <1>7, <2>1, <2>2, <2>3
<1>12. CASE PrefixStep(t)
  <2>1. /\ M.pc = "prefix"
        /\ Go(t, [pc |-> "any", cursor |-> M.node]) \/ CheckPrefixPessimistic(t, <<>>)
    BY <1>2, <1>12 DEF PrefixStep
  <2>2. ASSUME NEW L, Changed(L, M, [pc |-> "any", cursor |-> M.node])
        PROVE  L.pc = "any" /\ Acquires(M, L)
    BY <1>4, <2>1, <2>2 DEF Changed, Fields, Acquires, HeldBy
  <2>3. "any" \in Inserting /\ "any" \notin Bound /\ "any" \notin LeafSplitting
    BY <1>9 DEF Inserting, Descending, LeafSplitting
  <2>4. CASE Go(t, [pc |-> "any", cursor |-> M.node])
    BY <1>8, <2>1, <2>2, <2>3, <2>4 DEF Fields
  <2> QED
    BY <1>10, <2>1, <2>4
<1>13. CASE AnyLock(t)
  <2> DEFINE changes == [pc |-> "anyChild", lv |-> Word(M.cursor)]
  <2>1. M.pc = "any" /\ (Restart(t) \/ Go(t, changes))
    BY <1>2, <1>13 DEF AnyLock
  <2>2. ASSUME NEW L, Changed(L, M, changes) PROVE L.pc = "anyChild" /\ Acquires(M, L)
    BY <1>4, <2>1, <2>2 DEF Changed, Fields, Acquires, HeldBy
  <2>3. "anyChild" \in Inserting /\ "anyChild" \notin Bound /\ "anyChild" \notin LeafSplitting
    BY <1>9 DEF Inserting, Descending, LeafSplitting
  <2>4. CASE Go(t, changes)
    BY <1>8, <2>1, <2>2, <2>3, <2>4 DEF Fields
  <2> QED
    BY <1>6, <2>1, <2>4
<1>14. CASE AnyChild(t)
  <2> DEFINE changes(b) == [pc |-> "anyCheck", any |-> Peek(M.cursor, b)]
  <2>1. PICK b \in AnyChildren(mem[M.cursor]) : M.pc = "anyChild" /\ Go(t, changes(b))
    BY <1>2, <1>14 DEF AnyChild
  <2>2. Peek(M.cursor, b) # Nil
    BY <2>1 DEF AnyChildren, Peek, ChildOf, Bytes, Garbage, Nil
  <2>3. ASSUME NEW L, Changed(L, M, changes(b))
        PROVE  /\ L.pc = "anyCheck" /\ Acquires(M, L)
               /\ Word(L.cursor) = L.lv => Links(L.cursor, L.any)
    <3>1. /\ L.pc = "anyCheck" /\ L.any = Peek(M.cursor, b) /\ L.next = M.next /\ L.node = M.node
          /\ L.parent = M.parent /\ L.cursor = M.cursor /\ L.lv = M.lv
      BY <2>3 DEF Changed, Fields
    <3>2. Acquires(M, L)
      BY <1>4, <2>1, <3>1 DEF Acquires, HeldBy
    <3>3. Versioned(M.cursor, M.lv)
      BY <1>3, <2>1 DEF Reading
    <3> QED
      BY <1>2, <2>2, <3>1, <3>2, <3>3, PeekedChild
  <2>4. "anyCheck" \in Inserting /\ "anyCheck" \notin Bound /\ "anyCheck" \notin LeafSplitting
    BY <1>9 DEF Inserting, Descending, LeafSplitting
  <2>5. DOMAIN changes(b) \subseteq Fields \ {"op", "node", "v", "parent", "pv", "pbyte"}
    BY DEF Fields
  <2> HIDE DEF changes
  <2> QED
    BY <1>8, <2>1, <2>3, <2>4, <2>5
<1>15. CASE AnyCheck(t)
  <2>1. M.pc = "anyCheck" /\ (Word(M.cursor) # M.lv => Restart(t))
    BY <1>2, <1>15 DEF AnyCheck
  <2>2. CASE Word(M.cursor) = M.lv
    <3>1. \/ CheckPrefixPessimistic(t, mem[M.any].value)
          \/ Go(t, [pc |-> "any", cursor |-> M.any])
      BY <1>2, <1>15, <2>2 DEF AnyCheck
    <3>2. M.cursor \in Slots /\ Free(M.cursor) /\ Links(M.cursor, M.any)
      BY <1>2, <1>3, <1>5, <2>1, <2>2, StillFree DEF Reading, Current
    <3>3. ASSUME NEW L, Changed(L, M, [pc |-> "any", cursor |-> M.any])
          PROVE  L.pc = "any" /\ Acquires(M, L)
      BY <1>4, <2>1, <3>2, <3>3 DEF Changed, Fields, Acquires, HeldBy
    <3>4. "any" \in Inserting /\ "any" \notin Bound /\ "any" \notin LeafSplitting
      BY <1>9 DEF Inserting, Descending, LeafSplitting
    <3>5. CASE Go(t, [pc |-> "any", cursor |-> M.any])
      BY <1>8, <2>1, <3>3, <3>4, <3>5 DEF Fields
    <3> QED
      BY <1>10, <2>1, <2>2, <3>1, <3>5
  <2> QED
    BY <1>6, <2>1, <2>2
<1>16. CASE ReadChild(t)
  <2> DEFINE changes == [pc |-> "childCheck", next |-> Peek(M.node, M.byte)]
  <2>1. M.pc = "child" /\ Go(t, changes)
    BY <1>2, <1>16 DEF ReadChild
  <2>2. ASSUME NEW L, Changed(L, M, changes)
        PROVE  /\ L.pc = "childCheck" /\ Acquires(M, L)
               /\ L.next # Nil /\ Word(L.node) = L.v => HasChild(L.node, L.byte, L.next)
    <3>1. /\ L.pc = "childCheck" /\ L.next = Peek(M.node, M.byte) /\ L.node = M.node /\ L.v = M.v
          /\ L.byte = M.byte /\ L.any = M.any /\ L.cursor = M.cursor /\ L.parent = M.parent
      BY <2>2 DEF Changed, Fields
    <3>2. Acquires(M, L)
      BY <1>4, <2>1, <3>1 DEF Acquires, HeldBy
    <3>3. Versioned(M.node, M.v)
      BY <1>3, <2>1 DEF Here
    <3> QED
      BY <1>2, <3>1, <3>2, <3>3, PeekedChild
  <2>3. "childCheck" \in Inserting /\ "childCheck" \notin Bound /\ "childCheck" \notin LeafSplitting
    BY <1>9 DEF Inserting, Descending, LeafSplitting
  <2> QED
    BY <1>8, <2>1, <2>2, <2>3 DEF Fields
<1>17. CASE ChildCheck(t)
  <2>1. M.pc = "childCheck" /\ (Word(M.node) # M.v => Restart(t))
    BY <1>2, <1>17 DEF ChildCheck, Check
  <2>2. CASE Word(M.node) = M.v
    <3>1. PICK pc \in {"room", "further"} : Go(t, [pc |-> pc])
      BY <1>2, <1>17, <2>2 DEF ChildCheck, Check
    <3>2. M.next # Nil => HasChild(M.node, M.byte, M.next) /\ Links(M.node, M.next)
      BY <1>5, <2>1, <2>2 DEF Current, HasChild, Links
    <3>3. M.node \in Slots /\ Free(M.node)
      BY <1>2, <1>3, <2>1, <2>2, StillFree DEF Here
    <3>4. ASSUME NEW L, Changed(L, M, [pc |-> pc])
          PROVE  /\ L.pc = pc /\ Acquires(M, L)
                 /\ L.next # Nil => HasChild(L.node, L.byte, L.next)
      BY <1>4, <2>1, <3>2, <3>3, <3>4 DEF Changed, Fields, Acquires, HeldBy
    <3>5. pc \in Inserting /\ pc \notin Bound /\ pc \notin LeafSplitting /\ pc \notin {"insert", "anyCheck"}
      BY <1>9 DEF Inserting, Descending, Putting, LeafSplitting
    <3> QED
      BY <1>8, <2>1, <3>1, <3>4, <3>5 DEF Fields
  <2> QED
    BY <1>6, <2>1, <2>2
<1>18. CASE Further(t)
  <2> DEFINE down == [pc |-> "insert", level |-> M.level + 1, pv |-> M.v]
  <2>1. /\ M.pc = "further" /\ M.next \in Slots /\ M.next # Nil
    BY <1>2, <1>3, <1>18 DEF Further, Reading, Under, Slots, Nil
  <2>2. \/ Restart(t)
        \/ IsLeaf(M.next) /\ Go(t, [pc |-> "leafLockNode"])
        \/ ~IsLeaf(M.next) /\ Go(t, down)
    BY <1>2, <1>18 DEF Further
  <2>3. CASE IsLeaf(M.next) /\ Go(t, [pc |-> "leafLockNode"])
    <3>1. ASSUME NEW L, Changed(L, M, [pc |-> "leafLockNode"])
          PROVE  /\ L.pc = "leafLockNode" /\ Acquires(M, L) /\ IsLeaf(L.next)
                 /\ Word(L.node) = L.v => HasChild(L.node, L.byte, L.next)
      <4>1. /\ L.pc = "leafLockNode" /\ L.next = M.next /\ L.node = M.node /\ L.v = M.v
            /\ L.byte = M.byte /\ L.any = M.any /\ L.cursor = M.cursor /\ L.parent = M.parent
        BY <3>1 DEF Changed, Fields
      <4>2. Acquires(M, L)
        BY <1>4, <2>1, <4>1 DEF Acquires, HeldBy
      <4> QED
        BY <1>5, <2>1, <2>3, <4>1, <4>2 DEF Current
    <3>2. "leafLockNode" \in Inserting /\ "leafLockNode" \notin Bound
      BY <1>9 DEF Inserting, LeafSplitting
    <3> QED
      BY <1>8, <2>1, <2>3, <3>1, <3>2 DEF Fields
  <2>4. CASE ~IsLeaf(M.next) /\ Go(t, down)
    <3>1. ASSUME NEW L, Changed(L, M, down), L.op = "insert"
          PROVE  L.pc \notin Bound /\ Acquires(M, L) /\ KindsKnown(L) /\ Current(L)
      <4>1. /\ L.pc = "insert" /\ L.next = M.next /\ L.node = M.node /\ L.pv = M.v
            /\ L.byte = M.byte /\ L.any = M.any /\ L.cursor = M.cursor /\ L.parent = M.parent
        BY <3>1 DEF Changed, Fields
      <4>2. Acquires(M, L)
        BY <1>4, <2>1, <4>1 DEF Acquires, HeldBy
      <4>3. KindsKnown(L)
        BY <1>3, <1>5, <2>1, <2>4, <4>1 DEF KindsKnown, LeafSplitting, Inner, IsLeaf
      <4>4. Current(L)
        BY <1>3, <1>5, <2>1, <4>1 DEF Current
      <4> QED
        BY <1>9, <4>1, <4>2, <4>3, <4>4
    <3> QED
      BY <1>7, <2>4, <3>1 DEF Fields
  <2> QED
    BY <1>6, <2>2, <2>3, <2>4
<1>19. CASE Room(t) \/ PutParent(t)
  <2>1. /\ M.pc \in {"room", "parent"}
        /\ Restart(t) \/ \E pc \in {"growParent", "parent", "lockNode"} : Go(t, [pc |-> pc])
    BY <1>2, <1>19 DEF Room, PutParent
  <2>2. ASSUME NEW pc \in {"growParent", "parent", "lockNode"}, Go(t, [pc |-> pc])
        PROVE  Turns(t, M, N)
    <3>1. ASSUME NEW L, Changed(L, M, [pc |-> pc]) PROVE L.pc = pc /\ Acquires(M, L)
      BY <1>4, <2>1, <3>1 DEF Changed, Fields, Acquires, HeldBy
    <3>2. pc \in Inserting /\ pc \notin Bound /\ pc \notin LeafSplitting /\ pc \notin {"insert", "anyCheck"}
      BY <1>9 DEF Inserting, Putting, Replacing, Growing, LeafSplitting
    <3> QED
      BY <1>8, <2>1, <2>2, <3>1, <3>2 DEF Fields
  <2> QED
    BY <1>6, <2>1, <2>2
<1> QED
  BY <1>11, <1>12, <1>13, <1>14, <1>15, <1>16, <1>17, <1>18, <1>19 DEF descend
-----------------------------------------------------------------------------
(* Steps that write to memory.                                              *)
LEMMA WordWrites ==
  ASSUME NEW t \in Threads, NEW M, NEW N, Moving(t, M, N), UNCHANGED retired,
         NEW s \in Slots, NEW n \in Nat, AddToWord(s, n),
         \/ Free(s) /\ Keeps(N, s) /\ Calls(M) /\ s \in HeldBy(M) /\ n = 2
         \/ Owns(M, s) /\ ~Owns(N, s) /\ n = 3
         \/ Keeps(M, s) /\ ~Owns(N, s) /\ n = 2
  PROVE  /\ Writes(M, N) /\ Adds(M) /\ Slots' = Slots
         /\ mem'[s].word = mem[s].word + n
         /\ \A x \in Slots : /\ mem'[x].child = mem[x].child
                             /\ x # s => mem'[x].word = mem[x].word
<1>1. MemOK /\ mem[s].word \in Nat
  BY DEF Moving, TInv, MemOK
<1>2. /\ Len(mem') = Len(mem) /\ \A x \in Slots : x # s => mem'[x] = mem[x]
      /\ mem'[s].word = mem[s].word + n /\ mem'[s].child = mem[s].child
  BY <1>1, WordAdded
<1>3. Slots' = Slots
  BY <1>2 DEF Slots
<1>4. \A x \in Slots : mem'[x].child = mem[x].child
  BY <1>2
<1>5. \/ Free(s) /\ Keeps(N, s) /\ Calls(M) /\ s \in HeldBy(M) /\ mem'[s].word % 4 = 2
      \/ Owns(M, s) /\ ~Owns(N, s) /\ mem'[s].word % 4 = 1
      \/ Keeps(M, s) /\ ~Owns(N, s) /\ mem'[s].word % 4 = 0
  <2>1. Owns(M, s) => mem[s].word % 4 = 2
    BY Unchanging DEF Moving, Taken
  <2>2. CASE Free(s) /\ Keeps(N, s) /\ Calls(M) /\ s \in HeldBy(M) /\ n = 2
    BY <1>1, <1>2, <2>2, WordBits DEF Free
  <2>3. CASE Owns(M, s) /\ ~Owns(N, s) /\ n = 3
    BY <1>1, <1>2, <2>1, <2>3, WordBits
  <2>4. CASE Keeps(M, s) /\ ~Owns(N, s) /\ n = 2
    BY <1>1, <1>2, <2>1, <2>4, WordBits DEF Owns
  <2> QED
    BY <2>2, <2>3, <2>4
<1>6. Writes(M, N)
  BY <1>2, <1>4, <1>5 DEF Writes, Links
<1>7. Adds(M)
  BY <1>3 DEF Adds
<1> QED
  BY <1>2, <1>3, <1>4, <1>6, <1>7

LEMMA ChangeWrites ==
  ASSUME NEW t \in Threads, NEW M, NEW N, Moving(t, M, N), UNCHANGED retired,
         NEW s \in Slots, NEW b, NEW c, change(s, b, c), Keeps(M, s), Inner(s),
         M.pc \in Preparing, c = M.fresh
  PROVE  /\ Writes(M, N) /\ Adds(M) /\ Slots' = Slots
         /\ \A x \in Slots : /\ mem'[x].word = mem[x].word
                             /\ x # s => mem'[x] = mem[x]
         /\ \A x, y : HasChild(s, x, y)' => (x # b /\ HasChild(s, x, y)) \/ y = c
<1>1. MemOK
  BY DEF Moving, TInv
<1>2. /\ Len(mem') = Len(mem) /\ \A x \in Slots : x # s => mem'[x] = mem[x]
      /\ mem'[s].word = mem[s].word
      /\ DOMAIN mem'[s].child = DOMAIN mem[s].child \cup {b} /\ mem'[s].child[b] = c
      /\ \A x \in DOMAIN mem[s].child : x # b => mem'[s].child[x] = mem[s].child[x]
  BY <1>1, ChildChanged
<1>3. Slots' = Slots
  BY <1>2 DEF Slots
<1>4. \A x, y : HasChild(s, x, y)' => (x # b /\ HasChild(s, x, y)) \/ y = c
  BY <1>2 DEF HasChild
<1>5. \A q \in Slots : \A x : Links(q, x)' => Links(q, x) \/ x = M.fresh
  BY <1>2 DEF Links
<1>6. Writes(M, N)
  BY <1>2, <1>5 DEF Writes
<1>7. Adds(M)
  BY <1>3 DEF Adds
<1> QED
  BY <1>2, <1>3, <1>4, <1>6, <1>7

LEMMA MarkWrites ==
  ASSUME NEW t \in Threads, NEW M, NEW N, Moving(t, M, N), UNCHANGED mem,
         NEW s \in Slots, NEW owner, NEW byte, Mark(t, s, owner, byte), Claims(M, s)
  PROVE  /\ Writes(M, N) /\ Adds(M) /\ Slots' = Slots
         /\ \A x \in Slots : x # s => retired'[x] = retired[x]
<1>1. /\ IsSeq(retired) /\ Len(retired) = Len(mem) /\ DOMAIN retired = 1..Len(mem) /\ M = loc[t]
  BY Sequence DEF Moving, TInv, MemOK
<1> DEFINE e == retired[s] \cup {[by |-> t, hash |-> IdHash(owner, byte), waiting |-> loc[t].claim]}
<1>2. retired' = [retired EXCEPT ![s] = e]
  BY DEF Mark
<1>3. \A r \in e : r \in retired[s] \/ r.waiting = M.claim
  BY <1>1
<1> HIDE DEF e
<1>4. retired'[s] = e /\ \A x \in Slots : x # s => retired'[x] = retired[x]
  BY <1>1, <1>2 DEF Slots
<1>5. Slots' = Slots
  BY DEF Slots
<1>6. Writes(M, N)
  BY <1>3, <1>4 DEF Writes, Links
<1>7. Adds(M)
  BY <1>5 DEF Adds
<1> QED
  BY <1>4, <1>5, <1>6, <1>7

(* A step that cuts nothing out of the tree.                                *)
LEMMA NoCuts ==
  ASSUME NEW t \in Threads, NEW M, NEW N, Moving(t, M, N), Slots' = Slots, UNCHANGED retired,
         \A s : Parting(M, s) => Parting(N, s),
         \A q, s : Leaving(M, q, s) => Leaving(N, q, s),
         \A s : Removing(N, s) => Removing(M, s)
  PROVE  Cuts(M, N)
  BY DEF Cuts, Removed, Moving

(* The call goes on with the same nodes.                                    *)
Onward(M, N) ==
  /\ N.op = M.op /\ N.node = M.node /\ N.next = M.next /\ N.parent = M.parent /\ N.v = M.v
  /\ N.pv = M.pv /\ N.byte = M.byte /\ N.pbyte = M.pbyte /\ N.cursor = M.cursor /\ N.any = M.any

LEMMA Going ==
  ASSUME NEW M, NEW N, NEW changes, Changed(N, M, changes),
         DOMAIN changes \subseteq {"pc", "claim", "fresh"}
  PROVE  /\ Onward(M, N)
         /\ "pc" \in DOMAIN changes => N.pc = changes.pc
         /\ IF "claim" \in DOMAIN changes THEN N.claim = changes.claim ELSE N.claim = M.claim
         /\ IF "fresh" \in DOMAIN changes THEN N.fresh = changes.fresh ELSE N.fresh = M.fresh
  BY DEF Changed, Fields, Onward

LEMMA ChangingCall ==
  ASSUME NEW t \in Threads, NEW M, NEW N, Moving(t, M, N), M.pc \in Changing
  PROVE  /\ M = loc[t] /\ TInv /\ LInv /\ Calls(M) /\ Knows(M) /\ M.op = "insert"
         /\ Here(M) /\ Reading(M)
         /\ M.node \in Slots /\ Inner(M.node) /\ (M.parent # Nil => M.parent \in Slots /\ Inner(M.parent))
         /\ M.pc \in Replacing => M.parent # Nil /\ Versioned(M.parent, M.pv)
         /\ M.pc \in LeafSplitting => M.next \in Slots /\ IsLeaf(M.next)
         /\ M.pc \notin {"insert", "hit", "anyCheck", "childCheck", "further"}
<1>1. /\ M = loc[t] /\ TInv /\ LInv /\ Calls(M)
      /\ M.pc \notin {"insert", "hit", "anyCheck", "childCheck", "further"}
  BY DEF Moving, Calls, Changing, Putting, Replacing, Growing, Splitting, LeafSplitting
<1>2. /\ M.op = "insert" /\ Here(M) /\ Reading(M) /\ Arrived(M) /\ M.node \in Slots
      /\ (M.pc \in LeafSplitting => M.next \in Slots)
  <2>1. M.pc \in Inserting /\ M.pc # "insert"
    BY <1>1, ChangingNow
  <2> QED
    BY <1>1, <2>1, ChangingNow, InsertNow
<1>3. Knows(M)
  BY <1>1 DEF LInv, KnowsOK
<1>4. M.node # Nil
  BY <1>2 DEF Slots, Nil
<1>5. M.parent # Nil => Versioned(M.parent, M.pv)
  BY <1>2 DEF Here
<1> QED
  BY <1>1, <1>2, <1>3, <1>4, <1>5 DEF Knows, KindsKnown, Arrived, Inner

(* The call still knows its way, and whatever it must know besides.         *)
LEMMA Onwards ==
  ASSUME NEW t \in Threads, NEW M, NEW N, Moving(t, M, N), Careful(M, N), Onward(M, N),
         M.pc \in Changing, N.pc \in Changing, N.pc # "leafLockNode",
         N.pc \in LeafSplitting => M.pc \in LeafSplitting,
         Locking(N)', Prepared(N)',
         N.pc \in {"growNode", "growBuild", "growLink", "splitNode", "splitBuild", "splitLink"} =>
            HasChild(M.parent, M.pbyte, M.node)',
         N.pc \in {"leafWrite", "leafBuild", "leafObsolete", "leafMark", "leafLink"} =>
            HasChild(M.node, M.byte, M.next)'
  PROVE  Turns(t, M, N)
<1>1. /\ M.op = "insert" /\ Knows(M) /\ Here(M) /\ Writes(M, N)
      /\ M.node \in Slots /\ Inner(M.node) /\ (M.parent # Nil => M.parent \in Slots /\ Inner(M.parent))
      /\ (M.pc \in LeafSplitting => M.next \in Slots /\ IsLeaf(M.next))
      /\ M.pc # "insert"
  BY ChangingCall DEF Careful
<1>2. N.pc \notin {"insert", "hit", "anyCheck", "childCheck", "further"}
  BY DEF Changing, Putting, Replacing, Growing, Splitting, LeafSplitting
<1>3. KindsKnown(N)'
  BY <1>1, <1>2, Unchanging DEF KindsKnown, Onward
<1>4. M.parent # Nil /\ Word(M.parent)' = M.pv => HasChild(M.parent, M.pbyte, M.node)'
  <2> SUFFICES ASSUME M.parent # Nil, Word(M.parent)' = M.pv
               PROVE  HasChild(M.parent, M.pbyte, M.node)'
    OBVIOUS
  <2>1. Versioned(M.parent, M.pv)
    BY <1>1 DEF Here
  <2>2. Word(M.parent) = M.pv /\ mem'[M.parent].child = mem[M.parent].child
    BY <1>1, <2>1, Vouched
  <2>3. HasChild(M.parent, M.pbyte, M.node)
    BY <1>1, <2>2 DEF Knows, Current
  <2> QED
    BY <2>2, <2>3 DEF HasChild
<1>5. Current(N)'
  BY <1>1, <1>2, <1>4 DEF Current, Onward
<1> QED
  BY <1>3, <1>5 DEF Turns, Knows

(* Nothing new is held.                                                     *)
LEMMA SameHeld ==
  ASSUME NEW t \in Threads, NEW M, NEW N, Moving(t, M, N), Onward(M, N), M.pc \in Changing
  PROVE  HeldBy(N) \subseteq HeldBy(M) /\ Acquires(M, N)
<1>1. Calls(M) /\ M.pc \notin {"hit", "childCheck", "anyCheck"}
  BY ChangingCall
<1>2. HeldBy(N) \subseteq HeldBy(M)
  BY <1>1 DEF HeldBy, Onward
<1> QED
  BY <1>1, <1>2 DEF Acquires
-----------------------------------------------------------------------------
(* The steps that lock a node.                                              *)
LocksFor(M, to, s) ==
  \/ M.pc = "lockNode" /\ to = "put" /\ s = M.node
  \/ M.pc = "leafLockNode" /\ to = "leafWrite" /\ s = M.node
  \/ M.pc = "leafWrite" /\ to = "leafBuild" /\ s = M.next
  \/ M.pc = "growParent" /\ to = "growNode" /\ s = M.parent
  \/ M.pc = "splitParent" /\ to = "splitNode" /\ s = M.parent
  \/ M.pc = "growNode" /\ to = "growBuild" /\ s = M.node
  \/ M.pc = "splitNode" /\ to = "splitBuild" /\ s = M.node

LEMMA LockingOwns ==
  ASSUME NEW M, NEW N, NEW s, LocksFor(M, N.pc, s), Onward(M, N)
  PROVE  /\ M.pc \in Changing /\ N.pc \in Changing /\ N.pc # "leafLockNode"
         /\ \A x : Keeps(N, x) => Keeps(M, x) \/ x = s
         /\ \A x : ~Copies(N, x) /\ ~Copies(M, x) /\ ~Parting(M, x) /\ ~Removing(N, x)
         /\ \A q, x : ~Leaving(M, q, x)
         /\ Keeps(N, s) /\ s \in HeldBy(M) /\ N.pc \notin Preparing
         /\ M.pc \in {"leafWrite", "growNode", "splitNode"} => \A x : Claims(N, x) => Claims(M, x)
         /\ N.pc \in LeafSplitting => M.pc \in LeafSplitting
<1>1. M.pc \in Changing /\ N.pc \in Changing /\ N.pc # "leafLockNode"
      /\ (N.pc \in LeafSplitting => M.pc \in LeafSplitting)
  BY DEF LocksFor, Changing, Putting, Replacing, Growing, Splitting, LeafSplitting
<1>2. \A x : Keeps(N, x) => Keeps(M, x) \/ x = s
  BY DEF LocksFor, Onward, Keeps, KeepsNode, KeepsParent, KeepsNext
<1>3. \A x : ~Copies(N, x) /\ ~Copies(M, x) /\ ~Parting(M, x) /\ ~Removing(N, x)
  BY DEF LocksFor, Copies, CopiesNode, Parting, Removing
<1>4. (\A q, x : ~Leaving(M, q, x)) /\ N.pc \notin Preparing
  BY DEF LocksFor, Leaving, Preparing
<1>5. Keeps(N, s) /\ s \in HeldBy(M)
  BY DEF LocksFor, Onward, Keeps, KeepsNode, KeepsParent, KeepsNext, HeldBy
<1>6. M.pc \in {"leafWrite", "growNode", "splitNode"} => \A x : Claims(N, x) => Claims(M, x)
  BY DEF LocksFor, Onward, Claims, ClaimsNode, ClaimsNext
<1> QED
  BY <1>1, <1>2, <1>3, <1>4, <1>5, <1>6

LEMMA LockTurns ==
  ASSUME NEW t \in Threads, NEW M, NEW N, Moving(t, M, N), UNCHANGED retired,
         NEW s \in Slots, Free(s), AddToWord(s, 2),
         NEW changes, Go(t, changes), DOMAIN changes \subseteq {"pc", "claim"},
         "pc" \in DOMAIN changes, LocksFor(M, changes.pc, s),
         M.pc \in {"leafLockNode", "growParent", "splitParent"} =>
            "claim" \in DOMAIN changes /\ changes.claim = Running,
         M.pc \notin {"leafLockNode", "growParent", "splitParent"} => "claim" \notin DOMAIN changes,
         M.pc \in {"growParent", "splitParent"} => Word(M.parent) = M.pv,
         M.pc = "leafLockNode" => Word(M.node) = M.v
  PROVE  Turns(t, M, N)
<1>1. M.pc \in Changing
  BY DEF LocksFor, Changing, Putting, Replacing, Growing, Splitting, LeafSplitting
<1>2. /\ TInv /\ LInv /\ Calls(M) /\ Knows(M) /\ M.op = "insert" /\ Inner(M.node)
      /\ M.pc \in Replacing => M.parent # Nil /\ Inner(M.parent)
      /\ M.pc \in LeafSplitting => M.next \in Slots /\ IsLeaf(M.next)
  BY <1>1, ChangingCall
<1>3. Changed(N, M, changes)
  <2>1. DOMAIN changes \subseteq Fields
    BY DEF Fields
  <2> QED
    BY <1>2, <2>1, Outcomes
<1>4. /\ Onward(M, N) /\ N.pc = changes.pc
      /\ IF "claim" \in DOMAIN changes THEN N.claim = changes.claim ELSE N.claim = M.claim
  BY <1>3, Going
<1>5. LocksFor(M, N.pc, s)
  BY <1>4
<1>6. /\ N.pc \in Changing /\ N.pc # "leafLockNode"
      /\ \A x : Keeps(N, x) => Keeps(M, x) \/ x = s
      /\ \A x : ~Copies(N, x) /\ ~Copies(M, x) /\ ~Parting(M, x) /\ ~Removing(N, x)
      /\ \A q, x : ~Leaving(M, q, x)
      /\ Keeps(N, s) /\ s \in HeldBy(M) /\ N.pc \notin Preparing
      /\ M.pc \in {"leafWrite", "growNode", "splitNode"} => \A x : Claims(N, x) => Claims(M, x)
      /\ N.pc \in LeafSplitting => M.pc \in LeafSplitting
  BY <1>4, <1>5, LockingOwns
<1>7. /\ Writes(M, N) /\ Adds(M) /\ Slots' = Slots
      /\ mem'[s].word = mem[s].word + 2
      /\ \A x \in Slots : /\ mem'[x].child = mem[x].child
                          /\ x # s => mem'[x].word = mem[x].word
  BY <1>2, <1>6, WordWrites
<1>8. Locks(M, N)
  <2>1. ASSUME NEW x, Claims(N, x)
        PROVE  \/ Claims(M, x) /\ N.claim = M.claim
               \/ N.claim = Running /\ Calls(M) /\ HeldBy(N) \subseteq HeldBy(M)
    <3>1. CASE M.pc \in {"leafLockNode", "growParent", "splitParent"}
      BY <1>1, <1>2, <1>4, <3>1, SameHeld
    <3>2. CASE M.pc \in {"leafWrite", "growNode", "splitNode"}
      BY <1>4, <1>6, <2>1, <3>2
    <3>3. CASE M.pc = "lockNode"
      BY <1>5, <2>1, <3>3 DEF LocksFor, Claims, ClaimsNode, ClaimsNext
    <3> QED
      BY <1>5, <3>1, <3>2, <3>3 DEF LocksFor
  <2> QED
    BY <1>6, <2>1 DEF Locks
<1>9. Cuts(M, N)
  BY <1>6, <1>7, NoCuts
<1>10. Careful(M, N)
  BY <1>1, <1>4, <1>7, <1>8, <1>9, SameHeld DEF Careful
<1>11. Locking(N)'
  <2>1. (Taken(s) /\ (IsLeaf(s) => Parting(N, s)))'
    <3>1. mem[s].word \in Nat
      BY <1>2 DEF TInv, MemOK
    <3>2. Taken(s)'
      BY <1>7, <3>1, WordBits DEF Taken, Free
    <3>3. IsLeaf(s)' => IsLeaf(s)
      BY Unchanging
    <3>4. IsLeaf(s) => M.pc = "leafWrite" /\ s = M.next /\ N.pc = "leafBuild"
      BY <1>2, <1>5 DEF LocksFor, Inner, IsLeaf, Replacing, Growing, Splitting
    <3> QED
      BY <1>4, <3>2, <3>3, <3>4 DEF Parting, Onward
  <2>2. ASSUME NEW x, Keeps(M, x), x # s PROVE (x \in Slots /\ Taken(x) /\ ~IsLeaf(x))'
    <3>1. x \in Slots /\ Taken(x) /\ ~IsLeaf(x)
      BY <1>2, <1>6, <2>2 DEF Knows, Locking, Owns
    <3> QED
      BY <1>7, <2>2, <3>1, Unchanging DEF Taken
  <2>3. \A x : Owns(N, x) => Keeps(M, x) \/ x = s
    BY <1>6 DEF Owns
  <2>4. N.pc \in KeepsParent /\ N.pc \in KeepsNode \cup CopiesNode => N.node # N.parent
    <3> SUFFICES ASSUME N.pc \in KeepsParent, N.pc \in KeepsNode \cup CopiesNode
                 PROVE  N.node # N.parent
      OBVIOUS
    <3>1. M.pc \in {"growNode", "splitNode"} /\ s = M.node
      BY <1>5 DEF LocksFor, KeepsParent, KeepsNode, CopiesNode
    <3>2. Taken(M.parent)
      BY <1>2, <3>1 DEF Knows, Locking, Owns, Keeps, KeepsParent
    <3> QED
      BY <1>4, <3>1, <3>2 DEF Onward, Free, Taken
  <2> QED
    BY <1>7, <2>1, <2>2, <2>3, <2>4 DEF Locking
<1>12. Prepared(N)'
  BY <1>6 DEF Prepared
<1>13. \A q \in Slots : \A b, x : HasChild(q, b, x) => HasChild(q, b, x)'
  BY <1>7 DEF HasChild
<1>14. N.pc \in {"growNode", "growBuild", "growLink", "splitNode", "splitBuild", "splitLink"} =>
          HasChild(M.parent, M.pbyte, M.node)'
  <2> SUFFICES ASSUME N.pc \in {"growNode", "growBuild", "growLink", "splitNode", "splitBuild", "splitLink"}
               PROVE  HasChild(M.parent, M.pbyte, M.node)'
    OBVIOUS
  <2>1. M.pc \in {"growParent", "splitParent", "growNode", "splitNode"}
    BY <1>5 DEF LocksFor
  <2>2. M.parent # Nil /\ M.parent \in Slots
    BY <1>2, <2>1 DEF Replacing, Growing, Splitting, Inner
  <2>3. HasChild(M.parent, M.pbyte, M.node)
    BY <1>2, <2>1, <2>2 DEF Knows, Current
  <2> QED
    BY <1>13, <2>2, <2>3
<1>15. N.pc \in {"leafWrite", "leafBuild", "leafObsolete", "leafMark", "leafLink"} =>
          HasChild(M.node, M.byte, M.next)'
  <2> SUFFICES ASSUME N.pc \in {"leafWrite", "leafBuild", "leafObsolete", "leafMark", "leafLink"}
               PROVE  HasChild(M.node, M.byte, M.next)'
    OBVIOUS
  <2>1. M.pc \in {"leafLockNode", "leafWrite"}
    BY <1>5 DEF LocksFor
  <2>2. M.next # Nil /\ M.node \in Slots
    BY <1>2, <2>1 DEF LeafSplitting, Inner, Slots, Nil
  <2>3. HasChild(M.node, M.byte, M.next)
    BY <1>2, <2>1, <2>2 DEF Knows, Current
  <2> QED
    BY <1>13, <2>2, <2>3
<1> QED
  BY <1>1, <1>4, <1>6, <1>10, <1>11, <1>12, <1>14, <1>15, Onwards

(* Nobody locks a leaf but who has locked its parent.                       *)
LEMMA LeafReadable ==
  ASSUME TInv, LInv, NEW t \in Threads, loc[t].pc = "leafWrite"
  PROVE  loc[t].next \in Slots /\ Free(loc[t].next)
<1> DEFINE M == loc[t]
<1>1. M.pc \in Changing /\ Calls(M) /\ M.pc \in LeafSplitting
  BY DEF Changing, LeafSplitting, Calls
<1>2. Knows(M) /\ M.next \in Slots /\ M.op = "insert"
  BY <1>1, ChangingNow, InsertNow DEF LInv, KnowsOK
<1>3. IsLeaf(M.next) /\ HasChild(M.node, M.byte, M.next) /\ Keeps(M, M.node)
  BY <1>1, <1>2 DEF Knows, KindsKnown, Current, Keeps, KeepsNode
<1>4. M.node \in Slots /\ Live(M.node) /\ Links(M.node, M.next)
  BY <1>2, <1>3 DEF Knows, Locking, Owns, Live, HasChild, Links
<1>5. ASSUME NEW u \in Threads, Parting(loc[u], M.next) PROVE FALSE
  <2> DEFINE U == loc[u]
  <2>1. Calls(U) /\ U.pc \in {"leafBuild", "leafObsolete", "leafMark", "leafLink"} /\ U.next = M.next
    BY <1>5 DEF Parting, Calls
  <2>2. HasChild(U.node, U.byte, M.next) /\ Keeps(U, U.node) /\ Locking(U)
    BY <2>1 DEF LInv, KnowsOK, Knows, Current, Keeps, KeepsNode
  <2>3. U.node \in Slots /\ Live(U.node) /\ Links(U.node, M.next)
    BY <2>2 DEF Locking, Owns, Live, HasChild, Links
  <2>4. U.node = M.node
    BY <1>2, <1>4, <2>3, OneParent DEF LInv
  <2>5. u # t
    BY <2>1
  <2> QED
    BY <1>3, <2>2, <2>4, <2>5 DEF LInv, ApartOK, Apart, Owns
<1> QED
  BY <1>2, <1>3, <1>4, <1>5 DEF LInv, LeavesOK

LEMMA UpgradeTurns ==
  ASSUME NEW t \in Threads, NEW M, NEW N, Moving(t, M, N), UNCHANGED retired,
         NEW s, NEW v, Versioned(s, v), NEW changes, DOMAIN changes \subseteq {"pc", "claim"},
         "pc" \in DOMAIN changes, LocksFor(M, changes.pc, s),
         \/ Upgrade(t, s, v, changes, Restart(t))
         \/ M.pc \in {"growNode", "splitNode"} /\ Upgrade(t, s, v, changes, Go(t, [pc |-> "undo"])),
         M.pc \in {"leafLockNode", "growParent", "splitParent"} =>
            "claim" \in DOMAIN changes /\ changes.claim = Running,
         M.pc \notin {"leafLockNode", "growParent", "splitParent"} => "claim" \notin DOMAIN changes,
         M.pc \in {"growParent", "splitParent"} => v = M.pv,
         M.pc = "leafLockNode" => v = M.v
  PROVE  Turns(t, M, N)
<1>1. M.pc \in {"lockNode", "leafLockNode", "leafWrite", "growParent", "splitParent", "growNode", "splitNode"}
  BY DEF LocksFor
<1>2. M.pc \in Changing
  BY <1>1 DEF Changing, Putting, Replacing, Growing, Splitting, LeafSplitting
<1>3. TInv /\ Calls(M) /\ Knows(M) /\ s \in Slots
  BY <1>2, ChangingCall DEF Versioned
<1>4. \A x : ~Parting(M, x) /\ \A q : ~Leaving(M, q, x)
  BY <1>1 DEF Parting, Leaving
<1>5. CASE Word(s) = v
  <2>1. Free(s) /\ AddToWord(s, 2) /\ Go(t, changes)
    BY <1>3, <1>5, StillFree DEF Upgrade
  <2>2. /\ M.pc \in {"growParent", "splitParent"} => Word(M.parent) = M.pv
        /\ M.pc = "leafLockNode" => Word(M.node) = M.v
    BY <1>5 DEF LocksFor
  <2> QED
    BY <1>3, <2>1, <2>2, LockTurns
<1>6. CASE Restart(t) /\ UNCHANGED mem
  BY <1>3, <1>4, <1>6, Outcomes, Reads
<1>7. CASE M.pc \in {"growNode", "splitNode"} /\ Go(t, [pc |-> "undo"]) /\ UNCHANGED mem
  <2>1. Changed(N, M, [pc |-> "undo"])
    BY <1>3, <1>7, Outcomes DEF Fields
  <2>2. Onward(M, N) /\ N.pc = "undo"
    BY <2>1, Going
  <2>3. Careful(M, N)
    BY <1>2, <1>4, <1>7, <2>2, Quietly, SameHeld DEF Onward
  <2>4. Locking(N)'
    <3>1. Locking(N)
      BY <1>3, <1>7, <2>2 DEF Knows, Locking, Owns, Keeps, Copies, KeepsNode, CopiesNode, KeepsParent,
                             KeepsNext, Onward, Parting
    <3> QED
      BY <1>7, <3>1 DEF Locking, Slots, Taken, IsLeaf
  <2>5. Prepared(N)'
    BY <2>2 DEF Prepared, Preparing
  <2>6. N.pc \in Changing /\ N.pc \notin LeafSplitting
    BY <2>2 DEF Changing, Replacing, LeafSplitting
  <2> QED
    BY <1>2, <2>2, <2>3, <2>4, <2>5, <2>6, Onwards
<1> QED
  BY <1>5, <1>6, <1>7 DEF Upgrade

LEMMA LockingTurns ==
  ASSUME NEW t \in Threads, NEW M, NEW N, Moving(t, M, N),
         \/ PutLock(t) \/ LeafLockNode(t) \/ LeafWriteLock(t)
         \/ LockParent(t, "growParent", "growNode") \/ LockNode(t, "growNode", "growBuild")
         \/ LockParent(t, "splitParent", "splitNode") \/ LockNode(t, "splitNode", "splitBuild")
  PROVE  Turns(t, M, N)
<1>1. M.pc \in Changing /\ M = loc[t]
  BY DEF PutLock, LeafLockNode, LeafWriteLock, LockParent, LockNode, Moving,
         Changing, Putting, Replacing, Growing, Splitting, LeafSplitting
<1>2. /\ TInv /\ LInv /\ Versioned(M.node, M.v)
      /\ M.pc \in Replacing => Versioned(M.parent, M.pv)
  BY <1>1, ChangingCall DEF Here
<1>3. CASE PutLock(t)
  <2>1. M.pc = "lockNode" /\ Upgrade(t, M.node, M.v, [pc |-> "put"], Restart(t)) /\ UNCHANGED retired
    BY <1>1, <1>3 DEF PutLock
  <2>2. LocksFor(M, "put", M.node)
    BY <2>1 DEF LocksFor
  <2> QED
    BY <1>2, <2>1, <2>2, UpgradeTurns
<1>4. CASE LeafLockNode(t)
  <2> DEFINE changes == [pc |-> "leafWrite", claim |-> Running]
  <2>1. M.pc = "leafLockNode" /\ Upgrade(t, M.node, M.v, changes, Restart(t)) /\ UNCHANGED retired
    BY <1>1, <1>4 DEF LeafLockNode
  <2>2. LocksFor(M, changes.pc, M.node)
    BY <2>1 DEF LocksFor
  <2>3. DOMAIN changes = {"pc", "claim"} /\ changes.claim = Running
    OBVIOUS
  <2> HIDE DEF changes
  <2> QED
    BY <1>2, <2>1, <2>2, <2>3, UpgradeTurns
<1>5. ASSUME NEW from, NEW to, <<from, to>> \in {<<"growParent", "growNode">>, <<"splitParent", "splitNode">>},
             LockParent(t, from, to)
      PROVE  Turns(t, M, N)
  <2> DEFINE changes == [pc |-> to, claim |-> Running]
  <2>1. M.pc = from /\ Upgrade(t, M.parent, M.pv, changes, Restart(t)) /\ UNCHANGED retired
    BY <1>1, <1>5 DEF LockParent
  <2>2. LocksFor(M, changes.pc, M.parent) /\ M.pc \in Replacing /\ M.pc \in {"growParent", "splitParent"}
    BY <1>5, <2>1 DEF LocksFor, Replacing, Growing, Splitting
  <2>3. DOMAIN changes = {"pc", "claim"} /\ changes.claim = Running
    OBVIOUS
  <2> HIDE DEF changes
  <2> QED
    BY <1>2, <2>1, <2>2, <2>3, UpgradeTurns
<1>6. ASSUME NEW from, NEW to, <<from, to>> \in {<<"growNode", "growBuild">>, <<"splitNode", "splitBuild">>},
             LockNode(t, from, to)
      PROVE  Turns(t, M, N)
  <2>1. /\ M.pc = from /\ Upgrade(t, M.node, M.v, [pc |-> to], Go(t, [pc |-> "undo"]))
        /\ UNCHANGED retired
    BY <1>1, <1>6 DEF LockNode
  <2>2. LocksFor(M, to, M.node) /\ M.pc \in {"growNode", "splitNode"}
    BY <1>6, <2>1 DEF LocksFor
  <2> QED
    BY <1>2, <2>1, <2>2, UpgradeTurns
<1>7. CASE LeafWriteLock(t)
  <2>1. M.pc = "leafWrite" /\ UNCHANGED retired
    BY <1>1, <1>7 DEF LeafWriteLock
  <2>2. M.next \in Slots /\ Free(M.next)
    BY <1>1, <1>2, <2>1, LeafReadable
  <2>3. Readable(Word(M.next))
    BY <1>2, <2>2, WordBits DEF TInv, MemOK, Free, Word
  <2>4. AddToWord(M.next, 2) /\ Go(t, [pc |-> "leafBuild"])
    BY <1>1, <1>7, <2>3 DEF LeafWriteLock
  <2>5. LocksFor(M, "leafBuild", M.next)
    BY <2>1 DEF LocksFor
  <2> QED
    BY <2>1, <2>2, <2>4, <2>5, LockTurns
<1> QED
  BY <1>3, <1>4, <1>5, <1>6, <1>7
-----------------------------------------------------------------------------
(* The steps that unlock a node: the call gives up what it owned.           *)
Lessens(M, N) ==
  /\ Onward(M, N) /\ N.claim = M.claim /\ N.fresh = M.fresh
  /\ \/ M.pc = "splitUnlock" /\ N.pc = "splitObsolete"
     \/ M.pc = "splitObsolete" /\ N.pc = "splitMark"
     \/ M.pc = "growObsolete" /\ N.pc = "growMark"
     \/ M.pc = "leafObsolete" /\ N.pc = "leafMark"

LEMMA LesserOwns ==
  ASSUME NEW M, NEW N, Lessens(M, N)
  PROVE  /\ M.pc \in Changing /\ N.pc \in Changing /\ N.pc # "leafLockNode"
         /\ \A x : Keeps(N, x) => Keeps(M, x)
         /\ \A x : Copies(N, x) => Copies(M, x)
         /\ \A x : Parting(M, x) <=> Parting(N, x)
         /\ \A x : Removing(N, x) => Removing(M, x)
         /\ \A q, x : ~Leaving(M, q, x)
         /\ \A x : Claims(N, x) => Claims(M, x)
         /\ N.pc \in Preparing => M.pc \in Preparing
         /\ N.pc \in LeafSplitting => M.pc \in LeafSplitting
         /\ N.pc \in KeepsParent => N.pc \notin KeepsNode \cup CopiesNode
         /\ N.pc \notin {"growNode", "growBuild", "growLink", "splitNode", "splitBuild", "splitLink"}
         /\ N.pc \in {"leafWrite", "leafBuild", "leafObsolete", "leafMark", "leafLink"} =>
               M.pc = "leafObsolete"
<1>1. M.pc \in Changing /\ N.pc \in Changing /\ N.pc # "leafLockNode"
      /\ (N.pc \in LeafSplitting => M.pc \in LeafSplitting)
  BY DEF Lessens, Changing, Putting, Replacing, Growing, Splitting, LeafSplitting
<1>2. /\ \A x : Keeps(N, x) => Keeps(M, x)
      /\ \A x : Copies(N, x) => Copies(M, x)
  BY DEF Lessens, Onward, Keeps, Copies, KeepsNode, KeepsParent, KeepsNext, CopiesNode
<1>3. /\ \A x : Parting(M, x) <=> Parting(N, x)
      /\ \A x : Removing(N, x) => Removing(M, x)
      /\ \A q, x : ~Leaving(M, q, x)
  BY DEF Lessens, Onward, Parting, Removing, Leaving
<1>4. /\ \A x : Claims(N, x) => Claims(M, x)
      /\ N.pc \in Preparing => M.pc \in Preparing
  BY DEF Lessens, Onward, Claims, ClaimsNode, ClaimsNext, Preparing
<1>5. /\ N.pc \in KeepsParent => N.pc \notin KeepsNode \cup CopiesNode
      /\ N.pc \notin {"growNode", "growBuild", "growLink", "splitNode", "splitBuild", "splitLink"}
      /\ N.pc \in {"leafWrite", "leafBuild", "leafObsolete", "leafMark", "leafLink"} =>
               M.pc = "leafObsolete"
  BY DEF Lessens, KeepsParent, KeepsNode, CopiesNode
<1> QED
  BY <1>1, <1>2, <1>3, <1>4, <1>5

LEMMA UnlockTurns ==
  ASSUME NEW t \in Threads, NEW M, NEW N, Moving(t, M, N), UNCHANGED retired, M.pc \in Changing,
         NEW s \in Slots, NEW n \in Nat, AddToWord(s, n), ~Owns(N, s),
         (Owns(M, s) /\ n = 3) \/ (Keeps(M, s) /\ n = 2),
         \/ /\ ~Calls(N) \/ N = Start(M)
            /\ \A x : ~Parting(M, x) /\ \A q : ~Leaving(M, q, x)
         \/ Lessens(M, N)
  PROVE  Turns(t, M, N)
<1>1. /\ TInv /\ LInv /\ Calls(M) /\ Knows(M)
      /\ M.pc \in LeafSplitting => M.next \in Slots /\ IsLeaf(M.next)
      /\ M.node \in Slots
  BY ChangingCall
<1>2. /\ Writes(M, N) /\ Adds(M) /\ Slots' = Slots
      /\ \A x \in Slots : /\ mem'[x].child = mem[x].child
                          /\ x # s => mem'[x].word = mem[x].word
  BY WordWrites
<1>3. CASE /\ ~Calls(N) \/ N = Start(M)
           /\ \A x : ~Parting(M, x) /\ \A q : ~Leaving(M, q, x)
  <2>1. /\ Calls(N) => Knows(N)'
        /\ Acquires(M, N) /\ N.pc \notin Bound
    BY <1>1, <1>3, Restarted DEF Acquires, Calls, Bound, KeepsNode, CopiesNode, KeepsParent
  <2>2. /\ \A x : ~Owns(N, x) /\ ~Keeps(N, x) /\ ~Claims(N, x) /\ ~Removing(N, x)
        /\ N.pc \notin Preparing
    BY <2>1, Loose
  <2>3. Locks(M, N)
    BY <2>2 DEF Locks, Owns
  <2>4. Cuts(M, N)
    BY <1>2, <1>3, <2>2, NoCuts
  <2> QED
    BY <1>2, <2>1, <2>3, <2>4 DEF Turns, Careful
<1>4. CASE Lessens(M, N)
  <2>1. Onward(M, N) /\ N.claim = M.claim /\ N.fresh = M.fresh
    BY <1>4 DEF Lessens
  <2>2. /\ N.pc \in Changing /\ N.pc # "leafLockNode"
        /\ \A x : Keeps(N, x) => Keeps(M, x)
        /\ \A x : Copies(N, x) => Copies(M, x)
        /\ \A x : Parting(M, x) <=> Parting(N, x)
        /\ \A x : Removing(N, x) => Removing(M, x)
        /\ \A q, x : ~Leaving(M, q, x)
        /\ \A x : Claims(N, x) => Claims(M, x)
        /\ N.pc \in Preparing => M.pc \in Preparing
        /\ N.pc \in LeafSplitting => M.pc \in LeafSplitting
        /\ N.pc \in KeepsParent => N.pc \notin KeepsNode \cup CopiesNode
        /\ N.pc \notin {"growNode", "growBuild", "growLink", "splitNode", "splitBuild", "splitLink"}
        /\ N.pc \in {"leafWrite", "leafBuild", "leafObsolete", "leafMark", "leafLink"} =>
               M.pc = "leafObsolete"
    BY <1>4, LesserOwns
  <2>3. Locks(M, N)
    BY <2>1, <2>2 DEF Locks, Owns
  <2>4. Cuts(M, N)
    BY <1>2, <2>2, NoCuts
  <2>5. Careful(M, N)
    BY <1>2, <2>1, <2>3, <2>4, SameHeld DEF Careful
  <2>6. Locking(N)'
    <3>1. ASSUME NEW x, Owns(N, x) PROVE (x \in Slots /\ Taken(x) /\ (IsLeaf(x) => Parting(N, x)))'
      <4>1. Owns(M, x) /\ x # s
        BY <2>2, <3>1 DEF Owns
      <4>2. x \in Slots /\ Taken(x) /\ (IsLeaf(x) => Parting(N, x))
        BY <1>1, <2>2, <4>1 DEF Knows, Locking
      <4> QED
        BY <1>2, <4>1, <4>2, Unchanging DEF Taken, Parting
    <3> QED
      BY <2>2, <3>1 DEF Locking
  <2>7. Prepared(N)'
    <3> SUFFICES ASSUME N.pc \in Preparing PROVE Prepared(N)'
      BY DEF Prepared
    <3>1. /\ M.fresh \in Slots \ {Root} /\ Free(M.fresh) /\ retired[M.fresh] = {}
          /\ \A q \in Slots : ~Links(q, M.fresh)
      BY <1>1, <2>2 DEF Knows, Prepared
    <3>2. Taken(s)
      BY Unchanging DEF Owns, Moving
    <3>3. M.fresh # s
      BY <3>1, <3>2 DEF Free, Taken
    <3> QED
      BY <1>2, <2>1, <3>1, <3>3 DEF Prepared, Free, Links
  <2>8. N.pc \in {"leafWrite", "leafBuild", "leafObsolete", "leafMark", "leafLink"} =>
           HasChild(M.node, M.byte, M.next)'
    BY <1>1, <1>2, <2>2 DEF Knows, Current, HasChild
  <2> QED
    BY <2>1, <2>2, <2>5, <2>6, <2>7, <2>8, Onwards
<1> QED
  BY <1>3, <1>4

LEMMA UnlockingTurns ==
  ASSUME NEW t \in Threads, NEW M, NEW N, Moving(t, M, N),
         \/ Unlock(t) \/ Undo(t) \/ GrowUnlock(t) \/ SplitUnlock(t)
         \/ GrowObsolete(t) \/ SplitObsolete(t) \/ LeafObsolete(t)
  PROVE  Turns(t, M, N)
<1>1. M.pc \in Changing /\ M = loc[t] /\ UNCHANGED retired
  BY DEF Unlock, Undo, GrowUnlock, SplitUnlock, GrowObsolete, SplitObsolete, LeafObsolete, Moving,
         Changing, Putting, Replacing, Growing, Splitting, LeafSplitting
<1>2. /\ Calls(M) /\ Locking(M) /\ M.node \in Slots /\ Inner(M.node)
      /\ M.pc \in Replacing => M.parent \in Slots
      /\ M.pc \in LeafSplitting => M.next \in Slots /\ IsLeaf(M.next)
  BY <1>1, ChangingCall DEF Knows
<1>3. CASE Unlock(t) \/ Undo(t) \/ GrowUnlock(t)
  <2>1. \/ M.pc = "unlock" /\ AddToWord(M.node, 2) /\ Return(t, "inserted")
        \/ M.pc = "growUnlock" /\ AddToWord(M.parent, 2) /\ Return(t, "inserted")
        \/ M.pc = "undo" /\ AddToWord(M.parent, 2) /\ Restart(t)
    BY <1>1, <1>3 DEF Unlock, Undo, GrowUnlock, writeUnlock
  <2>2. PICK s \in {M.node, M.parent} : AddToWord(s, 2) /\ s \in Slots /\ Keeps(M, s)
    BY <1>2, <2>1 DEF Keeps, KeepsNode, KeepsParent, Replacing, Growing
  <2>3. ~Calls(N) \/ N = Start(M)
    BY <1>2, <2>1, Outcomes
  <2>4. ~Owns(N, s)
    BY <1>2, <2>3, Idlers, Restarted, Loose
  <2>5. \A x : ~Parting(M, x) /\ \A q : ~Leaving(M, q, x)
    BY <2>1 DEF Parting, Leaving
  <2> QED
    BY <1>1, <2>2, <2>3, <2>4, <2>5, UnlockTurns
<1>4. ASSUME NEW to, Go(t, [pc |-> to]), NEW s, NEW n \in Nat, AddToWord(s, n),
             \/ M.pc = "splitUnlock" /\ to = "splitObsolete" /\ s = M.parent /\ n = 2
             \/ M.pc = "splitObsolete" /\ to = "splitMark" /\ s = M.node /\ n = 3
             \/ M.pc = "growObsolete" /\ to = "growMark" /\ s = M.node /\ n = 3
             \/ M.pc = "leafObsolete" /\ to = "leafMark" /\ s = M.next /\ n = 3
      PROVE  Turns(t, M, N)
  <2>1. Changed(N, M, [pc |-> to])
    BY <1>2, <1>4, Outcomes DEF Fields
  <2>2. Onward(M, N) /\ N.pc = to /\ N.claim = M.claim /\ N.fresh = M.fresh
    BY <2>1, Going
  <2>3. Lessens(M, N)
    BY <1>4, <2>2 DEF Lessens
  <2>4. s \in Slots
    BY <1>2, <1>4 DEF Replacing, Splitting, LeafSplitting
  <2>5. (Owns(M, s) /\ n = 3) \/ (Keeps(M, s) /\ n = 2)
    <3>1. M.pc = "splitUnlock" => Keeps(M, M.parent)
      BY DEF Keeps, KeepsParent
    <3>2. M.pc \in {"splitObsolete", "growObsolete"} => Owns(M, M.node)
      BY DEF Owns, Copies, CopiesNode
    <3>3. M.pc = "leafObsolete" => Owns(M, M.next)
      BY DEF Owns, Keeps, KeepsNext
    <3> QED
      BY <1>4, <3>1, <3>2, <3>3
  <2>6. M.pc \in {"splitUnlock", "growObsolete"} => M.node # M.parent
    BY <1>2 DEF Locking, KeepsParent, CopiesNode
  <2>7. M.pc = "leafObsolete" => M.node # M.next
    BY <1>2 DEF LeafSplitting, Inner, IsLeaf
  <2>8. ~Owns(N, s)
    BY <1>4, <2>2, <2>6, <2>7 DEF Owns, Copies, Keeps, KeepsNode, CopiesNode, KeepsParent, KeepsNext, Onward
  <2> QED
    BY <1>1, <1>4, <2>3, <2>4, <2>5, <2>8, UnlockTurns
<1>5. CASE SplitUnlock(t) \/ GrowObsolete(t) \/ SplitObsolete(t) \/ LeafObsolete(t)
  BY <1>1, <1>4, <1>5 DEF SplitUnlock, GrowObsolete, SplitObsolete, LeafObsolete, writeUnlock,
                          writeUnlockObsolete
<1> QED
  BY <1>3, <1>5
-----------------------------------------------------------------------------
(* The steps that store a pointer to the node that the call has built.      *)

(* The child that was under the byte is out of reach of the tree.           *)
LEMMA Unhooked ==
  ASSUME NEW t \in Threads, NEW M, NEW N, Moving(t, M, N), UNCHANGED retired, Locks(M, N),
         NEW p \in Slots, NEW b, change(p, b, M.fresh), Keeps(M, p), Inner(p), M.pc \in Preparing,
         NEW s \in Slots, HasChild(p, b, s)
  PROVE  \A q \in Slots' : Links(q, s)' => q # p /\ ~Live(q)'
<1>1. /\ Writes(M, N) /\ Slots' = Slots
      /\ \A x \in Slots : x # p => mem'[x] = mem[x]
      /\ \A x, y : HasChild(p, x, y)' => (x # b /\ HasChild(p, x, y)) \/ y = M.fresh
  BY ChangeWrites
<1>2. TInv /\ LInv /\ M = loc[t] /\ Knows(M)
  <2>1. Calls(M)
    BY Idlers
  <2> QED
    BY <2>1 DEF Moving, LInv, KnowsOK
<1>3. Links(p, s)
  BY DEF HasChild, Links
<1>4. s # M.fresh
  BY <1>2, <1>3 DEF Knows, Prepared
<1>5. Live(p)
  BY <1>2 DEF Live
<1> SUFFICES ASSUME NEW q \in Slots', Links(q, s)' PROVE q # p /\ ~Live(q)'
  OBVIOUS
<1>6. q # p
  <2> SUFFICES ASSUME q = p PROVE FALSE
    OBVIOUS
  <2>1. PICK x : HasChild(p, x, s)'
    BY DEF Links, HasChild
  <2>2. x # b /\ HasChild(p, x, s)
    BY <1>1, <1>4, <2>1
  <2> QED
    BY <1>2, <1>3, <2>2, Pointers DEF LInv
<1>7. q \in Slots /\ Links(q, s)
  BY <1>1, <1>6 DEF Links
<1>8. ~Live(q)
  BY <1>2, <1>3, <1>5, <1>6, <1>7, OneParent DEF LInv
<1> QED
  BY <1>1, <1>6, <1>7, <1>8, NotRevived

Hooks(M, N, p, b) ==
  /\ Onward(M, N) /\ N.claim = M.claim
  /\ \/ M.pc = "putInsert" /\ N.pc = "unlock" /\ p = M.node /\ b = M.byte
     \/ M.pc = "leafLink" /\ N.pc = "unlock" /\ p = M.node /\ b = M.byte
     \/ M.pc = "growLink" /\ N.pc = "growObsolete" /\ p = M.parent /\ b = M.pbyte
     \/ M.pc = "splitLink" /\ N.pc = "splitUnlock" /\ p = M.parent /\ b = M.pbyte

LEMMA HookingOwns ==
  ASSUME NEW M, NEW N, NEW p, NEW b, Hooks(M, N, p, b)
  PROVE  /\ M.pc \in Changing /\ N.pc \in Changing /\ N.pc # "leafLockNode"
         /\ N.pc \notin LeafSplitting
         /\ Keeps(M, p) /\ M.pc \in Preparing /\ N.pc \notin Preparing
         /\ \A x : Keeps(N, x) => Keeps(M, x)
         /\ \A x : Copies(N, x) => Copies(M, x)
         /\ \A x : Owns(N, x) => x \in {M.node, M.parent}
         /\ N.pc \in KeepsParent => M.pc \in Replacing
         /\ N.pc \in KeepsParent /\ N.pc \in KeepsNode \cup CopiesNode =>
               M.pc \in KeepsParent /\ M.pc \in KeepsNode \cup CopiesNode
         /\ \A x : Claims(N, x) => Claims(M, x)
         /\ \A x : Parting(M, x) => M.pc = "leafLink" /\ x = M.next
         /\ \A x : Removing(N, x) => M.pc \in {"growLink", "splitLink"} /\ x = M.node
         /\ \A q, x : Leaving(M, q, x) => M.pc = "leafLink" /\ x = M.next /\ q = M.node
         /\ N.pc \notin {"growNode", "growBuild", "growLink", "splitNode", "splitBuild", "splitLink"}
         /\ N.pc \notin {"leafWrite", "leafBuild", "leafObsolete", "leafMark", "leafLink"}
<1>1. /\ M.pc \in Changing /\ N.pc \in Changing /\ N.pc # "leafLockNode"
      /\ N.pc \notin LeafSplitting /\ (N.pc \in KeepsParent => M.pc \in Replacing)
  BY DEF Hooks, Changing, Putting, Replacing, Growing, Splitting, LeafSplitting, KeepsParent
<1>2. M.pc \in Preparing /\ N.pc \notin Preparing
  BY DEF Hooks, Preparing
<1>3. Keeps(M, p)
  BY DEF Hooks, Keeps, KeepsNode, KeepsParent
<1>4. /\ \A x : Keeps(N, x) => Keeps(M, x)
      /\ \A x : Copies(N, x) => Copies(M, x)
  BY DEF Hooks, Onward, Keeps, Copies, KeepsNode, KeepsParent, KeepsNext, CopiesNode
<1>5. \A x : Owns(N, x) => x \in {M.node, M.parent}
  BY DEF Hooks, Onward, Owns, Keeps, Copies, KeepsNext
<1>6. N.pc \in KeepsParent /\ N.pc \in KeepsNode \cup CopiesNode =>
               M.pc \in KeepsParent /\ M.pc \in KeepsNode \cup CopiesNode
  BY DEF Hooks, KeepsParent, KeepsNode, CopiesNode
<1>7. \A x : Claims(N, x) => Claims(M, x)
  BY DEF Hooks, Onward, Claims, ClaimsNode, ClaimsNext
<1>8. /\ \A x : Parting(M, x) => M.pc = "leafLink" /\ x = M.next
      /\ \A x : Removing(N, x) => M.pc \in {"growLink", "splitLink"} /\ x = M.node
      /\ \A q, x : Leaving(M, q, x) => M.pc = "leafLink" /\ x = M.next /\ q = M.node
  BY DEF Hooks, Onward, Parting, Removing, Leaving
<1>9. /\ N.pc \notin {"growNode", "growBuild", "growLink", "splitNode", "splitBuild", "splitLink"}
      /\ N.pc \notin {"leafWrite", "leafBuild", "leafObsolete", "leafMark", "leafLink"}
  BY DEF Hooks
<1> QED
  BY <1>1, <1>2, <1>3, <1>4, <1>5, <1>6, <1>7, <1>8, <1>9

LEMMA HookTurns ==
  ASSUME NEW t \in Threads, NEW M, NEW N, Moving(t, M, N), UNCHANGED retired,
         NEW p, NEW b, change(p, b, M.fresh), Hooks(M, N, p, b)
  PROVE  Turns(t, M, N)
<1>1. /\ M.pc \in Changing /\ N.pc \in Changing /\ N.pc # "leafLockNode"
      /\ N.pc \notin LeafSplitting
      /\ Keeps(M, p) /\ M.pc \in Preparing /\ N.pc \notin Preparing
      /\ \A x : Keeps(N, x) => Keeps(M, x)
      /\ \A x : Copies(N, x) => Copies(M, x)
      /\ \A x : Owns(N, x) => x \in {M.node, M.parent}
      /\ N.pc \in KeepsParent => M.pc \in Replacing
      /\ N.pc \in KeepsParent /\ N.pc \in KeepsNode \cup CopiesNode =>
            M.pc \in KeepsParent /\ M.pc \in KeepsNode \cup CopiesNode
      /\ \A x : Claims(N, x) => Claims(M, x)
      /\ N.pc \notin {"growNode", "growBuild", "growLink", "splitNode", "splitBuild", "splitLink"}
      /\ N.pc \notin {"leafWrite", "leafBuild", "leafObsolete", "leafMark", "leafLink"}
  BY HookingOwns
<1>2. /\ \A x : Parting(M, x) => M.pc = "leafLink" /\ x = M.next
      /\ \A x : Removing(N, x) => M.pc \in {"growLink", "splitLink"} /\ x = M.node
      /\ \A q, x : Leaving(M, q, x) => M.pc = "leafLink" /\ x = M.next /\ q = M.node
  BY HookingOwns
<1>3. /\ TInv /\ LInv /\ M = loc[t] /\ Knows(M) /\ M.node \in Slots /\ Inner(M.node)
      /\ M.pc \in Replacing => M.parent \in Slots /\ Inner(M.parent)
      /\ M.pc \in LeafSplitting => M.next \in Slots
  BY <1>1, ChangingCall
<1>4. p \in Slots /\ Inner(p)
  <2>1. p \in Slots
    BY <1>1, <1>3 DEF Knows, Locking, Owns
  <2>2. M.pc \notin {"putInsert", "leafLink"} => M.pc \in Replacing
    BY DEF Hooks, Replacing, Growing, Splitting
  <2> QED
    BY <1>3, <2>1, <2>2 DEF Hooks
<1>5. /\ Writes(M, N) /\ Adds(M) /\ Slots' = Slots
      /\ \A x \in Slots : mem'[x].word = mem[x].word
  BY <1>1, <1>4, ChangeWrites
<1>6. Onward(M, N) /\ N.claim = M.claim
  BY DEF Hooks
<1>7. Locks(M, N)
  BY <1>1, <1>6 DEF Locks, Owns
<1>8. Cuts(M, N)
  <2>1. ASSUME NEW s \in Slots, HasChild(p, b, s)
        PROVE  \A q \in Slots' : Links(q, s)' => q # p /\ ~Live(q)'
    BY <1>1, <1>4, <1>7, <2>1, Unhooked
  <2>2. M.pc \in {"growLink", "splitLink"} => HasChild(p, b, M.node)
    BY <1>3 DEF Hooks, Knows, Current
  <2>3. M.pc = "leafLink" => HasChild(p, b, M.next) /\ M.next \in Slots /\ p = M.node
    BY <1>3 DEF Hooks, Knows, Current, LeafSplitting
  <2>4. ASSUME NEW s \in Slots, Parting(M, s) PROVE \A q \in Slots' : Links(q, s)' => ~Live(q)'
    BY <1>2, <2>1, <2>3, <2>4
  <2>5. ASSUME NEW s \in Slots, Removing(N, s) PROVE \A q \in Slots' : Links(q, s)' => ~Live(q)'
    BY <1>2, <1>3, <2>1, <2>2, <2>5
  <2>6. ASSUME NEW s \in Slots, NEW q \in Slots, Leaving(M, q, s) PROVE ~Links(q, s)'
    BY <1>2, <1>5, <2>1, <2>3, <2>6
  <2> QED
    BY <2>4, <2>5, <2>6 DEF Cuts, Removed
<1>9. Careful(M, N)
  BY <1>1, <1>5, <1>6, <1>7, <1>8, SameHeld DEF Careful
<1>10. Locking(N)'
  <2>1. ASSUME NEW x, Owns(N, x) PROVE (x \in Slots /\ Taken(x) /\ ~IsLeaf(x))'
    <3>1. Owns(M, x)
      BY <1>1, <2>1 DEF Owns
    <3>2. x \in Slots /\ Taken(x)
      BY <1>3, <3>1 DEF Knows, Locking
    <3>3. ~IsLeaf(x)
      <4>1. x = M.node \/ (x = M.parent /\ M.pc \in Replacing)
        BY <1>1, <2>1, <1>6 DEF Owns, Keeps, Copies, KeepsNext, Onward, Hooks
      <4> QED
        BY <1>3, <4>1 DEF Inner, IsLeaf
    <3> QED
      BY <1>5, <3>2, <3>3, Unchanging DEF Taken
  <2>2. N.pc \in KeepsParent /\ N.pc \in KeepsNode \cup CopiesNode => N.node # N.parent
    BY <1>1, <1>3, <1>6 DEF Knows, Locking, Onward
  <2> QED
    BY <2>1, <2>2 DEF Locking
<1>11. Prepared(N)'
  BY <1>1 DEF Prepared
<1> QED
  BY <1>1, <1>6, <1>9, <1>10, <1>11, Onwards

LEMMA HookingTurns ==
  ASSUME NEW t \in Threads, NEW M, NEW N, Moving(t, M, N),
         PutInsert(t) \/ GrowLink(t) \/ SplitLink(t) \/ LeafLink(t)
  PROVE  Turns(t, M, N)
<1>1. M = loc[t] /\ Calls(M) /\ UNCHANGED retired
  BY DEF PutInsert, GrowLink, SplitLink, LeafLink, Moving, Calls
<1>2. ASSUME NEW to, Go(t, [pc |-> to])
      PROVE  Onward(M, N) /\ N.pc = to /\ N.claim = M.claim
  <2>1. Changed(N, M, [pc |-> to])
    BY <1>1, <1>2, Outcomes DEF Fields
  <2> QED
    BY <2>1, Going
<1>3. CASE PutInsert(t)
  <2>1. Hooks(M, N, M.node, M.byte) /\ change(M.node, M.byte, M.fresh)
    BY <1>1, <1>2, <1>3 DEF PutInsert, Hooks
  <2> QED
    BY <1>1, <2>1, HookTurns
<1>4. CASE LeafLink(t)
  <2>1. Hooks(M, N, M.node, M.byte) /\ change(M.node, M.byte, M.fresh)
    BY <1>1, <1>2, <1>4 DEF LeafLink, Hooks
  <2> QED
    BY <1>1, <2>1, HookTurns
<1>5. CASE GrowLink(t)
  <2>1. Hooks(M, N, M.parent, M.pbyte) /\ change(M.parent, M.pbyte, M.fresh)
    BY <1>1, <1>2, <1>5 DEF GrowLink, Hooks
  <2> QED
    BY <1>1, <2>1, HookTurns
<1>6. CASE SplitLink(t)
  <2>1. Hooks(M, N, M.parent, M.pbyte) /\ change(M.parent, M.pbyte, M.fresh)
    BY <1>1, <1>2, <1>6 DEF SplitLink, Hooks
  <2> QED
    BY <1>1, <2>1, HookTurns
<1> QED
  BY <1>3, <1>4, <1>5, <1>6
-----------------------------------------------------------------------------
(* The steps that hand a slot over to be freed.                             *)
Hands(M, N, s) ==
  \/ M.pc = "growMark" /\ N.pc = "growUnlock" /\ s = M.node /\ Onward(M, N)
  \/ M.pc = "leafMark" /\ N.pc = "leafLink" /\ s = M.next /\ Onward(M, N) /\ N.fresh = M.fresh
  \/ M.pc = "splitMark" /\ ~Calls(N) /\ s = M.node

LEMMA HandingOwns ==
  ASSUME NEW M, NEW N, NEW s, Hands(M, N, s)
  PROVE  /\ M.pc \in Changing /\ Claims(M, s)
         /\ \A x : Keeps(N, x) => Keeps(M, x)
         /\ \A x : ~Copies(N, x) /\ ~Claims(N, x) /\ ~Removing(N, x)
         /\ \A x : Parting(M, x) => Parting(N, x)
         /\ \A q, x : ~Leaving(M, q, x)
         /\ N.pc \in Preparing => M.pc = "leafMark" /\ N.pc = "leafLink" /\ s = M.next /\ N.fresh = M.fresh
         /\ M.pc # "leafMark" => Removing(M, s)
<1>1. M.pc \in Changing /\ Claims(M, s) /\ (M.pc # "leafMark" => Removing(M, s))
  BY DEF Hands, Changing, Replacing, Growing, Splitting, LeafSplitting, Claims, ClaimsNode, ClaimsNext,
         Removing
<1>2. CASE ~Calls(N)
  <2>1. M.pc = "splitMark"
    BY <1>2 DEF Hands, Calls
  <2> QED
    BY <1>1, <1>2, <2>1, Idlers DEF Owns, Parting, Leaving
<1>3. CASE M.pc \in {"growMark", "leafMark"}
  <2>1. Onward(M, N) /\ \/ M.pc = "growMark" /\ N.pc = "growUnlock"
                        \/ M.pc = "leafMark" /\ N.pc = "leafLink" /\ s = M.next /\ N.fresh = M.fresh
    BY <1>3 DEF Hands
  <2>2. /\ \A x : Keeps(N, x) => Keeps(M, x)
        /\ \A x : ~Copies(N, x)
    BY <2>1 DEF Onward, Keeps, Copies, KeepsNode, KeepsParent, KeepsNext, CopiesNode
  <2>3. /\ \A x : ~Claims(N, x) /\ ~Removing(N, x)
        /\ \A x : Parting(M, x) => Parting(N, x)
        /\ \A q, x : ~Leaving(M, q, x)
    BY <2>1 DEF Onward, Claims, ClaimsNode, ClaimsNext, Removing, Parting, Leaving
  <2> QED
    BY <1>1, <2>1, <2>2, <2>3 DEF Preparing
<1> QED
  BY <1>2, <1>3 DEF Hands

LEMMA HandTurns ==
  ASSUME NEW t \in Threads, NEW M, NEW N, Moving(t, M, N), UNCHANGED mem,
         NEW s, NEW owner, NEW byte, Mark(t, s, owner, byte), Hands(M, N, s)
  PROVE  Turns(t, M, N)
<1>1. /\ M.pc \in Changing /\ Claims(M, s)
      /\ \A x : Keeps(N, x) => Keeps(M, x)
      /\ \A x : ~Copies(N, x) /\ ~Claims(N, x) /\ ~Removing(N, x)
      /\ \A x : Parting(M, x) => Parting(N, x)
      /\ \A q, x : ~Leaving(M, q, x)
      /\ N.pc \in Preparing => M.pc = "leafMark" /\ N.pc = "leafLink" /\ s = M.next /\ N.fresh = M.fresh
      /\ M.pc # "leafMark" => Removing(M, s)
  BY HandingOwns
<1>2. /\ TInv /\ LInv /\ Calls(M) /\ Knows(M) /\ M = loc[t] /\ M.node \in Slots /\ Inner(M.node)
      /\ M.pc \in Replacing => M.parent \in Slots /\ Inner(M.parent)
      /\ M.pc \in LeafSplitting => M.next \in Slots
  BY <1>1, ChangingCall
<1>3. s \in Slots
  BY <1>1, <1>2, Callers
<1>4. /\ Writes(M, N) /\ Adds(M) /\ Slots' = Slots
      /\ \A x \in Slots : x # s => retired'[x] = retired[x]
  BY <1>1, <1>3, MarkWrites
<1>5. Locks(M, N)
  <2>1. N.pc \in Preparing => M.pc \in Preparing /\ N.fresh = M.fresh
    BY <1>1 DEF Preparing
  <2> QED
    BY <1>1, <2>1 DEF Locks, Owns
<1>6. M.pc = "leafMark" => HasChild(M.node, M.byte, M.next) /\ Keeps(M, M.node) /\ s = M.next
  BY <1>2 DEF Hands, Knows, Current, Keeps, KeepsNode
<1>7. ASSUME M.pc = "leafMark", NEW q \in Slots', Links(q, s)'
      PROVE  ~Live(q)' \/ Leaving(N, q, s)
  <2>1. q \in Slots /\ Links(q, s)
    BY <1>4, <1>7 DEF Links
  <2>2. CASE q = M.node
    BY <1>7, <2>2 DEF Hands, Leaving, Onward
  <2>3. CASE q # M.node
    <3>1. Links(M.node, s) /\ Live(M.node)
      BY <1>2, <1>6, <1>7 DEF HasChild, Links, Live
    <3>2. ~Live(q)
      BY <1>2, <1>3, <2>1, <2>3, <3>1, OneParent DEF LInv
    <3> QED
      BY <1>4, <1>5, <2>1, <3>2, NotRevived
  <2> QED
    BY <2>2, <2>3
<1>8. Cuts(M, N)
  BY <1>1, <1>2, <1>4, <1>7 DEF Cuts, Removed
<1>9. CASE ~Calls(N)
  <2>1. Acquires(M, N)
    BY <1>9 DEF Acquires
  <2> QED
    BY <1>4, <1>5, <1>8, <1>9, <2>1 DEF Turns, Careful
<1>10. CASE Calls(N)
  <2>1. /\ Onward(M, N)
        /\ \/ M.pc = "growMark" /\ N.pc = "growUnlock"
           \/ M.pc = "leafMark" /\ N.pc = "leafLink" /\ s = M.next /\ N.fresh = M.fresh
    BY <1>10 DEF Hands
  <2>2. Careful(M, N)
    BY <1>1, <1>4, <1>5, <1>8, <2>1, SameHeld DEF Careful
  <2>3. Locking(N)'
    <3>1. ASSUME NEW x, Owns(N, x) PROVE (x \in Slots /\ Taken(x) /\ (IsLeaf(x) => Parting(N, x)))'
      <4>1. Owns(M, x)
        BY <1>1, <3>1 DEF Owns
      <4>2. x \in Slots /\ Taken(x) /\ (IsLeaf(x) => Parting(M, x))
        BY <1>2, <4>1 DEF Knows, Locking
      <4> QED
        BY <1>1, <1>4, <4>2, Unchanging DEF Taken, Parting
    <3>2. ~(N.pc \in KeepsParent /\ N.pc \in KeepsNode \cup CopiesNode)
      BY <2>1 DEF KeepsParent, KeepsNode, CopiesNode
    <3> QED
      BY <3>1, <3>2 DEF Locking
  <2>4. Prepared(N)'
    <3> SUFFICES ASSUME N.pc \in Preparing PROVE Prepared(N)'
      BY DEF Prepared
    <3>1. /\ M.fresh \in Slots \ {Root} /\ Free(M.fresh) /\ retired[M.fresh] = {}
          /\ \A q \in Slots : ~Links(q, M.fresh)
      BY <1>1, <1>2 DEF Knows, Prepared, Preparing
    <3>2. M.fresh # s
      BY <1>1, <1>2, <1>6, <3>1 DEF Links, HasChild
    <3> QED
      BY <1>1, <1>4, <3>1, <3>2 DEF Prepared, Free, Links
  <2>5. N.pc = "leafLink" => HasChild(M.node, M.byte, M.next)'
    BY <1>6, <2>1 DEF HasChild
  <2>6. /\ N.pc \in Changing /\ N.pc # "leafLockNode"
        /\ N.pc \in LeafSplitting => M.pc \in LeafSplitting
    BY <2>1 DEF Changing, Replacing, Growing, LeafSplitting
  <2> QED
    BY <1>1, <2>1, <2>2, <2>3, <2>4, <2>5, <2>6, Onwards
<1> QED
  BY <1>9, <1>10

LEMMA HandingTurns ==
  ASSUME NEW t \in Threads, NEW M, NEW N, Moving(t, M, N), GrowMark(t) \/ SplitMark(t) \/ LeafMark(t)
  PROVE  Turns(t, M, N)
<1>1. M = loc[t] /\ Calls(M) /\ UNCHANGED mem
  BY DEF GrowMark, SplitMark, LeafMark, Moving, Calls
<1>2. ASSUME NEW to, Go(t, [pc |-> to])
      PROVE  Onward(M, N) /\ N.pc = to /\ N.fresh = M.fresh
  <2>1. Changed(N, M, [pc |-> to])
    BY <1>1, <1>2, Outcomes DEF Fields
  <2> QED
    BY <2>1, Going
<1>3. CASE GrowMark(t)
  <2>1. Hands(M, N, M.node) /\ Mark(t, M.node, M.parent, M.pbyte)
    BY <1>1, <1>2, <1>3 DEF GrowMark, Hands
  <2> QED
    BY <1>1, <2>1, HandTurns
<1>4. CASE LeafMark(t)
  <2>1. Hands(M, N, M.next) /\ Mark(t, M.next, M.node, M.byte)
    BY <1>1, <1>2, <1>4 DEF LeafMark, Hands
  <2> QED
    BY <1>1, <2>1, HandTurns
<1>5. CASE SplitMark(t)
  <2>1. Hands(M, N, M.node) /\ Mark(t, M.node, M.parent, M.pbyte)
    BY <1>1, <1>5, Outcomes DEF SplitMark, Hands
  <2> QED
    BY <1>1, <2>1, HandTurns
<1> QED
  BY <1>3, <1>4, <1>5
-----------------------------------------------------------------------------
(* The steps that allocate.  The first of the new slots is the one to link; *)
(* only a copy of the node has children that were in memory before.         *)
CopiedAt == {"growBuild", "splitBuild"}

MadeOne(M, n) ==
  /\ DOMAIN n = NodeFields /\ n.word % 4 = 0
  /\ n.kind = 0 => DOMAIN n.child = {}
  /\ n.kind # 0 => n.id = Len(mem) + 1 \/ (M.pc \in CopiedAt /\ n.id = mem[M.node].id)
  /\ \A b \in DOMAIN n.child :
        /\ n.child[b] # Len(mem) + 1
        /\ n.child[b] \in Slots => M.pc \in CopiedAt /\ Links(M.node, n.child[b])

MadeOf(M, new) ==
  /\ IsSeq(new) /\ Len(new) >= 1
  /\ \A i \in 1..Len(new) : MadeOne(M, new[i])
  /\ \A i, j \in 1..Len(new) :
        i # j /\ new[i].kind # 0 /\ new[j].kind # 0 => new[i].id # new[j].id

Makes(M, N) ==
  /\ Onward(M, N) /\ N.claim = M.claim /\ N.fresh = Len(mem) + 1
  /\ \/ M.pc = "put" /\ N.pc = "putInsert"
     \/ M.pc = "growBuild" /\ N.pc = "growLink"
     \/ M.pc = "splitBuild" /\ N.pc = "splitLink"
     \/ M.pc = "leafBuild" /\ N.pc = "leafObsolete"

LEMMA MakingOwns ==
  ASSUME NEW M, NEW N, Makes(M, N)
  PROVE  /\ N.pc \in Changing /\ N.pc # "leafLockNode"
         /\ N.pc \in LeafSplitting => M.pc \in LeafSplitting
         /\ \A x : Keeps(N, x) => Keeps(M, x)
         /\ \A x : Copies(N, x) => Keeps(M, x)
         /\ N.pc \in KeepsParent /\ N.pc \in KeepsNode \cup CopiesNode =>
               M.pc \in KeepsParent /\ M.pc \in KeepsNode \cup CopiesNode
         /\ \A x : Claims(N, x) => Claims(M, x)
         /\ \A x : (Parting(M, x) => Parting(N, x)) /\ ~Removing(N, x)
         /\ N.pc \in {"growNode", "growBuild", "growLink", "splitNode", "splitBuild", "splitLink"} =>
               M.pc \in CopiedAt
         /\ N.pc \in {"leafWrite", "leafBuild", "leafObsolete", "leafMark", "leafLink"} =>
               M.pc = "leafBuild"
         /\ M.pc \in CopiedAt => N.pc \in KeepsParent \ (KeepsNode \cup KeepsNext)
<1>1. /\ N.pc \in Changing /\ N.pc # "leafLockNode"
      /\ N.pc \in LeafSplitting => M.pc \in LeafSplitting
  BY DEF Makes, Changing, Putting, Replacing, Growing, Splitting, LeafSplitting
<1>2. /\ \A x : Keeps(N, x) => Keeps(M, x)
      /\ \A x : Copies(N, x) => Keeps(M, x)
  BY DEF Makes, Onward, Keeps, Copies, KeepsNode, KeepsParent, KeepsNext, CopiesNode
<1>3. N.pc \in KeepsParent /\ N.pc \in KeepsNode \cup CopiesNode =>
         M.pc \in KeepsParent /\ M.pc \in KeepsNode \cup CopiesNode
  BY DEF Makes, KeepsNode, KeepsParent, CopiesNode
<1>4. /\ \A x : Claims(N, x) => Claims(M, x)
      /\ \A x : (Parting(M, x) => Parting(N, x)) /\ ~Removing(N, x)
  BY DEF Makes, Onward, Claims, ClaimsNode, ClaimsNext, Parting, Removing
<1>5. /\ N.pc \in {"growNode", "growBuild", "growLink", "splitNode", "splitBuild", "splitLink"} =>
            M.pc \in CopiedAt
      /\ N.pc \in {"leafWrite", "leafBuild", "leafObsolete", "leafMark", "leafLink"} =>
            M.pc = "leafBuild"
      /\ M.pc \in CopiedAt => N.pc \in KeepsParent \ (KeepsNode \cup KeepsNext)
  BY DEF Makes, CopiedAt, KeepsParent, KeepsNode, KeepsNext
<1> QED
  BY <1>1, <1>2, <1>3, <1>4, <1>5

(* A new slot is one of those asked for, perhaps without its new children.  *)
NewSlot(new, s, i) ==
  /\ i \in 1..Len(new) /\ s = Len(mem) + i
  /\ mem'[s].kind = new[i].kind /\ mem'[s].word = new[i].word /\ mem'[s].id = new[i].id
  /\ \A b \in DOMAIN mem'[s].child :
        b \in DOMAIN new[i].child /\ mem'[s].child[b] = new[i].child[b]

LEMMA NewSlots ==
  ASSUME MemOK, NEW t, NEW new, IsSeq(new), \A i \in 1..Len(new) : DOMAIN new[i] = NodeFields,
         NEW changes, Allocate(t, new, changes)
  PROVE  /\ Slots \subseteq Slots' /\ Len(mem) \in Nat /\ Len(mem') \in Nat
         /\ \A s \in Slots : mem'[s] = mem[s] /\ retired'[s] = retired[s]
         /\ \A s \in Slots' \ Slots : retired'[s] = {} /\ \E i : NewSlot(new, s, i)
         /\ \/ Go(t, changes) /\ \A i \in 1..Len(new) : Len(mem) + i \in Slots' \ Slots
            \/ Return(t, "refused")
<1>1. /\ IsSeq(mem') /\ IsSeq(retired') /\ Len(retired') = Len(mem')
      /\ \A s \in Slots : mem'[s] = mem[s] /\ retired'[s] = retired[s]
      /\ \A s \in Slots' \ Slots : retired'[s] = {}
      /\ \/ /\ Len(mem') = Len(mem) + Len(new) /\ Go(t, changes)
            /\ \A i \in 1..Len(new) : mem'[Len(mem) + i] = new[i]
         \/ \E k \in 0..Len(new) - 1 :
               /\ Len(mem') = Len(mem) + k /\ Return(t, "refused")
               /\ \A i \in 1..k : mem'[Len(mem) + i] = Unlinked(new[i])
  BY Allocated
<1>2. Len(mem) \in Nat /\ Len(mem') \in Nat /\ Len(new) \in Nat
  BY <1>1, Sequence DEF MemOK
<1>3. CASE /\ Len(mem') = Len(mem) + Len(new) /\ Go(t, changes)
           /\ \A i \in 1..Len(new) : mem'[Len(mem) + i] = new[i]
  <2>1. Slots \subseteq Slots' /\ \A i \in 1..Len(new) : Len(mem) + i \in Slots' \ Slots
    BY <1>2, <1>3 DEF Slots
  <2>2. ASSUME NEW s \in Slots' \ Slots PROVE \E i : NewSlot(new, s, i)
    <3>1. s - Len(mem) \in 1..Len(new) /\ Len(mem) + (s - Len(mem)) = s
      BY <1>2, <1>3 DEF Slots
    <3> DEFINE i == s - Len(mem)
    <3> HIDE DEF i
    <3>2. i \in 1..Len(new) /\ s = Len(mem) + i
      BY <3>1 DEF i
    <3>3. mem'[s] = new[i]
      BY <1>3, <3>2
    <3> QED
      BY <3>2, <3>3 DEF NewSlot
  <2> QED
    BY <1>1, <1>2, <1>3, <2>1, <2>2
<1>4. ASSUME NEW k \in 0..Len(new) - 1, Len(mem') = Len(mem) + k, Return(t, "refused"),
             \A i \in 1..k : mem'[Len(mem) + i] = Unlinked(new[i])
      PROVE  Slots \subseteq Slots' /\ \A s \in Slots' \ Slots : \E i : NewSlot(new, s, i)
  <2>1. Slots \subseteq Slots'
    BY <1>2, <1>4 DEF Slots
  <2>2. ASSUME NEW s \in Slots' \ Slots PROVE \E i : NewSlot(new, s, i)
    <3>1. s - Len(mem) \in 1..k /\ Len(mem) + (s - Len(mem)) = s
      BY <1>2, <1>4 DEF Slots
    <3> DEFINE i == s - Len(mem)
    <3> HIDE DEF i
    <3>2. i \in 1..k /\ i \in 1..Len(new) /\ s = Len(mem) + i
      BY <1>2, <3>1 DEF i
    <3>3. mem'[s] = Unlinked(new[i])
      BY <1>4, <3>2
    <3>4. DOMAIN new[i] = NodeFields
      BY <3>2
    <3> QED
      BY <3>2, <3>3, <3>4, UnlinkedNode DEF NewSlot
  <2> QED
    BY <2>1, <2>2
<1> QED
  BY <1>1, <1>2, <1>3, <1>4

LEMMA MakeTurns ==
  ASSUME NEW t \in Threads, NEW M, NEW N, Moving(t, M, N), NEW new, MadeOf(M, new),
         NEW changes, Allocate(t, new, changes), M.pc \in {"put", "growBuild", "splitBuild", "leafBuild"},
         Makes(M, N) \/ ~Calls(N),
         Go(t, changes) => Makes(M, N)
  PROVE  Turns(t, M, N)
<1>1. M.pc \in Changing
  BY DEF Changing, Putting, Replacing, Growing, Splitting, LeafSplitting
<1>2. /\ TInv /\ LInv /\ Calls(M) /\ Knows(M) /\ M = loc[t] /\ M.node \in Slots /\ Inner(M.node)
      /\ M.pc \in Replacing => M.parent \in Slots /\ Inner(M.parent)
      /\ M.pc \in LeafSplitting => M.next \in Slots
  BY <1>1, ChangingCall
<1>3. /\ IsSeq(new) /\ Len(new) >= 1 /\ MemOK /\ SlotsOK
      /\ \A i \in 1..Len(new) : DOMAIN new[i] = NodeFields
  BY <1>2 DEF MadeOf, MadeOne, TInv, LInv
<1>4. /\ Slots \subseteq Slots' /\ Len(mem) \in Nat /\ Len(mem') \in Nat
      /\ \A s \in Slots : mem'[s] = mem[s] /\ retired'[s] = retired[s]
      /\ \A s \in Slots' \ Slots : retired'[s] = {} /\ \E i : NewSlot(new, s, i)
      /\ \/ Go(t, changes) /\ \A i \in 1..Len(new) : Len(mem) + i \in Slots' \ Slots
         \/ Return(t, "refused")
  BY <1>3, NewSlots
<1>5. \A q \in Slots : \A x : Links(q, x)' => Links(q, x)
  BY <1>4 DEF Links
<1>6. Keeps(M, M.node) /\ Taken(M.node)
  BY <1>2 DEF Knows, Locking, Keeps, Owns, KeepsNode
<1>7. Writes(M, N)
  BY <1>4, <1>5 DEF Writes
<1>8. Locks(M, N)
  <2>1. CASE Makes(M, N)
    <3>1. N.fresh \notin Slots
      BY <1>4, <2>1 DEF Makes, Slots
    <3> QED
      BY <2>1, <3>1, MakingOwns DEF Locks, Makes, Owns
  <2>2. CASE ~Calls(N)
    BY <2>2, Idlers DEF Locks, Owns
  <2> QED
    BY <2>1, <2>2
<1>9. Acquires(M, N)
  BY <1>1, SameHeld DEF Makes, Acquires
<1>10. M.pc \in CopiedAt \/ ~Calls(N) => ~Live(M.node)'
  <2> SUFFICES ASSUME M.pc \in CopiedAt \/ ~Calls(N) PROVE ~Live(M.node)'
    OBVIOUS
  <2>1. ~Free(M.node)'
    BY <1>2, <1>4, <1>6 DEF Free, Taken
  <2>2. ~Keeps(N, M.node)
    <3>1. CASE ~Calls(N)
      BY <3>1, Idlers
    <3>2. CASE M.pc \in CopiedAt /\ Makes(M, N)
      <4>1. M.node # M.parent
        BY <1>2, <3>2 DEF Knows, Locking, CopiedAt, KeepsParent, KeepsNode
      <4> QED
        BY <3>2, <4>1, MakingOwns DEF Keeps, Makes, Onward
    <3> QED
      BY <3>1, <3>2
  <2>3. \A u \in Threads : u # t => ~Keeps(loc'[u], M.node)
    BY <1>2, <1>6 DEF Moving, LInv, ApartOK, Apart, Owns
  <2>4. \A u \in Threads : ~Keeps(loc'[u], M.node)
    BY <2>2, <2>3 DEF Moving
  <2> QED
    BY <2>1, <2>4 DEF Live
<1>11. Adds(M)
  <2> SUFFICES ASSUME NEW s \in Slots' \ Slots
               PROVE  /\ mem'[s].word % 4 = 0 /\ retired'[s] = {}
                      /\ mem'[s].kind = 0 => DOMAIN mem'[s].child = {}
                      /\ mem'[s].kind # 0 =>
                            /\ mem'[s].id \in 1..Len(mem')
                            /\ mem'[s].id > Len(mem) \/ (Copying(M) /\ mem'[s].id = mem[M.node].id)
                      /\ \A p \in Slots' \ Slots :
                            p # s /\ mem'[p].kind # 0 /\ mem'[s].kind # 0 => mem'[p].id # mem'[s].id
                      /\ \A x \in Slots : Links(s, x)' => Copying(M) /\ Links(M.node, x)
    BY DEF Adds
  <2>1. PICK i : NewSlot(new, s, i)
    BY <1>4
  <2>2. /\ i \in 1..Len(new) /\ s = Len(mem) + i
        /\ mem'[s].kind = new[i].kind /\ mem'[s].word = new[i].word /\ mem'[s].id = new[i].id
        /\ \A b \in DOMAIN mem'[s].child :
              b \in DOMAIN new[i].child /\ mem'[s].child[b] = new[i].child[b]
    BY <2>1 DEF NewSlot
  <2>3. /\ new[i].word % 4 = 0
        /\ new[i].kind = 0 => DOMAIN new[i].child = {}
        /\ new[i].kind # 0 =>
              \/ new[i].id = Len(mem) + 1
              \/ M.pc \in CopiedAt /\ new[i].id = mem[M.node].id
        /\ \A j \in 1..Len(new) :
              i # j /\ new[i].kind # 0 /\ new[j].kind # 0 => new[i].id # new[j].id
        /\ \A b \in DOMAIN new[i].child :
              new[i].child[b] \in Slots => M.pc \in CopiedAt /\ Links(M.node, new[i].child[b])
    BY <2>2 DEF MadeOf, MadeOne
  <2>4. M.pc \in CopiedAt => Copying(M)
    BY <1>10 DEF Copying, CopiedAt
  <2>5. ASSUME new[i].kind # 0
        PROVE  /\ mem'[s].id \in 1..Len(mem')
               /\ mem'[s].id > Len(mem) \/ (Copying(M) /\ mem'[s].id = mem[M.node].id)
    <3>1. s \in 1..Len(mem') /\ s > Len(mem)
      BY <1>4 DEF Slots
    <3>2. CASE new[i].id = Len(mem) + 1
      BY <1>4, <2>2, <3>1, <3>2
    <3>3. CASE M.pc \in CopiedAt /\ new[i].id = mem[M.node].id
      <4>1. mem[M.node].id \in 1..Len(mem)
        BY <1>2, <1>3 DEF SlotsOK, Inner
      <4> QED
        BY <1>4, <2>2, <2>4, <3>1, <3>3, <4>1
    <3> QED
      BY <2>3, <2>5, <3>2, <3>3
  <2>6. ASSUME NEW p \in Slots' \ Slots, p # s, mem'[p].kind # 0, mem'[s].kind # 0
        PROVE  mem'[p].id # mem'[s].id
    <3>1. PICK j : NewSlot(new, p, j)
      BY <1>4
    <3>2. j \in 1..Len(new) /\ p = Len(mem) + j /\ mem'[p].kind = new[j].kind /\ mem'[p].id = new[j].id
      BY <3>1 DEF NewSlot
    <3>3. i # j
      BY <2>2, <2>6, <3>2
    <3> QED
      BY <2>2, <2>3, <2>6, <3>2, <3>3
  <2>7. ASSUME NEW x \in Slots, Links(s, x)' PROVE Copying(M) /\ Links(M.node, x)
    <3>1. PICK b \in DOMAIN mem'[s].child : mem'[s].child[b] = x
      BY <2>7 DEF Links
    <3> QED
      BY <2>2, <2>3, <2>4, <3>1
  <2>8. mem'[s].kind = 0 => DOMAIN mem'[s].child = {}
    BY <2>2, <2>3
  <2> QED
    BY <1>4, <2>2, <2>3, <2>5, <2>6, <2>7, <2>8
<1>12. Cuts(M, N)
  <2>1. \A s : ~Removing(N, s)
    BY MakingOwns, Idlers
  <2>2. \A q, s : ~Leaving(M, q, s)
    BY DEF Leaving
  <2>3. ASSUME NEW s \in Slots, Parting(M, s), ~Parting(N, s), NEW q \in Slots', Links(q, s)'
        PROVE  ~Live(q)'
    <3>1. ~Calls(N) /\ M.pc = "leafBuild" /\ s = M.next
      <4>1. ~Makes(M, N)
        BY <2>3, MakingOwns
      <4> QED
        BY <2>3, <4>1 DEF Parting
    <3>2. q \in Slots
      BY <1>11, <2>3, <3>1 DEF Adds, Copying
    <3>3. Links(q, s) /\ Links(M.node, s) /\ Live(M.node)
      BY <1>2, <1>5, <1>6, <2>3, <3>1, <3>2 DEF Knows, Current, HasChild, Links, Live
    <3>4. CASE q = M.node
      BY <1>10, <3>1, <3>4
    <3>5. CASE q # M.node
      <4>1. ~Live(q)
        BY <1>2, <3>2, <3>3, <3>5, OneParent DEF LInv
      <4> QED
        BY <1>7, <1>8, <3>2, <4>1, NotRevived
    <3> QED
      BY <3>4, <3>5
  <2> QED
    BY <1>2, <1>4, <2>1, <2>2, <2>3 DEF Cuts, Removed
<1>13. Careful(M, N)
  BY <1>7, <1>8, <1>9, <1>11, <1>12 DEF Careful
<1>14. CASE ~Calls(N)
  BY <1>13, <1>14 DEF Turns
<1>15. CASE Calls(N)
  <2>1. /\ Makes(M, N) /\ Onward(M, N) /\ N.fresh = Len(mem) + 1
        /\ \A i \in 1..Len(new) : Len(mem) + i \in Slots' \ Slots
    BY <1>2, <1>4, <1>15, Outcomes DEF Makes
  <2>2. /\ N.pc \in Changing /\ N.pc # "leafLockNode"
        /\ N.pc \in LeafSplitting => M.pc \in LeafSplitting
        /\ \A x : Keeps(N, x) => Keeps(M, x)
        /\ \A x : Copies(N, x) => Keeps(M, x)
        /\ N.pc \in KeepsParent /\ N.pc \in KeepsNode \cup CopiesNode =>
              M.pc \in KeepsParent /\ M.pc \in KeepsNode \cup CopiesNode
        /\ \A x : Parting(M, x) => Parting(N, x)
        /\ N.pc \in {"growNode", "growBuild", "growLink", "splitNode", "splitBuild", "splitLink"} =>
              M.pc \in CopiedAt
        /\ N.pc \in {"leafWrite", "leafBuild", "leafObsolete", "leafMark", "leafLink"} =>
              M.pc = "leafBuild"
    BY <2>1, MakingOwns
  <2>3. Locking(N)'
    <3>1. ASSUME NEW x, Owns(N, x) PROVE (x \in Slots /\ Taken(x) /\ (IsLeaf(x) => Parting(N, x)))'
      <4>1. Owns(M, x)
        BY <2>2, <3>1 DEF Owns
      <4>2. x \in Slots /\ Taken(x) /\ (IsLeaf(x) => Parting(M, x))
        BY <1>2, <4>1 DEF Knows, Locking
      <4> QED
        BY <1>4, <2>2, <4>2, Unchanging DEF Taken, Parting
    <3>2. N.pc \in KeepsParent /\ N.pc \in KeepsNode \cup CopiesNode => N.node # N.parent
      BY <1>2, <2>1, <2>2 DEF Knows, Locking, Onward
    <3> QED
      BY <3>1, <3>2 DEF Locking
  <2>4. Prepared(N)'
    <3>1. N.fresh \in Slots' \ Slots /\ Root \in Slots
      BY <1>3, <2>1 DEF MemOK
    <3>2. Free(N.fresh)' /\ retired'[N.fresh] = {}
      BY <1>11, <3>1 DEF Adds, Free
    <3>3. ASSUME NEW q \in Slots', Links(q, N.fresh)' PROVE FALSE
      <4>1. CASE q \in Slots
        <5>1. PICK b \in DOMAIN mem[q].child : mem[q].child[b] = N.fresh
          BY <1>5, <3>3, <4>1 DEF Links
        <5>2. N.fresh \in Slots \cup {Nil}
          BY <1>3, <4>1, <5>1 DEF MemOK
        <5> QED
          BY <1>4, <2>1, <3>1, <5>2 DEF Nil
      <4>2. CASE q \notin Slots
        <5>1. PICK i : NewSlot(new, q, i)
          BY <1>4, <4>2
        <5>2. PICK b \in DOMAIN mem'[q].child : mem'[q].child[b] = N.fresh
          BY <3>3 DEF Links
        <5> QED
          BY <2>1, <5>1, <5>2 DEF NewSlot, MadeOf, MadeOne
      <4> QED
        BY <4>1, <4>2
    <3> QED
      BY <3>1, <3>2, <3>3 DEF Prepared
  <2>5. N.pc \in {"growNode", "growBuild", "growLink", "splitNode", "splitBuild", "splitLink"} =>
           HasChild(M.parent, M.pbyte, M.node)'
    <3> SUFFICES ASSUME M.pc \in CopiedAt PROVE HasChild(M.parent, M.pbyte, M.node)'
      BY <2>2
    <3>1. HasChild(M.parent, M.pbyte, M.node) /\ M.parent \in Slots
      BY <1>2 DEF Knows, Current, CopiedAt, Replacing, Growing, Splitting
    <3> QED
      BY <1>4, <3>1 DEF HasChild
  <2>6. N.pc \in {"leafWrite", "leafBuild", "leafObsolete", "leafMark", "leafLink"} =>
           HasChild(M.node, M.byte, M.next)'
    BY <1>2, <1>4, <2>2 DEF Knows, Current, HasChild
  <2> QED
    BY <1>1, <1>13, <2>1, <2>2, <2>3, <2>4, <2>5, <2>6, Onwards
<1> QED
  BY <1>14, <1>15

LEMMA LeafMadeOne ==
  ASSUME NEW M, NEW key, NEW hash, NEW n, n = NewLeaf(key, hash)
  PROVE  MadeOne(M, n) /\ n.kind = 0
<1>1. /\ DOMAIN n = NodeFields /\ n.kind = 0 /\ n.word = 4 /\ DOMAIN n.child = {}
  BY LeafMade
<1>2. 4 % 4 = 0
  OBVIOUS
<1> QED
  BY <1>1, <1>2 DEF MadeOne

LEMMA InnerMadeOne ==
  ASSUME NEW M, Len(mem) \in Nat, NEW n, DOMAIN n = NodeFields, n.kind = InitialNode, n.word = 4,
         n.id = Len(mem) + 1, DOMAIN n.child = {}, NEW b, NEW c,
         NEW m, m = SetChild(SetChild(n, b, Len(mem) + 2), c, Len(mem) + 3)
  PROVE  MadeOne(M, m)
<1> DEFINE one == SetChild(n, b, Len(mem) + 2)
<1>1. /\ DOMAIN one = NodeFields /\ one.kind = n.kind /\ one.word = n.word /\ one.id = n.id
      /\ DOMAIN one.child = {b} /\ one.child[b] = Len(mem) + 2
  BY ChildSet
<1> HIDE DEF one
<1>2. /\ DOMAIN m = NodeFields /\ m.kind = n.kind /\ m.word = n.word /\ m.id = n.id
      /\ DOMAIN m.child = {b, c} /\ m.child[c] = Len(mem) + 3
      /\ b # c => m.child[b] = Len(mem) + 2
  <2>1. m = SetChild(one, c, Len(mem) + 3)
    BY DEF one
  <2> QED
    BY <1>1, <2>1, ChildSet
<1>3. \A x \in DOMAIN m.child : m.child[x] # Len(mem) + 1 /\ m.child[x] \notin Slots
  BY <1>2 DEF Slots
<1>4. m.kind # 0 /\ m.word % 4 = 0
  <2>1. 4 % 4 = 0
    OBVIOUS
  <2> QED
    BY <1>2, <2>1 DEF InitialNode
<1> QED
  BY <1>2, <1>3, <1>4 DEF MadeOne

LEMMA MakingTurns ==
  ASSUME NEW t \in Threads, NEW M, NEW N, Moving(t, M, N),
         PutLeaf(t) \/ GrowBuild(t) \/ SplitBuild(t) \/ LeafBuild(t)
  PROVE  Turns(t, M, N)
<1>1. M = loc[t] /\ M.pc \in Changing
  BY DEF PutLeaf, GrowBuild, SplitBuild, LeafBuild, Moving, Changing, Putting, Replacing, Growing,
         Splitting, LeafSplitting
<1>2. /\ Calls(M) /\ MemOK /\ Sound /\ SlotsOK /\ Knows(M) /\ M.node \in Slots /\ Inner(M.node)
      /\ Len(mem) \in Nat
  BY <1>1, ChangingCall, ChangingNow, Sequence DEF Sound, MemOK, LInv
<1>3. ASSUME NEW to, NEW new, MadeOf(M, new), Allocate(t, new, [pc |-> to, fresh |-> Len(mem) + 1]),
             \/ M.pc = "put" /\ to = "putInsert"
             \/ M.pc = "growBuild" /\ to = "growLink"
             \/ M.pc = "splitBuild" /\ to = "splitLink"
             \/ M.pc = "leafBuild" /\ to = "leafObsolete"
      PROVE  Turns(t, M, N)
  <2> DEFINE changes == [pc |-> to, fresh |-> Len(mem) + 1]
  <2>1. /\ DOMAIN changes = {"pc", "fresh"} /\ changes.pc = to
        /\ changes.fresh = Len(mem) + 1 /\ Allocate(t, new, changes)
    BY <1>3
  <2> HIDE DEF changes
  <2>2. ASSUME Go(t, changes) PROVE Makes(M, N)
    <3>1. Changed(N, M, changes)
      BY <1>2, <2>1, <2>2, Outcomes DEF Fields
    <3>2. Onward(M, N) /\ N.pc = to /\ N.claim = M.claim /\ N.fresh = Len(mem) + 1
      BY <2>1, <3>1, Going
    <3> QED
      BY <1>3, <3>2 DEF Makes
  <2>3. Return(t, "refused") => ~Calls(N)
    BY <1>2, Outcomes
  <2>4. Go(t, changes) \/ Return(t, "refused")
    BY <2>1 DEF Allocate
  <2> QED
    BY <1>3, <2>1, <2>2, <2>3, <2>4, MakeTurns
<1>4. CASE PutLeaf(t)
  <2> DEFINE leaf == LeafUnder(t, mem[M.node].id, M.byte)
             new == <<leaf>>
  <2>1. M.pc = "put" /\ Allocate(t, new, [pc |-> "putInsert", fresh |-> Len(mem) + 1])
    BY <1>1, <1>4 DEF PutLeaf
  <2>2. MadeOne(M, leaf)
    BY LeafMadeOne DEF LeafUnder
  <2>3. IsSeq(new) /\ Len(new) = 1 /\ new[1] = leaf
    BY Tuples
  <2> HIDE DEF leaf, new
  <2>4. \A i \in 1..Len(new) : i = 1
    BY <2>3
  <2>5. MadeOf(M, new)
    BY <2>2, <2>3, <2>4 DEF MadeOf
  <2> QED
    BY <1>3, <2>1, <2>5
<1>5. CASE GrowBuild(t)
  <2> DEFINE n == mem[M.node]
             big == Len(mem) + 1
             made == NewNode(n.kind + 1, n.id, n.prefix, n.plen, IdHash(M.parent, M.pbyte))
             copy == [made EXCEPT !.child = n.child]
             node == SetChild(copy, M.byte, big + 1)
             leaf == LeafUnder(t, n.id, M.byte)
             new == <<node, leaf>>
  <2>1. M.pc = "growBuild" /\ Allocate(t, new, [pc |-> "growLink", fresh |-> Len(mem) + 1])
    BY <1>1, <1>5 DEF GrowBuild
  <2>2. n.kind \in Nat
    BY <1>2, Kinds DEF MemOK
  <2>3. DOMAIN made = NodeFields /\ made.kind = n.kind + 1 /\ made.word = 4 /\ made.id = n.id
    BY NodeMade
  <2> HIDE DEF made
  <2>4. /\ DOMAIN copy = NodeFields /\ copy.kind = n.kind + 1 /\ copy.word = 4 /\ copy.id = n.id
        /\ copy.child = n.child
    BY <2>3 DEF NodeFields
  <2> HIDE DEF copy
  <2>5. /\ DOMAIN node = NodeFields /\ node.kind = n.kind + 1 /\ node.word = 4 /\ node.id = n.id
        /\ DOMAIN node.child = DOMAIN n.child \cup {M.byte} /\ node.child[M.byte] = Len(mem) + 2
        /\ \A x \in DOMAIN n.child : x # M.byte => node.child[x] = n.child[x]
    <3>1. big + 1 = Len(mem) + 2
      BY <1>2
    <3> QED
      BY <2>4, <3>1, ChildSet
  <2>6. MadeOne(M, leaf) /\ leaf.kind = 0
    BY LeafMadeOne DEF LeafUnder
  <2> HIDE DEF leaf, node
  <2>7. IsSeq(new) /\ Len(new) = 2 /\ new[1] = node /\ new[2] = leaf
    BY Tuples
  <2> HIDE DEF new
  <2>8. MadeOne(M, node)
    <3>1. node.word % 4 = 0 /\ node.kind # 0
      BY <2>2, <2>5, WordBits
    <3>2. ASSUME NEW b \in DOMAIN node.child
          PROVE  /\ node.child[b] # Len(mem) + 1
                 /\ node.child[b] \in Slots => Links(M.node, node.child[b])
      <4>1. CASE b = M.byte
        <5>1. Len(mem) + 2 # Len(mem) + 1 /\ Len(mem) + 2 \notin Slots
          BY <1>2 DEF Slots
        <5> QED
          BY <2>5, <4>1, <5>1
      <4>2. CASE b # M.byte
        <5>1. b \in DOMAIN n.child /\ node.child[b] = n.child[b]
          BY <2>5, <3>2, <4>2
        <5>2. n.child[b] \in Slots \cup {Nil}
          BY <1>2, <5>1 DEF MemOK
        <5>3. Len(mem) + 1 \notin Slots \cup {Nil}
          BY <1>2 DEF Slots, Nil
        <5> QED
          BY <5>1, <5>2, <5>3 DEF Links
      <4> QED
        BY <4>1, <4>2
    <3> QED
      BY <2>1, <2>5, <3>1, <3>2 DEF MadeOne, CopiedAt
  <2>9. \A i \in 1..Len(new) : i = 1 \/ i = 2
    BY <2>7
  <2>10. MadeOf(M, new)
    BY <2>6, <2>7, <2>8, <2>9 DEF MadeOf
  <2> QED
    BY <1>3, <2>1, <2>10
<1>6. CASE SplitBuild(t)
  <2> DEFINE n == mem[M.node]
             mine == M.key[M.level + M.matched + 1]
             fresh == Len(mem) + 1
             inner == NewNode(InitialNode, fresh, n.prefix, M.matched, IdHash(M.parent, M.pbyte))
             top == SetChild(SetChild(inner, mine, fresh + 1), M.miss, fresh + 2)
             leaf == LeafUnder(t, fresh, mine)
             copy == relocate_node(n, <<fresh, M.miss>>)
             moved == [SetPrefix(copy, M.rest, n.plen - (M.matched + 1)) EXCEPT !.word = @ + 2]
             new == <<top, leaf, moved>>
  <2>1. M.pc = "splitBuild" /\ Allocate(t, new, [pc |-> "splitLink", fresh |-> Len(mem) + 1])
    BY <1>1, <1>6 DEF SplitBuild
  <2>2. /\ DOMAIN inner = NodeFields /\ inner.kind = InitialNode /\ inner.word = 4
        /\ inner.id = fresh /\ DOMAIN inner.child = {}
    BY NodeMade
  <2> HIDE DEF inner
  <2>3. top = SetChild(SetChild(inner, mine, Len(mem) + 2), M.miss, Len(mem) + 3)
    <3>1. fresh + 1 = Len(mem) + 2 /\ fresh + 2 = Len(mem) + 3
      BY <1>2
    <3> QED
      BY <3>1
  <2>4. MadeOne(M, leaf) /\ leaf.kind = 0
    BY LeafMadeOne DEF LeafUnder
  <2>5. DOMAIN n = NodeFields /\ n.word \in Nat /\ n.word % 4 = 2 /\ n.kind # 0 /\ n.id \in 1..Len(mem)
    <3>1. Owns(M, M.node)
      BY <2>1 DEF Owns, Keeps, KeepsNode
    <3> QED
      BY <1>2, <3>1 DEF MemOK, Inner, SlotsOK, Knows, Locking, Taken
  <2>6. /\ DOMAIN moved = NodeFields /\ moved.kind = n.kind /\ moved.word = n.word + 2
        /\ moved.id = n.id /\ moved.child = n.child
    BY <2>5 DEF SetPrefix, relocate_node, NodeFields
  <2>7. IsSeq(new) /\ Len(new) = 3 /\ new[1] = top /\ new[2] = leaf /\ new[3] = moved
    BY Tuples
  <2> HIDE DEF leaf, moved, top, new, mine, copy
  <2>8. MadeOne(M, top)
    BY <1>2, <2>2, <2>3, InnerMadeOne
  <2>9. MadeOne(M, moved)
    <3>1. moved.word % 4 = 0
      BY <2>5, <2>6, WordBits
    <3>2. ASSUME NEW b \in DOMAIN n.child
          PROVE  n.child[b] # Len(mem) + 1 /\ (n.child[b] \in Slots => Links(M.node, n.child[b]))
      <4>1. n.child[b] \in Slots \cup {Nil}
        BY <1>2 DEF MemOK
      <4>2. Len(mem) + 1 \notin Slots \cup {Nil}
        BY <1>2 DEF Slots, Nil
      <4> QED
        BY <4>1, <4>2 DEF Links
    <3> QED
      BY <2>1, <2>5, <2>6, <3>1, <3>2 DEF MadeOne, CopiedAt
  <2>10. top.id # moved.id
    <3>1. top.id = Len(mem) + 1
      BY <2>2, <2>3, <2>8, ChildSet
    <3> QED
      BY <1>2, <2>5, <2>6, <3>1
  <2>11. \A i \in 1..Len(new) : i = 1 \/ i = 2 \/ i = 3
    BY <2>7
  <2>12. MadeOf(M, new)
    BY <2>4, <2>7, <2>8, <2>9, <2>10, <2>11 DEF MadeOf
  <2> QED
    BY <1>3, <2>1, <2>12
<1>7. CASE LeafBuild(t)
  <2> DEFINE key == mem[M.next].value
             below == Drop(M.key, M.level + 1)
             m == Agreement(Drop(key, M.level + 1), below)
             mine == below[m + 1]
             other == key[M.level + m + 2]
             fresh == Len(mem) + 1
             inner == NewNode(InitialNode, fresh, below, m, IdHash(M.node, M.byte))
             top == SetChild(SetChild(inner, mine, fresh + 1), other, fresh + 2)
             leaf == LeafUnder(t, fresh, mine)
             old == NewLeaf(key, <<fresh, other>>)
             new == <<top, leaf, old>>
  <2>1. M.pc = "leafBuild" /\ Allocate(t, new, [pc |-> "leafObsolete", fresh |-> Len(mem) + 1])
    BY <1>1, <1>7 DEF LeafBuild
  <2> HIDE DEF m, mine, other, key, below
  <2>2. /\ DOMAIN inner = NodeFields /\ inner.kind = InitialNode /\ inner.word = 4
        /\ inner.id = fresh /\ DOMAIN inner.child = {}
    BY NodeMade
  <2> HIDE DEF inner
  <2>3. top = SetChild(SetChild(inner, mine, Len(mem) + 2), other, Len(mem) + 3)
    <3>1. fresh + 1 = Len(mem) + 2 /\ fresh + 2 = Len(mem) + 3
      BY <1>2
    <3> QED
      BY <3>1
  <2>4. MadeOne(M, leaf) /\ leaf.kind = 0 /\ MadeOne(M, old) /\ old.kind = 0
    BY LeafMadeOne DEF LeafUnder
  <2>5. IsSeq(new) /\ Len(new) = 3 /\ new[1] = top /\ new[2] = leaf /\ new[3] = old
    BY Tuples
  <2> HIDE DEF leaf, old, top, new
  <2>6. MadeOne(M, top)
    BY <1>2, <2>2, <2>3, InnerMadeOne
  <2>7. \A i \in 1..Len(new) : i = 1 \/ i = 2 \/ i = 3
    BY <2>5
  <2>8. MadeOf(M, new)
    BY <2>4, <2>5, <2>6, <2>7 DEF MadeOf
  <2> QED
    BY <1>3, <2>1, <2>8
<1> QED
  BY <1>4, <1>5, <1>6, <1>7
-----------------------------------------------------------------------------
(* Every step of a call: other threads stay where they are, memory grows.   *)
Alone(t) == \A u \in Threads : u # t => loc'[u] = loc[u]

LEMMA Lonely ==
  ASSUME NEW t \in Threads, DOMAIN loc = Threads
  PROVE  /\ Restart(t) => Alone(t)
         /\ \A result : Return(t, result) => Alone(t)
         /\ \A changes : Go(t, changes) => Alone(t)
         /\ \A s, v, changes : Check(t, s, v, changes) => Alone(t)
         /\ \A kt : CheckPrefixPessimistic(t, kt) => Alone(t)
         /\ \A new, changes : Allocate(t, new, changes) => Alone(t)
<1>1. Restart(t) => Alone(t)
  BY DEF Restart, Alone
<1>2. \A result : Return(t, result) => Alone(t)
  BY DEF Return, Alone
<1>3. \A changes : Go(t, changes) => Alone(t)
  BY DEF Go, Alone
<1>4. \A s, v, changes : Check(t, s, v, changes) => Alone(t)
  BY <1>1, <1>3 DEF Check
<1>5. \A kt : CheckPrefixPessimistic(t, kt) => Alone(t)
  BY <1>3, PrefixGoes
<1>6. \A new, changes : Allocate(t, new, changes) => Alone(t)
  BY <1>2, <1>3 DEF Allocate
<1> QED
  BY <1>1, <1>2, <1>3, <1>4, <1>5, <1>6

LEMMA Grown ==
  ASSUME MemOK
  PROVE  /\ UNCHANGED mem => Grows
         /\ \A s, n : s \in Slots /\ n \in Nat /\ AddToWord(s, n) => Grows
         /\ \A s, b, c : s \in Slots /\ change(s, b, c) => Grows
         /\ \A t, new, changes : IsSeq(new) /\ Allocate(t, new, changes) => Grows
<1>1. \A s \in Slots : mem[s].word \in Nat /\ (mem'[s] = mem[s] => Lasting(s))
  BY DEF MemOK, Lasting
<1>2. UNCHANGED mem => Grows
  BY <1>1 DEF Grows, Slots
<1>3. ASSUME NEW s \in Slots, NEW n \in Nat, AddToWord(s, n) PROVE Grows
  <2>1. Len(mem') = Len(mem) /\ Lasting(s) /\ \A x \in Slots : x # s => mem'[x] = mem[x]
    BY <1>3, WordAdded
  <2> QED
    BY <1>1, <2>1 DEF Grows, Slots
<1>4. ASSUME NEW s \in Slots, NEW b, NEW c, change(s, b, c) PROVE Grows
  <2>1. Len(mem') = Len(mem) /\ Lasting(s) /\ \A x \in Slots : x # s => mem'[x] = mem[x]
    BY <1>4, ChildChanged
  <2> QED
    BY <1>1, <2>1 DEF Grows, Slots
<1>5. ASSUME NEW t, NEW new, NEW changes, IsSeq(new), Allocate(t, new, changes) PROVE Grows
  <2>1. /\ IsSeq(mem') /\ Len(new) \in Nat /\ Len(mem) \in Nat
        /\ \A s \in Slots : mem'[s] = mem[s]
        /\ \E k \in Nat : Len(mem') = Len(mem) + k
    <3>1. Len(new) \in Nat /\ Len(mem) \in Nat
      BY <1>5, Sequence DEF MemOK
    <3>2. /\ IsSeq(mem')
          /\ \A s \in Slots : mem'[s] = mem[s]
          /\ \/ Len(mem') = Len(mem) + Len(new)
             \/ \E k \in 0..Len(new) - 1 : Len(mem') = Len(mem) + k
      BY <1>5, Allocated
    <3> QED
      BY <3>1, <3>2
  <2>2. Slots \subseteq Slots'
    BY <2>1 DEF Slots
  <2> QED
    BY <1>1, <2>1, <2>2 DEF Grows
<1> QED
  BY <1>2, <1>3, <1>4, <1>5

(* The steps that write, sorted by what they do.                            *)
LockStep(t) ==
  \/ PutLock(t) \/ LeafLockNode(t) \/ LeafWriteLock(t)
  \/ LockParent(t, "growParent", "growNode") \/ LockNode(t, "growNode", "growBuild")
  \/ LockParent(t, "splitParent", "splitNode") \/ LockNode(t, "splitNode", "splitBuild")
UnlockStep(t) ==
  \/ Unlock(t) \/ Undo(t) \/ GrowUnlock(t) \/ SplitUnlock(t)
  \/ GrowObsolete(t) \/ SplitObsolete(t) \/ LeafObsolete(t)
LinkStep(t) == PutInsert(t) \/ GrowLink(t) \/ SplitLink(t) \/ LeafLink(t)
MarkStep(t) == GrowMark(t) \/ SplitMark(t) \/ LeafMark(t)
MakeStep(t) == PutLeaf(t) \/ GrowBuild(t) \/ SplitBuild(t) \/ LeafBuild(t)
WalkStep(t) == descend(t) \/ Room(t) \/ PutParent(t)

LEMMA Sorted ==
  ASSUME NEW t, insert(t)
  PROVE  WalkStep(t) \/ LockStep(t) \/ UnlockStep(t) \/ LinkStep(t) \/ MarkStep(t) \/ MakeStep(t)
<1>1. insertAndUnlock(t) => WalkStep(t) \/ LockStep(t) \/ UnlockStep(t) \/ LinkStep(t) \/ MarkStep(t) \/ MakeStep(t)
  BY DEF insertAndUnlock, WalkStep, LockStep, UnlockStep, LinkStep, MarkStep, MakeStep
<1>2. splitPrefix(t) => WalkStep(t) \/ LockStep(t) \/ UnlockStep(t) \/ LinkStep(t) \/ MarkStep(t) \/ MakeStep(t)
  BY DEF splitPrefix, LockStep, UnlockStep, LinkStep, MarkStep, MakeStep
<1>3. splitLeaf(t) => WalkStep(t) \/ LockStep(t) \/ UnlockStep(t) \/ LinkStep(t) \/ MarkStep(t) \/ MakeStep(t)
  BY DEF splitLeaf, LockStep, UnlockStep, LinkStep, MarkStep, MakeStep
<1> QED
  BY <1>1, <1>2, <1>3 DEF insert, WalkStep, UnlockStep

LEMMA Stirring ==
  ASSUME TInv, NEW t \in Threads, lookup(t) \/ insert(t)
  PROVE  Grows /\ Alone(t)
<1>1. MemOK /\ DOMAIN loc = Threads
  BY DEF TInv, QueueOK
<1> DEFINE L == loc[t]
<1>2. CASE lookup(t)
  <2>1. UNCHANGED mem
    BY <1>2 DEF lookup, LookupRoot, Search, LookupMiss, LookupHit, LookupLeaf, LeafReadLock, LeafRead,
                Descend, Couple
  <2>2. Alone(t)
    BY <1>1, <1>2, Lonely DEF lookup, LookupRoot, Search, LookupMiss, LookupHit, LookupLeaf,
                              LeafReadLock, LeafRead, Descend, Couple
  <2> QED
    BY <1>1, <2>1, <2>2, Grown
<1>3. CASE WalkStep(t)
  <2>1. UNCHANGED mem
    BY <1>3 DEF WalkStep, descend, Visit, PrefixStep, AnyLock, AnyChild, AnyCheck, ReadChild, ChildCheck,
                Further, Room, PutParent
  <2>2. Alone(t)
    BY <1>1, <1>3, Lonely DEF WalkStep, descend, Visit, PrefixStep, AnyLock, AnyChild, AnyCheck, ReadChild,
                              ChildCheck, Further, Room, PutParent
  <2> QED
    BY <1>1, <2>1, <2>2, Grown
<1>4. CASE LockStep(t)
  <2>1. L.pc \in Changing
    BY <1>4 DEF LockStep, PutLock, LeafLockNode, LeafWriteLock, LockParent, LockNode,
                Changing, Putting, Replacing, Growing, Splitting, LeafSplitting
  <2>2. /\ L.node \in Slots
        /\ L.pc \in Replacing => L.parent \in Slots
        /\ L.pc \in LeafSplitting => L.next \in Slots
    BY <2>1, ChangingNow
  <2>3. ASSUME NEW s \in Slots, NEW v, NEW changes, Upgrade(t, s, v, changes, Restart(t))
        PROVE  Grows /\ Alone(t)
    BY <1>1, <2>3, Lonely, Grown DEF Upgrade
  <2>4. ASSUME NEW s \in Slots, NEW v, NEW changes, NEW more, Upgrade(t, s, v, changes, Go(t, more))
        PROVE  Grows /\ Alone(t)
    BY <1>1, <2>4, Lonely, Grown DEF Upgrade
  <2>5. CASE PutLock(t) \/ LeafLockNode(t)
    BY <2>2, <2>3, <2>5 DEF PutLock, LeafLockNode
  <2>6. CASE LockParent(t, "growParent", "growNode") \/ LockParent(t, "splitParent", "splitNode")
    BY <2>2, <2>3, <2>6 DEF LockParent, Replacing, Growing, Splitting
  <2>7. CASE LockNode(t, "growNode", "growBuild") \/ LockNode(t, "splitNode", "splitBuild")
    BY <2>2, <2>4, <2>7 DEF LockNode
  <2>8. CASE LeafWriteLock(t)
    <3>1. \/ L.next \in Slots /\ AddToWord(L.next, 2) /\ Go(t, [pc |-> "leafBuild"])
          \/ Restart(t) /\ UNCHANGED mem
      BY <2>2, <2>8 DEF LeafWriteLock, LeafSplitting
    <3> QED
      BY <1>1, <3>1, Lonely, Grown
  <2> QED
    BY <1>4, <2>5, <2>6, <2>7, <2>8 DEF LockStep
<1>5. CASE UnlockStep(t)
  <2>1. L.pc \in Changing
    BY <1>5 DEF UnlockStep, Unlock, Undo, GrowUnlock, SplitUnlock, GrowObsolete, SplitObsolete, LeafObsolete,
                Changing, Putting, Replacing, Growing, Splitting, LeafSplitting
  <2>2. /\ L.node \in Slots
        /\ L.pc \in Replacing => L.parent \in Slots
        /\ L.pc \in LeafSplitting => L.next \in Slots
    BY <2>1, ChangingNow
  <2>3. Alone(t)
    BY <1>1, <1>5, Lonely DEF UnlockStep, Unlock, Undo, GrowUnlock, SplitUnlock, GrowObsolete, SplitObsolete,
                              LeafObsolete
  <2>4. \E s \in Slots : AddToWord(s, 2) \/ AddToWord(s, 3)
    BY <1>5, <2>2 DEF UnlockStep, Unlock, Undo, GrowUnlock, SplitUnlock, GrowObsolete, SplitObsolete,
                      LeafObsolete, writeUnlock, writeUnlockObsolete, Replacing, Growing, Splitting,
                      LeafSplitting
  <2> QED
    BY <1>1, <2>3, <2>4, Grown
<1>6. CASE LinkStep(t)
  <2>1. L.pc \in Changing
    BY <1>6 DEF LinkStep, PutInsert, GrowLink, SplitLink, LeafLink,
                Changing, Putting, Replacing, Growing, Splitting, LeafSplitting
  <2>2. L.node \in Slots /\ (L.pc \in Replacing => L.parent \in Slots)
    BY <2>1, ChangingNow
  <2>3. Alone(t)
    BY <1>1, <1>6, Lonely DEF LinkStep, PutInsert, GrowLink, SplitLink, LeafLink
  <2>4. \E s \in Slots : \E b : change(s, b, L.fresh)
    BY <1>6, <2>2 DEF LinkStep, PutInsert, GrowLink, SplitLink, LeafLink, Replacing, Growing, Splitting
  <2> QED
    BY <1>1, <2>3, <2>4, Grown
<1>7. CASE MarkStep(t)
  BY <1>1, <1>7, Lonely, Grown DEF MarkStep, GrowMark, SplitMark, LeafMark
<1>8. CASE MakeStep(t)
  <2>1. \E new, changes : IsSeq(new) /\ Allocate(t, new, changes)
    <3>1. /\ \A a : IsSeq(<<a>>)
          /\ \A a, b : IsSeq(<<a, b>>)
          /\ \A a, b, c : IsSeq(<<a, b, c>>)
      BY Tuples
    <3>2. CASE PutLeaf(t)
      BY <3>1, <3>2 DEF PutLeaf
    <3>3. CASE GrowBuild(t)
      BY <3>1, <3>3 DEF GrowBuild
    <3>4. CASE SplitBuild(t)
      BY <3>1, <3>4 DEF SplitBuild
    <3>5. CASE LeafBuild(t)
      BY <3>1, <3>5 DEF LeafBuild
    <3> QED
      BY <1>8, <3>2, <3>3, <3>4, <3>5 DEF MakeStep
  <2> QED
    BY <1>1, <2>1, Lonely, Grown
<1> QED
  BY <1>2, <1>3, <1>4, <1>5, <1>6, <1>7, <1>8, Sorted

LEMMA CallTurns ==
  ASSUME TInv, TInv', LInv, NEW t \in Threads, lookup(t) \/ insert(t), UNCHANGED <<todo, load>>
  PROVE  LInv'
<1> DEFINE M == loc[t]
           N == loc'[t]
<1>1. Grows /\ \A u \in Threads : u # t => loc'[u] = loc[u]
  BY Stirring DEF Alone
<1>2. Moving(t, M, N)
  BY <1>1, Movement
<1>3. CASE lookup(t)
  BY <1>2, <1>3, LookupTurns, Turned
<1>4. CASE WalkStep(t)
  BY <1>2, <1>4, DescendTurns, Turned DEF WalkStep
<1>5. CASE LockStep(t)
  BY <1>2, <1>5, LockingTurns, Turned DEF LockStep
<1>6. CASE UnlockStep(t)
  BY <1>2, <1>6, UnlockingTurns, Turned DEF UnlockStep
<1>7. CASE LinkStep(t)
  BY <1>2, <1>7, HookingTurns, Turned DEF LinkStep
<1>8. CASE MarkStep(t)
  BY <1>2, <1>8, HandingTurns, Turned DEF MarkStep
<1>9. CASE MakeStep(t)
  BY <1>2, <1>9, MakingTurns, Turned DEF MakeStep
<1> QED
  BY <1>3, <1>4, <1>5, <1>6, <1>7, <1>8, <1>9, Sorted

(* A call begins: it knows nothing but the root.                           *)
LEMMA BeginTurns ==
  ASSUME TInv, TInv', LInv, NEW t \in Threads, BeginCall(t),
         NEW M, NEW N, M = loc[t], N = loc'[t]
  PROVE  Turns(t, M, N)
<1>1. UNCHANGED <<mem, todo, load, retired>> /\ loc[t] = Idle
  BY DEF BeginCall
<1>2. Sound /\ DOMAIN loc = Threads
  BY DEF TInv, Sound, QueueOK
<1>3. Grows
  BY <1>1, <1>2, Kept
<1>4. PICK op \in {"lookup", "insert"}, key \in AllKeys : \E missing :
         loc' = [loc EXCEPT ![t] = Start([op |-> op, key |-> key, missing |-> missing])]
  BY Begun
<1>5. \A u \in Threads : u # t => loc'[u] = loc[u]
  BY <1>4
<1>6. Moving(t, M, N) /\ ~Calls(M)
  <2>1. Moving(t, M, N)
    BY <1>1, <1>3, <1>5, Movement
  <2> QED
    BY <1>1, <2>1 DEF Calls, Idle
<1>7. /\ N.pc \in {"lookup", "insert"}
      /\ N.node = Nil /\ N.next = Root /\ N.parent = Nil /\ N.cursor = Nil /\ N.any = Nil
  <2>1. PICK missing : N = Start([op |-> op, key |-> key, missing |-> missing])
    BY <1>2, <1>4
  <2> QED
    BY <2>1 DEF Start
<1>8. N.pc \notin Bound
  BY <1>7 DEF Bound, KeepsNode, CopiesNode, KeepsParent
<1>9. Knows(N)'
  <2>1. Inner(Root)'
    BY Kinds DEF TInv, MemOK, Inner
  <2>2. KindsKnown(N)'
    BY <1>7, <2>1 DEF KindsKnown, LeafSplitting
  <2>3. Current(N)'
    BY <1>7 DEF Current
  <2> QED
    BY <1>8, <2>2, <2>3, Loose DEF Knows
<1>10. Careful(M, N)
  <2>1. Acquires(M, N)
    BY <1>7 DEF Acquires, HeldBy
  <2>2. UNCHANGED <<mem, retired>>
    BY <1>1
  <2> QED
    BY <1>6, <1>8, <2>1, <2>2, Idlers, Quietly
<1> QED
  BY <1>6, <1>9, <1>10 DEF Turns

(* A call ends: of the calls that are left, none sees another queue.       *)
LEMMA EndTurns ==
  ASSUME TInv, TInv', LInv, NEW t \in Threads, EndCall(t),
         NEW M, NEW N, M = loc[t], N = loc'[t]
  PROVE  Turns(t, M, N)
<1>1. /\ loc[t].pc = "done" /\ loc' = [loc EXCEPT ![t] = Idle] /\ UNCHANGED <<mem, retired>>
      /\ IF load # <<>> THEN load' = Tail(load) /\ UNCHANGED todo
         ELSE todo' = [todo EXCEPT ![t] = Tail(@)] /\ UNCHANGED load
  BY DEF EndCall
<1>2. Sound /\ QueueOK
  BY DEF TInv, Sound
<1>3. Grows
  BY <1>1, <1>2, Kept
<1>4. /\ loc'[t] = Idle
      /\ \A u \in Threads : u # t => loc'[u] = loc[u]
  BY <1>1, <1>2 DEF QueueOK
<1>5. ASSUME NEW u \in Threads, u # t, Calls(loc[u]) PROVE Ticket(u)' = Ticket(u)
  <2>1. loc[u] # Idle /\ loc[t] # Idle
    BY <1>1, <1>5 DEF Calls, Idle
  <2>2. Due(u) /\ Due(t)
    BY <1>2, <2>1 DEF QueueOK
  <2>3. load = <<>>
    BY <1>5, <2>2 DEF Due
  <2>4. UNCHANGED load /\ todo'[u] = todo[u]
    BY <1>1, <1>2, <1>5, <2>3 DEF QueueOK
  <2> QED
    BY <2>4 DEF Ticket
<1>6. ~Calls(M) /\ ~Calls(N) /\ N.pc \notin Bound
  BY <1>1, <1>4 DEF Calls, Idle, Bound, KeepsNode, CopiesNode, KeepsParent
<1>7. Moving(t, M, N)
  BY <1>3, <1>4, <1>5, <1>6 DEF Moving
<1>8. Careful(M, N)
  <2>1. Acquires(M, N)
    BY <1>6 DEF Acquires
  <2>2. UNCHANGED <<mem, retired>>
    BY <1>1
  <2> QED
    BY <1>6, <1>7, <2>1, <2>2, Idlers, Quietly
<1> QED
  BY <1>6, <1>7, <1>8 DEF Turns

LEMMA Nothing ==
  ASSUME LInv, UNCHANGED vars
  PROVE  LInv'
<1>1. /\ mem' = mem /\ loc' = loc /\ retired' = retired /\ todo' = todo /\ load' = load
      /\ Slots' = Slots
  BY DEF vars, Slots
<1>2. SlotsOK' /\ LInv
  BY <1>1 DEF LInv, SlotsOK
<1>3. KnowsOK'
  <2> SUFFICES ASSUME NEW t \in Threads, NEW M, M = loc[t], Calls(M) PROVE Knows(M)'
    BY <1>1 DEF KnowsOK, Calls
  <2>1. Knows(M)
    BY <1>2 DEF LInv, KnowsOK
  <2>2. KindsKnown(M)'
    BY <1>1, <2>1 DEF Knows, KindsKnown, IsLeaf, Inner
  <2>3. Locking(M)'
    BY <1>1, <2>1 DEF Knows, Locking, Owns, Keeps, Copies, Taken, Parting, IsLeaf
  <2>4. Current(M)'
    BY <1>1, <2>1 DEF Knows, Current, HasChild, Links, Word
  <2>5. Prepared(M)'
    BY <1>1, <2>1 DEF Knows, Prepared, Free, Links
  <2> QED
    BY <2>2, <2>3, <2>4, <2>5 DEF Knows
<1>4. ApartOK' /\ UnheldOK'
  BY <1>1, <1>2 DEF LInv, ApartOK, UnheldOK, Apart, Owns, Keeps, Copies, Calls, HeldBy
<1>5. OneLive' /\ LeavesOK' /\ CutOK'
  BY <1>1, <1>2 DEF LInv, OneLive, LeavesOK, CutOK, Live, Keeps, Free, Inner, IsLeaf, Parting, Links,
                    Removed, Removing, Leaving
<1>6. GraceOK'
  BY <1>1, <1>2 DEF LInv, GraceOK, Calls, HeldBy, Claims, Ticket
<1> QED
  BY <1>2, <1>3, <1>4, <1>5, <1>6 DEF LInv

LEMMA StepsLocked ==
  ASSUME TInv, TInv', LInv, [Next]_vars
  PROVE  LInv'
<1>1. CASE UNCHANGED vars
  BY <1>1, Nothing
<1>2. ASSUME NEW t \in Threads, Step(t) PROVE LInv'
  <2> SUFFICES ASSUME NEW M, NEW N, M = loc[t], N = loc'[t] PROVE LInv'
    OBVIOUS
  <2> QED
    BY <1>2, CallTurns, BeginTurns, EndTurns, Turned DEF Step
<1> QED
  BY <1>1, <1>2 DEF Next

(* At first there is the root, and nobody does anything.                    *)
LEMMA LockInitially ==
  ASSUME Init
  PROVE  LInv
<1>1. TInv
  BY Initially
<1>2. /\ mem = <<NewNode(TopKind, 1, <<>>, 0, <<0, 0>>)>> /\ retired = <<{}>>
      /\ \A t \in Threads : loc[t] = Idle
  BY DEF Init
<1>3. /\ Slots = {Root}
      /\ mem[Root].word = 4 /\ mem[Root].id = 1 /\ mem[Root].hash = <<0, 0>>
      /\ mem[Root].kind = TopKind /\ TopKind # 0 /\ DOMAIN mem[Root].child = {}
      /\ retired[Root] = {}
  <2>1. Len(mem) = 1 /\ mem[1] = NewNode(TopKind, 1, <<>>, 0, <<0, 0>>) /\ retired[1] = {}
    BY <1>2
  <2>2. mem[1].word = 4 /\ mem[1].id = 1 /\ mem[1].hash = <<0, 0>> /\ mem[1].kind = TopKind
        /\ mem[1].child = NoChildren
    BY <2>1 DEF NewNode, SetPrefix
  <2> QED
    BY <2>1, <2>2, Kinds DEF Slots, Root, NoChildren
<1>4. /\ \A t \in Threads : ~Calls(loc[t])
      /\ \A s : /\ \A q : ~Links(q, s) \/ q \notin Slots
                /\ \A t \in Threads : ~Removing(loc[t], s)
  <2>1. \A t \in Threads : ~Calls(loc[t])
    BY <1>2 DEF Calls, Idle
  <2> QED
    BY <1>3, <2>1, Idlers DEF Links
<1>5. SlotsOK
  <2>1. Len(mem) = 1 /\ 4 % 4 = 0
    BY <1>2
  <2> QED
    BY <1>3, <2>1 DEF SlotsOK
<1>6. KnowsOK /\ UnheldOK /\ GraceOK
  BY <1>4, Idlers DEF KnowsOK, UnheldOK, GraceOK
<1>7. ApartOK
  BY <1>4, Idlers DEF ApartOK, Apart
<1>8. OneLive
  BY <1>3 DEF OneLive
<1>9. LeavesOK /\ CutOK
  BY <1>3, <1>4 DEF LeavesOK, CutOK, IsLeaf, Removed
<1> QED
  BY <1>5, <1>6, <1>7, <1>8, <1>9 DEF LInv
-----------------------------------------------------------------------------
(* Locks are held by one call each, what is kept under a lock stays what it *)
(* was read as, and whatever was replaced is unlinked from all that is live. *)
THEOREM LockInvariant == Spec => []LInv
<1>1. Init => TInv /\ LInv
  BY Initially, LockInitially
<1>2. TInv /\ LInv /\ [Next]_vars => TInv' /\ LInv'
  BY Steps, StepsLocked
<1> QED
  BY <1>1, <1>2, PTL DEF Spec

(* Tree.cpp locks the leaf that is to be split when it has locked its node  *)
(* already, and has no way to let go of the node if that fails (line 643):  *)
(* it never does.                                                           *)
THEOREM LeafLockFreeHolds == Spec => []LeafLockFree
<1>1. TInv /\ LInv => LeafLockFree
  <2> SUFFICES ASSUME TInv, LInv, NEW t \in Threads, loc[t].pc = "leafWrite"
               PROVE  Readable(Word(loc[t].next))
    BY DEF LeafLockFree
  <2>1. loc[t].next \in Slots /\ Free(loc[t].next)
    BY LeafReadable
  <2>2. mem[loc[t].next].word \in Nat
    BY <2>1 DEF TInv, MemOK
  <2> QED
    BY <2>1, <2>2, WordBits DEF Free, Word
<1> QED
  BY <1>1, TreeInvariant, LockInvariant, PTL

(* A node is handed over to be freed before it is unlinked, but with the    *)
(* calls that ran when its parent was locked: a call that still holds it is *)
(* one of those, so GracePeriod waits for everyone that could use it.       *)
THEOREM GraceSufficesHolds == Spec => []GraceSuffices
<1>1. LInv => GraceSuffices
  <2> SUFFICES ASSUME LInv, NEW t \in Threads, NEW s \in Held(t) \cap Slots, NEW r \in retired[s]
               PROVE  Ticket(t) \in r.waiting
    BY DEF GraceSuffices
  <2>1. Calls(loc[t]) /\ s \in HeldBy(loc[t])
    BY DEF Held, HeldBy, Calls
  <2> QED
    BY <2>1 DEF LInv, GraceOK
<1> QED
  BY <1>1, LockInvariant, PTL
=============================================================================
