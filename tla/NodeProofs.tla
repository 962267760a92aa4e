------------------------------ MODULE NodeProofs ------------------------------
(***************************************************************************)
(* The node classes, for every number of values of a byte and of children  *)
(* that a class has room for: however a node came to its class, it reads   *)
(* as the map from bytes to children, and nothing is written past the end  *)
(* of an array.                                                            *)
(***************************************************************************)
EXTENDS NodeCopies, SequencesExt, FiniteSetTheorems, SequenceTheorems, WellFoundedInduction,
        TLAPS

-----------------------------------------------------------------------------
(* A set of numbers that is not empty has a least one.                     *)
LEMMA LeastNumber ==
  ASSUME NEW S \in SUBSET Nat, S # {}
  PROVE  \E k \in S : \A l \in S : k <= l
<1> DEFINE R == {ss \in Nat \X Nat : ss[1] < ss[2]}
<1>1. IsWellFoundedOn(R, Nat)
  BY NatLessThanWellFounded DEF OpToRel
<1>2. PICK k \in S : \A l \in S : ~(<<l, k>> \in R)
  <2> HIDE DEF R
  <2> QED
    BY <1>1, WFMin
<1>3. \A l \in S : ~(l < k)
  BY <1>2
<1> QED
  BY <1>3

(* Induction over the naturals for one given set.                          *)
LEMMA AllNumbers ==
  ASSUME NEW S, 0 \in S, \A k \in Nat : k \in S => k + 1 \in S
  PROVE  \A k \in Nat : k \in S
<1> SUFFICES ASSUME Nat \ S # {} PROVE FALSE
  OBVIOUS
<1>1. PICK k \in Nat \ S : \A l \in Nat \ S : k <= l
  BY LeastNumber
<1>2. k # 0 /\ k - 1 \in Nat /\ k - 1 \in S
  BY <1>1
<1>3. (k - 1) + 1 \in S
  BY <1>2
<1> QED
  BY <1>1, <1>3

(* Induction up to a number.                                               *)
LEMMA UpTo ==
  ASSUME NEW size \in Nat, NEW S, 0 \in S,
         \A k \in 0..size - 1 : k \in S => k + 1 \in S
  PROVE  \A k \in 0..size : k \in S
<1> DEFINE T == {k \in Nat : k <= size => k \in S}
<1>1. 0 \in T
  OBVIOUS
<1>2. ASSUME NEW k \in Nat, k \in T PROVE k + 1 \in T
  BY <1>2
<1>3. \A k \in Nat : k \in T
  <2> HIDE DEF T
  <2> QED
    BY <1>1, <1>2, AllNumbers
<1> QED
  BY <1>3

(* A set of numbers up to size that is not empty has a greatest one.       *)
LEMMA MaxOf ==
  ASSUME NEW size \in Nat, NEW s \in SUBSET (1..size), s # {}
  PROVE  Max(s) \in s /\ \A y \in s : Max(s) >= y
<1> DEFINE S == {size - y : y \in s}
<1>1. S \in SUBSET Nat /\ S # {}
  <2>1. \A y \in s : y \in Nat /\ y <= size
    OBVIOUS
  <2>2. \A y \in s : size - y \in Nat
    BY <2>1
  <2> QED
    BY <2>2
<1>2. PICK l \in S : \A k \in S : l <= k
  <2> HIDE DEF S
  <2> QED
    BY <1>1, LeastNumber
<1>3. PICK x \in s : l = size - x
  BY <1>2
<1>4. ASSUME NEW y \in s PROVE x >= y
  <2>1. size - y \in S
    OBVIOUS
  <2>2. l <= size - y
    BY <1>2, <2>1
  <2> QED
    BY <1>3, <2>2
<1> QED
  BY <1>4 DEF Max

\* Min takes a least element.
LEMMA MinOf ==
  ASSUME NEW S \in SUBSET Nat, S # {}
  PROVE  Min(S) \in S /\ \A y \in S : Min(S) <= y
BY LeastNumber DEF Min

-----------------------------------------------------------------------------
(* The loops that are folds, by what a round of each does: the children of *)
(* a node are copied, in one of two copies of the tree, or those           *)
(* that are there are listed, or those between two bytes, from and to.     *)
Put(fold, x, b, c) ==
  IF fold = "copy" THEN A!insert(x, b, c) ELSE A64!insert(x, b, c)

RoundOf(fold, from, to, x, p) ==
  IF fold \in {"copy", "copy64"} THEN Put(fold, x, p[1], p[2])
  ELSE IF fold = "present" THEN IF p[2] # A!null THEN Append(x, p) ELSE x
  ELSE IF from <= p[1] /\ p[1] <= to THEN Append(x, p) ELSE x

Rounds(fold, from, to, base, seq, g, s) ==
  g[s] = IF s = {} THEN base
         ELSE RoundOf(fold, from, to, g[s \ {Max(s)}], seq[Max(s)])

IsFold(fold, from, to, base, seq, g) ==
  g = [s \in SUBSET (DOMAIN seq) |->
         IF s = {} THEN base ELSE RoundOf(fold, from, to, g[s \ {Max(s)}], seq[Max(s)])]

(* A fold goes through the sequence from its first element to its last.    *)
IsRun(fold, from, to, base, seq, size, run) ==
  /\ run = [i \in 0..size |-> run[i]]
  /\ run[0] = base
  /\ \A i \in 0..size - 1 : run[i + 1] = RoundOf(fold, from, to, run[i], seq[i + 1])

(* What is left of a set without its greatest number.                      *)
LEMMA WithoutMax ==
  ASSUME NEW size \in Nat, NEW s \in SUBSET (1..size)
  PROVE  /\ IsFiniteSet(s) /\ Cardinality(s) \in Nat /\ Cardinality(s) <= size
         /\ Cardinality(s) = 0 <=> s = {}
         /\ s # {} => /\ s \ {Max(s)} \in SUBSET (1..size)
                      /\ Cardinality(s \ {Max(s)}) = Cardinality(s) - 1
<1>1. IsFiniteSet(1..size) /\ Cardinality(1..size) = size
  <2>1. IsFiniteSet(1..size) /\ Cardinality(1..size) = IF 1 > size THEN 0 ELSE size - 1 + 1
    BY FS_Interval
  <2> QED
    BY <2>1
<1>2. IsFiniteSet(s) /\ Cardinality(s) <= size
  BY <1>1, FS_Subset
<1>3. Cardinality(s) \in Nat /\ (Cardinality(s) = 0 <=> s = {})
  BY <1>2, FS_CardinalityType, FS_EmptySet
<1>4. s # {} => Max(s) \in s
  BY MaxOf
<1>5. s # {} => Cardinality(s \ {Max(s)}) = Cardinality(s) - 1
  BY <1>2, <1>4, FS_RemoveElement
<1> QED
  BY <1>2, <1>3, <1>5

(* Every fold exists, part of the sequence after part of it.               *)
LEMMA FoldExists ==
  ASSUME NEW fold, NEW from, NEW to, NEW base, NEW seq, NEW size \in Nat, DOMAIN seq = 1..size
  PROVE  \E g : IsFold(fold, from, to, base, seq, g)
<1> DEFINE D == 1..size
           Good(i) == \E g : /\ g = [s \in SUBSET D |-> g[s]]
                             /\ \A s \in SUBSET D : Cardinality(s) <= i =>
                                   Rounds(fold, from, to, base, seq, g, s)
           Sizes == {i \in Nat : Good(i)}
<1>1. 0 \in Sizes
  <2> DEFINE g == [s \in SUBSET D |-> base]
  <2>1. ASSUME NEW s \in SUBSET D, Cardinality(s) <= 0
        PROVE  Rounds(fold, from, to, base, seq, g, s)
    <3>1. Cardinality(s) \in Nat /\ (Cardinality(s) = 0 <=> s = {})
      BY WithoutMax
    <3>2. s = {}
      BY <2>1, <3>1
    <3> QED
      BY <3>2 DEF Rounds
  <2>2. g = [s \in SUBSET D |-> g[s]]
    OBVIOUS
  <2>3. Good(0)
    <3> HIDE DEF g
    <3>1. \A s \in SUBSET D : Cardinality(s) <= 0 => Rounds(fold, from, to, base, seq, g, s)
      BY <2>1
    <3> QED
      BY <2>2, <3>1
  <2> HIDE DEF Good
  <2> QED
    BY <2>3
<1>2. ASSUME NEW i \in Nat, i \in Sizes PROVE i + 1 \in Sizes
  <2>1. PICK g : /\ g = [s \in SUBSET D |-> g[s]]
                 /\ \A s \in SUBSET D : Cardinality(s) <= i =>
                       Rounds(fold, from, to, base, seq, g, s)
    BY <1>2
  <2> DEFINE h == [s \in SUBSET D |->
                     IF s = {} THEN base
                     ELSE RoundOf(fold, from, to, g[s \ {Max(s)}], seq[Max(s)])]
  <2>2. \A s \in SUBSET D : Cardinality(s) <= i => h[s] = g[s]
    BY <2>1 DEF Rounds
  <2>3. ASSUME NEW s \in SUBSET D, Cardinality(s) <= i + 1
        PROVE  Rounds(fold, from, to, base, seq, h, s)
    <3>1. CASE s = {}
      BY <3>1 DEF Rounds
    <3>2. CASE s # {}
      <4>1. s \ {Max(s)} \in SUBSET D /\ Cardinality(s \ {Max(s)}) <= i
        BY <2>3, <3>2, WithoutMax
      <4>2. h[s \ {Max(s)}] = g[s \ {Max(s)}]
        BY <2>2, <4>1
      <4>3. h[s] = RoundOf(fold, from, to, g[s \ {Max(s)}], seq[Max(s)])
        BY <3>2
      <4> HIDE DEF h
      <4> QED
        BY <3>2, <4>2, <4>3 DEF Rounds
    <3> QED
      BY <3>1, <3>2
  <2>4. h = [s \in SUBSET D |-> h[s]]
    OBVIOUS
  <2>5. Good(i + 1)
    <3> HIDE DEF h
    <3>1. \A s \in SUBSET D : Cardinality(s) <= i + 1 => Rounds(fold, from, to, base, seq, h, s)
      BY <2>3
    <3> QED
      BY <2>4, <3>1
  <2> HIDE DEF Good
  <2> QED
    BY <2>5
<1>3. \A i \in Nat : i \in Sizes
  <2> HIDE DEF Sizes
  <2> QED
    BY <1>1, <1>2, AllNumbers
<1>4. PICK g : /\ g = [s \in SUBSET D |-> g[s]]
               /\ \A s \in SUBSET D : Cardinality(s) <= size =>
                     Rounds(fold, from, to, base, seq, g, s)
  BY <1>3
<1>5. \A s \in SUBSET D : Rounds(fold, from, to, base, seq, g, s)
  BY <1>4, WithoutMax
<1>6. IsFold(fold, from, to, base, seq, g)
  BY <1>4, <1>5 DEF IsFold, Rounds
<1> QED
  BY <1>6

\* If some function folds so, the one that is chosen does, and its rounds are a run.
LEMMA FoldRuns ==
  ASSUME NEW fold, NEW from, NEW to, NEW base, NEW seq, NEW size \in Nat, DOMAIN seq = 1..size,
         NEW g, (\E f : IsFold(fold, from, to, base, seq, f)) => IsFold(fold, from, to, base, seq, g)
  PROVE  \E run : IsRun(fold, from, to, base, seq, size, run) /\ run[size] = g[DOMAIN seq]
<1> DEFINE run == [i \in 0..size |-> g[1..i]]
<1>1. \A s \in SUBSET (1..size) :
         g[s] = IF s = {} THEN base ELSE RoundOf(fold, from, to, g[s \ {Max(s)}], seq[Max(s)])
  <2>1. IsFold(fold, from, to, base, seq, g)
    BY FoldExists
  <2> QED
    BY <2>1 DEF IsFold
<1>2. run[0] = base
  <2>1. 1..0 = {} /\ 1..0 \in SUBSET (1..size)
    OBVIOUS
  <2>2. g[1..0] = base
    BY <1>1, <2>1
  <2> QED
    BY <2>2
<1>3. ASSUME NEW i \in 0..size - 1
      PROVE  run[i + 1] = RoundOf(fold, from, to, run[i], seq[i + 1])
  <2>1. 1..i + 1 \in SUBSET (1..size) /\ 1..i + 1 # {} /\ i + 1 \in 1..i + 1
        /\ i + 1 \in 0..size /\ i \in 0..size
    <3>1. i \in Nat /\ i + 1 <= size
      OBVIOUS
    <3>2. i + 1 \in 1..i + 1 /\ i + 1 \in 0..size /\ i \in 0..size
      BY <3>1
    <3>3. 1..i + 1 \in SUBSET (1..size)
      BY <3>1
    <3> QED
      BY <3>2, <3>3
  <2>2. Max(1..i + 1) \in 1..i + 1 /\ Max(1..i + 1) >= i + 1
    BY <2>1, MaxOf
  <2>3. Max(1..i + 1) = i + 1
    BY <2>2
  <2>4. (1..i + 1) \ {i + 1} = 1..i
    OBVIOUS
  <2>5. g[1..i + 1] = RoundOf(fold, from, to, g[(1..i + 1) \ {i + 1}], seq[i + 1])
    BY <1>1, <2>1, <2>3
  <2> QED
    BY <2>1, <2>4, <2>5
<1>4. run[size] = g[DOMAIN seq]
  OBVIOUS
<1>5. run = [i \in 0..size |-> run[i]]
  OBVIOUS
<1> HIDE DEF run
<1> QED
  BY <1>2, <1>3, <1>4, <1>5 DEF IsRun

\* copyTo of tiny_art is a run over the pairs of the node.
LEMMA CopyRuns ==
  ASSUME NEW m, NEW other, NEW size \in Nat, DOMAIN A!Pairs(m) = 1..size
  PROVE  \E run : IsRun("copy", A!null, A!null, other, A!Pairs(m), size, run) /\ A!Life!copyTo(m, other) = run[size]
<1> DEFINE seq == A!Pairs(m)
           Copies(g) == g = [s \in SUBSET (DOMAIN seq) |->
                               IF s = {} THEN other
                               ELSE A!insert(g[s \ {Max(s)}], seq[Max(s)][1], seq[Max(s)][2])]
<1>1. \A g : Copies(g) <=> IsFold("copy", A!null, A!null, other, seq, g)
  BY DEF IsFold, RoundOf, Put
<1>2. PICK g : g = CHOOSE f : Copies(f)
  OBVIOUS
<1>3. A!Life!copyTo(m, other) = g[DOMAIN seq]
  BY <1>2 DEF A!Life!copyTo, A!Life!FoldLeft, A!Life!MapThenFoldSet, A!Life!Max, Max
<1>4. (\E f : IsFold("copy", A!null, A!null, other, seq, f)) => IsFold("copy", A!null, A!null, other, seq, g)
  BY <1>1, <1>2
<1> HIDE DEF Copies, seq
<1>5. DOMAIN seq = 1..size
  BY DEF seq
<1> QED
  BY <1>3, <1>4, <1>5, FoldRuns DEF seq

\* So is copyTo of tiny_art_64.
LEMMA CopyRuns64 ==
  ASSUME NEW m, NEW other, NEW size \in Nat, DOMAIN A64!Pairs(m) = 1..size
  PROVE  \E run : IsRun("copy64", A!null, A!null, other, A64!Pairs(m), size, run) /\ A64!Life!copyTo(m, other) = run[size]
<1> DEFINE seq == A64!Pairs(m)
           Copies(g) == g = [s \in SUBSET (DOMAIN seq) |->
                               IF s = {} THEN other
                               ELSE A64!insert(g[s \ {Max(s)}], seq[Max(s)][1], seq[Max(s)][2])]
<1>1. \A g : Copies(g) <=> IsFold("copy64", A!null, A!null, other, seq, g)
  BY DEF IsFold, RoundOf, Put
<1>2. PICK g : g = CHOOSE f : Copies(f)
  OBVIOUS
<1>3. A64!Life!copyTo(m, other) = g[DOMAIN seq]
  BY <1>2 DEF A64!Life!copyTo, A64!Life!FoldLeft, A64!Life!MapThenFoldSet, A64!Life!Max, Max
<1>4. (\E f : IsFold("copy64", A!null, A!null, other, seq, f)) => IsFold("copy64", A!null, A!null, other, seq, g)
  BY <1>1, <1>2
<1> HIDE DEF Copies, seq
<1>5. DOMAIN seq = 1..size
  BY DEF seq
<1> QED
  BY <1>3, <1>4, <1>5, FoldRuns DEF seq

(* What a bigger node is asked for: the places between two bytes.          *)
Places(m, start, end) ==
  [i \in 1..end - start + 1 |-> <<start + i - 1, m.children[start + i - 1]>>]

\* getChildren of a table is a run over the bytes asked for.
LEMMA ListOf256Runs ==
  ASSUME NEW m, NEW start \in Nat, NEW end \in Int, start <= end + 1
  PROVE  \E run :
           /\ IsRun("present", A!null, A!null, <<>>, Places(m, start, end), end - start + 1, run)
           /\ A!K256!getChildren(m, start, end) = run[end - start + 1]
<1> DEFINE seq == Places(m, start, end)
           Lists(g) == g = [s \in SUBSET (DOMAIN seq) |->
                              IF s = {} THEN <<>>
                              ELSE IF seq[Max(s)][2] # A!null
                                   THEN Append(g[s \ {Max(s)}], seq[Max(s)]) ELSE g[s \ {Max(s)}]]
<1>1. \A g : Lists(g) <=> IsFold("present", A!null, A!null, <<>>, seq, g)
  BY DEF IsFold, RoundOf
<1>2. PICK g : g = CHOOSE f : Lists(f)
  OBVIOUS
<1>3. A!K256!getChildren(m, start, end) = g[DOMAIN seq]
  BY <1>2 DEF A!K256!getChildren, A!K256!FoldLeft, A!K256!MapThenFoldSet, A!K256!Max, Max, Places
<1>4. (\E f : IsFold("present", A!null, A!null, <<>>, seq, f)) => IsFold("present", A!null, A!null, <<>>, seq, g)
  BY <1>1, <1>2
<1>5. PICK size \in Nat : size = end - start + 1
  OBVIOUS
<1>6. DOMAIN seq = 1..size
  BY <1>5 DEF Places
<1> HIDE DEF Lists, seq
<1>7. \E run : IsRun("present", A!null, A!null, <<>>, seq, size, run) /\ run[size] = g[DOMAIN seq]
  BY <1>4, <1>6, FoldRuns
<1>8. PICK run : IsRun("present", A!null, A!null, <<>>, seq, size, run) /\ run[size] = g[DOMAIN seq]
  BY <1>7
<1>9. A!K256!getChildren(m, start, end) = run[size]
  BY <1>3, <1>8
<1>10. IsRun("present", A!null, A!null, <<>>, Places(m, start, end), size, run)
  BY <1>8 DEF seq
<1> QED
  BY <1>5, <1>9, <1>10

\* getChildren of an N4 is a run over its pairs.
LEMMA ListOf4Runs ==
  ASSUME NEW m, NEW start, NEW end, NEW size \in Nat, DOMAIN A!K4!Pairs(m) = 1..size
  PROVE  \E run :
           /\ IsRun("between", start, end, <<>>, A!K4!Pairs(m), size, run)
           /\ A!K4!getChildren(m, start, end) = run[size]
<1> DEFINE seq == A!K4!Pairs(m)
           Lists(g) == g = [s \in SUBSET (DOMAIN seq) |->
                              IF s = {} THEN <<>>
                              ELSE IF start <= seq[Max(s)][1] /\ seq[Max(s)][1] <= end
                                   THEN Append(g[s \ {Max(s)}], seq[Max(s)]) ELSE g[s \ {Max(s)}]]
<1>1. \A g : Lists(g) <=> IsFold("between", start, end, <<>>, seq, g)
  BY DEF IsFold, RoundOf
<1>2. PICK g : g = CHOOSE f : Lists(f)
  OBVIOUS
<1>3. A!K4!getChildren(m, start, end) = g[DOMAIN seq]
  BY <1>2 DEF A!K4!getChildren, A!K4!FoldLeft, A!K4!MapThenFoldSet, A!K4!Max, Max
<1>4. (\E f : IsFold("between", start, end, <<>>, seq, f))
        => IsFold("between", start, end, <<>>, seq, g)
  BY <1>1, <1>2
<1>5. DOMAIN seq = 1..size
  OBVIOUS
<1> HIDE DEF Lists, seq
<1> QED
  BY <1>3, <1>4, <1>5, FoldRuns DEF seq

-----------------------------------------------------------------------------
(* Arrays that an element is put into or taken out of.                     *)
LEMMA Inserted ==
  ASSUME NEW S, NEW s \in Seq(S), NEW e \in S, NEW pos \in 1..Len(s) + 1
  PROVE  /\ InsertAt(s, pos, e) \in Seq(S)
         /\ Len(InsertAt(s, pos, e)) = Len(s) + 1
         /\ \A i \in 1..Len(s) + 1 : InsertAt(s, pos, e)[i] =
               IF i < pos THEN s[i] ELSE IF i = pos THEN e ELSE s[i - 1]
<1> DEFINE a == SubSeq(s, 1, pos - 1)
           b == SubSeq(s, pos, Len(s))
<1>1. Len(s) \in Nat /\ pos \in Nat /\ DOMAIN s = 1..Len(s) /\ pos <= Len(s) + 1
  BY LenProperties
<1>2. \A i \in 1..Len(s) : s[i] \in S
  BY ElementOfSeq
<1>3. /\ a \in Seq(S) /\ Len(a) = pos - 1
      /\ \A i \in 1..pos - 1 : a[i] = s[i]
  <2>1. \A i \in 1..pos - 1 : s[i] \in S
    BY <1>1, <1>2
  <2> QED
    BY <1>1, <2>1, SubSeqProperties
<1>4. /\ b \in Seq(S) /\ Len(b) = Len(s) - pos + 1
      /\ \A i \in 1..Len(s) - pos + 1 : b[i] = s[pos + i - 1]
  <2>1. \A i \in pos..Len(s) : s[i] \in S
    BY <1>1, <1>2
  <2> QED
    BY <1>1, <2>1, SubSeqProperties
<1> HIDE DEF a, b
<1>5. /\ <<e>> \in Seq(S) /\ Len(<<e>>) = 1 /\ <<e>>[1] = e
  OBVIOUS
<1>6. /\ a \o <<e>> \in Seq(S) /\ Len(a \o <<e>>) = pos
      /\ \A i \in 1..pos : (a \o <<e>>)[i] = IF i < pos THEN s[i] ELSE e
  <2>1. /\ a \o <<e>> \in Seq(S) /\ Len(a \o <<e>>) = Len(a) + Len(<<e>>)
        /\ \A i \in 1..Len(a) + Len(<<e>>) :
             (a \o <<e>>)[i] = IF i <= Len(a) THEN a[i] ELSE <<e>>[i - Len(a)]
    BY <1>3, <1>5, ConcatProperties
  <2> QED
    BY <1>1, <1>3, <1>5, <2>1
<1>7. /\ a \o <<e>> \o b \in Seq(S) /\ Len(a \o <<e>> \o b) = Len(s) + 1
      /\ \A i \in 1..Len(s) + 1 : (a \o <<e>> \o b)[i] =
            IF i <= pos THEN (a \o <<e>>)[i] ELSE b[i - pos]
  <2>1. /\ a \o <<e>> \o b \in Seq(S)
        /\ Len(a \o <<e>> \o b) = Len(a \o <<e>>) + Len(b)
        /\ \A i \in 1..Len(a \o <<e>>) + Len(b) : (a \o <<e>> \o b)[i] =
              IF i <= Len(a \o <<e>>) THEN (a \o <<e>>)[i] ELSE b[i - Len(a \o <<e>>)]
    <3>1. PICK x : x = a \o <<e>>
      OBVIOUS
    <3>2. x \in Seq(S)
      BY <1>6, <3>1
    <3>3. /\ x \o b \in Seq(S) /\ Len(x \o b) = Len(x) + Len(b)
          /\ \A i \in 1..Len(x) + Len(b) : (x \o b)[i] =
                IF i <= Len(x) THEN x[i] ELSE b[i - Len(x)]
      BY <1>4, <3>2, ConcatProperties
    <3> QED
      BY <3>1, <3>3
  <2>2. Len(a \o <<e>>) = pos /\ Len(b) = Len(s) - pos + 1 /\ pos + (Len(s) - pos + 1) = Len(s) + 1
    BY <1>1, <1>4, <1>6
  <2>3. ASSUME NEW i \in 1..Len(s) + 1
        PROVE  (a \o <<e>> \o b)[i] = IF i <= pos THEN (a \o <<e>>)[i] ELSE b[i - pos]
    BY <1>6, <2>1, <2>2
  <2> QED
    BY <2>1, <2>2, <2>3
<1>8. InsertAt(s, pos, e) = a \o <<e>> \o b
  BY DEF InsertAt, a, b
<1>9. ASSUME NEW i \in 1..Len(s) + 1
      PROVE  InsertAt(s, pos, e)[i] =
               IF i < pos THEN s[i] ELSE IF i = pos THEN e ELSE s[i - 1]
  <2>1. CASE i <= pos
    BY <1>1, <1>6, <1>7, <1>8, <2>1
  <2>2. CASE i > pos
    <3>1. i - pos \in 1..Len(s) - pos + 1 /\ pos + (i - pos) - 1 = i - 1
      BY <1>1, <2>2
    <3> QED
      BY <1>1, <1>4, <1>7, <1>8, <2>2, <3>1
  <2> QED
    BY <1>1, <2>1, <2>2
<1> QED
  BY <1>7, <1>8, <1>9

\* The same with its parameters quantified.
LEMMA InsertedAnywhere ==
  \A S : \A s \in Seq(S), e \in S : \A pos \in 1..Len(s) + 1 :
     /\ InsertAt(s, pos, e) \in Seq(S)
     /\ Len(InsertAt(s, pos, e)) = Len(s) + 1
     /\ \A i \in 1..Len(s) + 1 : InsertAt(s, pos, e)[i] =
           IF i < pos THEN s[i] ELSE IF i = pos THEN e ELSE s[i - 1]
BY Inserted

\* What a sequence is after one element was removed.
LEMMA Removed ==
  ASSUME NEW S, NEW s \in Seq(S), NEW pos \in 1..Len(s)
  PROVE  /\ RemoveAt(s, pos) \in Seq(S)
         /\ Len(RemoveAt(s, pos)) = Len(s) - 1
         /\ \A i \in 1..Len(s) - 1 : RemoveAt(s, pos)[i] = IF i < pos THEN s[i] ELSE s[i + 1]
<1> DEFINE a == SubSeq(s, 1, pos - 1)
           b == SubSeq(s, pos + 1, Len(s))
<1>1. Len(s) \in Nat /\ pos \in Nat /\ DOMAIN s = 1..Len(s) /\ pos <= Len(s)
  BY LenProperties
<1>2. \A i \in 1..Len(s) : s[i] \in S
  BY ElementOfSeq
<1>3. /\ a \in Seq(S) /\ Len(a) = pos - 1
      /\ \A i \in 1..pos - 1 : a[i] = s[i]
  <2>1. \A i \in 1..pos - 1 : s[i] \in S
    BY <1>1, <1>2
  <2> QED
    BY <1>1, <2>1, SubSeqProperties
<1>4. /\ b \in Seq(S) /\ Len(b) = Len(s) - pos
      /\ \A i \in 1..Len(s) - pos : b[i] = s[pos + i]
  <2>1. \A i \in pos + 1..Len(s) : s[i] \in S
    BY <1>1, <1>2
  <2>2. /\ b \in Seq(S)
        /\ Len(b) = IF pos + 1 <= Len(s) THEN Len(s) - (pos + 1) + 1 ELSE 0
        /\ \A i \in 1..Len(s) - (pos + 1) + 1 : b[i] = s[(pos + 1) + i - 1]
    BY <1>1, <2>1, SubSeqProperties
  <2>3. Len(b) = Len(s) - pos
    <3>1. PICK k : k = Len(s)
      OBVIOUS
    <3>2. k \in Nat /\ pos \in Nat /\ pos <= k
      BY <1>1, <3>1
    <3>3. Len(b) = IF pos + 1 <= k THEN k - (pos + 1) + 1 ELSE 0
      BY <2>2, <3>1
    <3>4. Len(b) = k - pos
      BY ONLY <3>2, <3>3
    <3> QED
      BY <3>1, <3>4
  <2>4. ASSUME NEW i \in 1..Len(s) - pos PROVE b[i] = s[pos + i]
    <3>1. i \in 1..Len(s) - (pos + 1) + 1 /\ (pos + 1) + i - 1 = pos + i
      BY <1>1
    <3> QED
      BY <2>2, <3>1
  <2> HIDE DEF b
  <2> QED
    BY <2>2, <2>3, <2>4
<1> HIDE DEF a, b
<1>5. /\ a \o b \in Seq(S) /\ Len(a \o b) = Len(s) - 1
      /\ \A i \in 1..Len(s) - 1 : (a \o b)[i] = IF i < pos THEN a[i] ELSE b[i - (pos - 1)]
  <2>1. /\ a \o b \in Seq(S) /\ Len(a \o b) = Len(a) + Len(b)
        /\ \A i \in 1..Len(a) + Len(b) :
              (a \o b)[i] = IF i <= Len(a) THEN a[i] ELSE b[i - Len(a)]
    BY <1>3, <1>4, ConcatProperties
  <2> QED
    BY <1>1, <1>3, <1>4, <2>1
<1>6. RemoveAt(s, pos) = a \o b
  BY DEF RemoveAt, a, b
<1>7. ASSUME NEW i \in 1..Len(s) - 1
      PROVE  RemoveAt(s, pos)[i] = IF i < pos THEN s[i] ELSE s[i + 1]
  <2>1. CASE i < pos
    BY <1>1, <1>3, <1>5, <1>6, <2>1
  <2>2. CASE i >= pos
    <3>1. i - (pos - 1) \in 1..Len(s) - pos /\ pos + (i - (pos - 1)) = i + 1
      BY <1>1, <2>2
    <3> QED
      BY <1>1, <1>4, <1>5, <1>6, <2>2, <3>1
  <2> QED
    BY <1>1, <2>1, <2>2
<1> QED
  BY <1>5, <1>6, <1>7

-----------------------------------------------------------------------------
(* A map from bytes to tiny pointers, and two arrays that hold it.         *)
Byte == 0..Base - 1
TinyPtrs == Leaves \cup Inner
Maps == [Byte -> TinyPtrs \cup {A!null}]
PresentIn(f) == {b \in Byte : f[b] # A!null}

Lists(bs, cs, f) ==
  /\ bs \in Seq(Byte) /\ cs \in Seq(TinyPtrs) /\ Len(cs) = Len(bs)
  /\ \A i, j \in 1..Len(bs) : i < j => bs[i] < bs[j]
  /\ \A i \in 1..Len(bs) : cs[i] = f[bs[i]]
  /\ \A b \in Byte : f[b] # A!null => \E i \in 1..Len(bs) : bs[i] = b

\* A byte put where it belongs leaves the arrays a list of the map.
LEMMA ListsInsert ==
  ASSUME Base \in Nat, NEW f \in Maps, NEW bs, NEW cs, Lists(bs, cs, f),
         NEW b \in Byte, f[b] = A!null, NEW c \in TinyPtrs, NEW pos \in 1..Len(bs) + 1,
         \A i \in 1..Len(bs) : i < pos => bs[i] < b,
         \A i \in 1..Len(bs) : i >= pos => b < bs[i]
  PROVE  /\ Lists(InsertAt(bs, pos, b), InsertAt(cs, pos, c), [f EXCEPT ![b] = c])
         /\ Len(InsertAt(bs, pos, b)) = Len(bs) + 1
<1> DEFINE bb == InsertAt(bs, pos, b)
           cc == InsertAt(cs, pos, c)
           ff == [f EXCEPT ![b] = c]
<1>1. /\ bs \in Seq(Byte) /\ cs \in Seq(TinyPtrs) /\ Len(cs) = Len(bs) /\ Len(bs) \in Nat
      /\ \A i \in 1..Len(bs) : bs[i] \in Byte /\ bs[i] \in Int
      /\ b \in Int /\ pos \in Nat
  BY LenProperties, ElementOfSeq DEF Lists, Byte
<1>2. /\ bb \in Seq(Byte) /\ Len(bb) = Len(bs) + 1
      /\ \A i \in 1..Len(bs) + 1 : bb[i] =
            IF i < pos THEN bs[i] ELSE IF i = pos THEN b ELSE bs[i - 1]
  BY <1>1, Inserted
<1>3. /\ cc \in Seq(TinyPtrs) /\ Len(cc) = Len(cs) + 1
      /\ \A i \in 1..Len(cs) + 1 : cc[i] =
            IF i < pos THEN cs[i] ELSE IF i = pos THEN c ELSE cs[i - 1]
  BY <1>1, Inserted
<1>4. /\ \A i, j \in 1..Len(bs) : i < j => bs[i] < bs[j]
      /\ \A i \in 1..Len(bs) : cs[i] = f[bs[i]]
      /\ \A x \in Byte : f[x] # A!null => \E i \in 1..Len(bs) : bs[i] = x
  BY DEF Lists
<1>5. \A x \in Byte : ff[x] = IF x = b THEN c ELSE f[x]
  BY DEF Maps
<1> HIDE DEF bb, cc, ff
<1>6. ASSUME NEW i \in 1..Len(bb), NEW j \in 1..Len(bb), i < j PROVE bb[i] < bb[j]
  <2>1. CASE j < pos
    BY <1>1, <1>2, <1>4, <1>6, <2>1
  <2>2. CASE j = pos
    BY <1>1, <1>2, <1>6, <2>2
  <2>3. CASE i < pos /\ pos < j
    <3>1. i \in 1..Len(bs) /\ j - 1 \in 1..Len(bs) /\ j - 1 >= pos
      BY <1>1, <1>2, <2>3
    <3>2. bs[i] < b /\ b < bs[j - 1]
      BY <2>3, <3>1
    <3>3. bs[i] < bs[j - 1]
      BY <1>1, <3>1, <3>2
    <3>4. bb[i] = bs[i] /\ bb[j] = bs[j - 1]
      BY <1>1, <1>2, <2>3
    <3> QED
      BY <3>3, <3>4
  <2>4. CASE i >= pos
    <3>1. j - 1 \in 1..Len(bs) /\ j - 1 >= pos
      BY <1>1, <1>2, <1>6, <2>4
    <3>2. CASE i = pos
      <4>1. bb[i] = b /\ bb[j] = bs[j - 1]
        BY <1>1, <1>2, <1>6, <3>2
      <4> QED
        BY <3>1, <4>1
    <3>3. CASE i > pos
      <4>1. i - 1 \in 1..Len(bs) /\ i - 1 < j - 1
        BY <1>1, <1>2, <1>6, <3>3
      <4>2. bb[i] = bs[i - 1] /\ bb[j] = bs[j - 1]
        BY <1>1, <1>2, <1>6, <3>3
      <4> QED
        BY <1>4, <3>1, <4>1, <4>2
    <3> QED
      BY <1>1, <2>4, <3>2, <3>3
  <2> QED
    BY <1>1, <1>2, <2>1, <2>2, <2>3, <2>4
<1>7. ASSUME NEW i \in 1..Len(bb) PROVE cc[i] = ff[bb[i]]
  <2>1. CASE i < pos
    <3>1. i \in 1..Len(bs) /\ bb[i] = bs[i] /\ cc[i] = cs[i]
      BY <1>1, <1>2, <1>3, <2>1
    <3>2. bs[i] # b
      BY <1>1, <2>1, <3>1 DEF Byte
    <3> QED
      BY <1>1, <1>4, <1>5, <3>1, <3>2
  <2>2. CASE i = pos
    BY <1>1, <1>2, <1>3, <1>5, <2>2
  <2>3. CASE i > pos
    <3>1. i - 1 \in 1..Len(bs) /\ i - 1 >= pos
      BY <1>1, <1>2, <2>3
    <3>2. i \in 1..Len(bs) + 1 /\ i \in 1..Len(cs) + 1 /\ ~(i < pos) /\ i # pos
      BY <1>1, <1>2, <2>3
    <3>3. bb[i] = bs[i - 1] /\ cc[i] = cs[i - 1]
      BY <1>2, <1>3, <3>2
    <3>4. bs[i - 1] # b
      BY <1>1, <3>1
    <3> QED
      BY <1>1, <1>4, <1>5, <3>1, <3>3, <3>4
  <2> QED
    BY <1>1, <1>2, <2>1, <2>2, <2>3
<1>8. ASSUME NEW x \in Byte, ff[x] # A!null PROVE \E i \in 1..Len(bb) : bb[i] = x
  <2>1. CASE x = b
    BY <1>1, <1>2, <2>1
  <2>2. CASE x # b
    <3>1. PICK i \in 1..Len(bs) : bs[i] = x
      BY <1>4, <1>5, <1>8, <2>2
    <3>2. CASE i < pos
      <4>1. i \in 1..Len(bb) /\ i \in 1..Len(bs) + 1
        BY <1>1, <1>2
      <4>2. bb[i] = bs[i]
        BY <1>2, <3>2, <4>1
      <4> QED
        BY <3>1, <4>1, <4>2
    <3>3. CASE i >= pos
      <4>1. i + 1 \in 1..Len(bb) /\ i + 1 > pos /\ (i + 1) - 1 = i
        BY <1>1, <1>2, <3>3
      <4>2. bb[i + 1] = bs[i]
        BY <1>1, <1>2, <4>1
      <4> QED
        BY <3>1, <4>1, <4>2
    <3> QED
      BY <1>1, <3>2, <3>3
  <2> QED
    BY <2>1, <2>2
<1>9. Lists(bb, cc, ff)
  BY <1>1, <1>2, <1>3, <1>6, <1>7, <1>8 DEF Lists
<1> QED
  BY <1>2, <1>9 DEF bb, cc, ff

\* So does a byte taken out.
LEMMA ListsRemove ==
  ASSUME Base \in Nat, NEW f \in Maps, NEW bs, NEW cs, Lists(bs, cs, f), NEW pos \in 1..Len(bs)
  PROVE  /\ Lists(RemoveAt(bs, pos), RemoveAt(cs, pos), [f EXCEPT ![bs[pos]] = A!null])
         /\ Len(RemoveAt(bs, pos)) = Len(bs) - 1
<1> DEFINE bb == RemoveAt(bs, pos)
           cc == RemoveAt(cs, pos)
           ff == [f EXCEPT ![bs[pos]] = A!null]
<1>1. /\ bs \in Seq(Byte) /\ cs \in Seq(TinyPtrs) /\ Len(cs) = Len(bs) /\ Len(bs) \in Nat
      /\ \A i \in 1..Len(bs) : bs[i] \in Byte /\ bs[i] \in Int
  BY LenProperties, ElementOfSeq DEF Lists, Byte
<1>2. /\ bb \in Seq(Byte) /\ Len(bb) = Len(bs) - 1
      /\ \A i \in 1..Len(bs) - 1 : bb[i] = IF i < pos THEN bs[i] ELSE bs[i + 1]
  BY <1>1, Removed
<1>3. /\ cc \in Seq(TinyPtrs) /\ Len(cc) = Len(cs) - 1
      /\ \A i \in 1..Len(cs) - 1 : cc[i] = IF i < pos THEN cs[i] ELSE cs[i + 1]
  BY <1>1, Removed
<1>4. /\ \A i, j \in 1..Len(bs) : i < j => bs[i] < bs[j]
      /\ \A i \in 1..Len(bs) : cs[i] = f[bs[i]]
      /\ \A x \in Byte : f[x] # A!null => \E i \in 1..Len(bs) : bs[i] = x
  BY DEF Lists
<1>5. \A x \in Byte : ff[x] = IF x = bs[pos] THEN A!null ELSE f[x]
  BY <1>1 DEF Maps
<1> HIDE DEF bb, cc, ff
<1>6. ASSUME NEW i \in 1..Len(bb)
      PROVE  \E k \in 1..Len(bs) : /\ k = IF i < pos THEN i ELSE i + 1
                                   /\ k # pos /\ bb[i] = bs[k] /\ cc[i] = cs[k]
  <2>1. i \in 1..Len(bs) - 1 /\ i \in 1..Len(cs) - 1
    BY <1>1, <1>2
  <2>2. CASE i < pos
    <3>1. bb[i] = bs[i] /\ cc[i] = cs[i]
      BY <1>2, <1>3, <2>1, <2>2
    <3>2. i \in 1..Len(bs) /\ i # pos
      BY <1>1, <2>1, <2>2
    <3> QED
      BY <2>2, <3>1, <3>2
  <2>3. CASE ~(i < pos)
    <3>1. bb[i] = bs[i + 1] /\ cc[i] = cs[i + 1] /\ i + 1 \in 1..Len(bs) /\ i + 1 # pos
      BY <1>1, <1>2, <1>3, <2>1, <2>3
    <3> QED
      BY <2>3, <3>1
  <2> QED
    BY <2>2, <2>3
<1>7. ASSUME NEW i \in 1..Len(bb), NEW j \in 1..Len(bb), i < j PROVE bb[i] < bb[j]
  <2>1. PICK k \in 1..Len(bs) : k = (IF i < pos THEN i ELSE i + 1) /\ bb[i] = bs[k]
    BY <1>6
  <2>2. PICK l \in 1..Len(bs) : l = (IF j < pos THEN j ELSE j + 1) /\ bb[j] = bs[l]
    BY <1>6
  <2>3. k < l
    BY <1>1, <1>2, <1>7, <2>1, <2>2
  <2> QED
    BY <1>4, <2>1, <2>2, <2>3
<1>8. ASSUME NEW i \in 1..Len(bb) PROVE cc[i] = ff[bb[i]]
  <2>1. PICK k \in 1..Len(bs) : k # pos /\ bb[i] = bs[k] /\ cc[i] = cs[k]
    BY <1>6
  <2>2. k < pos \/ pos < k
    BY <1>1, <2>1
  <2>3. bs[k] # bs[pos]
    BY <1>1, <1>4, <2>2
  <2> QED
    BY <1>1, <1>4, <1>5, <2>1, <2>3
<1>9. ASSUME NEW x \in Byte, ff[x] # A!null PROVE \E i \in 1..Len(bb) : bb[i] = x
  <2>1. x # bs[pos] /\ f[x] # A!null
    BY <1>5, <1>9
  <2>2. PICK k \in 1..Len(bs) : bs[k] = x
    BY <1>4, <2>1
  <2>3. CASE k < pos
    BY <1>1, <1>2, <2>2, <2>3
  <2>4. CASE k > pos
    <3>1. k - 1 \in 1..Len(bb) /\ ~(k - 1 < pos) /\ (k - 1) + 1 = k
      BY <1>1, <1>2, <2>4
    <3>2. bb[k - 1] = bs[k]
      BY <1>1, <1>2, <3>1
    <3> QED
      BY <2>2, <3>1, <3>2
  <2> QED
    BY <1>1, <2>1, <2>2, <2>3, <2>4
<1>10. Lists(bb, cc, ff)
  BY <1>1, <1>2, <1>3, <1>7, <1>8, <1>9 DEF Lists
<1> QED
  BY <1>2, <1>10 DEF bb, cc, ff

\* So does a child put in the place of another.
LEMMA ListsChange ==
  ASSUME NEW f \in Maps, NEW bs, NEW cs, Lists(bs, cs, f), NEW pos \in 1..Len(bs),
         NEW c \in TinyPtrs, A!null \notin TinyPtrs
  PROVE  Lists(bs, [cs EXCEPT ![pos] = c], [f EXCEPT ![bs[pos]] = c])
<1> DEFINE cc == [cs EXCEPT ![pos] = c]
           ff == [f EXCEPT ![bs[pos]] = c]
<1>1. /\ bs \in Seq(Byte) /\ cs \in Seq(TinyPtrs) /\ Len(cs) = Len(bs) /\ Len(bs) \in Nat
      /\ \A i \in 1..Len(bs) : bs[i] \in Byte
  BY LenProperties, ElementOfSeq DEF Lists
<1>2. /\ \A i, j \in 1..Len(bs) : i < j => bs[i] < bs[j]
      /\ \A i \in 1..Len(bs) : cs[i] = f[bs[i]]
      /\ \A x \in Byte : f[x] # A!null => \E i \in 1..Len(bs) : bs[i] = x
  BY DEF Lists
<1>3. /\ cc \in Seq(TinyPtrs) /\ Len(cc) = Len(cs)
      /\ \A i \in 1..Len(cs) : cc[i] = IF i = pos THEN c ELSE cs[i]
  BY <1>1, ExceptSeq
<1>4. \A x \in Byte : ff[x] = IF x = bs[pos] THEN c ELSE f[x]
  BY <1>1 DEF Maps
<1> HIDE DEF cc, ff
<1>5. ASSUME NEW i \in 1..Len(bs) PROVE cc[i] = ff[bs[i]]
  <2>1. CASE i = pos
    BY <1>1, <1>3, <1>4, <2>1
  <2>2. CASE i # pos
    <3>1. i < pos \/ pos < i
      BY <1>1, <2>2
    <3>2. bs[i] < bs[pos] \/ bs[pos] < bs[i]
      BY <1>2, <3>1
    <3>3. bs[i] # bs[pos]
      BY <1>1, <3>2 DEF Byte
    <3> QED
      BY <1>1, <1>2, <1>3, <1>4, <2>2, <3>3
  <2> QED
    BY <2>1, <2>2
<1>6. \A x \in Byte : ff[x] # A!null => \E i \in 1..Len(bs) : bs[i] = x
  BY <1>2, <1>4
<1>7. Lists(bs, cc, ff)
  BY <1>1, <1>2, <1>3, <1>5, <1>6 DEF Lists
<1> QED
  BY <1>7 DEF cc, ff

(* Bytes are listed once, and those that are listed are there.             *)
LEMMA ListsBasics ==
  ASSUME NEW f \in Maps, NEW bs, NEW cs, Lists(bs, cs, f), A!null \notin TinyPtrs
  PROVE  /\ Len(bs) \in Nat /\ DOMAIN bs = 1..Len(bs) /\ DOMAIN cs = 1..Len(bs)
         /\ \A i \in 1..Len(bs) : /\ bs[i] \in PresentIn(f) /\ bs[i] \in Byte /\ bs[i] \in Nat
                                  /\ cs[i] = f[bs[i]] /\ cs[i] \in TinyPtrs
         /\ \A i, j \in 1..Len(bs) : bs[i] = bs[j] => i = j
         /\ \A i, j \in 1..Len(bs) : bs[i] < bs[j] <=> i < j
         /\ \A b \in PresentIn(f) : \E i \in 1..Len(bs) : bs[i] = b
<1>1. /\ bs \in Seq(Byte) /\ cs \in Seq(TinyPtrs) /\ Len(cs) = Len(bs) /\ Len(bs) \in Nat
      /\ DOMAIN bs = 1..Len(bs) /\ DOMAIN cs = 1..Len(bs)
      /\ \A i \in 1..Len(bs) : bs[i] \in Byte /\ cs[i] \in TinyPtrs
  BY LenProperties, ElementOfSeq DEF Lists
<1>2. \A i \in 1..Len(bs) : bs[i] \in Nat
  BY <1>1 DEF Byte
<1>3. \A i \in 1..Len(bs) : bs[i] \in PresentIn(f) /\ cs[i] = f[bs[i]]
  BY <1>1 DEF PresentIn, Lists
<1>4. \A i, j \in 1..Len(bs) : i < j => bs[i] < bs[j]
  BY DEF Lists
<1>5. ASSUME NEW i \in 1..Len(bs), NEW j \in 1..Len(bs)
      PROVE  (bs[i] = bs[j] => i = j) /\ (bs[i] < bs[j] <=> i < j)
  <2>1. i < j \/ i = j \/ j < i
    BY <1>1
  <2>2. /\ bs[i] \in Nat /\ bs[j] \in Nat /\ i \in Nat /\ j \in Nat
        /\ i < j => bs[i] < bs[j]
        /\ j < i => bs[j] < bs[i]
    BY <1>1, <1>2, <1>4
  <2> QED
    BY <2>1, <2>2
<1>6. \A b \in PresentIn(f) : \E i \in 1..Len(bs) : bs[i] = b
  BY DEF PresentIn, Lists
<1> QED
  BY <1>1, <1>2, <1>3, <1>5, <1>6

\* The arrays are as long as there are children.
LEMMA ListsCount ==
  ASSUME NEW f \in Maps, NEW bs, NEW cs, Lists(bs, cs, f), A!null \notin TinyPtrs
  PROVE  IsFiniteSet(PresentIn(f)) /\ Cardinality(PresentIn(f)) = Len(bs)
<1>1. /\ Len(bs) \in Nat /\ DOMAIN bs = 1..Len(bs)
      /\ \A i \in 1..Len(bs) : bs[i] \in PresentIn(f)
      /\ \A i, j \in 1..Len(bs) : bs[i] = bs[j] => i = j
      /\ \A b \in PresentIn(f) : \E i \in 1..Len(bs) : bs[i] = b
  BY ListsBasics
<1>2. IsFiniteSet(1..Len(bs)) /\ Cardinality(1..Len(bs)) = Len(bs)
  <2>1. IsFiniteSet(1..Len(bs)) /\ Cardinality(1..Len(bs)) = IF 1 > Len(bs) THEN 0 ELSE Len(bs) - 1 + 1
    BY <1>1, FS_Interval
  <2> QED
    BY <1>1, <2>1
<1> DEFINE h == [i \in 1..Len(bs) |-> bs[i]]
<1>3. h \in Bijection(1..Len(bs), PresentIn(f))
  BY <1>1 DEF Bijection, Injection, Surjection, IsInjective
<1>4. ExistsBijection(1..Len(bs), PresentIn(f))
  BY <1>3 DEF ExistsBijection
<1> QED
  BY <1>2, <1>4, FS_Bijection

(* The first bytes of a list, and the map they make.                       *)
PartOf(f, bs, k) == [b \in Byte |-> IF \E i \in 1..k : bs[i] = b THEN f[b] ELSE A!null]
Nothing == [b \in Byte |-> A!null]

\* The first k of a list are the list of a part of the map, which grows by one child.
LEMMA ListsPart ==
  ASSUME NEW f \in Maps, NEW bs, NEW cs, Lists(bs, cs, f), A!null \notin TinyPtrs
  PROVE  /\ PartOf(f, bs, 0) = Nothing /\ PartOf(f, bs, Len(bs)) = f
         /\ \A k \in 0..Len(bs) :
              /\ PartOf(f, bs, k) \in Maps
              /\ IsFiniteSet(PresentIn(PartOf(f, bs, k)))
              /\ Cardinality(PresentIn(PartOf(f, bs, k))) = k
         /\ \A k \in 0..Len(bs) - 1 :
              /\ PartOf(f, bs, k)[bs[k + 1]] = A!null
              /\ PartOf(f, bs, k + 1) = [PartOf(f, bs, k) EXCEPT ![bs[k + 1]] = cs[k + 1]]
<1>1. /\ Len(bs) \in Nat /\ DOMAIN bs = 1..Len(bs) /\ DOMAIN cs = 1..Len(bs)
      /\ \A i \in 1..Len(bs) : /\ bs[i] \in PresentIn(f) /\ bs[i] \in Byte /\ bs[i] \in Nat
                               /\ cs[i] = f[bs[i]] /\ cs[i] \in TinyPtrs
      /\ \A i, j \in 1..Len(bs) : bs[i] = bs[j] => i = j
      /\ \A i, j \in 1..Len(bs) : bs[i] < bs[j] <=> i < j
      /\ \A b \in PresentIn(f) : \E i \in 1..Len(bs) : bs[i] = b
  BY ListsBasics
<1>2. PartOf(f, bs, 0) = Nothing
  <2>1. ~ \E i \in 1..0 : TRUE
    OBVIOUS
  <2> QED
    BY <2>1 DEF PartOf, Nothing
<1>3. PartOf(f, bs, Len(bs)) = f
  <2>1. \A b \in Byte : PartOf(f, bs, Len(bs))[b] = f[b]
    BY <1>1 DEF PartOf, PresentIn
  <2>2. f = [b \in Byte |-> f[b]] /\ PartOf(f, bs, Len(bs)) = [b \in Byte |-> PartOf(f, bs, Len(bs))[b]]
    BY DEF Maps, PartOf
  <2> QED
    BY <2>1, <2>2
<1>4. ASSUME NEW k \in 0..Len(bs)
      PROVE  /\ PartOf(f, bs, k) \in Maps
             /\ IsFiniteSet(PresentIn(PartOf(f, bs, k)))
             /\ Cardinality(PresentIn(PartOf(f, bs, k))) = k
  <2>1. PartOf(f, bs, k) \in Maps
    BY DEF Maps, PartOf
  <2>2. 1..k \subseteq 1..Len(bs) /\ k \in Nat
    BY <1>1
  <2>3. PresentIn(PartOf(f, bs, k)) = {bs[i] : i \in 1..k}
    BY <1>1, <2>2 DEF PresentIn, PartOf
  <2>4. IsFiniteSet(1..k) /\ Cardinality(1..k) = k
    <3>1. IsFiniteSet(1..k) /\ Cardinality(1..k) = IF 1 > k THEN 0 ELSE k - 1 + 1
      BY <2>2, FS_Interval
    <3> QED
      BY <2>2, <3>1
  <2> DEFINE h == [i \in 1..k |-> bs[i]]
             T == {bs[i] : i \in 1..k}
  <2>5. h \in Bijection(1..k, T)
    BY <1>1, <2>2 DEF Bijection, Injection, Surjection, IsInjective
  <2>6. ExistsBijection(1..k, T)
    BY <2>5 DEF ExistsBijection
  <2>7. IsFiniteSet(T) /\ Cardinality(T) = Cardinality(1..k)
    BY <2>4, <2>6, FS_Bijection
  <2> QED
    BY <2>1, <2>3, <2>4, <2>7
<1>5. ASSUME NEW k \in 0..Len(bs) - 1
      PROVE  /\ PartOf(f, bs, k)[bs[k + 1]] = A!null
             /\ PartOf(f, bs, k + 1) = [PartOf(f, bs, k) EXCEPT ![bs[k + 1]] = cs[k + 1]]
  <2>1. k + 1 \in 1..Len(bs) /\ 1..k \subseteq 1..Len(bs) /\ k \in Nat /\ k + 1 \notin 1..k
    BY <1>1
  <2>2. \A i \in 1..k : bs[i] # bs[k + 1]
    BY <1>1, <2>1
  <2>3. PartOf(f, bs, k)[bs[k + 1]] = A!null
    BY <1>1, <2>1, <2>2 DEF PartOf
  <2>4. 1..k + 1 = 1..k \cup {k + 1}
    BY <2>1
  <2>5. \A b \in Byte : (\E i \in 1..k + 1 : bs[i] = b) <=> (b = bs[k + 1] \/ \E i \in 1..k : bs[i] = b)
    BY <2>4
  <2>6. \A b \in Byte : PartOf(f, bs, k + 1)[b] = IF b = bs[k + 1] THEN cs[k + 1] ELSE PartOf(f, bs, k)[b]
    BY <1>1, <2>1, <2>5 DEF PartOf
  <2> QED
    BY <2>3, <2>6 DEF PartOf
<1> QED
  BY <1>2, <1>3, <1>4, <1>5

-----------------------------------------------------------------------------
(* What the sizes say, and remainders.                                     *)
BytesFit == Base \in Nat \ {0} /\ A!null \notin TinyPtrs
BytesHalve == BytesFit /\ Base = 2 * (Base \div 2)

\* A byte has a highest bit.
LEMMA Half ==
  ASSUME BytesHalve
  PROVE  \E half \in Nat : half > 0 /\ half = Base \div 2 /\ Base = half + half
<1>1. PICK half : half = Base \div 2
  OBVIOUS
<1>2. half \in Int /\ Base = 2 * half /\ Base > 0
  BY <1>1 DEF BytesHalve, BytesFit
<1>3. half \in Nat /\ half > 0 /\ Base = half + half
  BY <1>2
<1> QED
  BY <1>1, <1>3

\* Remainders next to the range.
LEMMA Remainder ==
  ASSUME NEW a \in Int, NEW d \in Nat, d > 0
  PROVE  /\ 0 <= a /\ a < d => a % d = a
         /\ d <= a /\ a < d + d => a % d = a - d
         /\ a = -1 => a % d = d - 1
<1> DEFINE q == a \div d
           r == a % d
<1>1. q \in Int /\ r \in 0..d - 1 /\ a = d * q + r
  OBVIOUS
<1> HIDE DEF q, r
<1>2. q >= 1 => d * q >= d
  BY <1>1
<1>3. q >= 2 => d * q >= d + d
  <2>1. q >= 2 => d * q >= d * 2
    BY <1>1
  <2> QED
    BY <2>1
<1>4. q <= -1 => d * q <= -d
  BY <1>1
<1>5. q <= -2 => d * q <= -(d + d)
  <2>1. q <= -2 => d * q <= d * (-2)
    BY <1>1
  <2> QED
    BY <2>1
<1>6. (q = 0 => d * q = 0) /\ (q = 1 => d * q = d) /\ (q = -1 => d * q = -d)
  BY <1>1
<1>7. d * q \in Int
  BY <1>1
<1>8. 0 <= a /\ a < d => q = 0
  BY <1>1, <1>2, <1>4, <1>7
<1>9. d <= a /\ a < d + d => q = 1
  BY <1>1, <1>3, <1>4, <1>6, <1>7
<1>10. a = -1 => q = -1
  BY <1>1, <1>2, <1>5, <1>6, <1>7
<1>11. /\ 0 <= a /\ a < d => r = a
       /\ d <= a /\ a < d + d => r = a - d
       /\ a = -1 => r = d - 1
  BY <1>1, <1>6, <1>7, <1>8, <1>9, <1>10
<1> QED
  BY <1>11 DEF r

(* Flipping the highest bit and reading the byte as signed moves every     *)
(* byte down by half of their number.                                      *)
LEMMA Flipped ==
  ASSUME BytesHalve, NEW b \in Byte
  PROVE  /\ A!K16!flipSign(b) \in Byte
         /\ A!K16!flipSign(A!K16!flipSign(b)) = b
         /\ A!K16!Signed(A!K16!flipSign(b)) = b - (Base \div 2)
<1>1. PICK half \in Nat : half > 0 /\ half = Base \div 2 /\ Base = half + half
  BY Half
<1>2. b \in Nat /\ b < half + half /\ half + half \in Nat /\ half + half > 0
  BY <1>1 DEF Byte
<1>3. \A x : A!K16!flipSign(x) = (x + half) % (half + half)
  BY <1>1 DEF A!K16!flipSign
<1>4. CASE b < half
  <2>1. (b + half) % (half + half) = b + half
    BY <1>2, <1>4, Remainder
  <2>2. (b + half + half) % (half + half) = b
    <3>1. half + half <= b + half + half /\ b + half + half < (half + half) + (half + half)
      BY <1>2
    <3>2. (b + half + half) % (half + half) = (b + half + half) - (half + half)
      BY <1>2, <3>1, Remainder
    <3> QED
      BY <1>2, <3>2
  <2>3. A!K16!flipSign(b) = b + half /\ A!K16!flipSign(b + half) = b
    BY <1>3, <2>1, <2>2
  <2> QED
    BY <1>1, <1>2, <1>4, <2>3 DEF Byte, A!K16!Signed
<1>5. CASE b >= half
  <2>1. (b + half) % (half + half) = b - half
    <3>1. half + half <= b + half /\ b + half < (half + half) + (half + half)
      BY <1>2, <1>5
    <3>2. (b + half) % (half + half) = (b + half) - (half + half)
      BY <1>2, <3>1, Remainder
    <3> QED
      BY <1>2, <3>2
  <2>2. (b - half + half) % (half + half) = b
    <3>1. b - half + half = b
      BY <1>2
    <3> QED
      BY <1>2, <3>1, Remainder
  <2>3. A!K16!flipSign(b) = b - half /\ A!K16!flipSign(b - half) = b
    BY <1>3, <2>1, <2>2
  <2> QED
    BY <1>1, <1>2, <1>5, <2>3 DEF Byte, A!K16!Signed
<1> QED
  BY <1>2, <1>4, <1>5

-----------------------------------------------------------------------------
(* Where a byte is put that is not there yet.                              *)
PosOf(bs, b) == Min({i \in 1..Len(bs) : b < bs[i]} \cup {Len(bs) + 1})

\* The position of an insertion is where the byte belongs.
LEMMA PosOfIs ==
  ASSUME NEW f \in Maps, NEW bs, NEW cs, Lists(bs, cs, f), A!null \notin TinyPtrs,
         NEW b \in Byte, f[b] = A!null
  PROVE  /\ PosOf(bs, b) \in 1..Len(bs) + 1
         /\ \A i \in 1..Len(bs) : i < PosOf(bs, b) => bs[i] < b
         /\ \A i \in 1..Len(bs) : i >= PosOf(bs, b) => b < bs[i]
         /\ \A i \in 1..Len(bs) : bs[i] # b
<1>1. /\ Len(bs) \in Nat /\ \A i \in 1..Len(bs) : bs[i] \in PresentIn(f) /\ bs[i] \in Nat
      /\ \A i, j \in 1..Len(bs) : bs[i] < bs[j] <=> i < j
  BY ListsBasics
<1>2. b \in Nat /\ \A i \in 1..Len(bs) : bs[i] # b
  BY <1>1 DEF PresentIn, Byte
<1> DEFINE S == {i \in 1..Len(bs) : b < bs[i]} \cup {Len(bs) + 1}
           pos == PosOf(bs, b)
<1>3. S \in SUBSET Nat /\ S # {}
  BY <1>1
<1>4. pos \in S /\ \A i \in S : pos <= i
  BY <1>3, MinOf DEF PosOf
<1> HIDE DEF pos
<1>5. pos \in 1..Len(bs) + 1
  BY <1>1, <1>4
<1>6. ASSUME NEW i \in 1..Len(bs), i < pos PROVE bs[i] < b
  <2>1. i \notin S
    BY <1>1, <1>4, <1>5, <1>6
  <2> QED
    BY <1>1, <1>2, <2>1
<1>7. ASSUME NEW i \in 1..Len(bs), i >= pos PROVE b < bs[i]
  <2>1. pos \in 1..Len(bs) /\ b < bs[pos]
    BY <1>1, <1>4, <1>5, <1>7
  <2>2. i = pos \/ bs[pos] < bs[i]
    BY <1>1, <1>5, <1>7, <2>1
  <2> QED
    BY <1>1, <1>2, <2>1, <2>2
<1> QED
  BY <1>2, <1>5, <1>6, <1>7 DEF pos

-----------------------------------------------------------------------------
(* What a node of each class looks like that holds a map.                  *)
N4Of(bs, cs) ==
  [type |-> "N4", count |-> Len(bs), keys |-> bs, children |-> cs, overrun |-> FALSE]

FlippedAll(bs) == [i \in 1..Len(bs) |-> A!K16!flipSign(bs[i])]

ArrayOf(type, bs, cs) ==
  [type |-> type, count |-> Len(bs), keys |-> FlippedAll(bs), children |-> cs,
   overrun |-> FALSE]

N256Of(f) ==
  [type |-> "N256", count |-> Cardinality(PresentIn(f)) % Base, children |-> f,
   overrun |-> FALSE]

Is4(m, f) == \E bs, cs : Lists(bs, cs, f) /\ Len(bs) <= Full4 /\ m = N4Of(bs, cs)
IsArray(type, full, m, f) ==
  \E bs, cs : Lists(bs, cs, f) /\ Len(bs) <= full /\ m = ArrayOf(type, bs, cs)
Is256(m, f) == m = N256Of(f)

\* N4.cpp insert.
LEMMA InsertIn4 ==
  ASSUME BytesFit, Full4 \in Nat, NEW f \in Maps, NEW bs, NEW cs, Lists(bs, cs, f), Len(bs) < Full4,
         NEW b \in Byte, f[b] = A!null, NEW c \in TinyPtrs
  PROVE  Is4(A!K4!insert(N4Of(bs, cs), b, c), [f EXCEPT ![b] = c])
<1> DEFINE pos == PosOf(bs, b)
           m == N4Of(bs, cs)
<1>1. A!null \notin TinyPtrs /\ Base \in Nat /\ Full4 \in Nat
  BY DEF BytesFit
<1>2. Len(bs) \in Nat /\ \A i \in 1..Len(bs) : bs[i] \in Nat
  BY <1>1, ListsBasics
<1>3. /\ pos \in 1..Len(bs) + 1
      /\ \A i \in 1..Len(bs) : i < pos => bs[i] < b
      /\ \A i \in 1..Len(bs) : i >= pos => b < bs[i]
      /\ \A i \in 1..Len(bs) : bs[i] # b
  BY <1>1, PosOfIs
<1>4. /\ Lists(InsertAt(bs, pos, b), InsertAt(cs, pos, c), [f EXCEPT ![b] = c])
      /\ Len(InsertAt(bs, pos, b)) = Len(bs) + 1
  BY <1>1, <1>3, ListsInsert
<1>5. A!K4!Min({i \in 1..m.count : m.keys[i] >= b} \cup {m.count + 1}) = pos
  <2>1. m.count = Len(bs) /\ m.keys = bs /\ b \in Nat
    BY DEF N4Of, Byte
  <2>2. {i \in 1..Len(bs) : bs[i] >= b} = {i \in 1..Len(bs) : b < bs[i]}
    BY <1>2, <1>3, <2>1
  <2> QED
    BY <2>1, <2>2 DEF PosOf, A!K4!Min, Min
<1>6. A!K4!insert(m, b, c) = N4Of(InsertAt(bs, pos, b), InsertAt(cs, pos, c))
  <2>1. A!K4!insert(m, b, c) =
          [m EXCEPT !.keys = InsertAt(bs, pos, b), !.children = InsertAt(cs, pos, c),
                    !.count = Len(bs) + 1, !.overrun = FALSE \/ A!K4!isFull(m)]
    BY <1>5 DEF A!K4!insert, A!K4!InsertAt, InsertAt, N4Of
  <2>2. ~A!K4!isFull(m)
    BY <1>1, <1>2 DEF A!K4!isFull, N4Of
  <2>3. (FALSE \/ A!K4!isFull(m)) = FALSE
    BY <2>2
  <2> QED
    BY <1>4, <2>1, <2>3 DEF N4Of
<1>7. Len(InsertAt(bs, pos, b)) <= Full4
  BY <1>1, <1>2, <1>4
<1> QED
  BY <1>4, <1>6, <1>7 DEF Is4

(* The classes with flipped bytes insert in the same way.                  *)
ArrayInsert(full, m, b, c) ==
  LET pos == A!K16!InsertPos(m, A!K16!flipSign(b))
  IN  [m EXCEPT !.keys = InsertAt(@, pos, A!K16!flipSign(b)),
                !.children = InsertAt(@, pos, c),
                !.count = @ + 1, !.overrun = @ \/ m.count = full]

\* The stored bytes, one by one.
LEMMA FlippedAllIs ==
  ASSUME BytesHalve, NEW bs \in Seq(Byte)
  PROVE  /\ FlippedAll(bs) \in Seq(Byte) /\ Len(FlippedAll(bs)) = Len(bs)
         /\ \A i \in 1..Len(bs) : FlippedAll(bs)[i] = A!K16!flipSign(bs[i])
<1>1. Len(bs) \in Nat /\ \A i \in 1..Len(bs) : bs[i] \in Byte
  BY LenProperties, ElementOfSeq
<1>2. \A i \in 1..Len(bs) : A!K16!flipSign(bs[i]) \in Byte
  BY <1>1, Flipped
<1>3. FlippedAll(bs) \in [1..Len(bs) -> Byte]
  BY <1>2 DEF FlippedAll
<1>4. FlippedAll(bs) \in Seq(Byte)
  BY <1>1, <1>3
<1>5. Len(FlippedAll(bs)) = Len(bs)
  BY <1>1, <1>4, LenProperties DEF FlippedAll
<1> QED
  BY <1>4, <1>5 DEF FlippedAll

\* Flipping the bit and inserting commute.
LEMMA FlippedInsert ==
  ASSUME BytesHalve, NEW bs \in Seq(Byte), NEW b \in Byte, NEW pos \in 1..Len(bs) + 1
  PROVE  InsertAt(FlippedAll(bs), pos, A!K16!flipSign(b)) = FlippedAll(InsertAt(bs, pos, b))
<1>1. /\ FlippedAll(bs) \in Seq(Byte) /\ Len(FlippedAll(bs)) = Len(bs)
      /\ \A i \in 1..Len(bs) : FlippedAll(bs)[i] = A!K16!flipSign(bs[i])
      /\ A!K16!flipSign(b) \in Byte /\ Len(bs) \in Nat /\ pos \in Nat
  BY FlippedAllIs, Flipped, LenProperties
<1> DEFINE s == InsertAt(FlippedAll(bs), pos, A!K16!flipSign(b))
           t == InsertAt(bs, pos, b)
<1>2. /\ s \in Seq(Byte) /\ Len(s) = Len(bs) + 1
      /\ \A i \in 1..Len(bs) + 1 : s[i] =
            IF i < pos THEN FlippedAll(bs)[i] ELSE IF i = pos THEN A!K16!flipSign(b)
                                                   ELSE FlippedAll(bs)[i - 1]
  <2>1. pos \in 1..Len(FlippedAll(bs)) + 1
    BY <1>1
  <2>2. /\ s \in Seq(Byte) /\ Len(s) = Len(FlippedAll(bs)) + 1
        /\ \A i \in 1..Len(FlippedAll(bs)) + 1 : s[i] =
              IF i < pos THEN FlippedAll(bs)[i] ELSE IF i = pos THEN A!K16!flipSign(b)
                                                     ELSE FlippedAll(bs)[i - 1]
    <3>1. PICK u : u = FlippedAll(bs)
      OBVIOUS
    <3>2. PICK e : e = A!K16!flipSign(b)
      OBVIOUS
    <3>3. u \in Seq(Byte) /\ e \in Byte
      BY <1>1, <3>1, <3>2
    <3>4. \A p \in 1..Len(u) + 1 :
             /\ InsertAt(u, p, e) \in Seq(Byte)
             /\ Len(InsertAt(u, p, e)) = Len(u) + 1
             /\ \A i \in 1..Len(u) + 1 : InsertAt(u, p, e)[i] =
                   IF i < p THEN u[i] ELSE IF i = p THEN e ELSE u[i - 1]
      BY ONLY <3>3, InsertedAnywhere
    <3> QED
      BY <2>1, <3>1, <3>2, <3>4
  <2> HIDE DEF s
  <2> QED
    BY <1>1, <2>2
<1>3. /\ t \in Seq(Byte) /\ Len(t) = Len(bs) + 1
      /\ \A i \in 1..Len(bs) + 1 : t[i] =
            IF i < pos THEN bs[i] ELSE IF i = pos THEN b ELSE bs[i - 1]
  BY Inserted
<1>4. /\ FlippedAll(t) \in Seq(Byte) /\ Len(FlippedAll(t)) = Len(t)
      /\ \A i \in 1..Len(t) : FlippedAll(t)[i] = A!K16!flipSign(t[i])
  BY <1>3, FlippedAllIs
<1> HIDE DEF s, t
<1>5. ASSUME NEW i \in 1..Len(s) PROVE s[i] = FlippedAll(t)[i]
  <2>1. CASE i < pos
    <3>1. i \in 1..Len(bs) /\ i \in 1..Len(bs) + 1
      BY <1>1, <1>2, <2>1
    <3> QED
      BY <1>1, <1>2, <1>3, <1>4, <2>1, <3>1
  <2>2. CASE i = pos
    BY <1>1, <1>2, <1>3, <1>4, <2>2
  <2>3. CASE i > pos
    <3>1. i - 1 \in 1..Len(bs) /\ i \in 1..Len(bs) + 1 /\ ~(i < pos) /\ i # pos
      BY <1>1, <1>2, <2>3
    <3>2. s[i] = FlippedAll(bs)[i - 1] /\ t[i] = bs[i - 1]
      BY <1>2, <1>3, <3>1
    <3> QED
      BY <1>1, <1>3, <1>4, <3>1, <3>2
  <2> QED
    BY <1>1, <1>2, <2>1, <2>2, <2>3
<1>6. s = FlippedAll(t)
  BY <1>2, <1>3, <1>4, <1>5, SeqEqual
<1> QED
  BY <1>6 DEF s, t

\* So do flipping the bit and removing.
LEMMA FlippedRemove ==
  ASSUME BytesHalve, NEW bs \in Seq(Byte), NEW pos \in 1..Len(bs)
  PROVE  RemoveAt(FlippedAll(bs), pos) = FlippedAll(RemoveAt(bs, pos))
<1>1. /\ FlippedAll(bs) \in Seq(Byte) /\ Len(FlippedAll(bs)) = Len(bs)
      /\ \A i \in 1..Len(bs) : FlippedAll(bs)[i] = A!K16!flipSign(bs[i])
      /\ Len(bs) \in Nat /\ pos \in Nat
  BY FlippedAllIs, LenProperties
<1> DEFINE s == RemoveAt(FlippedAll(bs), pos)
           t == RemoveAt(bs, pos)
<1>2. /\ s \in Seq(Byte) /\ Len(s) = Len(bs) - 1
      /\ \A i \in 1..Len(bs) - 1 : s[i] =
            IF i < pos THEN FlippedAll(bs)[i] ELSE FlippedAll(bs)[i + 1]
  BY <1>1, Removed
<1>3. /\ t \in Seq(Byte) /\ Len(t) = Len(bs) - 1
      /\ \A i \in 1..Len(bs) - 1 : t[i] = IF i < pos THEN bs[i] ELSE bs[i + 1]
  BY Removed
<1>4. /\ FlippedAll(t) \in Seq(Byte) /\ Len(FlippedAll(t)) = Len(t)
      /\ \A i \in 1..Len(t) : FlippedAll(t)[i] = A!K16!flipSign(t[i])
  BY <1>3, FlippedAllIs
<1> HIDE DEF s, t
<1>5. ASSUME NEW i \in 1..Len(s) PROVE s[i] = FlippedAll(t)[i]
  <2>1. i \in 1..Len(bs) - 1 /\ i \in 1..Len(bs) /\ i + 1 \in 1..Len(bs) /\ i \in 1..Len(t)
    BY <1>1, <1>2, <1>3
  <2>2. CASE i < pos
    BY <1>1, <1>2, <1>3, <1>4, <2>1, <2>2
  <2>3. CASE ~(i < pos)
    BY <1>1, <1>2, <1>3, <1>4, <2>1, <2>3
  <2> QED
    BY <2>2, <2>3
<1>6. s = FlippedAll(t)
  BY <1>2, <1>3, <1>4, <1>5, SeqEqual
<1> QED
  BY <1>6 DEF s, t

\* N16.cpp and N64.cpp insert.
LEMMA InsertInArray ==
  ASSUME BytesHalve, NEW type, NEW full \in Nat, NEW f \in Maps, NEW bs, NEW cs,
         Lists(bs, cs, f), Len(bs) < full, NEW b \in Byte, f[b] = A!null, NEW c \in TinyPtrs
  PROVE  IsArray(type, full, ArrayInsert(full, ArrayOf(type, bs, cs), b, c), [f EXCEPT ![b] = c])
<1> DEFINE pos == PosOf(bs, b)
           m == ArrayOf(type, bs, cs)
<1>1. A!null \notin TinyPtrs /\ Base \in Nat
  BY DEF BytesHalve, BytesFit
<1>2. /\ Len(bs) \in Nat /\ \A i \in 1..Len(bs) : bs[i] \in Nat /\ bs[i] \in Byte
      /\ bs \in Seq(Byte) /\ b \in Nat
  BY <1>1, ListsBasics DEF Lists, Byte
<1>3. /\ pos \in 1..Len(bs) + 1
      /\ \A i \in 1..Len(bs) : i < pos => bs[i] < b
      /\ \A i \in 1..Len(bs) : i >= pos => b < bs[i]
  BY <1>1, PosOfIs
<1>4. /\ Lists(InsertAt(bs, pos, b), InsertAt(cs, pos, c), [f EXCEPT ![b] = c])
      /\ Len(InsertAt(bs, pos, b)) = Len(bs) + 1
  BY <1>1, <1>3, ListsInsert
<1>5. A!K16!InsertPos(m, A!K16!flipSign(b)) = pos
  <2>1. m.count = Len(bs) /\ \A i \in 1..Len(bs) : m.keys[i] = A!K16!flipSign(bs[i])
    BY <1>2 DEF ArrayOf, FlippedAll
  <2>2. \A i \in 1..Len(bs) :
           A!K16!Signed(A!K16!flipSign(b)) < A!K16!Signed(A!K16!flipSign(bs[i])) <=> b < bs[i]
    <3>1. PICK half \in Nat : half = Base \div 2
      BY Half
    <3>2. \A x \in Byte : A!K16!Signed(A!K16!flipSign(x)) = x - half
      BY <3>1, Flipped
    <3> QED
      BY <1>2, <3>1, <3>2
  <2>3. {i \in 1..m.count : A!K16!Signed(A!K16!flipSign(b)) < A!K16!Signed(m.keys[i])}
          = {i \in 1..Len(bs) : b < bs[i]}
    BY <2>1, <2>2
  <2> QED
    BY <2>1, <2>3 DEF PosOf, A!K16!InsertPos, A!K16!Min, Min
<1>6. ArrayInsert(full, m, b, c) = ArrayOf(type, InsertAt(bs, pos, b), InsertAt(cs, pos, c))
  <2>1. ArrayInsert(full, m, b, c) =
          [m EXCEPT !.keys = InsertAt(FlippedAll(bs), pos, A!K16!flipSign(b)),
                    !.children = InsertAt(cs, pos, c),
                    !.count = Len(bs) + 1, !.overrun = FALSE \/ m.count = full]
    BY <1>5 DEF ArrayInsert, ArrayOf
  <2>2. m.count # full
    BY <1>2 DEF ArrayOf
  <2>3. (FALSE \/ m.count = full) = FALSE
    BY <2>2
  <2>4. InsertAt(FlippedAll(bs), pos, A!K16!flipSign(b)) = FlippedAll(InsertAt(bs, pos, b))
    BY <1>2, <1>3, FlippedInsert
  <2> QED
    BY <1>4, <2>1, <2>3, <2>4 DEF ArrayOf
<1>7. Len(InsertAt(bs, pos, b)) <= full
  BY <1>2, <1>4
<1> QED
  BY <1>4, <1>6, <1>7 DEF IsArray

(* A byte in a node with flipped bytes is where it is in the list.         *)
LEMMA PosInArray ==
  ASSUME BytesHalve, NEW type, NEW f \in Maps, NEW bs, NEW cs, Lists(bs, cs, f), NEW b \in Byte
  PROVE  /\ \A i \in 1..Len(bs) : bs[i] = b => A!K16!getChildPos(ArrayOf(type, bs, cs), b) = i
         /\ f[b] = A!null => A!K16!getChildPos(ArrayOf(type, bs, cs), b) = 0
<1> DEFINE m == ArrayOf(type, bs, cs)
           at == {i \in 1..m.count : m.keys[i] = A!K16!flipSign(b)}
<1>1. A!null \notin TinyPtrs
  BY DEF BytesHalve, BytesFit
<1>2. /\ Len(bs) \in Nat /\ bs \in Seq(Byte)
      /\ \A i \in 1..Len(bs) : bs[i] \in Byte /\ bs[i] \in PresentIn(f)
      /\ \A i, j \in 1..Len(bs) : bs[i] = bs[j] => i = j
  BY <1>1, ListsBasics DEF Lists
<1>3. /\ m.count = Len(bs) /\ \A i \in 1..Len(bs) : m.keys[i] = A!K16!flipSign(bs[i])
  BY <1>2 DEF ArrayOf, FlippedAll
<1>4. \A x, y \in Byte : A!K16!flipSign(x) = A!K16!flipSign(y) => x = y
  BY Flipped
<1>5. at = {i \in 1..Len(bs) : bs[i] = b}
  BY <1>2, <1>3, <1>4
<1>6. A!K16!getChildPos(m, b) = IF at = {} THEN 0 ELSE Min(at)
  BY DEF A!K16!getChildPos, A!K16!Min, Min
<1> HIDE DEF m, at
<1>7. ASSUME NEW i \in 1..Len(bs), bs[i] = b PROVE A!K16!getChildPos(m, b) = i
  <2>1. at = {i} /\ i \in Nat
    BY <1>2, <1>5, <1>7
  <2>2. Min(at) = i
    BY <2>1, MinOf
  <2> QED
    BY <1>6, <2>1, <2>2
<1>8. f[b] = A!null => at = {}
  BY <1>2, <1>5 DEF PresentIn
<1>9. f[b] = A!null => A!K16!getChildPos(m, b) = 0
  BY <1>6, <1>8
<1> QED
  BY <1>7, <1>9 DEF m

\* N16.cpp and N64.cpp change.
LEMMA ChangeInArray ==
  ASSUME BytesHalve, NEW type, NEW full \in Nat, NEW f \in Maps, NEW bs, NEW cs,
         Lists(bs, cs, f), Len(bs) <= full, NEW b \in PresentIn(f), NEW c \in TinyPtrs
  PROVE  IsArray(type, full, A!K16!change(ArrayOf(type, bs, cs), b, c), [f EXCEPT ![b] = c])
<1> DEFINE m == ArrayOf(type, bs, cs)
<1>1. A!null \notin TinyPtrs /\ b \in Byte
  BY DEF BytesHalve, BytesFit, PresentIn
<1>2. PICK i \in 1..Len(bs) : bs[i] = b
  BY <1>1, ListsBasics
<1>3. A!K16!getChildPos(m, b) = i
  BY <1>1, <1>2, PosInArray
<1>4. A!K16!change(m, b, c) = ArrayOf(type, bs, [cs EXCEPT ![i] = c])
  <2>1. A!K16!change(m, b, c) = [m EXCEPT !.children[i] = c]
    BY <1>3 DEF A!K16!change
  <2> QED
    BY <2>1 DEF ArrayOf
<1>5. Lists(bs, [cs EXCEPT ![i] = c], [f EXCEPT ![b] = c])
  BY <1>1, <1>2, ListsChange
<1> QED
  BY <1>4, <1>5 DEF IsArray

\* N16.cpp and N64.cpp remove.
LEMMA RemoveInArray ==
  ASSUME BytesHalve, NEW type, NEW full \in Nat, NEW f \in Maps, NEW bs, NEW cs,
         Lists(bs, cs, f), Len(bs) <= full, NEW b \in PresentIn(f)
  PROVE  IsArray(type, full, A!K16!remove(ArrayOf(type, bs, cs), b), [f EXCEPT ![b] = A!null])
<1> DEFINE m == ArrayOf(type, bs, cs)
<1>1. A!null \notin TinyPtrs /\ b \in Byte /\ Base \in Nat /\ bs \in Seq(Byte)
  BY DEF BytesHalve, BytesFit, PresentIn, Lists
<1>2. PICK i \in 1..Len(bs) : bs[i] = b
  BY <1>1, ListsBasics
<1>3. A!K16!getChildPos(m, b) = i
  BY <1>1, <1>2, PosInArray
<1>4. /\ Lists(RemoveAt(bs, i), RemoveAt(cs, i), [f EXCEPT ![b] = A!null])
      /\ Len(RemoveAt(bs, i)) = Len(bs) - 1 /\ Len(bs) \in Nat
  BY <1>1, <1>2, ListsRemove, LenProperties
<1>5. A!K16!remove(m, b) = ArrayOf(type, RemoveAt(bs, i), RemoveAt(cs, i))
  <2>1. RemoveAt(FlippedAll(bs), i) = FlippedAll(RemoveAt(bs, i))
    BY <1>1, <1>2, FlippedRemove
  <2>2. A!K16!remove(m, b) =
          [m EXCEPT !.keys = RemoveAt(FlippedAll(bs), i), !.children = RemoveAt(cs, i),
                    !.count = Len(bs) - 1]
    BY <1>3 DEF A!K16!remove, A!K16!RemoveAt, RemoveAt, ArrayOf
  <2> QED
    BY <1>4, <2>1, <2>2 DEF ArrayOf
<1>6. Len(RemoveAt(bs, i)) <= full
  BY <1>4
<1> QED
  BY <1>4, <1>5, <1>6 DEF IsArray

(* The same in a node whose bytes are as they are.                         *)
LEMMA PosIn4 ==
  ASSUME BytesFit, NEW f \in Maps, NEW bs, NEW cs, Lists(bs, cs, f), NEW b \in Byte
  PROVE  /\ \A i \in 1..Len(bs) :
               bs[i] = b => /\ A!K4!At(N4Of(bs, cs), b) # {} /\ A!K4!Min(A!K4!At(N4Of(bs, cs), b)) = i
         /\ f[b] = A!null => A!K4!At(N4Of(bs, cs), b) = {}
<1> DEFINE m == N4Of(bs, cs)
           at == A!K4!At(m, b)
<1>1. A!null \notin TinyPtrs
  BY DEF BytesFit
<1>2. /\ Len(bs) \in Nat
      /\ \A i \in 1..Len(bs) : bs[i] \in Byte /\ bs[i] \in PresentIn(f)
      /\ \A i, j \in 1..Len(bs) : bs[i] = bs[j] => i = j
  BY <1>1, ListsBasics
<1>3. at = {i \in 1..Len(bs) : bs[i] = b}
  BY DEF N4Of, A!K4!At
<1> HIDE DEF m, at
<1>4. ASSUME NEW i \in 1..Len(bs), bs[i] = b PROVE at # {} /\ A!K4!Min(at) = i
  <2>1. at = {i} /\ i \in Nat
    BY <1>2, <1>3, <1>4
  <2>2. Min(at) = i
    BY <2>1, MinOf
  <2> QED
    BY <2>1, <2>2 DEF A!K4!Min, Min
<1>5. f[b] = A!null => at = {}
  BY <1>2, <1>3 DEF PresentIn
<1> QED
  BY <1>4, <1>5 DEF m, at

\* N4.cpp change.
LEMMA ChangeIn4 ==
  ASSUME BytesFit, NEW f \in Maps, NEW bs, NEW cs, Lists(bs, cs, f), Len(bs) <= Full4,
         NEW b \in PresentIn(f), NEW c \in TinyPtrs
  PROVE  Is4(A!K4!change(N4Of(bs, cs), b, c), [f EXCEPT ![b] = c])
<1>1. A!null \notin TinyPtrs /\ b \in Byte
  BY DEF BytesFit, PresentIn
<1>2. PICK i \in 1..Len(bs) : bs[i] = b
  BY <1>1, ListsBasics
<1>3. A!K4!Min(A!K4!At(N4Of(bs, cs), b)) = i
  BY <1>1, <1>2, PosIn4
<1>4. A!K4!change(N4Of(bs, cs), b, c) = N4Of(bs, [cs EXCEPT ![i] = c])
  <2>1. A!K4!change(N4Of(bs, cs), b, c) = [N4Of(bs, cs) EXCEPT !.children[i] = c]
    BY <1>3 DEF A!K4!change
  <2> QED
    BY <2>1 DEF N4Of
<1>5. Lists(bs, [cs EXCEPT ![i] = c], [f EXCEPT ![b] = c])
  BY <1>1, <1>2, ListsChange
<1> QED
  BY <1>4, <1>5 DEF Is4

\* N4.cpp remove.
LEMMA RemoveIn4 ==
  ASSUME BytesFit, Full4 \in Nat, NEW f \in Maps, NEW bs, NEW cs, Lists(bs, cs, f),
         Len(bs) <= Full4, NEW b \in PresentIn(f)
  PROVE  Is4(A!K4!remove(N4Of(bs, cs), b), [f EXCEPT ![b] = A!null])
<1> DEFINE m == N4Of(bs, cs)
<1>1. A!null \notin TinyPtrs /\ b \in Byte /\ Base \in Nat /\ bs \in Seq(Byte)
  BY DEF BytesFit, PresentIn, Lists
<1>2. PICK i \in 1..Len(bs) : bs[i] = b
  BY <1>1, ListsBasics
<1>3. A!K4!At(m, b) # {} /\ A!K4!Min(A!K4!At(m, b)) = i
  BY <1>1, <1>2, PosIn4
<1>4. /\ Lists(RemoveAt(bs, i), RemoveAt(cs, i), [f EXCEPT ![b] = A!null])
      /\ Len(RemoveAt(bs, i)) = Len(bs) - 1 /\ Len(bs) \in Nat
  BY <1>1, <1>2, ListsRemove, LenProperties
<1>5. A!K4!remove(m, b) = N4Of(RemoveAt(bs, i), RemoveAt(cs, i))
  <2>1. A!K4!remove(m, b) =
          [m EXCEPT !.keys = RemoveAt(bs, i), !.children = RemoveAt(cs, i), !.count = Len(bs) - 1]
    BY <1>3 DEF A!K4!remove, A!K4!RemoveAt, RemoveAt, N4Of
  <2> QED
    BY <1>4, <2>1 DEF N4Of
<1>6. Len(RemoveAt(bs, i)) <= Full4
  BY <1>4
<1> QED
  BY <1>4, <1>5, <1>6 DEF Is4

(* The numbers of children of a node of the largest class.                 *)
LEMMA CountOf ==
  ASSUME BytesFit, NEW f \in Maps
  PROVE  /\ IsFiniteSet(PresentIn(f)) /\ Cardinality(PresentIn(f)) \in Nat
         /\ Cardinality(PresentIn(f)) <= Base
         /\ Cardinality(PresentIn(f)) < Base =>
               Cardinality(PresentIn(f)) % Base = Cardinality(PresentIn(f))
         /\ Cardinality(PresentIn(f)) = Base => Cardinality(PresentIn(f)) % Base = 0
         /\ (\E b \in Byte : f[b] = A!null) => Cardinality(PresentIn(f)) < Base
<1>1. Base \in Nat /\ Base > 0
  BY DEF BytesFit
<1>2. IsFiniteSet(Byte) /\ Cardinality(Byte) = Base
  <2>1. IsFiniteSet(0..Base - 1) /\ Cardinality(0..Base - 1) = IF 0 > Base - 1 THEN 0 ELSE Base - 1 - 0 + 1
    BY <1>1, FS_Interval
  <2> QED
    BY <1>1, <2>1 DEF Byte
<1>3. PresentIn(f) \subseteq Byte
  BY DEF PresentIn
<1>4. /\ IsFiniteSet(PresentIn(f)) /\ Cardinality(PresentIn(f)) <= Base
      /\ Cardinality(PresentIn(f)) = Base => PresentIn(f) = Byte
  BY <1>2, <1>3, FS_Subset
<1>5. Cardinality(PresentIn(f)) \in Nat
  BY <1>4, FS_CardinalityType
<1>6. PICK k \in Nat : k = Cardinality(PresentIn(f)) /\ k <= Base
  BY <1>4, <1>5
<1>7. (k < Base => k % Base = k) /\ (k = Base => k % Base = 0)
  BY <1>1, <1>6, Remainder
<1>8. (\E b \in Byte : f[b] = A!null) => PresentIn(f) # Byte
  BY DEF PresentIn
<1> QED
  BY <1>1, <1>4, <1>6, <1>7, <1>8

\* One child more.
LEMMA CountInserted ==
  ASSUME BytesFit, NEW f \in Maps, NEW b \in Byte, f[b] = A!null, NEW c \in TinyPtrs
  PROVE  /\ [f EXCEPT ![b] = c] \in Maps
         /\ Cardinality(PresentIn([f EXCEPT ![b] = c])) = Cardinality(PresentIn(f)) + 1
<1>1. [f EXCEPT ![b] = c] \in Maps /\ A!null # c
  BY DEF Maps, BytesFit
<1>2. PresentIn([f EXCEPT ![b] = c]) = PresentIn(f) \cup {b} /\ b \notin PresentIn(f)
  BY <1>1 DEF PresentIn, Maps
<1>3. IsFiniteSet(PresentIn(f))
  BY CountOf
<1> QED
  BY <1>1, <1>2, <1>3, FS_AddElement

\* One child less.
LEMMA CountRemoved ==
  ASSUME BytesFit, NEW f \in Maps, NEW b \in PresentIn(f)
  PROVE  /\ [f EXCEPT ![b] = A!null] \in Maps
         /\ Cardinality(PresentIn([f EXCEPT ![b] = A!null])) = Cardinality(PresentIn(f)) - 1
<1>1. [f EXCEPT ![b] = A!null] \in Maps /\ b \in Byte
  BY DEF Maps, PresentIn
<1>2. PresentIn([f EXCEPT ![b] = A!null]) = PresentIn(f) \ {b}
  BY <1>1 DEF PresentIn, Maps
<1>3. IsFiniteSet(PresentIn(f))
  BY CountOf
<1> QED
  BY <1>1, <1>2, <1>3, FS_RemoveElement

\* As many children as before.
LEMMA CountChanged ==
  ASSUME BytesFit, NEW f \in Maps, NEW b \in PresentIn(f), NEW c \in TinyPtrs
  PROVE  /\ [f EXCEPT ![b] = c] \in Maps
         /\ PresentIn([f EXCEPT ![b] = c]) = PresentIn(f)
<1>1. [f EXCEPT ![b] = c] \in Maps /\ b \in Byte /\ A!null # c
  BY DEF Maps, PresentIn, BytesFit
<1> QED
  BY <1>1 DEF PresentIn, Maps

\* N256.cpp insert.
LEMMA InsertIn256 ==
  ASSUME BytesFit, NEW f \in Maps, NEW b \in Byte, f[b] = A!null, NEW c \in TinyPtrs
  PROVE  Is256(A!K256!insert(N256Of(f), b, c), [f EXCEPT ![b] = c])
<1>1. PICK k \in Nat : k = Cardinality(PresentIn(f))
  BY CountOf
<1>2. k < Base /\ k % Base = k
  BY <1>1, CountOf
<1>3. Cardinality(PresentIn([f EXCEPT ![b] = c])) = k + 1
  BY <1>1, CountInserted
<1>4. A!K256!insert(N256Of(f), b, c)
        = [type |-> "N256", count |-> ((k % Base) + 1) % Base, children |-> [f EXCEPT ![b] = c],
           overrun |-> FALSE]
  <2>1. A!K256!insert(N256Of(f), b, c)
          = [N256Of(f) EXCEPT !.children[b] = c, !.count = (@ + 1) % Base]
    BY DEF A!K256!insert
  <2> QED
    BY <1>1, <2>1 DEF N256Of
<1> QED
  BY <1>2, <1>3, <1>4 DEF Is256, N256Of

\* N256.cpp change.
LEMMA ChangeIn256 ==
  ASSUME BytesFit, NEW f \in Maps, NEW b \in PresentIn(f), NEW c \in TinyPtrs
  PROVE  Is256(A!K256!change(N256Of(f), b, c), [f EXCEPT ![b] = c])
<1>1. A!K256!change(N256Of(f), b, c) = [N256Of(f) EXCEPT !.children[b] = c]
  BY DEF A!K256!change
<1>2. PresentIn([f EXCEPT ![b] = c]) = PresentIn(f)
  BY CountChanged
<1> QED
  BY <1>1, <1>2 DEF Is256, N256Of

\* N256.cpp remove: the count wraps from a full table down.
LEMMA RemoveIn256 ==
  ASSUME BytesFit, NEW f \in Maps, NEW b \in PresentIn(f)
  PROVE  Is256(A!K256!remove(N256Of(f), b), [f EXCEPT ![b] = A!null])
<1>1. PICK k \in Nat : k = Cardinality(PresentIn(f))
  BY CountOf
<1>2. /\ k <= Base /\ Base \in Nat /\ Base > 0
      /\ (k < Base => k % Base = k) /\ (k = Base => k % Base = 0)
  BY <1>1, CountOf DEF BytesFit
<1>3. Cardinality(PresentIn([f EXCEPT ![b] = A!null])) = k - 1
  BY <1>1, CountRemoved
<1>4. k - 1 \in Nat
  <2>1. [f EXCEPT ![b] = A!null] \in Maps
    BY CountRemoved
  <2> QED
    BY <1>3, <2>1, CountOf
<1>5. ((k % Base) - 1) % Base = (k - 1) % Base
  <2>1. CASE k < Base
    BY <1>2, <2>1
  <2>2. CASE k = Base
    <3>1. k - 1 >= 0 /\ k - 1 < Base /\ k - 1 \in Int
      BY <1>2, <1>4, <2>2
    <3>2. (k - 1) % Base = k - 1
      BY <1>2, <3>1, Remainder
    <3>3. 0 - 1 = -1 /\ (-1) % Base = Base - 1
      BY <1>2, Remainder
    <3> QED
      BY <1>2, <2>2, <3>2, <3>3
  <2> QED
    BY <1>2, <2>1, <2>2
<1>6. A!K256!remove(N256Of(f), b)
        = [type |-> "N256", count |-> ((k % Base) - 1) % Base, children |-> [f EXCEPT ![b] = A!null],
           overrun |-> FALSE]
  <2>1. A!K256!remove(N256Of(f), b)
          = [N256Of(f) EXCEPT !.children[b] = A!null, !.count = (@ - 1) % Base]
    BY DEF A!K256!remove
  <2> QED
    BY <1>1, <2>1 DEF N256Of
<1> QED
  BY <1>3, <1>5, <1>6 DEF Is256, N256Of

-----------------------------------------------------------------------------
(* The operators of the classes, found by the type of the node; room says  *)
(* how many children the arrays of a copy of the tree have room for.       *)
ClassInsert(room, m, b, c) ==
  CASE m.type = "N4" -> A!K4!insert(m, b, c) [] m.type = "N256" -> A!K256!insert(m, b, c)
    [] OTHER -> ArrayInsert(room[m.type], m, b, c)
ClassChange(m, b, c) ==
  CASE m.type = "N4" -> A!K4!change(m, b, c) [] m.type = "N256" -> A!K256!change(m, b, c)
    [] OTHER -> A!K16!change(m, b, c)
ClassRemove(m, b) ==
  CASE m.type = "N4" -> A!K4!remove(m, b) [] m.type = "N256" -> A!K256!remove(m, b)
    [] OTHER -> A!K16!remove(m, b)
ClassPairs(m) ==
  CASE m.type = "N4" -> A!K4!Pairs(m) [] m.type = "N256" -> A!K256!Pairs(m)
    [] OTHER -> A!K16!Pairs(m)
ClassChild(m, b) ==
  CASE m.type = "N4" -> A!K4!getChild(m, b) [] m.type = "N256" -> A!K256!getChild(m, b)
    [] OTHER -> A!K16!getChild(m, b)
ClassAny(m) ==
  CASE m.type = "N4" -> A!K4!getAnyChild(m) [] m.type = "N256" -> A!K256!getAnyChild(m)
    [] OTHER -> A!K16!getAnyChild(m)
ClassBetween(m, from, to) ==
  CASE m.type = "N4" -> A!K4!getChildren(m, from, to)
    [] m.type = "N256" -> A!K256!getChildren(m, from, to)
    [] OTHER -> A!K16!getChildren(m, from, to)

(* What a copy of the tree has to provide for.                             *)
Fits(room) ==
  /\ BytesFit /\ DOMAIN room \subseteq {"N4", "N16", "N64"}
  /\ DOMAIN room # {} => BytesHalve
  /\ \A type \in DOMAIN room : room[type] \in Nat /\ room[type] < Base
  /\ "N4" \in DOMAIN room => room["N4"] = Full4

Capacity(room, type) == IF type = "N256" THEN Base ELSE room[type]
Arrays(room) == DOMAIN room \ {"N4"}

(* A node of a type that holds a map.                                      *)
HoldsAs(room, type, m, f) ==
  /\ f \in Maps /\ m.type = type
  /\ \/ "N4" \in DOMAIN room /\ type = "N4" /\ Is4(m, f)
     \/ type \in Arrays(room) /\ IsArray(type, room[type], m, f)
     \/ type = "N256" /\ Is256(m, f)

Holds(room, m, f) == HoldsAs(room, m.type, m, f)

\* A node that holds a map is of one of three kinds.
LEMMA Kinds ==
  ASSUME NEW room, NEW type, NEW m, NEW f, HoldsAs(room, type, m, f)
  PROVE  /\ f \in Maps /\ m.type = type /\ Holds(room, m, f)
         /\ ("N4" \in DOMAIN room /\ type = "N4") \/ type \in Arrays(room) \/ type = "N256"
BY DEF HoldsAs, Holds

\* The sorted arrays among the classes.
LEMMA ArrayKinds ==
  ASSUME NEW room, Fits(room), NEW type, type \in Arrays(room)
  PROVE  /\ type # "N4" /\ type # "N256" /\ BytesHalve /\ room[type] \in Nat
         /\ room[type] < Base /\ Capacity(room, type) = room[type]
BY DEF Fits, Arrays, Capacity

\* What it is for an N4 to hold a map.
LEMMA SetOf4 ==
  ASSUME NEW room, Fits(room), "N4" \in DOMAIN room
  PROVE  /\ \A m, f : HoldsAs(room, "N4", m, f) <=> f \in Maps /\ Is4(m, f)
         /\ Full4 \in Nat /\ Full4 < Base /\ Capacity(room, "N4") = Full4
BY DEF HoldsAs, Is4, N4Of, Fits, Arrays, Capacity

\* The same of a sorted array.
LEMMA SetOfArray ==
  ASSUME NEW room, Fits(room), NEW type, type \in Arrays(room)
  PROVE  \A m, f : HoldsAs(room, type, m, f) <=> f \in Maps /\ IsArray(type, room[type], m, f)
BY ArrayKinds DEF HoldsAs, IsArray, ArrayOf

\* The same of a table.
LEMMA SetOf256 ==
  ASSUME NEW room, Fits(room)
  PROVE  /\ \A m, f : HoldsAs(room, "N256", m, f) <=> f \in Maps /\ Is256(m, f)
         /\ Capacity(room, "N256") = Base
BY DEF HoldsAs, Is256, N256Of, Fits, Arrays, Capacity

(* A new node of each class holds nothing.                                 *)
LEMMA CreateHolds ==
  ASSUME NEW room, Fits(room)
  PROVE  /\ "N4" \in DOMAIN room => HoldsAs(room, "N4", N4Of(<<>>, <<>>), Nothing)
         /\ \A type \in Arrays(room) :
               HoldsAs(room, type,
                       [type |-> type, count |-> 0, keys |-> <<>>, children |-> <<>>,
                        overrun |-> FALSE], Nothing)
         /\ HoldsAs(room, "N256", A!K256!Create, Nothing)
<1>1. Base \in Nat \ {0} /\ A!null \notin TinyPtrs /\ BytesFit
  BY DEF Fits, BytesFit
<1>2. Nothing \in Maps /\ PresentIn(Nothing) = {}
  BY DEF Nothing, Maps, PresentIn
<1>3. Lists(<<>>, <<>>, Nothing) /\ Len(<<>>) = 0
  <2>1. <<>> \in Seq(Byte) /\ <<>> \in Seq(TinyPtrs) /\ Len(<<>>) = 0
    OBVIOUS
  <2>2. \A b \in Byte : Nothing[b] = A!null
    BY DEF Nothing
  <2> QED
    BY <2>1, <2>2 DEF Lists
<1>4. ASSUME "N4" \in DOMAIN room PROVE HoldsAs(room, "N4", N4Of(<<>>, <<>>), Nothing)
  <2>1. Full4 \in Nat
    BY <1>4, SetOf4
  <2>2. Is4(N4Of(<<>>, <<>>), Nothing)
    BY <1>3, <2>1 DEF Is4
  <2> QED
    BY <1>2, <1>4, <2>2, SetOf4
<1>5. ASSUME NEW type \in Arrays(room)
      PROVE  HoldsAs(room, type,
                     [type |-> type, count |-> 0, keys |-> <<>>, children |-> <<>>,
                      overrun |-> FALSE], Nothing)
  <2>1. <<>> \in Seq(Byte) /\ BytesHalve /\ room[type] \in Nat
    BY ArrayKinds
  <2>2. FlippedAll(<<>>) \in Seq(Byte) /\ Len(FlippedAll(<<>>)) = 0
    BY <1>3, <2>1, FlippedAllIs
  <2>3. FlippedAll(<<>>) = <<>>
    BY <2>2, EmptySeq
  <2>4. ArrayOf(type, <<>>, <<>>)
          = [type |-> type, count |-> 0, keys |-> <<>>, children |-> <<>>, overrun |-> FALSE]
    BY <1>3, <2>3 DEF ArrayOf
  <2>5. IsArray(type, room[type], ArrayOf(type, <<>>, <<>>), Nothing)
    BY <1>3, <2>1 DEF IsArray
  <2>6. HoldsAs(room, type, ArrayOf(type, <<>>, <<>>), Nothing)
    BY <1>2, <2>5, SetOfArray
  <2> QED
    BY <2>4, <2>6
<1>6. HoldsAs(room, "N256", A!K256!Create, Nothing)
  <2>1. Cardinality(PresentIn(Nothing)) % Base = 0
    <3>1. Cardinality(PresentIn(Nothing)) = 0
      BY <1>2, FS_EmptySet
    <3> QED
      BY <1>1, <3>1, Remainder
  <2>2. A!K256!Create = N256Of(Nothing)
    BY <2>1 DEF A!K256!Create, A!K256!Byte, N256Of, Nothing, Byte
  <2> QED
    BY <1>2, <2>2, SetOf256 DEF Is256
<1> QED
  BY <1>4, <1>5, <1>6

(* A node holds as many children as it counts.                             *)
LEMMA HoldsCount ==
  ASSUME NEW room, Fits(room), NEW type, NEW m, NEW f, HoldsAs(room, type, m, f)
  PROVE  /\ IsFiniteSet(PresentIn(f)) /\ Cardinality(PresentIn(f)) \in Nat
         /\ Cardinality(PresentIn(f)) <= Capacity(room, type)
         /\ type # "N256" => m.count = Cardinality(PresentIn(f))
         /\ m.count = Cardinality(PresentIn(f)) % Base
         /\ ~m.overrun
<1>1. Base \in Nat \ {0} /\ A!null \notin TinyPtrs /\ BytesFit
  BY DEF Fits, BytesFit
<1>2. f \in Maps
  BY Kinds
<1>3. CASE "N4" \in DOMAIN room /\ type = "N4"
  <2>1. /\ f \in Maps /\ Is4(m, f) /\ Full4 \in Nat /\ Full4 < Base
        /\ Capacity(room, type) = Full4
    BY <1>3, SetOf4
  <2>2. PICK bs, cs : Lists(bs, cs, f) /\ Len(bs) <= Full4 /\ m = N4Of(bs, cs)
    BY <2>1 DEF Is4
  <2>3. IsFiniteSet(PresentIn(f)) /\ Cardinality(PresentIn(f)) = Len(bs)
    BY <1>1, <1>2, <2>2, ListsCount
  <2>4. Len(bs) \in Nat
    BY <1>1, <1>2, <2>3, CountOf
  <2>5. Len(bs) % Base = Len(bs)
    BY <1>1, <2>1, <2>2, <2>4, Remainder
  <2> QED
    BY <2>1, <2>2, <2>3, <2>4, <2>5 DEF N4Of
<1>4. CASE type \in Arrays(room)
  <2>1. room[type] \in Nat /\ room[type] < Base /\ Capacity(room, type) = room[type]
    BY <1>4, ArrayKinds
  <2>2. PICK bs, cs : Lists(bs, cs, f) /\ Len(bs) <= room[type] /\ m = ArrayOf(type, bs, cs)
    BY <1>4, SetOfArray DEF IsArray
  <2>3. IsFiniteSet(PresentIn(f)) /\ Cardinality(PresentIn(f)) = Len(bs)
    BY <1>1, <1>2, <2>2, ListsCount
  <2>4. Len(bs) \in Nat
    BY <1>1, <1>2, <2>3, CountOf
  <2>5. Len(bs) % Base = Len(bs)
    BY <1>1, <2>1, <2>2, <2>4, Remainder
  <2> QED
    BY <2>1, <2>2, <2>3, <2>4, <2>5 DEF ArrayOf
<1>5. CASE type = "N256"
  <2>1. m = N256Of(f) /\ Capacity(room, type) = Base
    BY <1>5, SetOf256 DEF Is256
  <2>2. /\ IsFiniteSet(PresentIn(f)) /\ Cardinality(PresentIn(f)) \in Nat
        /\ Cardinality(PresentIn(f)) <= Base
    BY <1>1, <1>2, CountOf
  <2> QED
    BY <1>5, <2>1, <2>2 DEF N256Of
<1> QED
  BY <1>3, <1>4, <1>5, Kinds

(* What is inserted into, changed in or removed from a node is so in the   *)
(* map it holds.                                                           *)
LEMMA InsertHolds ==
  ASSUME NEW room, Fits(room), NEW type, NEW m, NEW f, HoldsAs(room, type, m, f),
         NEW b \in Byte, f[b] = A!null, NEW c \in TinyPtrs,
         Cardinality(PresentIn(f)) < Capacity(room, type)
  PROVE  HoldsAs(room, type, ClassInsert(room, m, b, c), [f EXCEPT ![b] = c])
<1> DEFINE g == [f EXCEPT ![b] = c]
<1>1. Base \in Nat \ {0} /\ A!null \notin TinyPtrs /\ BytesFit
  BY DEF Fits, BytesFit
<1>2. f \in Maps /\ m.type = type
  BY Kinds
<1>3. g \in Maps
  BY <1>1, <1>2, CountInserted
<1>4. CASE "N4" \in DOMAIN room /\ type = "N4"
  <2>1. Is4(m, f) /\ Full4 \in Nat /\ Capacity(room, type) = Full4
    BY <1>4, SetOf4
  <2>2. PICK bs, cs : Lists(bs, cs, f) /\ Len(bs) <= Full4 /\ m = N4Of(bs, cs)
    BY <2>1 DEF Is4
  <2>3. Len(bs) < Full4
    BY <1>1, <1>2, <2>1, <2>2, ListsCount
  <2>4. Is4(A!K4!insert(m, b, c), g)
    BY <1>1, <1>2, <2>1, <2>2, <2>3, InsertIn4
  <2>5. ClassInsert(room, m, b, c) = A!K4!insert(m, b, c)
    BY <1>2, <1>4 DEF ClassInsert
  <2> QED
    BY <1>3, <1>4, <2>4, <2>5, SetOf4
<1>5. CASE type \in Arrays(room)
  <2>1. /\ room[type] \in Nat /\ Capacity(room, type) = room[type] /\ BytesHalve
        /\ type # "N4" /\ type # "N256"
    BY <1>5, ArrayKinds
  <2>2. PICK bs, cs : Lists(bs, cs, f) /\ Len(bs) <= room[type] /\ m = ArrayOf(type, bs, cs)
    BY <1>5, SetOfArray DEF IsArray
  <2>3. Len(bs) < room[type]
    BY <1>1, <1>2, <2>1, <2>2, ListsCount
  <2>4. IsArray(type, room[type], ArrayInsert(room[type], m, b, c), g)
    <3>1. PICK full \in Nat : full = room[type]
      BY <2>1
    <3> QED
      BY <1>2, <2>1, <2>2, <2>3, <3>1, InsertInArray
  <2>5. ClassInsert(room, m, b, c) = ArrayInsert(room[type], m, b, c)
    BY <1>2, <2>1 DEF ClassInsert
  <2> QED
    BY <1>3, <1>5, <2>4, <2>5, SetOfArray
<1>6. CASE type = "N256"
  <2>1. m = N256Of(f)
    BY <1>6, SetOf256 DEF Is256
  <2>2. Is256(A!K256!insert(m, b, c), g)
    BY <1>1, <1>2, <2>1, InsertIn256
  <2>3. ClassInsert(room, m, b, c) = A!K256!insert(m, b, c)
    BY <1>2, <1>6 DEF ClassInsert
  <2> QED
    BY <1>3, <1>6, <2>2, <2>3, SetOf256
<1> QED
  BY <1>4, <1>5, <1>6, Kinds

\* change, for whatever class.
LEMMA ChangeHolds ==
  ASSUME NEW room, Fits(room), NEW type, NEW m, NEW f, HoldsAs(room, type, m, f),
         NEW b \in PresentIn(f), NEW c \in TinyPtrs
  PROVE  HoldsAs(room, type, ClassChange(m, b, c), [f EXCEPT ![b] = c])
<1> DEFINE g == [f EXCEPT ![b] = c]
<1>1. Base \in Nat \ {0} /\ A!null \notin TinyPtrs /\ BytesFit
  BY DEF Fits, BytesFit
<1>2. f \in Maps /\ m.type = type
  BY Kinds
<1>3. g \in Maps
  BY <1>1, <1>2, CountChanged
<1>4. CASE "N4" \in DOMAIN room /\ type = "N4"
  <2>1. Is4(m, f)
    BY <1>4, SetOf4
  <2>2. PICK bs, cs : Lists(bs, cs, f) /\ Len(bs) <= Full4 /\ m = N4Of(bs, cs)
    BY <2>1 DEF Is4
  <2>3. Is4(A!K4!change(m, b, c), g)
    BY <1>1, <1>2, <2>2, ChangeIn4
  <2>4. ClassChange(m, b, c) = A!K4!change(m, b, c)
    BY <1>2, <1>4 DEF ClassChange
  <2> QED
    BY <1>3, <1>4, <2>3, <2>4, SetOf4
<1>5. CASE type \in Arrays(room)
  <2>1. room[type] \in Nat /\ BytesHalve /\ type # "N4" /\ type # "N256"
    BY <1>5, ArrayKinds
  <2>2. PICK bs, cs : Lists(bs, cs, f) /\ Len(bs) <= room[type] /\ m = ArrayOf(type, bs, cs)
    BY <1>5, SetOfArray DEF IsArray
  <2>3. IsArray(type, room[type], A!K16!change(m, b, c), g)
    <3>1. PICK full \in Nat : full = room[type]
      BY <2>1
    <3> QED
      BY <1>2, <2>1, <2>2, <3>1, ChangeInArray
  <2>4. ClassChange(m, b, c) = A!K16!change(m, b, c)
    BY <1>2, <2>1 DEF ClassChange
  <2> QED
    BY <1>3, <1>5, <2>3, <2>4, SetOfArray
<1>6. CASE type = "N256"
  <2>1. m = N256Of(f)
    BY <1>6, SetOf256 DEF Is256
  <2>2. Is256(A!K256!change(m, b, c), g)
    BY <1>1, <1>2, <2>1, ChangeIn256
  <2>3. ClassChange(m, b, c) = A!K256!change(m, b, c)
    BY <1>2, <1>6 DEF ClassChange
  <2> QED
    BY <1>3, <1>6, <2>2, <2>3, SetOf256
<1> QED
  BY <1>4, <1>5, <1>6, Kinds

\* remove, for whatever class.
LEMMA RemoveHolds ==
  ASSUME NEW room, Fits(room), NEW type, NEW m, NEW f, HoldsAs(room, type, m, f),
         NEW b \in PresentIn(f)
  PROVE  HoldsAs(room, type, ClassRemove(m, b), [f EXCEPT ![b] = A!null])
<1> DEFINE g == [f EXCEPT ![b] = A!null]
<1>1. Base \in Nat \ {0} /\ A!null \notin TinyPtrs /\ BytesFit
  BY DEF Fits, BytesFit
<1>2. f \in Maps /\ m.type = type
  BY Kinds
<1>3. g \in Maps
  BY <1>1, <1>2, CountRemoved
<1>4. CASE "N4" \in DOMAIN room /\ type = "N4"
  <2>1. Is4(m, f) /\ Full4 \in Nat
    BY <1>4, SetOf4
  <2>2. PICK bs, cs : Lists(bs, cs, f) /\ Len(bs) <= Full4 /\ m = N4Of(bs, cs)
    BY <2>1 DEF Is4
  <2>3. Is4(A!K4!remove(m, b), g)
    BY <1>1, <1>2, <2>1, <2>2, RemoveIn4
  <2>4. ClassRemove(m, b) = A!K4!remove(m, b)
    BY <1>2, <1>4 DEF ClassRemove
  <2> QED
    BY <1>3, <1>4, <2>3, <2>4, SetOf4
<1>5. CASE type \in Arrays(room)
  <2>1. room[type] \in Nat /\ BytesHalve /\ type # "N4" /\ type # "N256"
    BY <1>5, ArrayKinds
  <2>2. PICK bs, cs : Lists(bs, cs, f) /\ Len(bs) <= room[type] /\ m = ArrayOf(type, bs, cs)
    BY <1>5, SetOfArray DEF IsArray
  <2>3. IsArray(type, room[type], A!K16!remove(m, b), g)
    <3>1. PICK full \in Nat : full = room[type]
      BY <2>1
    <3> QED
      BY <1>2, <2>1, <2>2, <3>1, RemoveInArray
  <2>4. ClassRemove(m, b) = A!K16!remove(m, b)
    BY <1>2, <2>1 DEF ClassRemove
  <2> QED
    BY <1>3, <1>5, <2>3, <2>4, SetOfArray
<1>6. CASE type = "N256"
  <2>1. m = N256Of(f)
    BY <1>6, SetOf256 DEF Is256
  <2>2. Is256(A!K256!remove(m, b), g)
    BY <1>1, <1>2, <2>1, RemoveIn256
  <2>3. ClassRemove(m, b) = A!K256!remove(m, b)
    BY <1>2, <1>6 DEF ClassRemove
  <2> QED
    BY <1>3, <1>6, <2>2, <2>3, SetOf256
<1> QED
  BY <1>4, <1>5, <1>6, Kinds

-----------------------------------------------------------------------------
(* The list of a map's children, and that of the children between two      *)
(* bytes.                                                                  *)
PairUp(bs, cs) == [i \in 1..Len(bs) |-> <<bs[i], cs[i]>>]
Within(f, from, to) == [b \in Byte |-> IF from <= b /\ b <= to THEN f[b] ELSE A!null]
IsListOf(list, f) == \E bs, cs : Lists(bs, cs, f) /\ list = PairUp(bs, cs)

\* The pairs of a list, one by one.
LEMMA PairUpIs ==
  ASSUME NEW f \in Maps, NEW bs, NEW cs, Lists(bs, cs, f), A!null \notin TinyPtrs
  PROVE  /\ PairUp(bs, cs) \in Seq(Byte \X TinyPtrs) /\ Len(PairUp(bs, cs)) = Len(bs)
         /\ Len(bs) \in Nat
         /\ \A i \in 1..Len(bs) : PairUp(bs, cs)[i] = <<bs[i], cs[i]>>
<1>1. /\ Len(bs) \in Nat /\ \A i \in 1..Len(bs) : bs[i] \in Byte /\ cs[i] \in TinyPtrs
  BY ListsBasics
<1>2. \A i \in 1..Len(bs) : <<bs[i], cs[i]>> \in Byte \X TinyPtrs
  BY <1>1
<1>3. PairUp(bs, cs) \in [1..Len(bs) -> Byte \X TinyPtrs]
  BY <1>2 DEF PairUp
<1>4. PairUp(bs, cs) \in Seq(Byte \X TinyPtrs)
  BY <1>1, <1>3
<1>5. Len(PairUp(bs, cs)) = Len(bs)
  BY <1>1, <1>4, LenProperties DEF PairUp
<1> QED
  BY <1>1, <1>4, <1>5 DEF PairUp

(* A list is made longer by a byte greater than all in it.                 *)
LEMMA ListsAppend ==
  ASSUME BytesFit, NEW f \in Maps, NEW list, IsListOf(list, f), NEW b \in Byte, f[b] = A!null,
         NEW c \in TinyPtrs, \A x \in PresentIn(f) : x < b
  PROVE  IsListOf(Append(list, <<b, c>>), [f EXCEPT ![b] = c])
<1>1. A!null \notin TinyPtrs /\ Base \in Nat
  BY DEF BytesFit
<1>2. PICK bs, cs : Lists(bs, cs, f) /\ list = PairUp(bs, cs)
  BY DEF IsListOf
<1> DEFINE bb == Append(bs, b)
           cc == Append(cs, c)
           ff == [f EXCEPT ![b] = c]
<1>3. /\ Len(bs) \in Nat /\ Len(cs) = Len(bs) /\ bs \in Seq(Byte) /\ cs \in Seq(TinyPtrs)
      /\ \A i \in 1..Len(bs) : bs[i] \in PresentIn(f) /\ cs[i] = f[bs[i]]
      /\ \A i, j \in 1..Len(bs) : i < j => bs[i] < bs[j]
      /\ \A x \in Byte : f[x] # A!null => \E i \in 1..Len(bs) : bs[i] = x
  BY <1>1, <1>2, ListsBasics DEF Lists
<1>4. /\ bb \in Seq(Byte) /\ Len(bb) = Len(bs) + 1 /\ bb[Len(bs) + 1] = b
      /\ \A i \in 1..Len(bs) : bb[i] = bs[i]
  BY <1>3, AppendProperties
<1>5. /\ cc \in Seq(TinyPtrs) /\ Len(cc) = Len(bs) + 1 /\ cc[Len(bs) + 1] = c
      /\ \A i \in 1..Len(bs) : cc[i] = cs[i]
  BY <1>3, AppendProperties
<1>6. ff \in Maps /\ \A x \in Byte : ff[x] = IF x = b THEN c ELSE f[x]
  BY DEF Maps
<1>7. \A i \in 1..Len(bs) : bs[i] < b /\ bs[i] # b /\ bs[i] \in Byte
  BY <1>3 DEF PresentIn
<1> HIDE DEF bb, cc, ff
<1>8. 1..Len(bs) + 1 = 1..Len(bs) \cup {Len(bs) + 1} /\ Len(bs) + 1 \in 1..Len(bs) + 1
  BY <1>3
<1>9. ASSUME NEW i \in 1..Len(bb), NEW j \in 1..Len(bb), i < j PROVE bb[i] < bb[j]
  <2>1. i \in 1..Len(bs)
    BY <1>3, <1>4, <1>9
  <2>2. CASE j \in 1..Len(bs)
    BY <1>3, <1>4, <1>9, <2>1, <2>2
  <2>3. CASE j = Len(bs) + 1
    BY <1>4, <1>7, <2>1, <2>3
  <2> QED
    BY <1>4, <1>8, <2>2, <2>3
<1>10. ASSUME NEW i \in 1..Len(bb) PROVE cc[i] = ff[bb[i]]
  <2>1. CASE i \in 1..Len(bs)
    BY <1>3, <1>4, <1>5, <1>6, <1>7, <2>1
  <2>2. CASE i = Len(bs) + 1
    BY <1>4, <1>5, <1>6, <2>2
  <2> QED
    BY <1>4, <1>8, <2>1, <2>2
<1>11. ASSUME NEW x \in Byte, ff[x] # A!null PROVE \E i \in 1..Len(bb) : bb[i] = x
  <2>1. CASE x = b
    BY <1>4, <1>8, <2>1
  <2>2. CASE x # b
    <3>1. PICK i \in 1..Len(bs) : bs[i] = x
      BY <1>3, <1>6, <1>11, <2>2
    <3> QED
      BY <1>4, <1>8, <3>1
  <2> QED
    BY <2>1, <2>2
<1>12. Lists(bb, cc, ff)
  BY <1>4, <1>5, <1>9, <1>10, <1>11 DEF Lists
<1>13. Append(list, <<b, c>>) = PairUp(bb, cc)
  <2>1. /\ list \in Seq(Byte \X TinyPtrs) /\ Len(list) = Len(bs)
        /\ \A i \in 1..Len(bs) : list[i] = <<bs[i], cs[i]>>
    BY <1>1, <1>2, PairUpIs
  <2>2. /\ PairUp(bb, cc) \in Seq(Byte \X TinyPtrs) /\ Len(PairUp(bb, cc)) = Len(bb)
        /\ \A i \in 1..Len(bb) : PairUp(bb, cc)[i] = <<bb[i], cc[i]>>
    BY <1>1, <1>6, <1>12, PairUpIs
  <2>3. <<b, c>> \in Byte \X TinyPtrs
    OBVIOUS
  <2>4. PICK p \in Byte \X TinyPtrs : p = <<b, c>>
    BY <2>3
  <2>5. /\ Append(list, p) \in Seq(Byte \X TinyPtrs) /\ Len(Append(list, p)) = Len(list) + 1
        /\ Append(list, p)[Len(list) + 1] = p
        /\ \A i \in 1..Len(list) : Append(list, p)[i] = list[i]
    BY <2>1, AppendProperties
  <2>6. ASSUME NEW i \in 1..Len(Append(list, p)) PROVE Append(list, p)[i] = PairUp(bb, cc)[i]
    <3>1. CASE i \in 1..Len(bs)
      BY <1>4, <1>5, <1>8, <2>1, <2>2, <2>5, <3>1
    <3>2. CASE i = Len(bs) + 1
      BY <1>4, <1>5, <1>8, <2>1, <2>2, <2>4, <2>5, <3>2
    <3> QED
      BY <1>8, <2>1, <2>5, <3>1, <3>2
  <2>7. Len(Append(list, p)) = Len(PairUp(bb, cc))
    BY <1>4, <2>1, <2>2, <2>5
  <2>8. Append(list, p) = PairUp(bb, cc)
    BY <2>2, <2>5, <2>6, <2>7, SeqEqual
  <2> QED
    BY <2>4, <2>8
<1>14. IsListOf(Append(list, <<b, c>>), ff)
  BY <1>12, <1>13 DEF IsListOf
<1> QED
  BY <1>14 DEF ff

\* Nothing is listed by the empty sequence.
LEMMA EmptyList == BytesFit => IsListOf(<<>>, Nothing) /\ Nothing \in Maps
<1>1. Nothing \in Maps
  BY DEF Nothing, Maps
<1>2. Lists(<<>>, <<>>, Nothing)
  <2>1. <<>> \in Seq(Byte) /\ <<>> \in Seq(TinyPtrs) /\ Len(<<>>) = 0
    OBVIOUS
  <2>2. \A b \in Byte : Nothing[b] = A!null
    BY DEF Nothing
  <2> QED
    BY <2>1, <2>2 DEF Lists
<1>3. BytesFit => PairUp(<<>>, <<>>) = <<>>
  <2>1. BytesFit => PairUp(<<>>, <<>>) \in Seq(Byte \X TinyPtrs) /\ Len(PairUp(<<>>, <<>>)) = 0
    BY <1>1, <1>2, PairUpIs DEF BytesFit
  <2> QED
    BY <2>1, EmptySeq
<1> QED
  BY <1>1, <1>2, <1>3 DEF IsListOf

(* The list that a table makes of its children between two bytes.          *)
LEMMA ListIn256 ==
  ASSUME BytesFit, NEW f \in Maps, NEW m, m.children = f,
         NEW start \in Nat, NEW end \in Int, end < Base, start <= end + 1
  PROVE  IsListOf(A!K256!getChildren(m, start, end), Within(f, start, end))
<1>1. PICK size \in Nat : size = end - start + 1
  OBVIOUS
<1>2. PICK run : /\ IsRun("present", A!null, A!null, <<>>, Places(m, start, end), size, run)
                 /\ A!K256!getChildren(m, start, end) = run[size]
  BY <1>1, ListOf256Runs
<1>3. Base \in Nat /\ A!null \notin TinyPtrs
  BY DEF BytesFit
<1> DEFINE Part(k) == Within(f, start, start + k - 1)
           S == {k \in 0..size : IsListOf(run[k], Part(k))}
<1>4. \A k \in Nat : Part(k) \in Maps
  BY DEF Within, Maps
<1>5. 0 \in S
  <2>1. \A b \in Byte : ~(start <= b /\ b <= start + 0 - 1)
    BY DEF Byte
  <2>2. Part(0) = Nothing
    BY <2>1 DEF Within, Nothing
  <2>3. run[0] = <<>>
    BY <1>2 DEF IsRun
  <2>4. IsListOf(<<>>, Nothing)
    BY EmptyList
  <2>5. 0 \in 0..size
    BY <1>1
  <2> HIDE DEF Part
  <2> QED
    BY <2>2, <2>3, <2>4, <2>5
<1>6. ASSUME NEW k \in 0..size - 1, k \in S PROVE k + 1 \in S
  <2> DEFINE b == start + k
  <2>1. k + 1 \in 1..size /\ b \in Byte /\ k \in Nat /\ k + 1 \in 0..size
    BY <1>1, <1>3 DEF Byte
  <2>2. Places(m, start, end)[k + 1] = <<b, f[b]>>
    <3>1. start + (k + 1) - 1 = b /\ k + 1 \in 1..end - start + 1
      BY <1>1, <2>1
    <3> QED
      BY <3>1 DEF Places
  <2>3. run[k + 1] = IF f[b] # A!null THEN Append(run[k], <<b, f[b]>>) ELSE run[k]
    <3>1. run[k + 1] = RoundOf("present", A!null, A!null, run[k], Places(m, start, end)[k + 1])
      BY <1>2 DEF IsRun
    <3>2. PICK p : p = Places(m, start, end)[k + 1]
      OBVIOUS
    <3>3. p = <<b, f[b]>> /\ p[2] = f[b]
      BY <2>2, <3>2
    <3>4. run[k + 1] = IF p[2] # A!null THEN Append(run[k], p) ELSE run[k]
      BY <3>1, <3>2 DEF RoundOf
    <3> HIDE DEF b
    <3> QED
      BY <3>3, <3>4
  <2>4. IsListOf(run[k], Part(k)) /\ Part(k) \in Maps /\ Part(k + 1) \in Maps
    BY <1>4, <1>6, <2>1
  <2>5. \A x \in Byte : x <= start + (k + 1) - 1 <=> x <= start + k - 1 \/ x = b
    BY <2>1 DEF Byte
  <2>6. \A x \in Byte : Part(k + 1)[x] = IF x = b THEN f[b] ELSE Part(k)[x]
    BY <2>1, <2>5 DEF Within, Byte
  <2>7. Part(k)[b] = A!null /\ \A x \in PresentIn(Part(k)) : x < b
    BY <2>1 DEF Within, PresentIn, Byte
  <2> HIDE DEF b, Part
  <2>8. CASE f[b] # A!null
    <3>1. f[b] \in TinyPtrs
      BY <2>1, <2>8 DEF Maps
    <3>2. IsListOf(Append(run[k], <<b, f[b]>>), [Part(k) EXCEPT ![b] = f[b]])
      BY <2>1, <2>4, <2>7, <3>1, ListsAppend
    <3>3. Part(k + 1) = [Part(k) EXCEPT ![b] = f[b]]
      BY <2>4, <2>6 DEF Maps
    <3> QED
      BY <2>1, <2>3, <2>8, <3>2, <3>3
  <2>9. CASE f[b] = A!null
    <3>1. Part(k + 1) = Part(k)
      BY <2>4, <2>6, <2>7, <2>9 DEF Maps
    <3> QED
      BY <2>1, <2>3, <2>4, <2>9, <3>1
  <2> QED
    BY <2>8, <2>9
<1>7. size \in S
  <2> HIDE DEF S
  <2> QED
    BY <1>5, <1>6, UpTo
<1>8. start + size - 1 = end
  BY <1>1
<1>9. IsListOf(run[size], Within(f, start, start + size - 1))
  BY <1>7
<1> QED
  BY <1>2, <1>8, <1>9

(* The list that a node of the smallest class makes of them.               *)
LEMMA ListIn4 ==
  ASSUME BytesFit, NEW f \in Maps, NEW bs, NEW cs, Lists(bs, cs, f), NEW from, NEW to
  PROVE  IsListOf(A!K4!getChildren(N4Of(bs, cs), from, to), Within(f, from, to))
<1> DEFINE m == N4Of(bs, cs)
           g(k) == PartOf(f, bs, k)
           Part(k) == Within(g(k), from, to)
<1>1. A!null \notin TinyPtrs
  BY DEF BytesFit
<1>2. /\ Len(bs) \in Nat
      /\ \A i \in 1..Len(bs) : bs[i] \in Byte /\ bs[i] \in Nat /\ cs[i] \in TinyPtrs
      /\ \A i, j \in 1..Len(bs) : bs[i] < bs[j] <=> i < j
  BY <1>1, ListsBasics
<1>3. A!K4!Pairs(m) = PairUp(bs, cs) /\ DOMAIN A!K4!Pairs(m) = 1..Len(bs)
  BY DEF A!K4!Pairs, N4Of, PairUp
<1>4. PICK run : /\ IsRun("between", from, to, <<>>, A!K4!Pairs(m), Len(bs), run)
                 /\ A!K4!getChildren(m, from, to) = run[Len(bs)]
  BY <1>2, <1>3, ListOf4Runs
<1>5. /\ g(0) = Nothing /\ g(Len(bs)) = f
      /\ \A k \in 0..Len(bs) : g(k) \in Maps
      /\ \A k \in 0..Len(bs) - 1 : /\ g(k)[bs[k + 1]] = A!null
                                   /\ g(k + 1) = [g(k) EXCEPT ![bs[k + 1]] = cs[k + 1]]
  BY <1>1, ListsPart
<1> DEFINE S == {k \in 0..Len(bs) : IsListOf(run[k], Part(k))}
<1>6. 0 \in S
  <2>1. Part(0) = Nothing
    BY <1>5 DEF Within, Nothing
  <2>2. run[0] = <<>>
    BY <1>4 DEF IsRun
  <2>3. IsListOf(<<>>, Nothing) /\ 0 \in 0..Len(bs)
    BY <1>2, EmptyList
  <2> HIDE DEF Part
  <2> QED
    BY <2>1, <2>2, <2>3
<1>7. ASSUME NEW k \in 0..Len(bs) - 1, k \in S PROVE k + 1 \in S
  <2>1. k + 1 \in 1..Len(bs) /\ k \in Nat /\ k + 1 \in 0..Len(bs) /\ k \in 0..Len(bs)
    BY <1>2
  <2>2. PICK b \in Byte : b = bs[k + 1] /\ b \in Nat
    BY <1>2, <2>1
  <2>3. PICK c \in TinyPtrs : c = cs[k + 1]
    BY <1>2, <2>1
  <2>4. run[k + 1] = IF from <= b /\ b <= to THEN Append(run[k], <<b, c>>) ELSE run[k]
    <3>1. run[k + 1] = RoundOf("between", from, to, run[k], A!K4!Pairs(m)[k + 1])
      BY <1>4 DEF IsRun
    <3>2. A!K4!Pairs(m)[k + 1] = <<b, c>>
      BY <1>3, <2>1, <2>2, <2>3 DEF PairUp
    <3>3. PICK p : p = A!K4!Pairs(m)[k + 1]
      OBVIOUS
    <3>4. p = <<b, c>> /\ p[1] = b
      BY <3>2, <3>3
    <3>5. run[k + 1] = IF from <= p[1] /\ p[1] <= to THEN Append(run[k], p) ELSE run[k]
      BY <3>1, <3>3 DEF RoundOf
    <3> QED
      BY <3>4, <3>5
  <2>5. /\ g(k) \in Maps /\ g(k + 1) \in Maps /\ g(k)[b] = A!null
        /\ g(k + 1) = [g(k) EXCEPT ![b] = c]
    BY <1>5, <2>1, <2>2, <2>3
  <2>6. \A x \in PresentIn(g(k)) : x < b
    <3>1. ASSUME NEW x \in PresentIn(g(k)) PROVE x < b
      <4>1. PICK i \in 1..k : bs[i] = x
        BY <3>1 DEF PresentIn, PartOf
      <4>2. i \in 1..Len(bs) /\ i < k + 1
        BY <1>2, <2>1
      <4> QED
        BY <1>2, <2>1, <2>2, <4>1, <4>2
    <3> QED
      BY <3>1
  <2> HIDE DEF g
  <2>7. Part(k) \in Maps /\ Part(k + 1) \in Maps /\ Part(k)[b] = A!null
    BY <2>5 DEF Within, Maps
  <2>8. PresentIn(Part(k)) \subseteq PresentIn(g(k))
    BY DEF Within, PresentIn
  <2>9. \A x \in Byte : Part(k + 1)[x] =
           IF x = b THEN (IF from <= b /\ b <= to THEN c ELSE A!null) ELSE Part(k)[x]
    BY <2>5 DEF Within, Maps
  <2>10. IsListOf(run[k], Part(k))
    BY <1>7
  <2> HIDE DEF Part
  <2>11. CASE from <= b /\ b <= to
    <3>1. IsListOf(Append(run[k], <<b, c>>), [Part(k) EXCEPT ![b] = c])
      BY <2>6, <2>7, <2>8, <2>10, ListsAppend
    <3>2. Part(k + 1) = [Part(k) EXCEPT ![b] = c]
      BY <2>7, <2>9, <2>11 DEF Maps
    <3> QED
      BY <2>1, <2>4, <2>11, <3>1, <3>2
  <2>12. CASE ~(from <= b /\ b <= to)
    <3>1. Part(k + 1) = Part(k)
      BY <2>7, <2>9, <2>12 DEF Maps
    <3> QED
      BY <2>1, <2>4, <2>10, <2>12, <3>1
  <2> QED
    BY <2>11, <2>12
<1>8. Len(bs) \in S
  <2> HIDE DEF S
  <2>1. PICK size \in Nat : size = Len(bs)
    BY <1>2
  <2>2. \A k \in 0..size - 1 : k \in S => k + 1 \in S
    BY <1>7, <2>1
  <2>3. \A k \in 0..size : k \in S
    BY <1>6, <2>2, UpTo
  <2> QED
    BY <2>1, <2>3
<1>9. IsListOf(run[Len(bs)], Within(g(Len(bs)), from, to))
  BY <1>8
<1> QED
  BY <1>4, <1>5, <1>9

-----------------------------------------------------------------------------
(* What copyTo goes through is the list of the children.                   *)
LEMMA PairsInArray ==
  ASSUME BytesHalve, NEW type, NEW f \in Maps, NEW bs, NEW cs, Lists(bs, cs, f)
  PROVE  A!K16!Pairs(ArrayOf(type, bs, cs)) = PairUp(bs, cs)
<1>1. \A i \in 1..Len(bs) : bs[i] \in Byte
  BY ListsBasics DEF BytesHalve, BytesFit
<1>2. \A i \in 1..Len(bs) : A!K16!flipSign(FlippedAll(bs)[i]) = bs[i]
  BY <1>1, Flipped DEF FlippedAll
<1>3. A!K16!Pairs(ArrayOf(type, bs, cs))
        = [i \in 1..Len(bs) |-> <<A!K16!flipSign(FlippedAll(bs)[i]), cs[i]>>]
  BY DEF A!K16!Pairs, ArrayOf
<1> QED
  BY <1>2, <1>3 DEF PairUp

\* getChildren from the first byte to the last lists the map, for whatever class.
LEMMA PairsHold ==
  ASSUME NEW room, Fits(room), NEW type, NEW m, NEW f, HoldsAs(room, type, m, f)
  PROVE  IsListOf(ClassPairs(m), f)
<1>1. Base \in Nat \ {0} /\ A!null \notin TinyPtrs /\ BytesFit
  BY DEF Fits, BytesFit
<1>2. f \in Maps /\ m.type = type
  BY Kinds
<1>3. CASE "N4" \in DOMAIN room /\ type = "N4"
  <2>1. Is4(m, f)
    BY <1>3, SetOf4
  <2>2. PICK bs, cs : Lists(bs, cs, f) /\ Len(bs) <= Full4 /\ m = N4Of(bs, cs)
    BY <2>1 DEF Is4
  <2>3. ClassPairs(m) = A!K4!Pairs(m)
    BY <1>2, <1>3 DEF ClassPairs
  <2>4. A!K4!Pairs(m) = PairUp(bs, cs)
    BY <2>2 DEF A!K4!Pairs, N4Of, PairUp
  <2> QED
    BY <2>2, <2>3, <2>4 DEF IsListOf
<1>4. CASE type \in Arrays(room)
  <2>1. BytesHalve /\ type # "N4" /\ type # "N256"
    BY <1>4, ArrayKinds
  <2>2. PICK bs, cs : Lists(bs, cs, f) /\ Len(bs) <= room[type] /\ m = ArrayOf(type, bs, cs)
    BY <1>4, SetOfArray DEF IsArray
  <2>3. ClassPairs(m) = A!K16!Pairs(m)
    BY <1>2, <2>1 DEF ClassPairs
  <2>4. A!K16!Pairs(m) = PairUp(bs, cs)
    BY <1>2, <2>1, <2>2, PairsInArray
  <2> QED
    BY <2>2, <2>3, <2>4 DEF IsListOf
<1>5. CASE type = "N256"
  <2>1. m = N256Of(f) /\ m.children = f
    BY <1>5, SetOf256 DEF Is256, N256Of
  <2>2. ClassPairs(m) = A!K256!Pairs(m)
    BY <1>2, <1>5 DEF ClassPairs
  <2>3. PICK end \in Int : end = Base - 1 /\ end < Base /\ 0 <= end + 1
    BY <1>1
  <2>4. IsListOf(A!K256!getChildren(m, 0, end), Within(f, 0, end))
    BY <1>1, <1>2, <2>1, <2>3, ListIn256
  <2>5. Within(f, 0, end) = f
    <3>1. \A b \in Byte : 0 <= b /\ b <= end
      BY <2>3 DEF Byte
    <3> QED
      BY <1>2, <3>1 DEF Within, Maps
  <2> QED
    BY <2>2, <2>3, <2>4, <2>5 DEF A!K256!Pairs
<1> QED
  BY <1>3, <1>4, <1>5, Kinds

(* A list of children that is copied into an empty node with room for them *)
(* is held by that one.                                                    *)
LEMMA CopyRunHolds ==
  ASSUME NEW room, Fits(room), NEW fold, fold \in {"copy", "copy64"},
         NEW kind, NEW other, HoldsAs(room, kind, other, Nothing),
         \A x, b, c : x.type = kind => Put(fold, x, b, c) = ClassInsert(room, x, b, c),
         NEW f \in Maps, NEW list, IsListOf(list, f),
         Cardinality(PresentIn(f)) <= Capacity(room, kind),
         NEW size \in Nat, DOMAIN list = 1..size,
         NEW run, IsRun(fold, A!null, A!null, other, list, size, run)
  PROVE  HoldsAs(room, kind, run[size], f)
<1>1. A!null \notin TinyPtrs
  BY DEF Fits, BytesFit
<1>2. PICK bs, cs : Lists(bs, cs, f) /\ list = PairUp(bs, cs)
  BY DEF IsListOf
<1>3. /\ Len(bs) \in Nat /\ Cardinality(PresentIn(f)) = Len(bs)
      /\ \A i \in 1..Len(bs) : bs[i] \in Byte /\ cs[i] \in TinyPtrs
  BY <1>1, <1>2, ListsBasics, ListsCount
<1>4. size = Len(bs)
  <2>1. 1..size = 1..Len(bs)
    BY <1>2 DEF PairUp
  <2> QED
    BY <1>3, <2>1
<1> DEFINE g(k) == PartOf(f, bs, k)
           S == {k \in 0..size : HoldsAs(room, kind, run[k], g(k))}
<1>5. /\ g(0) = Nothing /\ g(size) = f
      /\ \A k \in 0..size : g(k) \in Maps /\ Cardinality(PresentIn(g(k))) = k
      /\ \A k \in 0..size - 1 : /\ g(k)[bs[k + 1]] = A!null
                                /\ g(k + 1) = [g(k) EXCEPT ![bs[k + 1]] = cs[k + 1]]
  BY <1>1, <1>2, <1>4, ListsPart
<1>6. Capacity(room, kind) \in Nat
  <2>1. CASE "N4" \in DOMAIN room /\ kind = "N4"
    BY <2>1, SetOf4
  <2>2. CASE kind \in Arrays(room)
    BY <2>2, ArrayKinds
  <2>3. CASE kind = "N256"
    BY <2>3 DEF Capacity, Fits, BytesFit
  <2> QED
    BY <2>1, <2>2, <2>3, Kinds
<1> HIDE DEF g
<1>7. 0 \in S
  BY <1>5 DEF IsRun
<1>8. ASSUME NEW k \in 0..size - 1, k \in S PROVE k + 1 \in S
  <2>1. k + 1 \in 1..size /\ k \in Nat /\ k + 1 \in 0..size /\ k \in 0..size
    OBVIOUS
  <2>2. PICK b : b \in Byte /\ b = bs[k + 1]
    BY <1>3, <1>4, <2>1
  <2>3. PICK c : c \in TinyPtrs /\ c = cs[k + 1]
    BY <1>3, <1>4, <2>1
  <2>4. HoldsAs(room, kind, run[k], g(k))
    BY <1>8
  <2>5. run[k + 1] = Put(fold, run[k], b, c)
    <3>1. run[k + 1] = RoundOf(fold, A!null, A!null, run[k], list[k + 1])
      BY DEF IsRun
    <3>2. list[k + 1] = <<b, c>>
      BY <1>2, <1>4, <2>1, <2>2, <2>3 DEF PairUp
    <3>3. PICK p : p = list[k + 1]
      OBVIOUS
    <3>4. p = <<b, c>> /\ p[1] = b /\ p[2] = c
      BY <3>2, <3>3
    <3>5. run[k + 1] = Put(fold, run[k], p[1], p[2])
      BY <3>1, <3>3 DEF RoundOf
    <3> QED
      BY <3>4, <3>5
  <2>6. run[k].type = kind
    BY <2>4, Kinds
  <2>7. run[k + 1] = ClassInsert(room, run[k], b, c)
    BY <2>5, <2>6
  <2>8. Cardinality(PresentIn(g(k))) < Capacity(room, kind)
    BY <1>3, <1>4, <1>5, <1>6, <2>1
  <2>9. g(k)[b] = A!null /\ g(k + 1) = [g(k) EXCEPT ![b] = c]
    BY <1>5, <2>2, <2>3
  <2>10. HoldsAs(room, kind, ClassInsert(room, run[k], b, c), [g(k) EXCEPT ![b] = c])
    BY <2>2, <2>3, <2>4, <2>8, <2>9, InsertHolds
  <2> QED
    BY <2>1, <2>7, <2>9, <2>10
<1>9. \A k \in 0..size : k \in S
  <2> HIDE DEF S
  <2> QED
    BY <1>7, <1>8, UpTo
<1> QED
  BY <1>5, <1>9

-----------------------------------------------------------------------------
(* Reading.                                                                *)
LEMMA GetChildHolds ==
  ASSUME NEW room, Fits(room), NEW type, NEW m, NEW f, HoldsAs(room, type, m, f),
         NEW b \in Byte
  PROVE  ClassChild(m, b) = f[b]
<1>1. BytesFit
  BY DEF Fits
<1>2. f \in Maps /\ m.type = type
  BY Kinds
<1>3. CASE "N4" \in DOMAIN room /\ type = "N4"
  <2>1. Is4(m, f)
    BY <1>3, SetOf4
  <2>2. PICK bs, cs : Lists(bs, cs, f) /\ Len(bs) <= Full4 /\ m = N4Of(bs, cs)
    BY <2>1 DEF Is4
  <2>3. ClassChild(m, b) = IF A!K4!At(m, b) = {} THEN A!null ELSE cs[A!K4!Min(A!K4!At(m, b))]
    BY <1>2, <1>3, <2>2 DEF ClassChild, A!K4!getChild, N4Of
  <2>4. CASE f[b] = A!null
    BY <1>1, <1>2, <2>2, <2>3, <2>4, PosIn4
  <2>5. CASE f[b] # A!null
    <3>1. PICK i \in 1..Len(bs) : bs[i] = b /\ cs[i] = f[b]
      BY <2>2, <2>5 DEF Lists
    <3>2. A!K4!At(m, b) # {} /\ A!K4!Min(A!K4!At(m, b)) = i
      BY <1>1, <1>2, <2>2, <3>1, PosIn4
    <3> QED
      BY <2>3, <3>1, <3>2
  <2> QED
    BY <2>4, <2>5
<1>4. CASE type \in Arrays(room)
  <2>1. BytesHalve /\ type # "N4" /\ type # "N256"
    BY <1>4, ArrayKinds
  <2>2. PICK bs, cs : Lists(bs, cs, f) /\ Len(bs) <= room[type] /\ m = ArrayOf(type, bs, cs)
    BY <1>4, SetOfArray DEF IsArray
  <2>3. ClassChild(m, b)
          = IF A!K16!getChildPos(m, b) = 0 THEN A!null ELSE cs[A!K16!getChildPos(m, b)]
    BY <1>2, <2>1, <2>2 DEF ClassChild, A!K16!getChild, ArrayOf
  <2>4. CASE f[b] = A!null
    <3>1. A!K16!getChildPos(m, b) = 0
      BY <1>2, <2>1, <2>2, <2>4, PosInArray
    <3> QED
      BY <2>3, <2>4, <3>1
  <2>5. CASE f[b] # A!null
    <3>1. PICK i \in 1..Len(bs) : bs[i] = b /\ cs[i] = f[b]
      BY <2>2, <2>5 DEF Lists
    <3>2. A!K16!getChildPos(m, b) = i
      BY <1>2, <2>1, <2>2, <3>1, PosInArray
    <3> QED
      BY <2>3, <3>1, <3>2
  <2> QED
    BY <2>4, <2>5
<1>5. CASE type = "N256"
  BY <1>2, <1>5, SetOf256 DEF Is256, N256Of, ClassChild, A!K256!getChild
<1> QED
  BY <1>3, <1>4, <1>5, Kinds

PairsOf(s) == {<<s[i][1], s[i][2]>> : i \in DOMAIN s}

\* A list names every child once, in order.
LEMMA ListReads ==
  ASSUME BytesFit, NEW f \in Maps, NEW list, IsListOf(list, f)
  PROVE  /\ PairsOf(list) = {<<b, f[b]>> : b \in PresentIn(f)}
         /\ \A i, j \in DOMAIN list : i < j => list[i][1] < list[j][1]
<1>1. A!null \notin TinyPtrs
  BY DEF BytesFit
<1>2. PICK bs, cs : Lists(bs, cs, f) /\ list = PairUp(bs, cs)
  BY DEF IsListOf
<1>3. /\ \A i \in 1..Len(bs) : bs[i] \in PresentIn(f) /\ cs[i] = f[bs[i]]
      /\ \A i, j \in 1..Len(bs) : bs[i] < bs[j] <=> i < j
      /\ \A b \in PresentIn(f) : \E i \in 1..Len(bs) : bs[i] = b
  BY <1>1, <1>2, ListsBasics
<1>4. DOMAIN list = 1..Len(bs) /\ \A i \in 1..Len(bs) : list[i][1] = bs[i] /\ list[i][2] = cs[i]
  BY <1>2 DEF PairUp
<1>5. PairsOf(list) = {<<bs[i], cs[i]>> : i \in 1..Len(bs)}
  BY <1>4 DEF PairsOf
<1>6. {<<bs[i], cs[i]>> : i \in 1..Len(bs)} = {<<b, f[b]>> : b \in PresentIn(f)}
  <2>1. \A i \in 1..Len(bs) : <<bs[i], cs[i]>> \in {<<b, f[b]>> : b \in PresentIn(f)}
    BY <1>3
  <2>2. \A b \in PresentIn(f) : <<b, f[b]>> \in {<<bs[i], cs[i]>> : i \in 1..Len(bs)}
    BY <1>3
  <2> QED
    BY <2>1, <2>2
<1> QED
  BY <1>3, <1>4, <1>5, <1>6

\* The part of a map between two bytes.
LEMMA WithinIs ==
  ASSUME BytesFit, NEW f \in Maps, NEW from, NEW to
  PROVE  /\ Within(f, from, to) \in Maps
         /\ {<<b, Within(f, from, to)[b]>> : b \in PresentIn(Within(f, from, to))}
              = {<<b, f[b]>> : b \in {x \in PresentIn(f) : from <= x /\ x <= to}}
<1>1. PresentIn(Within(f, from, to)) = {x \in PresentIn(f) : from <= x /\ x <= to}
  BY DEF PresentIn, Within
<1>2. \A b \in PresentIn(Within(f, from, to)) : Within(f, from, to)[b] = f[b]
  BY DEF PresentIn, Within
<1>3. Within(f, from, to) \in Maps
  BY DEF Within, Maps
<1> HIDE DEF Within
<1> QED
  BY <1>1, <1>2, <1>3

(* The list of an array ends where its bytes pass the bounds.              *)
LEMMA ListInArray ==
  ASSUME BytesHalve, NEW f \in Maps, NEW bs, NEW cs, Lists(bs, cs, f),
         NEW type, NEW m, m = ArrayOf(type, bs, cs), A!K16!Pairs(m) = PairUp(bs, cs),
         NEW from, NEW to,
         from \in PresentIn(f) \cup {0}, to \in PresentIn(f) \cup {Base - 1}, from <= to
  PROVE  PairsOf(A!K16!getChildren(m, from, to))
           = {<<b, f[b]>> : b \in {x \in PresentIn(f) : from <= x /\ x <= to}}
<1>1. BytesFit /\ A!null \notin TinyPtrs /\ Base \in Nat /\ Base > 0
  BY DEF BytesHalve, BytesFit
<1>2. /\ Len(bs) \in Nat
      /\ \A i \in 1..Len(bs) : /\ bs[i] \in Byte /\ bs[i] \in PresentIn(f) /\ bs[i] \in Nat
                               /\ bs[i] < Base /\ cs[i] = f[bs[i]]
      /\ \A i, j \in 1..Len(bs) : bs[i] < bs[j] <=> i < j
      /\ \A i, j \in 1..Len(bs) : bs[i] = bs[j] => i = j
      /\ \A b \in PresentIn(f) : \E i \in 1..Len(bs) : bs[i] = b
  BY <1>1, ListsBasics DEF Byte
<1>3. from \in Byte /\ to \in Byte /\ from \in Nat /\ to \in Nat
  BY <1>1 DEF PresentIn, Byte
<1> DEFINE lo == IF A!K16!getChildPos(m, from) = 0 THEN 1 ELSE A!K16!getChildPos(m, from)
           hi == IF A!K16!getChildPos(m, to) = 0 THEN m.count ELSE A!K16!getChildPos(m, to)
<1>13. \A b \in Byte : f[b] = A!null => A!K16!getChildPos(m, b) = 0
  BY PosInArray
<1>4. lo \in 1..Len(bs) + 1 /\ \A i \in 1..Len(bs) : i >= lo <=> from <= bs[i]
  <2>1. CASE f[from] = A!null
    <3>1. A!K16!getChildPos(m, from) = 0
      BY <1>3, <1>13, <2>1
    <3>2. from = 0
      BY <2>1 DEF PresentIn
    <3> QED
      BY <1>2, <3>1, <3>2
  <2>2. CASE f[from] # A!null
    <3>1. PICK i \in 1..Len(bs) : bs[i] = from
      BY <1>2, <1>3, <2>2 DEF PresentIn
    <3>2. A!K16!getChildPos(m, from) = i /\ i # 0
      BY <1>2, <1>3, <3>1, PosInArray
    <3>3. \A j \in 1..Len(bs) : j >= i <=> from <= bs[j]
      <4>1. ASSUME NEW j \in 1..Len(bs) PROVE j >= i <=> from <= bs[j]
        <5>1. (bs[j] < bs[i] <=> j < i) /\ bs[j] \in Nat /\ i \in Nat /\ j \in Nat
          BY <1>2
        <5> QED
          BY <1>3, <3>1, <5>1
      <4> QED
        BY <4>1
    <3> QED
      BY <1>2, <3>2, <3>3
  <2> QED
    BY <2>1, <2>2
<1>5. hi \in 0..Len(bs) /\ \A i \in 1..Len(bs) : i <= hi <=> bs[i] <= to
  <2>1. CASE f[to] = A!null
    <3>1. A!K16!getChildPos(m, to) = 0
      BY <1>3, <1>13, <2>1
    <3>2. to = Base - 1
      BY <2>1 DEF PresentIn
    <3>3. m.count = Len(bs)
      BY DEF ArrayOf
    <3> QED
      BY <1>1, <1>2, <3>1, <3>2, <3>3
  <2>2. CASE f[to] # A!null
    <3>1. PICK i \in 1..Len(bs) : bs[i] = to
      BY <1>2, <1>3, <2>2 DEF PresentIn
    <3>2. A!K16!getChildPos(m, to) = i /\ i # 0
      BY <1>2, <1>3, <3>1, PosInArray
    <3>3. \A j \in 1..Len(bs) : j <= i <=> bs[j] <= to
      <4>1. ASSUME NEW j \in 1..Len(bs) PROVE j <= i <=> bs[j] <= to
        <5>1. (bs[i] < bs[j] <=> i < j) /\ bs[j] \in Nat /\ i \in Nat /\ j \in Nat
          BY <1>2
        <5> QED
          BY <1>3, <3>1, <5>1
      <4> QED
        BY <4>1
    <3> QED
      BY <1>2, <3>2, <3>3
  <2> QED
    BY <2>1, <2>2
<1>6. /\ A!K16!getChildren(m, from, to) = SubSeq(PairUp(bs, cs), lo, hi)
  BY DEF A!K16!getChildren
<1> HIDE DEF lo, hi
<1> DEFINE s == SubSeq(PairUp(bs, cs), lo, hi)
<1>7. /\ PairUp(bs, cs) \in Seq(Byte \X TinyPtrs) /\ Len(PairUp(bs, cs)) = Len(bs)
      /\ \A i \in 1..Len(bs) : PairUp(bs, cs)[i] = <<bs[i], cs[i]>>
  BY <1>1, PairUpIs
<1>8. \A i \in lo..hi : PairUp(bs, cs)[i] \in Byte \X TinyPtrs
  <2>1. \A i \in lo..hi : i \in 1..Len(bs)
    BY <1>2, <1>4, <1>5
  <2> QED
    BY <1>7, <2>1, ElementOfSeq
<1>9. /\ DOMAIN s = 1..hi - lo + 1
      /\ \A i \in 1..hi - lo + 1 : s[i] = PairUp(bs, cs)[lo + i - 1]
  <2>1. lo \in Int /\ hi \in Int
    BY <1>4, <1>5
  <2>2. /\ s \in Seq(Byte \X TinyPtrs)
        /\ Len(s) = IF lo <= hi THEN hi - lo + 1 ELSE 0
        /\ \A i \in 1..hi - lo + 1 : s[i] = PairUp(bs, cs)[lo + i - 1]
    BY <1>8, <2>1, SubSeqProperties
  <2>3. DOMAIN s = 1..Len(s)
    BY <2>2, LenProperties
  <2>4. 1..Len(s) = 1..hi - lo + 1
    BY <2>1, <2>2
  <2> QED
    BY <2>2, <2>3, <2>4
<1> DEFINE wanted == {<<b, f[b]>> : b \in {x \in PresentIn(f) : from <= x /\ x <= to}}
<1>10. ASSUME NEW i \in 1..hi - lo + 1 PROVE <<s[i][1], s[i][2]>> \in wanted
  <2>1. PICK j \in 1..Len(bs) : j = lo + i - 1 /\ j >= lo /\ j <= hi
    BY <1>2, <1>4, <1>5
  <2>2. s[i] = <<bs[j], cs[j]>>
    BY <1>7, <1>9, <2>1
  <2>3. from <= bs[j] /\ bs[j] <= to /\ bs[j] \in PresentIn(f) /\ cs[j] = f[bs[j]]
    BY <1>2, <1>4, <1>5, <2>1
  <2>4. s[i][1] = bs[j] /\ s[i][2] = cs[j]
    BY <2>2
  <2> HIDE DEF s
  <2> QED
    BY <2>3, <2>4
<1>11. ASSUME NEW b \in PresentIn(f), from <= b, b <= to
       PROVE  \E i \in 1..hi - lo + 1 : <<b, f[b]>> = <<s[i][1], s[i][2]>>
  <2>1. PICK j \in 1..Len(bs) : bs[j] = b
    BY <1>2
  <2>2. j >= lo /\ j <= hi
    BY <1>4, <1>5, <1>11, <2>1
  <2>3. PICK i \in 1..hi - lo + 1 : lo + i - 1 = j
    <3>1. j - lo + 1 \in 1..hi - lo + 1 /\ lo + (j - lo + 1) - 1 = j
      BY <1>2, <1>4, <1>5, <2>2
    <3> QED
      BY <3>1
  <2>4. s[i] = <<bs[j], cs[j]>>
    BY <1>7, <1>9, <2>3
  <2>5. s[i][1] = b /\ s[i][2] = f[b]
    BY <1>2, <2>1, <2>4
  <2> HIDE DEF s
  <2> QED
    BY <2>5
<1>12. PairsOf(s) = wanted
  <2>1. PairsOf(s) = {<<s[i][1], s[i][2]>> : i \in 1..hi - lo + 1}
    BY <1>9 DEF PairsOf
  <2> HIDE DEF s
  <2> QED
    BY <1>10, <1>11, <2>1
<1> QED
  BY <1>6, <1>12

\* getChildren between two bytes, for whatever class.
LEMMA BetweenHolds ==
  ASSUME NEW room, Fits(room), NEW type, NEW m, NEW f, HoldsAs(room, type, m, f),
         NEW from, NEW to,
         from \in PresentIn(f) \cup {0}, to \in PresentIn(f) \cup {Base - 1}, from <= to
  PROVE  PairsOf(ClassBetween(m, from, to))
           = {<<b, f[b]>> : b \in {x \in PresentIn(f) : from <= x /\ x <= to}}
<1>1. Base \in Nat \ {0} /\ A!null \notin TinyPtrs /\ BytesFit
  BY DEF Fits, BytesFit
<1>2. f \in Maps /\ m.type = type
  BY Kinds
<1>3. from \in Nat /\ to \in Nat /\ to < Base
  BY <1>1 DEF PresentIn, Byte
<1>4. /\ Within(f, from, to) \in Maps
      /\ \A list : IsListOf(list, Within(f, from, to)) =>
            PairsOf(list) = {<<b, f[b]>> : b \in {x \in PresentIn(f) : from <= x /\ x <= to}}
  <2>1. PICK g : g = Within(f, from, to)
    OBVIOUS
  <2>2. /\ g \in Maps
        /\ {<<b, g[b]>> : b \in PresentIn(g)}
             = {<<b, f[b]>> : b \in {x \in PresentIn(f) : from <= x /\ x <= to}}
    BY <1>1, <1>2, <2>1, WithinIs
  <2>3. \A list : IsListOf(list, g) => PairsOf(list) = {<<b, g[b]>> : b \in PresentIn(g)}
    BY <1>1, <2>2, ListReads
  <2> QED
    BY <2>1, <2>2, <2>3
<1>5. CASE "N4" \in DOMAIN room /\ type = "N4"
  <2>1. Is4(m, f)
    BY <1>5, SetOf4
  <2>2. PICK bs, cs : Lists(bs, cs, f) /\ Len(bs) <= Full4 /\ m = N4Of(bs, cs)
    BY <2>1 DEF Is4
  <2>3. ClassBetween(m, from, to) = A!K4!getChildren(m, from, to)
    BY <1>2, <1>5 DEF ClassBetween
  <2>4. IsListOf(A!K4!getChildren(m, from, to), Within(f, from, to))
    BY <1>1, <1>2, <2>2, ListIn4
  <2> QED
    BY <1>4, <2>3, <2>4
<1>6. CASE type \in Arrays(room)
  <2>1. BytesHalve /\ type # "N4" /\ type # "N256"
    BY <1>6, ArrayKinds
  <2>2. PICK bs, cs : Lists(bs, cs, f) /\ Len(bs) <= room[type] /\ m = ArrayOf(type, bs, cs)
    BY <1>6, SetOfArray DEF IsArray
  <2>3. ClassBetween(m, from, to) = A!K16!getChildren(m, from, to)
    BY <1>2, <2>1 DEF ClassBetween
  <2>4. A!K16!Pairs(m) = PairUp(bs, cs)
    BY <1>2, <2>1, <2>2, PairsInArray
  <2> QED
    BY <1>2, <2>1, <2>2, <2>3, <2>4, ListInArray
<1>7. CASE type = "N256"
  <2>1. m.children = f
    BY <1>7, SetOf256 DEF Is256, N256Of
  <2>2. ClassBetween(m, from, to) = A!K256!getChildren(m, from, to)
    BY <1>2, <1>7 DEF ClassBetween
  <2>3. to \in Int /\ from <= to + 1
    BY <1>3
  <2>4. IsListOf(A!K256!getChildren(m, from, to), Within(f, from, to))
    BY <1>1, <1>2, <1>3, <2>1, <2>3, ListIn256
  <2> QED
    BY <1>4, <2>2, <2>4
<1> QED
  BY <1>5, <1>6, <1>7, Kinds

(* The first leaf of a list, or else one of its elements.                  *)
LEMMA AnyInList ==
  ASSUME BytesFit, NEW f \in Maps, NEW list, IsListOf(list, f), PresentIn(f) # {},
         NEW leaves, leaves = {i \in DOMAIN list : list[i][2] \in Leaves}
  PROVE  /\ Len(list) \in Nat /\ Len(list) >= 1 /\ DOMAIN list = 1..Len(list)
         /\ \A last \in DOMAIN list :
              LET any == list[IF leaves # {} THEN Min(leaves) ELSE last]
              IN  /\ any[2] = f[any[1]]
                  /\ (\E b \in PresentIn(f) : f[b] \in Leaves) => any[2] \in Leaves
<1>1. A!null \notin TinyPtrs
  BY DEF BytesFit
<1>2. PICK bs, cs : Lists(bs, cs, f) /\ list = PairUp(bs, cs)
  BY DEF IsListOf
<1>3. /\ Len(list) = Len(bs) /\ Len(bs) \in Nat /\ DOMAIN list = 1..Len(bs)
      /\ \A i \in 1..Len(bs) : list[i] = <<bs[i], cs[i]>>
  BY <1>1, <1>2, PairUpIs, LenProperties
<1>4. /\ \A i \in 1..Len(bs) : cs[i] = f[bs[i]]
      /\ \A b \in PresentIn(f) : \E i \in 1..Len(bs) : bs[i] = b
  BY <1>1, <1>2, ListsBasics
<1>5. Len(bs) >= 1
  BY <1>3, <1>4
<1>6. \A i \in DOMAIN list : list[i][2] = f[list[i][1]]
  BY <1>3, <1>4
<1>7. leaves # {} => Min(leaves) \in leaves
  <2>1. leaves \in SUBSET Nat
    BY <1>3
  <2> QED
    BY <2>1, MinOf
<1>8. (\E b \in PresentIn(f) : f[b] \in Leaves) => leaves # {}
  <2>1. \A i \in 1..Len(bs) : list[i][2] = f[bs[i]]
    BY <1>3, <1>4
  <2> QED
    BY <1>3, <1>4, <2>1
<1>9. ASSUME NEW last \in DOMAIN list
      PROVE  LET any == list[IF leaves # {} THEN Min(leaves) ELSE last]
             IN  /\ any[2] = f[any[1]]
                 /\ (\E b \in PresentIn(f) : f[b] \in Leaves) => any[2] \in Leaves
  <2>1. CASE leaves # {}
    <3>1. Min(leaves) \in DOMAIN list /\ list[Min(leaves)][2] \in Leaves
      BY <1>7, <2>1
    <3> QED
      BY <1>6, <2>1, <3>1
  <2>2. CASE leaves = {}
    BY <1>6, <1>8, <2>2
  <2> QED
    BY <2>1, <2>2
<1> QED
  BY <1>3, <1>5, <1>9

\* getAnyChild gives a child, and a leaf if there is one, for whatever class.
LEMMA AnyHolds ==
  ASSUME NEW room, Fits(room), NEW type, NEW m, NEW f, HoldsAs(room, type, m, f),
         PresentIn(f) # {}
  PROVE  /\ ClassAny(m)[2] = f[ClassAny(m)[1]]
         /\ (\E b \in PresentIn(f) : f[b] \in Leaves) => ClassAny(m)[2] \in Leaves
<1>1. BytesFit /\ A!null \notin TinyPtrs
  BY DEF Fits, BytesFit
<1>2. f \in Maps /\ m.type = type
  BY Kinds
<1>3. PICK list : list = ClassPairs(m) /\ IsListOf(list, f)
  BY PairsHold
<1>4. PICK leaves : leaves = {i \in DOMAIN list : list[i][2] \in Leaves}
  OBVIOUS
<1>5. /\ Len(list) \in Nat /\ Len(list) >= 1 /\ DOMAIN list = 1..Len(list)
      /\ \A last \in DOMAIN list :
           LET any == list[IF leaves # {} THEN Min(leaves) ELSE last]
           IN  /\ any[2] = f[any[1]]
               /\ (\E b \in PresentIn(f) : f[b] \in Leaves) => any[2] \in Leaves
  <2>1. IsListOf(list, f) /\ f \in Maps
    BY <1>2, <1>3
  <2> QED
    BY <1>1, <1>4, <2>1, AnyInList
<1>6. \E last \in DOMAIN list :
         ClassAny(m) = list[IF leaves # {} THEN Min(leaves) ELSE last]
  <2>1. 1 \in DOMAIN list /\ Len(list) \in DOMAIN list
    BY <1>5
  <2>2. CASE "N4" \in DOMAIN room /\ type = "N4"
    <3>1. ClassAny(m) = A!K4!getAnyChild(m) /\ list = A!K4!Pairs(m)
      BY <1>2, <1>3, <2>2 DEF ClassAny, ClassPairs
    <3>2. DOMAIN list = 1..m.count /\ \A i \in 1..m.count : list[i][2] = m.children[i]
      BY <3>1 DEF A!K4!Pairs
    <3>3. {i \in 1..m.count : m.children[i] \in Leaves} = leaves
      BY <1>4, <3>2
    <3>4. ClassAny(m) = list[IF leaves # {} THEN Min(leaves) ELSE m.count]
      BY <1>4, <3>1, <3>3 DEF A!K4!getAnyChild, A!K4!Min, Min
    <3>5. m.count \in DOMAIN list
      <4>1. PICK bs, cs : m = N4Of(bs, cs) /\ Lists(bs, cs, f)
        BY <2>2, SetOf4 DEF Is4
      <4>2. m.count = Len(bs) /\ Len(bs) \in Nat
        BY <1>1, <1>2, <4>1, ListsBasics DEF N4Of
      <4> QED
        BY <2>1, <3>2, <4>2
    <3> QED
      BY <3>4, <3>5
  <2>3. CASE type \in Arrays(room)
    <3>1. ClassAny(m) = A!K16!getAnyChild(m) /\ list = A!K16!Pairs(m)
      BY <1>2, <1>3, <2>3, ArrayKinds DEF ClassAny, ClassPairs
    <3>2. DOMAIN list = 1..m.count /\ \A i \in 1..m.count : list[i][2] = m.children[i]
      BY <3>1 DEF A!K16!Pairs
    <3>3. {i \in 1..m.count : m.children[i] \in Leaves} = leaves
      BY <1>4, <3>2
    <3>4. ClassAny(m) = list[IF leaves # {} THEN Min(leaves) ELSE 1]
      BY <3>1, <3>3 DEF A!K16!getAnyChild, A!K16!Min, Min
    <3> QED
      BY <2>1, <3>4
  <2>4. CASE type = "N256"
    <3>1. ClassAny(m) = A!K256!getAnyChild(m) /\ list = A!K256!Pairs(m)
      BY <1>2, <1>3, <2>4 DEF ClassAny, ClassPairs
    <3>2. ClassAny(m) = list[IF leaves # {} THEN Min(leaves) ELSE Len(list)]
      BY <1>4, <3>1 DEF A!K256!getAnyChild, A!K256!Min, Min
    <3> QED
      BY <2>1, <3>2
  <2> QED
    BY <2>2, <2>3, <2>4, Kinds
<1>7. PICK last \in DOMAIN list :
         ClassAny(m) = list[IF leaves # {} THEN Min(leaves) ELSE last]
  BY <1>6
<1> QED
  BY <1>5, <1>7

-----------------------------------------------------------------------------
(* The copies of the classes are the same but for the numbers of children. *)
Rooms == [type \in {"N4", "N16"} |-> IF type = "N4" THEN Full4 ELSE Full16]
Rooms64 == [type \in {"N16", "N64"} |-> IF type = "N16" THEN Room16 ELSE Room64]
Rooms256 == [type \in {} |-> 0]

\* N16 and N64 of the copies insert alike, but for their room.
LEMMA SameArray ==
  ASSUME NEW m, NEW b, NEW c
  PROVE  /\ A!K16!insert(m, b, c) = ArrayInsert(Full16, m, b, c)
         /\ A64!K16!insert(m, b, c) = ArrayInsert(Room16, m, b, c)
BY DEF ArrayInsert, InsertAt, A!K16!insert, A!K16!InsertAt, A!K16!isFull,
       A64!K16!insert, A64!K16!InsertAt, A64!K16!isFull, A64!K16!InsertPos, A!K16!InsertPos,
       A64!K16!flipSign, A!K16!flipSign, A64!K16!Signed, A!K16!Signed, A64!K16!Min, A!K16!Min

(* Looking from the front for the first greater byte finds the same place. *)
LEMMA SameArray64 ==
  ASSUME NEW m, NEW b, NEW c
  PROVE  A64!K64!insert(m, b, c) = ArrayInsert(Room64, m, b, c)
<1>1. PICK s : s = A!K16!flipSign(b)
  OBVIOUS
<1>2. A64!K64!flipSign(b) = s /\ \A x : A64!K64!Signed(x) = A!K16!Signed(x)
  BY <1>1 DEF A64!K64!flipSign, A!K16!flipSign, A64!K64!Signed, A!K16!Signed
<1>3. {i \in 1..m.count : A64!K64!Signed(m.keys[i]) > A64!K64!Signed(s)}
        = {i \in 1..m.count : A!K16!Signed(s) < A!K16!Signed(m.keys[i])}
  BY <1>2
<1>4. A64!K64!Min({i \in 1..m.count : A64!K64!Signed(m.keys[i]) > A64!K64!Signed(s)}
                    \cup {m.count + 1}) = A!K16!InsertPos(m, s)
  BY <1>3 DEF A!K16!InsertPos, A64!K64!Min, A!K16!Min
<1> QED
  BY <1>1, <1>2, <1>4 DEF ArrayInsert, InsertAt, A64!K64!insert, A64!K64!InsertAt, A64!K64!isFull

\* They are read alike.
LEMMA SameReading ==
  ASSUME NEW m, NEW b, NEW c
  PROVE  /\ A64!K16!Pairs(m) = A!K16!Pairs(m) /\ A64!K64!Pairs(m) = A!K16!Pairs(m)
         /\ A64!K16!getChildPos(m, b) = A!K16!getChildPos(m, b)
         /\ A64!K64!getChildPos(m, b) = A!K16!getChildPos(m, b)
BY DEF A64!K16!Pairs, A64!K64!Pairs, A!K16!Pairs, A64!K16!flipSign, A64!K64!flipSign,
       A!K16!flipSign, A64!K16!getChildPos, A64!K64!getChildPos, A!K16!getChildPos,
       A64!K16!Min, A64!K64!Min, A!K16!Min

\* They change, remove and list alike.
LEMMA SameOthers ==
  ASSUME NEW m, NEW b, NEW c
  PROVE  /\ A64!K16!change(m, b, c) = A!K16!change(m, b, c)
         /\ A64!K64!change(m, b, c) = A!K16!change(m, b, c)
         /\ A64!K16!remove(m, b) = A!K16!remove(m, b)
         /\ A64!K64!remove(m, b) = A!K16!remove(m, b)
         /\ A64!K16!getChild(m, b) = A!K16!getChild(m, b)
         /\ A64!K64!getChild(m, b) = A!K16!getChild(m, b)
         /\ A64!K16!getChildren(m, b, c) = A!K16!getChildren(m, b, c)
         /\ A64!K64!getChildren(m, b, c) = A!K16!getChildren(m, b, c)
<1>1. \A x : /\ A64!K16!getChildPos(m, x) = A!K16!getChildPos(m, x)
             /\ A64!K64!getChildPos(m, x) = A!K16!getChildPos(m, x)
  BY SameReading
<1>2. A64!K16!Pairs(m) = A!K16!Pairs(m) /\ A64!K64!Pairs(m) = A!K16!Pairs(m)
  BY SameReading
<1>3. /\ A64!K16!change(m, b, c) = A!K16!change(m, b, c)
      /\ A64!K64!change(m, b, c) = A!K16!change(m, b, c)
  BY <1>1 DEF A64!K16!change, A64!K64!change, A!K16!change
<1>4. /\ A64!K16!remove(m, b) = A!K16!remove(m, b)
      /\ A64!K64!remove(m, b) = A!K16!remove(m, b)
  BY <1>1 DEF A64!K16!remove, A64!K64!remove, A!K16!remove, A64!K16!RemoveAt, A64!K64!RemoveAt,
              A!K16!RemoveAt
<1>5. /\ A64!K16!getChild(m, b) = A!K16!getChild(m, b)
      /\ A64!K64!getChild(m, b) = A!K16!getChild(m, b)
  BY <1>1 DEF A64!K16!getChild, A64!K64!getChild, A!K16!getChild, A64!null, A!null
<1>6. /\ A64!K16!getChildren(m, b, c) = A!K16!getChildren(m, b, c)
      /\ A64!K64!getChildren(m, b, c) = A!K16!getChildren(m, b, c)
  BY <1>1, <1>2 DEF A64!K16!getChildren, A64!K64!getChildren, A!K16!getChildren
<1> QED
  BY <1>3, <1>4, <1>5, <1>6

\* They pick a child alike.
LEMMA SameAny ==
  ASSUME NEW m
  PROVE  /\ A64!K16!getAnyChild(m) = A!K16!getAnyChild(m)
         /\ A64!K64!getAnyChild(m) = A!K16!getAnyChild(m)
<1>1. A64!K16!Pairs(m) = A!K16!Pairs(m) /\ A64!K64!Pairs(m) = A!K16!Pairs(m)
  BY SameReading
<1> QED
  BY <1>1 DEF A64!K16!getAnyChild, A64!K64!getAnyChild, A!K16!getAnyChild, A64!K16!Min,
              A64!K64!Min, A!K16!Min

\* The tables of the three copies are changed alike.
LEMMA Same256 ==
  ASSUME NEW m, NEW b, NEW c
  PROVE  /\ A64!K256!insert(m, b, c) = A!K256!insert(m, b, c)
         /\ A256!K256!insert(m, b, c) = A!K256!insert(m, b, c)
         /\ A64!K256!change(m, b, c) = A!K256!change(m, b, c)
         /\ A256!K256!change(m, b, c) = A!K256!change(m, b, c)
         /\ A64!K256!remove(m, b) = A!K256!remove(m, b)
         /\ A256!K256!remove(m, b) = A!K256!remove(m, b)
         /\ A64!K256!getChild(m, b) = A!K256!getChild(m, b)
         /\ A256!K256!getChild(m, b) = A!K256!getChild(m, b)
         /\ A64!K256!Create = A!K256!Create /\ A256!K256!Create = A!K256!Create
BY DEF A64!K256!insert, A256!K256!insert, A!K256!insert, A64!K256!change, A256!K256!change,
       A!K256!change, A64!K256!remove, A256!K256!remove, A!K256!remove, A64!K256!getChild,
       A256!K256!getChild, A!K256!getChild, A64!K256!Create, A256!K256!Create, A!K256!Create,
       A64!K256!Byte, A256!K256!Byte, A!K256!Byte, A64!null, A256!null, A!null

\* They are listed alike.
LEMMA SameLists256 ==
  ASSUME NEW m
  PROVE  /\ \A start, end :
              /\ A64!K256!getChildren(m, start, end) = A!K256!getChildren(m, start, end)
              /\ A256!K256!getChildren(m, start, end) = A!K256!getChildren(m, start, end)
         /\ A64!K256!Pairs(m) = A!K256!Pairs(m) /\ A256!K256!Pairs(m) = A!K256!Pairs(m)
         /\ A64!K256!getAnyChild(m) = A!K256!getAnyChild(m)
         /\ A256!K256!getAnyChild(m) = A!K256!getAnyChild(m)
<1>1. \A start, end : A64!K256!getChildren(m, start, end) = A!K256!getChildren(m, start, end)
  BY DEF A64!K256!getChildren, A64!K256!FoldLeft, A64!K256!MapThenFoldSet, A64!K256!Max,
         A64!null, A!null, A!K256!getChildren, A!K256!FoldLeft, A!K256!MapThenFoldSet, A!K256!Max
<1>2. \A start, end : A256!K256!getChildren(m, start, end) = A!K256!getChildren(m, start, end)
  BY DEF A256!K256!getChildren, A256!K256!FoldLeft, A256!K256!MapThenFoldSet, A256!K256!Max,
         A256!null, A!null, A!K256!getChildren, A!K256!FoldLeft, A!K256!MapThenFoldSet, A!K256!Max
<1>3. A64!K256!Pairs(m) = A!K256!Pairs(m) /\ A256!K256!Pairs(m) = A!K256!Pairs(m)
  BY <1>1, <1>2 DEF A64!K256!Pairs, A256!K256!Pairs, A!K256!Pairs
<1>4. /\ A64!K256!getAnyChild(m) = A!K256!getAnyChild(m)
      /\ A256!K256!getAnyChild(m) = A!K256!getAnyChild(m)
  BY <1>3 DEF A64!K256!getAnyChild, A256!K256!getAnyChild, A!K256!getAnyChild, A64!K256!Min,
              A256!K256!Min, A!K256!Min
<1> QED
  BY <1>1, <1>2, <1>3, <1>4

\* The dispatch by type of tiny_art comes to the class's operation.
LEMMA SameClasses ==
  ASSUME NEW m, m.type \in {"N4", "N16", "N256"}
  PROVE  /\ \A b, c : /\ A!insert(m, b, c) = ClassInsert(Rooms, m, b, c)
                      /\ A!change(m, b, c) = ClassChange(m, b, c)
                      /\ A!remove(m, b) = ClassRemove(m, b)
                      /\ A!getChild(m, b) = ClassChild(m, b)
                      /\ A!getChildren(m, b, c) = ClassBetween(m, b, c)
         /\ A!Pairs(m) = ClassPairs(m) /\ A!getAnyChild(m) = ClassAny(m)
<1>1. Rooms["N16"] = Full16
  BY DEF Rooms
<1>2. \A b, c : A!insert(m, b, c) = ClassInsert(Rooms, m, b, c)
  BY <1>1, SameArray DEF A!insert, ClassInsert, A!Is
<1>3. \A b, c : /\ A!change(m, b, c) = ClassChange(m, b, c)
                /\ A!remove(m, b) = ClassRemove(m, b)
  BY DEF A!change, ClassChange, A!remove, ClassRemove, A!Is
<1>4. \A b, c : /\ A!getChild(m, b) = ClassChild(m, b)
                /\ A!getChildren(m, b, c) = ClassBetween(m, b, c)
  BY DEF A!getChild, ClassChild, A!getChildren, ClassBetween, A!Is
<1>5. A!Pairs(m) = ClassPairs(m) /\ A!getAnyChild(m) = ClassAny(m)
  BY DEF A!Pairs, ClassPairs, A!getAnyChild, ClassAny, A!Is
<1> QED
  BY <1>2, <1>3, <1>4, <1>5

\* So does that of tiny_art_64.
LEMMA SameClasses64 ==
  ASSUME NEW m, m.type \in {"N16", "N64", "N256"}
  PROVE  /\ \A b, c : /\ A64!insert(m, b, c) = ClassInsert(Rooms64, m, b, c)
                      /\ A64!change(m, b, c) = ClassChange(m, b, c)
                      /\ A64!remove(m, b) = ClassRemove(m, b)
                      /\ A64!getChild(m, b) = ClassChild(m, b)
                      /\ A64!getChildren(m, b, c) = ClassBetween(m, b, c)
         /\ A64!Pairs(m) = ClassPairs(m) /\ A64!getAnyChild(m) = ClassAny(m)
<1>1. Rooms64["N16"] = Room16 /\ Rooms64["N64"] = Room64
  BY DEF Rooms64
<1>2. \A b, c : A64!insert(m, b, c) = ClassInsert(Rooms64, m, b, c)
  BY <1>1, SameArray, SameArray64, Same256 DEF A64!insert, ClassInsert, A64!Is
<1>3. \A b, c : /\ A64!change(m, b, c) = ClassChange(m, b, c)
                /\ A64!remove(m, b) = ClassRemove(m, b)
  BY SameOthers, Same256 DEF A64!change, ClassChange, A64!remove, ClassRemove, A64!Is
<1>4. \A b, c : /\ A64!getChild(m, b) = ClassChild(m, b)
                /\ A64!getChildren(m, b, c) = ClassBetween(m, b, c)
  BY SameOthers, Same256, SameLists256
     DEF A64!getChild, ClassChild, A64!getChildren, ClassBetween, A64!Is
<1>5. A64!Pairs(m) = ClassPairs(m) /\ A64!getAnyChild(m) = ClassAny(m)
  BY SameReading, SameAny, SameLists256
     DEF A64!Pairs, ClassPairs, A64!getAnyChild, ClassAny, A64!Is
<1> QED
  BY <1>2, <1>3, <1>4, <1>5

\* tiny_art_256 has but one class.
LEMMA SameClasses256 ==
  ASSUME NEW m, m.type = "N256"
  PROVE  /\ \A b, c : /\ A256!insert(m, b, c) = ClassInsert(Rooms256, m, b, c)
                      /\ A256!change(m, b, c) = ClassChange(m, b, c)
                      /\ A256!remove(m, b) = ClassRemove(m, b)
                      /\ A256!getChild(m, b) = ClassChild(m, b)
                      /\ A256!getChildren(m, b, c) = ClassBetween(m, b, c)
         /\ A256!K256!Pairs(m) = ClassPairs(m) /\ A256!getAnyChild(m) = ClassAny(m)
BY Same256, SameLists256
   DEF A256!insert, ClassInsert, A256!change, ClassChange, A256!remove, ClassRemove,
       A256!getChild, ClassChild, A256!getChildren, ClassBetween, ClassPairs,
       A256!getAnyChild, ClassAny

-----------------------------------------------------------------------------
(* The node of tiny_art holds the children at every moment.                *)
NodeInv == Holds(Rooms, n, children) /\ hasParent \in BOOLEAN

\* The sizes of the classes of tiny_art are such as the lemmas about classes ask for.
LEMMA Fit ==
  ASSUME A!SizesFit
  PROVE  /\ Base \in Nat /\ Full4 \in Nat /\ Full16 \in Nat /\ Under16 \in Nat /\ Under256 \in Nat
         /\ Full4 < Full16 /\ Full16 < Base /\ Under16 <= Full4 /\ 0 < Under256 /\ Under256 <= Full16
         /\ Fits(Rooms) /\ BytesFit
         /\ DOMAIN Rooms = {"N4", "N16"}
         /\ Capacity(Rooms, "N4") = Full4 /\ Capacity(Rooms, "N16") = Full16
         /\ Capacity(Rooms, "N256") = Base
<1>1. /\ Base \in Nat /\ Full4 \in Nat /\ Full16 \in Nat /\ Under16 \in Nat /\ Under256 \in Nat
      /\ Full4 < Full16 /\ Full16 < Base /\ Under16 <= Full4 /\ 0 < Under256 /\ Under256 <= Full16
      /\ A!null \notin TinyPtrs /\ Base = 2 * (Base \div 2)
  BY DEF A!SizesFit, TinyPtrs
<1>2. BytesFit /\ BytesHalve
  BY <1>1 DEF BytesFit, BytesHalve
<1>3. /\ DOMAIN Rooms = {"N4", "N16"} /\ Rooms["N4"] = Full4 /\ Rooms["N16"] = Full16
  BY DEF Rooms
<1>4. Fits(Rooms)
  BY <1>1, <1>2, <1>3 DEF Fits
<1> QED
  BY <1>1, <1>2, <1>3, <1>4 DEF Capacity

\* What the invariant says of the node.
LEMMA NodeHolds ==
  ASSUME A!SizesFit, NodeInv
  PROVE  /\ HoldsAs(Rooms, n.type, n, children) /\ children \in Maps
         /\ n.type \in {"N4", "N16", "N256"}
         /\ A!Life!Present = PresentIn(children) /\ A!Life!Byte = Byte
<1>1. HoldsAs(Rooms, n.type, n, children)
  BY DEF NodeInv, Holds
<1>2. children \in Maps
  BY <1>1, Kinds
<1>3. n.type \in {"N4", "N16", "N256"}
  BY <1>1, Fit, Kinds DEF Arrays
<1> QED
  BY <1>1, <1>2, <1>3 DEF A!Life!Present, A!Life!Byte, PresentIn, Byte

\* A new node holds nothing.
LEMMA Created ==
  ASSUME A!SizesFit
  PROVE  /\ HoldsAs(Rooms, "N4", A!K4!Create, Nothing)
         /\ HoldsAs(Rooms, "N16", A!K16!Create, Nothing)
         /\ HoldsAs(Rooms, "N256", A!K256!Create, Nothing)
<1>1. Fits(Rooms) /\ DOMAIN Rooms = {"N4", "N16"}
  BY Fit
<1>2. HoldsAs(Rooms, "N4", A!K4!Create, Nothing)
  <2>1. Len(<<>>) = 0
    OBVIOUS
  <2>2. A!K4!Create = N4Of(<<>>, <<>>)
    BY <2>1 DEF A!K4!Create, N4Of
  <2> QED
    BY <1>1, <2>2, CreateHolds
<1>3. HoldsAs(Rooms, "N16", A!K16!Create, Nothing)
  BY <1>1, CreateHolds DEF A!K16!Create, Arrays
<1>4. HoldsAs(Rooms, "N256", A!K256!Create, Nothing)
  BY <1>1, CreateHolds
<1> QED
  BY <1>2, <1>3, <1>4

\* The invariant holds of a new node.
LEMMA NodeInit == ASSUME A!SizesFit, A!Life!Init PROVE NodeInv
<1>1. /\ hasParent \in BOOLEAN /\ children = Nothing
      /\ n = IF hasParent THEN A!K4!Create ELSE A!K256!Create
  BY DEF A!Life!Init, A!Life!Byte, Nothing, Byte
<1>2. HoldsAs(Rooms, "N4", A!K4!Create, Nothing) /\ HoldsAs(Rooms, "N256", A!K256!Create, Nothing)
  BY Created
<1>3. Holds(Rooms, n, children)
  BY <1>1, <1>2, Kinds
<1> QED
  BY <1>1, <1>3 DEF NodeInv

(* A node that is replaced is copied into an empty one.                    *)
LEMMA Copied ==
  ASSUME A!SizesFit, NodeInv, NEW kind \in {"N4", "N16", "N256"}, NEW other,
         HoldsAs(Rooms, kind, other, Nothing),
         Cardinality(PresentIn(children)) <= Capacity(Rooms, kind)
  PROVE  HoldsAs(Rooms, kind, A!Life!copyTo(n, other), children)
<1>1. /\ HoldsAs(Rooms, n.type, n, children) /\ children \in Maps
      /\ n.type \in {"N4", "N16", "N256"} /\ Fits(Rooms)
  BY NodeHolds, Fit
<1>2. PICK list : list = A!Pairs(n)
  OBVIOUS
<1>3. IsListOf(list, children)
  BY <1>1, <1>2, SameClasses, PairsHold
<1>4. PICK size \in Nat : DOMAIN list = 1..size
  <2>1. PICK bs, cs : Lists(bs, cs, children) /\ list = PairUp(bs, cs)
    BY <1>3 DEF IsListOf
  <2>2. Len(bs) \in Nat
    BY <2>1, LenProperties DEF Lists
  <2> QED
    BY <2>1, <2>2 DEF PairUp
<1>5. PICK run : /\ IsRun("copy", A!null, A!null, other, list, size, run)
                 /\ A!Life!copyTo(n, other) = run[size]
  BY <1>2, <1>4, CopyRuns
<1>6. \A x, b, c : x.type = kind => Put("copy", x, b, c) = ClassInsert(Rooms, x, b, c)
  BY SameClasses DEF Put
<1>7. HoldsAs(Rooms, kind, run[size], children)
  BY <1>1, <1>3, <1>4, <1>5, <1>6, CopyRunHolds
<1> QED
  BY <1>5, <1>7

\* A full node is copied to a class with room for all its children and one more.
LEMMA InsertGrowStep ==
  ASSUME A!SizesFit, NodeInv, NEW b \in Byte, NEW c \in TinyPtrs, A!Life!insertGrow(b, c)
  PROVE  NodeInv'
<1>1. /\ Base \in Nat /\ Full4 \in Nat /\ Full16 \in Nat /\ Full4 < Full16 /\ Full16 < Base
      /\ Fits(Rooms) /\ BytesFit
      /\ Capacity(Rooms, "N4") = Full4 /\ Capacity(Rooms, "N16") = Full16
      /\ Capacity(Rooms, "N256") = Base
  BY Fit
<1>2. /\ HoldsAs(Rooms, n.type, n, children) /\ children \in Maps
      /\ n.type \in {"N4", "N16", "N256"} /\ A!Life!Present = PresentIn(children)
  BY NodeHolds
<1>3. /\ b \notin PresentIn(children) /\ children' = [children EXCEPT ![b] = c]
      /\ n' = IF ~A!isFull(n) THEN A!insert(n, b, c)
              ELSE A!insert(A!Life!copyTo(n, A!bigger(n)), b, c)
      /\ hasParent' = hasParent
  BY <1>2 DEF A!Life!insertGrow
<1>4. children[b] = A!null
  BY <1>3 DEF PresentIn
<1>5. PICK k \in Nat : /\ k = Cardinality(PresentIn(children))
                       /\ k <= Capacity(Rooms, n.type) /\ (n.type # "N256" => n.count = k)
  BY <1>1, <1>2, HoldsCount
<1>6. CASE ~A!isFull(n)
  <2>1. k < Capacity(Rooms, n.type)
    <3>1. CASE n.type = "N4"
      BY <1>1, <1>5, <1>6, <3>1 DEF A!isFull, A!Is, A!K4!isFull
    <3>2. CASE n.type = "N16"
      BY <1>1, <1>5, <1>6, <3>2 DEF A!isFull, A!Is, A!K16!isFull
    <3>3. CASE n.type = "N256"
      <4>1. k < Base
        BY <1>1, <1>2, <1>4, <1>5, CountOf
      <4> QED
        BY <1>1, <3>3, <4>1
    <3> QED
      BY <1>2, <3>1, <3>2, <3>3
  <2>2. HoldsAs(Rooms, n.type, ClassInsert(Rooms, n, b, c), [children EXCEPT ![b] = c])
    BY <1>1, <1>2, <1>4, <1>5, <2>1, InsertHolds
  <2>3. n' = ClassInsert(Rooms, n, b, c)
    BY <1>2, <1>3, <1>6, SameClasses
  <2>4. Holds(Rooms, n', children')
    BY <1>3, <2>2, <2>3, Kinds
  <2> QED
    BY <1>3, <2>4 DEF NodeInv
<1>7. CASE A!isFull(n)
  <2>1. n.type # "N256"
    BY <1>7 DEF A!isFull, A!Is, A!K256!isFull
  <2>2. PICK kind \in {"N4", "N16", "N256"} :
           HoldsAs(Rooms, kind, A!bigger(n), Nothing) /\ k < Capacity(Rooms, kind)
    <3>1. CASE n.type = "N4"
      <4>1. HoldsAs(Rooms, "N16", A!bigger(n), Nothing)
        BY <3>1, Created DEF A!bigger, A!Is
      <4>2. k < Capacity(Rooms, "N16")
        BY <1>1, <1>5, <3>1
      <4> QED
        BY <4>1, <4>2
    <3>2. CASE n.type = "N16"
      <4>1. HoldsAs(Rooms, "N256", A!bigger(n), Nothing)
        BY <3>2, Created DEF A!bigger, A!Is
      <4>2. k < Capacity(Rooms, "N256")
        BY <1>1, <1>5, <3>2
      <4> QED
        BY <4>1, <4>2
    <3> QED
      BY <1>2, <2>1, <3>1, <3>2
  <2>3. Capacity(Rooms, kind) \in Nat
    BY <1>1
  <2>4. PICK m : m = A!Life!copyTo(n, A!bigger(n))
    OBVIOUS
  <2>5. HoldsAs(Rooms, kind, m, children)
    BY <1>5, <2>2, <2>3, <2>4, Copied
  <2>6. HoldsAs(Rooms, kind, ClassInsert(Rooms, m, b, c), [children EXCEPT ![b] = c])
    BY <1>1, <1>4, <1>5, <2>2, <2>5, InsertHolds
  <2>7. m.type = kind
    BY <2>5, Kinds
  <2>8. n' = ClassInsert(Rooms, m, b, c)
    BY <1>3, <1>7, <2>4, <2>7, SameClasses
  <2>9. Holds(Rooms, n', children')
    BY <1>3, <2>6, <2>8, Kinds
  <2> QED
    BY <1>3, <2>9 DEF NodeInv
<1> QED
  BY <1>6, <1>7

\* A child put in the place of another.
LEMMA ChangeStep ==
  ASSUME A!SizesFit, NodeInv, NEW b \in Byte, NEW c \in TinyPtrs, A!Life!Change(b, c)
  PROVE  NodeInv'
<1>1. /\ HoldsAs(Rooms, n.type, n, children) /\ A!Life!Present = PresentIn(children)
      /\ n.type \in {"N4", "N16", "N256"} /\ Fits(Rooms)
  BY NodeHolds, Fit
<1>2. /\ b \in PresentIn(children) /\ n' = ClassChange(n, b, c)
      /\ children' = [children EXCEPT ![b] = c] /\ hasParent' = hasParent
  BY <1>1, SameClasses DEF A!Life!Change
<1>3. HoldsAs(Rooms, n.type, ClassChange(n, b, c), [children EXCEPT ![b] = c])
  BY <1>1, <1>2, ChangeHolds
<1>4. Holds(Rooms, n', children')
  BY <1>2, <1>3, Kinds
<1> QED
  BY <1>2, <1>4 DEF NodeInv

\* An underfull node is copied to a class that has room for all its children, the one
\* that is about to be removed included.
LEMMA RemoveAndShrinkStep ==
  ASSUME A!SizesFit, NodeInv, NEW b \in Byte, A!Life!removeAndShrink(b)
  PROVE  NodeInv'
<1>1. /\ Base \in Nat /\ Full4 \in Nat /\ Full16 \in Nat /\ Under16 \in Nat /\ Under256 \in Nat
      /\ Full16 < Base /\ Under16 <= Full4 /\ 0 < Under256 /\ Under256 <= Full16 /\ Fits(Rooms) /\ BytesFit
      /\ Capacity(Rooms, "N4") = Full4 /\ Capacity(Rooms, "N16") = Full16
  BY Fit
<1>2. /\ HoldsAs(Rooms, n.type, n, children) /\ children \in Maps
      /\ n.type \in {"N4", "N16", "N256"} /\ A!Life!Present = PresentIn(children)
  BY NodeHolds
<1>3. /\ b \in PresentIn(children) /\ children' = [children EXCEPT ![b] = A!null]
      /\ n' = IF ~A!isUnderfull(n) \/ ~hasParent THEN A!remove(n, b)
              ELSE A!remove(A!Life!copyTo(n, A!smaller(n)), b)
      /\ hasParent' = hasParent
  BY <1>2 DEF A!Life!removeAndShrink
<1>4. PICK k \in Nat : /\ k = Cardinality(PresentIn(children))
                       /\ n.type # "N256" => n.count = k
                       /\ n.count = k % Base
  BY <1>1, <1>2, HoldsCount
<1>5. CASE ~A!isUnderfull(n) \/ ~hasParent
  <2>1. HoldsAs(Rooms, n.type, ClassRemove(n, b), [children EXCEPT ![b] = A!null])
    BY <1>1, <1>2, <1>3, RemoveHolds
  <2>2. n' = ClassRemove(n, b)
    BY <1>2, <1>3, <1>5, SameClasses
  <2>3. Holds(Rooms, n', children')
    BY <1>3, <2>1, <2>2, Kinds
  <2> QED
    BY <1>3, <2>3 DEF NodeInv
<1>6. CASE A!isUnderfull(n) /\ hasParent
  <2>1. n.type # "N4"
    BY <1>4, <1>6 DEF A!isUnderfull, A!Is, A!K4!isUnderfull
  <2>2. PICK kind \in {"N4", "N16", "N256"} :
           HoldsAs(Rooms, kind, A!smaller(n), Nothing) /\ k <= Capacity(Rooms, kind)
    <3>1. CASE n.type = "N16"
      <4>1. HoldsAs(Rooms, "N4", A!smaller(n), Nothing)
        BY <3>1, Created DEF A!smaller, A!Is
      <4>2. k = Under16
        BY <1>4, <1>6, <3>1 DEF A!isUnderfull, A!Is, A!K16!isUnderfull
      <4> QED
        BY <1>1, <4>1, <4>2
    <3>2. CASE n.type = "N256"
      <4>1. HoldsAs(Rooms, "N16", A!smaller(n), Nothing)
        BY <3>2, Created DEF A!smaller, A!Is
      <4>2. k % Base = Under256
        BY <1>4, <1>6, <3>2 DEF A!isUnderfull, A!Is, A!K256!isUnderfull
      <4>3. k <= Base /\ (k < Base => k % Base = k) /\ (k = Base => k % Base = 0)
        BY <1>1, <1>2, <1>4, CountOf
      <4>4. k <= Capacity(Rooms, "N16")
        BY <1>1, <4>2, <4>3
      <4> QED
        BY <4>1, <4>4
    <3> QED
      BY <1>2, <2>1, <3>1, <3>2
  <2>3. PICK m : m = A!Life!copyTo(n, A!smaller(n))
    OBVIOUS
  <2>4. HoldsAs(Rooms, kind, m, children)
    BY <1>4, <2>2, <2>3, Copied
  <2>5. HoldsAs(Rooms, kind, ClassRemove(m, b), [children EXCEPT ![b] = A!null])
    BY <1>1, <1>3, <2>4, RemoveHolds
  <2>6. m.type = kind
    BY <2>4, Kinds
  <2>7. n' = ClassRemove(m, b)
    BY <1>3, <1>6, <2>3, <2>6, SameClasses
  <2>8. Holds(Rooms, n', children')
    BY <1>3, <2>5, <2>7, Kinds
  <2> QED
    BY <1>3, <2>8 DEF NodeInv
<1> QED
  BY <1>5, <1>6

\* Every step keeps the invariant.
LEMMA NodeStep ==
  ASSUME A!SizesFit, NodeInv, [A!Life!Next]_(A!Life!vars)
  PROVE  NodeInv'
<1>1. CASE A!Life!Next
  <2>1. PICK b \in Byte : \/ \E c \in TinyPtrs : A!Life!insertGrow(b, c) \/ A!Life!Change(b, c)
                          \/ A!Life!removeAndShrink(b)
    BY <1>1 DEF A!Life!Next, A!Life!Byte, Byte, TinyPtrs
  <2>2. CASE \E c \in TinyPtrs : A!Life!insertGrow(b, c)
    BY <2>2, InsertGrowStep
  <2>3. CASE \E c \in TinyPtrs : A!Life!Change(b, c)
    BY <2>3, ChangeStep
  <2>4. CASE A!Life!removeAndShrink(b)
    BY <2>4, RemoveAndShrinkStep
  <2> QED
    BY <2>1, <2>2, <2>3, <2>4
<1>2. CASE UNCHANGED A!Life!vars
  BY <1>2 DEF A!Life!vars, NodeInv, Holds, HoldsAs
<1> QED
  BY <1>1, <1>2

\* What NodeInv says of the fields makes the node read as the map.
LEMMA Reads ==
  ASSUME A!SizesFit, NodeInv
  PROVE  A!Life!ReadsAsMap
<1>1. BytesFit /\ Fits(Rooms)
  BY Fit
<1>2. /\ HoldsAs(Rooms, n.type, n, children) /\ children \in Maps
      /\ n.type \in {"N4", "N16", "N256"}
      /\ A!Life!Present = PresentIn(children) /\ A!Life!Byte = Byte
  BY NodeHolds
<1>3. /\ \A b, c : /\ A!getChild(n, b) = ClassChild(n, b)
                   /\ A!getChildren(n, b, c) = ClassBetween(n, b, c)
      /\ A!Pairs(n) = ClassPairs(n) /\ A!getAnyChild(n) = ClassAny(n)
  BY <1>2, SameClasses
<1>4. \A b \in Byte : A!getChild(n, b) = children[b]
  BY <1>1, <1>2, <1>3, GetChildHolds
<1>5. \A i, j \in DOMAIN A!Pairs(n) : i < j => A!Pairs(n)[i][1] < A!Pairs(n)[j][1]
  <2>1. IsListOf(A!Pairs(n), children)
    BY <1>1, <1>2, <1>3, PairsHold
  <2> QED
    BY <1>1, <1>2, <2>1, ListReads
<1>6. \A from \in PresentIn(children) \cup {0}, to \in PresentIn(children) \cup {Base - 1} :
         from <= to =>
           PairsOf(A!getChildren(n, from, to)) =
             {<<b, children[b]>> : b \in {x \in PresentIn(children) : from <= x /\ x <= to}}
  BY <1>1, <1>2, <1>3, BetweenHolds
<1>7. PresentIn(children) # {} =>
         /\ A!getAnyChild(n)[2] = children[A!getAnyChild(n)[1]]
         /\ (\E b \in PresentIn(children) : children[b] \in Leaves) =>
               A!getAnyChild(n)[2] \in Leaves
  BY <1>1, <1>2, <1>3, AnyHolds
<1> QED
  BY <1>2, <1>4, <1>5, <1>6, <1>7 DEF A!Life!ReadsAsMap, PairsOf

\* Nothing was written past the end, and the count is right.
LEMMA Inside ==
  ASSUME A!SizesFit, NodeInv
  PROVE  A!Life!StaysInside
<1>1. /\ HoldsAs(Rooms, n.type, n, children) /\ A!Life!Present = PresentIn(children)
      /\ Fits(Rooms)
  BY NodeHolds, Fit
<1>2. ~n.overrun
  BY <1>1, HoldsCount
<1>3. n.count = Cardinality(A!Life!Present) % Base
  BY <1>1, HoldsCount
<1> QED
  BY <1>2, <1>3, Zenon DEF A!Life!StaysInside, A!Life!Cardinality, Cardinality

-----------------------------------------------------------------------------
(* The same of the node of tiny_art_64.                                    *)
NodeInv64 == Holds(Rooms64, n, children) /\ hasParent \in BOOLEAN

\* tiny_art_64: the sizes of the classes are such as the lemmas about classes ask for.
LEMMA Fit64 ==
  ASSUME A64!SizesFit
  PROVE  /\ Base \in Nat /\ Room16 \in Nat /\ Room64 \in Nat /\ Least64 \in Nat /\ Least256 \in Nat
         /\ Room16 < Room64 /\ Room64 < Base /\ Least64 <= Room16 /\ 0 < Least256 /\ Least256 <= Room64
         /\ Fits(Rooms64) /\ BytesFit
         /\ DOMAIN Rooms64 = {"N16", "N64"}
         /\ Capacity(Rooms64, "N16") = Room16 /\ Capacity(Rooms64, "N64") = Room64
         /\ Capacity(Rooms64, "N256") = Base
<1>1. /\ Base \in Nat /\ Room16 \in Nat /\ Room64 \in Nat /\ Least64 \in Nat /\ Least256 \in Nat
      /\ Room16 < Room64 /\ Room64 < Base /\ Least64 <= Room16 /\ 0 < Least256 /\ Least256 <= Room64
      /\ A!null \notin TinyPtrs /\ Base = 2 * (Base \div 2)
  BY DEF A64!SizesFit, TinyPtrs, A64!null, A!null
<1>2. BytesFit /\ BytesHalve
  BY <1>1 DEF BytesFit, BytesHalve
<1>3. /\ DOMAIN Rooms64 = {"N16", "N64"} /\ Rooms64["N16"] = Room16 /\ Rooms64["N64"] = Room64
  BY DEF Rooms64
<1>4. Fits(Rooms64)
  BY <1>1, <1>2, <1>3 DEF Fits
<1> QED
  BY <1>1, <1>2, <1>3, <1>4 DEF Capacity

\* tiny_art_64: what the invariant says of the node.
LEMMA NodeHolds64 ==
  ASSUME A64!SizesFit, NodeInv64
  PROVE  /\ HoldsAs(Rooms64, n.type, n, children) /\ children \in Maps
         /\ n.type \in {"N16", "N64", "N256"}
         /\ A64!Life!Present = PresentIn(children) /\ A64!Life!Byte = Byte
<1>1. HoldsAs(Rooms64, n.type, n, children)
  BY DEF NodeInv64, Holds
<1>2. children \in Maps
  BY <1>1, Kinds
<1>3. n.type \in {"N16", "N64", "N256"}
  BY <1>1, Fit64, Kinds DEF Arrays
<1> QED
  BY <1>1, <1>2, <1>3 DEF A64!Life!Present, A64!Life!Byte, PresentIn, Byte, A64!null, A!null

\* tiny_art_64: a new node holds nothing.
LEMMA Created64 ==
  ASSUME A64!SizesFit
  PROVE  /\ HoldsAs(Rooms64, "N16", A64!K16!Create, Nothing)
         /\ HoldsAs(Rooms64, "N64", A64!K64!Create, Nothing)
         /\ HoldsAs(Rooms64, "N256", A64!K256!Create, Nothing)
<1>1. Fits(Rooms64) /\ DOMAIN Rooms64 = {"N16", "N64"}
  BY Fit64
<1>2. HoldsAs(Rooms64, "N16", A64!K16!Create, Nothing)
  BY <1>1, CreateHolds DEF A64!K16!Create, Arrays
<1>3. HoldsAs(Rooms64, "N64", A64!K64!Create, Nothing)
  BY <1>1, CreateHolds DEF A64!K64!Create, Arrays
<1>4. HoldsAs(Rooms64, "N256", A64!K256!Create, Nothing)
  BY <1>1, CreateHolds, Same256
<1> QED
  BY <1>2, <1>3, <1>4

\* tiny_art_64: the invariant holds of a new node.
LEMMA NodeInit64 == ASSUME A64!SizesFit, A64!Life!Init PROVE NodeInv64
<1>1. /\ hasParent \in BOOLEAN /\ children = Nothing
      /\ n = IF hasParent THEN A64!K16!Create ELSE A64!K256!Create
  BY DEF A64!Life!Init, A64!Life!Byte, Nothing, Byte, A64!null, A!null
<1>2. HoldsAs(Rooms64, "N16", A64!K16!Create, Nothing) /\ HoldsAs(Rooms64, "N256", A64!K256!Create, Nothing)
  BY Created64
<1>3. Holds(Rooms64, n, children)
  BY <1>1, <1>2, Kinds
<1> QED
  BY <1>1, <1>3 DEF NodeInv64

(* A node that is replaced is copied into an empty one.                    *)
LEMMA Copied64 ==
  ASSUME A64!SizesFit, NodeInv64, NEW kind \in {"N16", "N64", "N256"}, NEW other,
         HoldsAs(Rooms64, kind, other, Nothing),
         Cardinality(PresentIn(children)) <= Capacity(Rooms64, kind)
  PROVE  HoldsAs(Rooms64, kind, A64!Life!copyTo(n, other), children)
<1>1. /\ HoldsAs(Rooms64, n.type, n, children) /\ children \in Maps
      /\ n.type \in {"N16", "N64", "N256"} /\ Fits(Rooms64)
  BY NodeHolds64, Fit64
<1>2. PICK list : list = A64!Pairs(n)
  OBVIOUS
<1>3. IsListOf(list, children)
  BY <1>1, <1>2, SameClasses64, PairsHold
<1>4. PICK size \in Nat : DOMAIN list = 1..size
  <2>1. PICK bs, cs : Lists(bs, cs, children) /\ list = PairUp(bs, cs)
    BY <1>3 DEF IsListOf
  <2>2. Len(bs) \in Nat
    BY <2>1, LenProperties DEF Lists
  <2> QED
    BY <2>1, <2>2 DEF PairUp
<1>5. PICK run : /\ IsRun("copy64", A!null, A!null, other, list, size, run)
                 /\ A64!Life!copyTo(n, other) = run[size]
  BY <1>2, <1>4, CopyRuns64
<1>6. \A x, b, c : x.type = kind => Put("copy64", x, b, c) = ClassInsert(Rooms64, x, b, c)
  BY SameClasses64 DEF Put
<1>7. HoldsAs(Rooms64, kind, run[size], children)
  BY <1>1, <1>3, <1>4, <1>5, <1>6, CopyRunHolds
<1> QED
  BY <1>5, <1>7

\* tiny_art_64: a full node is copied to a class with room for all its children and one more.
LEMMA InsertGrowStep64 ==
  ASSUME A64!SizesFit, NodeInv64, NEW b \in Byte, NEW c \in TinyPtrs, A64!Life!insertGrow(b, c)
  PROVE  NodeInv64'
<1>1. /\ Base \in Nat /\ Room16 \in Nat /\ Room64 \in Nat /\ Room16 < Room64 /\ Room64 < Base
      /\ Fits(Rooms64) /\ BytesFit
      /\ Capacity(Rooms64, "N16") = Room16 /\ Capacity(Rooms64, "N64") = Room64
      /\ Capacity(Rooms64, "N256") = Base
  BY Fit64
<1>2. /\ HoldsAs(Rooms64, n.type, n, children) /\ children \in Maps
      /\ n.type \in {"N16", "N64", "N256"} /\ A64!Life!Present = PresentIn(children)
  BY NodeHolds64
<1>3. /\ b \notin PresentIn(children) /\ children' = [children EXCEPT ![b] = c]
      /\ n' = IF ~A64!isFull(n) THEN A64!insert(n, b, c)
              ELSE A64!insert(A64!Life!copyTo(n, A64!bigger(n)), b, c)
      /\ hasParent' = hasParent
  BY <1>2 DEF A64!Life!insertGrow
<1>4. children[b] = A!null
  BY <1>3 DEF PresentIn
<1>5. PICK k \in Nat : /\ k = Cardinality(PresentIn(children))
                       /\ k <= Capacity(Rooms64, n.type) /\ (n.type # "N256" => n.count = k)
  BY <1>1, <1>2, HoldsCount
<1>6. CASE ~A64!isFull(n)
  <2>1. k < Capacity(Rooms64, n.type)
    <3>1. CASE n.type = "N16"
      BY <1>1, <1>5, <1>6, <3>1 DEF A64!isFull, A64!Is, A64!K16!isFull
    <3>2. CASE n.type = "N64"
      BY <1>1, <1>5, <1>6, <3>2 DEF A64!isFull, A64!Is, A64!K64!isFull
    <3>3. CASE n.type = "N256"
      <4>1. k < Base
        BY <1>1, <1>2, <1>4, <1>5, CountOf
      <4> QED
        BY <1>1, <3>3, <4>1
    <3> QED
      BY <1>2, <3>1, <3>2, <3>3
  <2>2. HoldsAs(Rooms64, n.type, ClassInsert(Rooms64, n, b, c), [children EXCEPT ![b] = c])
    BY <1>1, <1>2, <1>4, <1>5, <2>1, InsertHolds
  <2>3. n' = ClassInsert(Rooms64, n, b, c)
    BY <1>2, <1>3, <1>6, SameClasses64
  <2>4. Holds(Rooms64, n', children')
    BY <1>3, <2>2, <2>3, Kinds
  <2> QED
    BY <1>3, <2>4 DEF NodeInv64
<1>7. CASE A64!isFull(n)
  <2>1. n.type # "N256"
    BY <1>7 DEF A64!isFull, A64!Is, A64!K256!isFull
  <2>2. PICK kind \in {"N16", "N64", "N256"} :
           HoldsAs(Rooms64, kind, A64!bigger(n), Nothing) /\ k < Capacity(Rooms64, kind)
    <3>1. CASE n.type = "N16"
      <4>1. HoldsAs(Rooms64, "N64", A64!bigger(n), Nothing)
        BY <3>1, Created64 DEF A64!bigger, A64!Is
      <4>2. k < Capacity(Rooms64, "N64")
        BY <1>1, <1>5, <3>1
      <4> QED
        BY <4>1, <4>2
    <3>2. CASE n.type = "N64"
      <4>1. HoldsAs(Rooms64, "N256", A64!bigger(n), Nothing)
        BY <3>2, Created64 DEF A64!bigger, A64!Is
      <4>2. k < Capacity(Rooms64, "N256")
        BY <1>1, <1>5, <3>2
      <4> QED
        BY <4>1, <4>2
    <3> QED
      BY <1>2, <2>1, <3>1, <3>2
  <2>3. Capacity(Rooms64, kind) \in Nat
    BY <1>1
  <2>4. PICK m : m = A64!Life!copyTo(n, A64!bigger(n))
    OBVIOUS
  <2>5. HoldsAs(Rooms64, kind, m, children)
    BY <1>5, <2>2, <2>3, <2>4, Copied64
  <2>6. HoldsAs(Rooms64, kind, ClassInsert(Rooms64, m, b, c), [children EXCEPT ![b] = c])
    BY <1>1, <1>4, <1>5, <2>2, <2>5, InsertHolds
  <2>7. m.type = kind
    BY <2>5, Kinds
  <2>8. n' = ClassInsert(Rooms64, m, b, c)
    BY <1>3, <1>7, <2>4, <2>7, SameClasses64
  <2>9. Holds(Rooms64, n', children')
    BY <1>3, <2>6, <2>8, Kinds
  <2> QED
    BY <1>3, <2>9 DEF NodeInv64
<1> QED
  BY <1>6, <1>7

\* tiny_art_64: a child put in the place of another.
LEMMA ChangeStep64 ==
  ASSUME A64!SizesFit, NodeInv64, NEW b \in Byte, NEW c \in TinyPtrs, A64!Life!Change(b, c)
  PROVE  NodeInv64'
<1>1. /\ HoldsAs(Rooms64, n.type, n, children) /\ A64!Life!Present = PresentIn(children)
      /\ n.type \in {"N16", "N64", "N256"} /\ Fits(Rooms64)
  BY NodeHolds64, Fit64
<1>2. /\ b \in PresentIn(children) /\ n' = ClassChange(n, b, c)
      /\ children' = [children EXCEPT ![b] = c] /\ hasParent' = hasParent
  BY <1>1, SameClasses64 DEF A64!Life!Change
<1>3. HoldsAs(Rooms64, n.type, ClassChange(n, b, c), [children EXCEPT ![b] = c])
  BY <1>1, <1>2, ChangeHolds
<1>4. Holds(Rooms64, n', children')
  BY <1>2, <1>3, Kinds
<1> QED
  BY <1>2, <1>4 DEF NodeInv64

\* tiny_art_64: an underfull node is copied to a class that has room for all its children, the one
\* that is about to be removed included.
LEMMA RemoveAndShrinkStep64 ==
  ASSUME A64!SizesFit, NodeInv64, NEW b \in Byte, A64!Life!removeAndShrink(b)
  PROVE  NodeInv64'
<1>1. /\ Base \in Nat /\ Room16 \in Nat /\ Room64 \in Nat /\ Least64 \in Nat /\ Least256 \in Nat
      /\ Room64 < Base /\ Least64 <= Room16 /\ 0 < Least256 /\ Least256 <= Room64 /\ Fits(Rooms64) /\ BytesFit
      /\ Capacity(Rooms64, "N16") = Room16 /\ Capacity(Rooms64, "N64") = Room64
  BY Fit64
<1>2. /\ HoldsAs(Rooms64, n.type, n, children) /\ children \in Maps
      /\ n.type \in {"N16", "N64", "N256"} /\ A64!Life!Present = PresentIn(children)
  BY NodeHolds64
<1>3. /\ b \in PresentIn(children) /\ children' = [children EXCEPT ![b] = A!null]
      /\ n' = IF ~A64!isUnderfull(n) \/ ~hasParent THEN A64!remove(n, b)
              ELSE A64!remove(A64!Life!copyTo(n, A64!smaller(n)), b)
      /\ hasParent' = hasParent
  BY <1>2 DEF A64!Life!removeAndShrink, A64!null, A!null
<1>4. PICK k \in Nat : /\ k = Cardinality(PresentIn(children))
                       /\ n.type # "N256" => n.count = k
                       /\ n.count = k % Base
  BY <1>1, <1>2, HoldsCount
<1>5. CASE ~A64!isUnderfull(n) \/ ~hasParent
  <2>1. HoldsAs(Rooms64, n.type, ClassRemove(n, b), [children EXCEPT ![b] = A!null])
    BY <1>1, <1>2, <1>3, RemoveHolds
  <2>2. n' = ClassRemove(n, b)
    BY <1>2, <1>3, <1>5, SameClasses64
  <2>3. Holds(Rooms64, n', children')
    BY <1>3, <2>1, <2>2, Kinds
  <2> QED
    BY <1>3, <2>3 DEF NodeInv64
<1>6. CASE A64!isUnderfull(n) /\ hasParent
  <2>1. n.type # "N16"
    <3> SUFFICES ASSUME n.type = "N16" PROVE FALSE
      OBVIOUS
    <3>1. A64!isUnderfull(n) = A64!K16!isUnderfull(n)
      BY Zenon DEF A64!isUnderfull, A64!Is
    <3>2. n.count = -1
      BY <1>6, <3>1 DEF A64!K16!isUnderfull
    <3>3. n.count = k
      BY <1>4
    <3> QED
      BY <3>2, <3>3
  <2>2. PICK kind \in {"N16", "N64", "N256"} :
           HoldsAs(Rooms64, kind, A64!smaller(n), Nothing) /\ k <= Capacity(Rooms64, kind)
    <3>1. CASE n.type = "N64"
      <4>1. HoldsAs(Rooms64, "N16", A64!smaller(n), Nothing)
        BY <3>1, Created64 DEF A64!smaller, A64!Is
      <4>2. k = Least64
        BY <1>4, <1>6, <3>1 DEF A64!isUnderfull, A64!Is, A64!K64!isUnderfull
      <4> QED
        BY <1>1, <4>1, <4>2
    <3>2. CASE n.type = "N256"
      <4>1. HoldsAs(Rooms64, "N64", A64!smaller(n), Nothing)
        BY <3>2, Created64 DEF A64!smaller, A64!Is
      <4>2. k % Base = Least256
        BY <1>4, <1>6, <3>2 DEF A64!isUnderfull, A64!Is, A64!K256!isUnderfull
      <4>3. k <= Base /\ (k < Base => k % Base = k) /\ (k = Base => k % Base = 0)
        BY <1>1, <1>2, <1>4, CountOf
      <4>4. k <= Capacity(Rooms64, "N64")
        BY <1>1, <4>2, <4>3
      <4> QED
        BY <4>1, <4>4
    <3> QED
      BY <1>2, <2>1, <3>1, <3>2
  <2>3. PICK m : m = A64!Life!copyTo(n, A64!smaller(n))
    OBVIOUS
  <2>4. HoldsAs(Rooms64, kind, m, children)
    BY <1>4, <2>2, <2>3, Copied64
  <2>5. HoldsAs(Rooms64, kind, ClassRemove(m, b), [children EXCEPT ![b] = A!null])
    BY <1>1, <1>3, <2>4, RemoveHolds
  <2>6. m.type = kind
    BY <2>4, Kinds
  <2>7. n' = ClassRemove(m, b)
    BY <1>3, <1>6, <2>3, <2>6, SameClasses64
  <2>8. Holds(Rooms64, n', children')
    BY <1>3, <2>5, <2>7, Kinds
  <2> QED
    BY <1>3, <2>8 DEF NodeInv64
<1> QED
  BY <1>5, <1>6

\* tiny_art_64: every step keeps the invariant.
LEMMA NodeStep64 ==
  ASSUME A64!SizesFit, NodeInv64, [A64!Life!Next]_(A64!Life!vars)
  PROVE  NodeInv64'
<1>1. CASE A64!Life!Next
  <2>1. PICK b \in Byte : \/ \E c \in TinyPtrs : A64!Life!insertGrow(b, c) \/ A64!Life!Change(b, c)
                          \/ A64!Life!removeAndShrink(b)
    BY <1>1 DEF A64!Life!Next, A64!Life!Byte, Byte, TinyPtrs
  <2>2. CASE \E c \in TinyPtrs : A64!Life!insertGrow(b, c)
    BY <2>2, InsertGrowStep64
  <2>3. CASE \E c \in TinyPtrs : A64!Life!Change(b, c)
    BY <2>3, ChangeStep64
  <2>4. CASE A64!Life!removeAndShrink(b)
    BY <2>4, RemoveAndShrinkStep64
  <2> QED
    BY <2>1, <2>2, <2>3, <2>4
<1>2. CASE UNCHANGED A64!Life!vars
  BY <1>2 DEF A64!Life!vars, NodeInv64, Holds, HoldsAs
<1> QED
  BY <1>1, <1>2

\* tiny_art_64: what NodeInv64 says of the fields makes the node read as the map.
LEMMA Reads64 ==
  ASSUME A64!SizesFit, NodeInv64
  PROVE  A64!Life!ReadsAsMap
<1>1. BytesFit /\ Fits(Rooms64)
  BY Fit64
<1>2. /\ HoldsAs(Rooms64, n.type, n, children) /\ children \in Maps
      /\ n.type \in {"N16", "N64", "N256"}
      /\ A64!Life!Present = PresentIn(children) /\ A64!Life!Byte = Byte
  BY NodeHolds64
<1>3. /\ \A b, c : /\ A64!getChild(n, b) = ClassChild(n, b)
                   /\ A64!getChildren(n, b, c) = ClassBetween(n, b, c)
      /\ A64!Pairs(n) = ClassPairs(n) /\ A64!getAnyChild(n) = ClassAny(n)
  BY <1>2, SameClasses64
<1>4. \A b \in Byte : A64!getChild(n, b) = children[b]
  BY <1>1, <1>2, <1>3, GetChildHolds
<1>5. \A i, j \in DOMAIN A64!Pairs(n) : i < j => A64!Pairs(n)[i][1] < A64!Pairs(n)[j][1]
  <2>1. IsListOf(A64!Pairs(n), children)
    BY <1>1, <1>2, <1>3, PairsHold
  <2> QED
    BY <1>1, <1>2, <2>1, ListReads
<1>6. \A from \in PresentIn(children) \cup {0}, to \in PresentIn(children) \cup {Base - 1} :
         from <= to =>
           PairsOf(A64!getChildren(n, from, to)) =
             {<<b, children[b]>> : b \in {x \in PresentIn(children) : from <= x /\ x <= to}}
  BY <1>1, <1>2, <1>3, BetweenHolds
<1>7. PresentIn(children) # {} =>
         /\ A64!getAnyChild(n)[2] = children[A64!getAnyChild(n)[1]]
         /\ (\E b \in PresentIn(children) : children[b] \in Leaves) =>
               A64!getAnyChild(n)[2] \in Leaves
  BY <1>1, <1>2, <1>3, AnyHolds
<1> QED
  BY <1>2, <1>4, <1>5, <1>6, <1>7 DEF A64!Life!ReadsAsMap, PairsOf

\* tiny_art_64: nothing was written past the end, and the count is right.
LEMMA Inside64 ==
  ASSUME A64!SizesFit, NodeInv64
  PROVE  A64!Life!StaysInside
<1>1. /\ HoldsAs(Rooms64, n.type, n, children) /\ A64!Life!Present = PresentIn(children)
      /\ Fits(Rooms64)
  BY NodeHolds64, Fit64
<1>2. ~n.overrun
  BY <1>1, HoldsCount
<1>3. n.count = Cardinality(A64!Life!Present) % Base
  BY <1>1, HoldsCount
<1> QED
  BY <1>2, <1>3, Zenon DEF A64!Life!StaysInside, A64!Life!Cardinality, Cardinality

-----------------------------------------------------------------------------
(* The same of the node of tiny_art_256, which neither grows nor shrinks.  *)
NodeInv256 == Holds(Rooms256, n, children) /\ hasParent \in BOOLEAN

\* tiny_art_256: the sizes of the classes are such as the lemmas about classes ask for.
LEMMA Fit256 ==
  ASSUME A256!SizesFit
  PROVE  BytesFit /\ Fits(Rooms256) /\ Capacity(Rooms256, "N256") = Base /\ Base \in Nat
<1>1. BytesFit /\ Base \in Nat
  BY DEF A256!SizesFit, BytesFit, TinyPtrs, A256!null, A!null
<1>2. DOMAIN Rooms256 = {}
  BY DEF Rooms256
<1> QED
  BY <1>1, <1>2 DEF Fits, Capacity

\* tiny_art_256: what the invariant says of the node.
LEMMA NodeHolds256 ==
  ASSUME A256!SizesFit, NodeInv256
  PROVE  /\ HoldsAs(Rooms256, n.type, n, children) /\ children \in Maps
         /\ n.type \in {"N256"}
         /\ A256!Life!Present = PresentIn(children) /\ A256!Life!Byte = Byte
<1>1. HoldsAs(Rooms256, n.type, n, children)
  BY DEF NodeInv256, Holds
<1>2. children \in Maps
  BY <1>1, Kinds
<1>3. n.type \in {"N256"}
  BY <1>1, Kinds DEF Arrays, Rooms256
<1> QED
  BY <1>1, <1>2, <1>3 DEF A256!Life!Present, A256!Life!Byte, PresentIn, Byte, A256!null, A!null

\* tiny_art_256: the invariant holds of a new node.
LEMMA NodeInit256 == ASSUME A256!SizesFit, A256!Life!Init PROVE NodeInv256
<1>1. hasParent \in BOOLEAN /\ children = Nothing /\ n = A256!K256!Create
  BY DEF A256!Life!Init, A256!Life!Byte, Nothing, Byte, A256!null, A!null
<1>2. HoldsAs(Rooms256, "N256", A256!K256!Create, Nothing)
  BY Fit256, CreateHolds, Same256
<1>3. Holds(Rooms256, n, children)
  BY <1>1, <1>2, Kinds
<1> QED
  BY <1>1, <1>3 DEF NodeInv256

\* tiny_art_256: every step keeps the invariant.
LEMMA NodeStep256 ==
  ASSUME A256!SizesFit, NodeInv256, [A256!Life!Next]_(A256!Life!vars)
  PROVE  NodeInv256'
<1>1. /\ HoldsAs(Rooms256, n.type, n, children) /\ children \in Maps
      /\ n.type = "N256" /\ A256!Life!Present = PresentIn(children)
      /\ Fits(Rooms256) /\ BytesFit /\ Capacity(Rooms256, "N256") = Base
  BY NodeHolds256, Fit256
<1>2. ASSUME NEW b \in Byte, NEW c \in TinyPtrs, A256!Life!insertGrow(b, c) PROVE NodeInv256'
  <2>1. /\ children[b] = A!null /\ n' = ClassInsert(Rooms256, n, b, c)
        /\ children' = [children EXCEPT ![b] = c] /\ hasParent' = hasParent
    BY <1>1, <1>2, SameClasses256 DEF A256!Life!insertGrow, A256!Never, PresentIn
  <2>2. Cardinality(PresentIn(children)) < Capacity(Rooms256, n.type)
    BY <1>1, <2>1, CountOf
  <2>3. HoldsAs(Rooms256, n.type, ClassInsert(Rooms256, n, b, c), [children EXCEPT ![b] = c])
    BY <1>1, <2>1, <2>2, InsertHolds
  <2>4. Holds(Rooms256, n', children')
    BY <2>1, <2>3, Kinds
  <2> QED
    BY <2>1, <2>4 DEF NodeInv256
<1>3. ASSUME NEW b \in Byte, NEW c \in TinyPtrs, A256!Life!Change(b, c) PROVE NodeInv256'
  <2>1. /\ b \in PresentIn(children) /\ n' = ClassChange(n, b, c)
        /\ children' = [children EXCEPT ![b] = c] /\ hasParent' = hasParent
    BY <1>1, <1>3, SameClasses256 DEF A256!Life!Change
  <2>2. HoldsAs(Rooms256, n.type, ClassChange(n, b, c), [children EXCEPT ![b] = c])
    BY <1>1, <2>1, ChangeHolds
  <2>3. Holds(Rooms256, n', children')
    BY <2>1, <2>2, Kinds
  <2> QED
    BY <2>1, <2>3 DEF NodeInv256
<1>4. ASSUME NEW b \in Byte, A256!Life!removeAndShrink(b) PROVE NodeInv256'
  <2>1. /\ b \in PresentIn(children) /\ n' = ClassRemove(n, b)
        /\ children' = [children EXCEPT ![b] = A!null] /\ hasParent' = hasParent
    BY <1>1, <1>4, SameClasses256 DEF A256!Life!removeAndShrink, A256!Never, A256!null, A!null
  <2>2. HoldsAs(Rooms256, n.type, ClassRemove(n, b), [children EXCEPT ![b] = A!null])
    BY <1>1, <2>1, RemoveHolds
  <2>3. Holds(Rooms256, n', children')
    BY <2>1, <2>2, Kinds
  <2> QED
    BY <2>1, <2>3 DEF NodeInv256
<1>5. CASE A256!Life!Next
  <2>1. PICK b \in Byte :
           \/ \E c \in TinyPtrs : A256!Life!insertGrow(b, c) \/ A256!Life!Change(b, c)
           \/ A256!Life!removeAndShrink(b)
    BY <1>5 DEF A256!Life!Next, A256!Life!Byte, Byte, TinyPtrs
  <2> QED
    BY <1>2, <1>3, <1>4, <2>1
<1>6. CASE UNCHANGED A256!Life!vars
  BY <1>6 DEF A256!Life!vars, NodeInv256, Holds, HoldsAs
<1> QED
  BY <1>5, <1>6

\* tiny_art_256: what NodeInv256 says of the fields makes the node read as the map.
LEMMA Reads256 ==
  ASSUME A256!SizesFit, NodeInv256
  PROVE  A256!Life!ReadsAsMap
<1>1. BytesFit /\ Fits(Rooms256)
  BY Fit256
<1>2. /\ HoldsAs(Rooms256, n.type, n, children) /\ children \in Maps
      /\ n.type \in {"N256"}
      /\ A256!Life!Present = PresentIn(children) /\ A256!Life!Byte = Byte
  BY NodeHolds256
<1>3. /\ \A b, c : /\ A256!getChild(n, b) = ClassChild(n, b)
                   /\ A256!getChildren(n, b, c) = ClassBetween(n, b, c)
      /\ A256!K256!Pairs(n) = ClassPairs(n) /\ A256!getAnyChild(n) = ClassAny(n)
  BY <1>2, SameClasses256
<1>4. \A b \in Byte : A256!getChild(n, b) = children[b]
  BY <1>1, <1>2, <1>3, GetChildHolds
<1>5. \A i, j \in DOMAIN A256!K256!Pairs(n) : i < j => A256!K256!Pairs(n)[i][1] < A256!K256!Pairs(n)[j][1]
  <2>1. IsListOf(A256!K256!Pairs(n), children)
    BY <1>1, <1>2, <1>3, PairsHold
  <2> QED
    BY <1>1, <1>2, <2>1, ListReads
<1>6. \A from \in PresentIn(children) \cup {0}, to \in PresentIn(children) \cup {Base - 1} :
         from <= to =>
           PairsOf(A256!getChildren(n, from, to)) =
             {<<b, children[b]>> : b \in {x \in PresentIn(children) : from <= x /\ x <= to}}
  BY <1>1, <1>2, <1>3, BetweenHolds
<1>7. PresentIn(children) # {} =>
         /\ A256!getAnyChild(n)[2] = children[A256!getAnyChild(n)[1]]
         /\ (\E b \in PresentIn(children) : children[b] \in Leaves) =>
               A256!getAnyChild(n)[2] \in Leaves
  BY <1>1, <1>2, <1>3, AnyHolds
<1> QED
  BY <1>2, <1>4, <1>5, <1>6, <1>7 DEF A256!Life!ReadsAsMap, PairsOf

\* tiny_art_256: nothing was written past the end, and the count is right.
LEMMA Inside256 ==
  ASSUME A256!SizesFit, NodeInv256
  PROVE  A256!Life!StaysInside
<1>1. /\ HoldsAs(Rooms256, n.type, n, children) /\ A256!Life!Present = PresentIn(children)
      /\ Fits(Rooms256)
  BY NodeHolds256, Fit256
<1>2. ~n.overrun
  BY <1>1, HoldsCount
<1>3. n.count = Cardinality(A256!Life!Present) % Base
  BY <1>1, HoldsCount
<1> QED
  BY <1>2, <1>3, Zenon DEF A256!Life!StaysInside, A256!Life!Cardinality, Cardinality

-----------------------------------------------------------------------------
(* The node of whatever copy.                                              *)

\* The fields of the node are the arrays or the table of its children, in each copy.
NodesInv ==
  /\ copy \in {"tiny_art", "tiny_art_64", "tiny_art_256"}
  /\ copy = "tiny_art" => NodeInv
  /\ copy = "tiny_art_64" => NodeInv64
  /\ copy = "tiny_art_256" => NodeInv256

\* It holds of a new node.
LEMMA NodesInitHolds == NodesInit => NodesInv
<1> SUFFICES ASSUME NodesInit PROVE NodesInv
  OBVIOUS
<1>1. CASE copy = "tiny_art" /\ A!Life!Init
  BY <1>1, NodesAssumption, NodeInit DEF NodesInv
<1>2. CASE copy = "tiny_art_64" /\ A64!Life!Init
  BY <1>2, NodesAssumption, NodeInit64 DEF NodesInv
<1>3. CASE copy = "tiny_art_256" /\ A256!Life!Init
  BY <1>3, NodesAssumption, NodeInit256 DEF NodesInv
<1> QED
  BY <1>1, <1>2, <1>3 DEF NodesInit

\* Every step of the node keeps it.
LEMMA NodesStepKeeps == NodesInv /\ [NodesNext]_nodeVars => NodesInv'
<1> SUFFICES ASSUME NodesInv, [NodesNext]_nodeVars PROVE NodesInv'
  OBVIOUS
<1>1. copy' = copy /\ copy \in {"tiny_art", "tiny_art_64", "tiny_art_256"}
  BY DEF NodesInv, NodesNext, nodeVars
<1>2. ASSUME copy = "tiny_art" PROVE NodeInv'
  <2>1. [A!Life!Next]_(A!Life!vars)
    BY <1>2 DEF NodesNext, nodeVars, A!Life!vars
  <2> QED
    BY <1>2, <2>1, NodesAssumption, NodeStep DEF NodesInv
<1>3. ASSUME copy = "tiny_art_64" PROVE NodeInv64'
  <2>1. [A64!Life!Next]_(A64!Life!vars)
    BY <1>3 DEF NodesNext, nodeVars, A64!Life!vars
  <2> QED
    BY <1>3, <2>1, NodesAssumption, NodeStep64 DEF NodesInv
<1>4. ASSUME copy = "tiny_art_256" PROVE NodeInv256'
  <2>1. [A256!Life!Next]_(A256!Life!vars)
    BY <1>4 DEF NodesNext, nodeVars, A256!Life!vars
  <2> QED
    BY <1>4, <2>1, NodesAssumption, NodeStep256 DEF NodesInv
<1> QED
  BY <1>1, <1>2, <1>3, <1>4 DEF NodesInv

(* In each of the three copies of the tree a node holds the children that  *)
(* were inserted, changed and removed, as the array or the table of its    *)
(* class, whatever it grew and shrank from (N.cpp insertGrow and           *)
(* removeAndShrink).                                                       *)
THEOREM NodesInvariant == NodesSpec => []NodesInv
<1> QED
  BY NodesInitHolds, NodesStepKeeps, PTL DEF NodesSpec

(* However it came to its class, a node reads as the map from bytes to     *)
(* children: one by one (getChild), as a list of all or of those between   *)
(* two bytes (getChildren), and by getAnyChild (N4.cpp, N16.cpp, N64.cpp,  *)
(* N256.cpp).                                                              *)
THEOREM ReadsAsMapHolds == NodesSpec => []ReadsAsMap
<1>1. NodesInv => ReadsAsMap
  BY NodesAssumption, Reads, Reads64, Reads256 DEF NodesInv, ReadsAsMap
<1> QED
  BY <1>1, NodesInvariant, PTL

(* No array of a node is written past its end, not even while a node that  *)
(* shrinks is copied, and what it counts is how many children it has, in   *)
(* eight bits (N.cpp:212, N256.cpp count).                                 *)
THEOREM StaysInsideHolds == NodesSpec => []StaysInside
<1>1. NodesInv => StaysInside
  BY NodesAssumption, Inside, Inside64, Inside256 DEF NodesInv, StaysInside
<1> QED
  BY <1>1, NodesInvariant, PTL
=============================================================================
