----------------------------- MODULE TrieProofs -----------------------------
(***************************************************************************)
(* The tries, for any finite alphabet and any words: the hashes on the way *)
(* to a node are those it was allocated with, and each trie is the map     *)
(* that WordMap describes.  The tries fold the characters of a word, so    *)
(* that this module begins with what holds of such folds.                  *)
(***************************************************************************)
EXTENDS MCTries, FiniteSetTheorems, SequenceTheorems, WellFoundedInduction, TLAPS

-----------------------------------------------------------------------------
(* A set of numbers that is not empty has a least one, so that what holds  *)
(* of 0 and of the successor of each number it holds of, holds of all.     *)
LEMMA LeastNumber ==
  ASSUME NEW S \in SUBSET Nat, S # {}
  PROVE  \E n \in S : \A m \in S : n <= m
<1> DEFINE R == {ss \in Nat \X Nat : ss[1] < ss[2]}
<1>1. IsWellFoundedOn(R, Nat)
  BY NatLessThanWellFounded DEF OpToRel
<1>2. PICK n \in S : \A m \in S : ~(<<m, n>> \in R)
  <2> HIDE DEF R
  <2> QED
    BY <1>1, WFMin
<1>3. \A m \in S : ~(m < n)
  BY <1>2
<1> QED
  BY <1>3

(* Induction over the naturals for one given set.                            *)
LEMMA AllNumbers ==
  ASSUME NEW S, 0 \in S, \A n \in Nat : n \in S => n + 1 \in S
  PROVE  \A n \in Nat : n \in S
<1> SUFFICES ASSUME Nat \ S # {} PROVE FALSE
  OBVIOUS
<1>1. PICK n \in Nat \ S : \A m \in Nat \ S : n <= m
  BY LeastNumber
<1>2. n # 0 /\ n - 1 \in Nat /\ n - 1 \in S
  BY <1>1
<1>3. (n - 1) + 1 \in S
  BY <1>2
<1> QED
  BY <1>1, <1>3

(* A set of numbers up to n that is not empty has a greatest and a least one. *)
LEMMA MaxOf ==
  ASSUME NEW n \in Nat, NEW s \in SUBSET (1..n), s # {}
  PROVE  Max(s) \in s /\ \A y \in s : Max(s) >= y
<1> DEFINE S == {n - y : y \in s}
<1>1. S \in SUBSET Nat /\ S # {}
  <2>1. \A y \in s : y \in Nat /\ y <= n
    OBVIOUS
  <2>2. \A y \in s : n - y \in Nat
    BY <2>1
  <2> QED
    BY <2>2
<1>2. PICK l \in S : \A k \in S : l <= k
  <2> HIDE DEF S
  <2> QED
    BY <1>1, LeastNumber
<1>3. PICK x \in s : l = n - x
  BY <1>2
<1>4. ASSUME NEW y \in s PROVE x >= y
  <2>1. n - y \in S
    OBVIOUS
  <2>2. l <= n - y
    BY <1>2, <2>1
  <2> QED
    BY <1>3, <2>2
<1> QED
  BY <1>4 DEF Max

LEMMA MinOf ==
  ASSUME NEW S \in SUBSET Nat, S # {}
  PROVE  Min(S) \in S
BY LeastNumber DEF Min

(* Induction over words for one given set.                                   *)
LEMMA AllWords ==
  ASSUME NEW S, <<>> \in S,
         \A u \in Seq(Chars) : \A c \in Chars : u \in S => Append(u, c) \in S
  PROVE  \A w \in Seq(Chars) : w \in S
<1> DEFINE Lengths == {n \in Nat : \A w \in Seq(Chars) : Len(w) = n => w \in S}
<1>1. 0 \in Lengths
  BY EmptySeq
<1>2. ASSUME NEW n \in Nat, n \in Lengths PROVE n + 1 \in Lengths
  <2> SUFFICES ASSUME NEW w \in Seq(Chars), Len(w) = n + 1 PROVE w \in S
    OBVIOUS
  <2>1. w # <<>>
    BY EmptySeq
  <2>2. PICK u \in Seq(Chars), c \in Chars : w = Append(u, c)
    BY <2>1, SequenceEmptyOrAppend
  <2>3. Len(u) = n
    BY <2>2, AppendProperties, LenProperties
  <2>4. u \in S
    BY <1>2, <2>3
  <2> QED
    BY <2>2, <2>4
<1>3. \A n \in Nat : n \in Lengths
  <2> HIDE DEF Lengths
  <2> QED
    BY <1>1, <1>2, AllNumbers
<1> QED
  BY <1>3, LenProperties

(* A word that is not empty is its front and its last character.             *)
LEMMA FrontLast ==
  ASSUME NEW w \in Seq(Chars), w # <<>>
  PROVE  /\ Front(w) \in Seq(Chars) /\ Last(w) \in Chars /\ w = Append(Front(w), Last(w))
         /\ Len(Front(w)) = Len(w) - 1 /\ Len(w) \in Nat \ {0}
<1>1. PICK u \in Seq(Chars), c \in Chars : w = Append(u, c)
  BY SequenceEmptyOrAppend
<1>2. /\ Len(u) \in Nat /\ Len(w) = Len(u) + 1 /\ w[Len(u) + 1] = c
      /\ \A i \in 1..Len(u) : w[i] = u[i]
  BY <1>1, AppendProperties, LenProperties
<1>3. \A i \in 1..Len(u) : w[i] \in Chars
  BY <1>2, ElementOfSeq
<1>4. /\ Front(w) \in Seq(Chars) /\ Len(Front(w)) = Len(u)
      /\ \A i \in 1..Len(u) : Front(w)[i] = w[i]
  <2>1. Front(w) = SubSeq(w, 1, Len(u))
    BY <1>2 DEF Front
  <2>2. /\ SubSeq(w, 1, Len(u)) \in Seq(Chars)
        /\ Len(SubSeq(w, 1, Len(u))) = IF 1 <= Len(u) THEN Len(u) - 1 + 1 ELSE 0
        /\ \A i \in 1..Len(u) - 1 + 1 : SubSeq(w, 1, Len(u))[i] = w[1 + i - 1]
    BY <1>2, <1>3, SubSeqProperties
  <2> QED
    BY <1>2, <2>1, <2>2
<1>5. Front(w) = u
  BY <1>2, <1>4, SeqEqual
<1> QED
  BY <1>1, <1>2, <1>5 DEF Last

-----------------------------------------------------------------------------
(* The folds of the tries, by what a round of each does.                     *)
FollowIn(m, p, c) == IF IsSlot(p) THEN m[p].nodes[c] ELSE null

RoundOf(fold, m, x, y) ==
  IF fold = "Follow" THEN FollowIn(m, x, y)
  ELSE IF fold = "Tiny" THEN Tiny!CreateStep(x, y)
  ELSE IF fold = "Tiny2" THEN Tiny2!CreateStep(x, y)
  ELSE IF fold = "Plain" THEN Plain!CreateStep(x, y)
  ELSE Tiny2!PruneStep(x, y)

Rounds(fold, m, base, seq, g, s) ==
  g[s] = IF s = {} THEN base ELSE RoundOf(fold, m, g[s \ {Max(s)}], seq[Max(s)])

IsFold(fold, m, base, seq, g) ==
  g = [s \in SUBSET (DOMAIN seq) |->
         IF s = {} THEN base ELSE RoundOf(fold, m, g[s \ {Max(s)}], seq[Max(s)])]

(* What is left of a set without its greatest number.                        *)
LEMMA WithoutMax ==
  ASSUME NEW n \in Nat, NEW s \in SUBSET (1..n)
  PROVE  /\ IsFiniteSet(s) /\ Cardinality(s) \in Nat /\ Cardinality(s) <= n
         /\ Cardinality(s) = 0 <=> s = {}
         /\ s # {} => /\ s \ {Max(s)} \in SUBSET (1..n)
                      /\ Cardinality(s \ {Max(s)}) = Cardinality(s) - 1
<1>1. IsFiniteSet(1..n) /\ Cardinality(1..n) = n
  <2>1. IsFiniteSet(1..n) /\ Cardinality(1..n) = IF 1 > n THEN 0 ELSE n - 1 + 1
    BY FS_Interval
  <2> QED
    BY <2>1
<1>2. IsFiniteSet(s) /\ Cardinality(s) <= n
  BY <1>1, FS_Subset
<1>3. Cardinality(s) \in Nat /\ (Cardinality(s) = 0 <=> s = {})
  BY <1>2, FS_CardinalityType, FS_EmptySet
<1>4. s # {} => Max(s) \in s
  BY MaxOf
<1>5. s # {} => Cardinality(s \ {Max(s)}) = Cardinality(s) - 1
  BY <1>2, <1>4, FS_RemoveElement
<1> QED
  BY <1>2, <1>3, <1>5

(* Every fold exists, part of the sequence after part of it.                 *)
LEMMA FoldExists ==
  ASSUME NEW fold, NEW m, NEW base, NEW seq, NEW n \in Nat, DOMAIN seq = 1..n
  PROVE  \E g : IsFold(fold, m, base, seq, g)
<1> DEFINE D == 1..n
           Good(i) == \E g : /\ g = [s \in SUBSET D |-> g[s]]
                             /\ \A s \in SUBSET D : Cardinality(s) <= i => Rounds(fold, m, base, seq, g, s)
           Sizes == {i \in Nat : Good(i)}
<1>1. 0 \in Sizes
  <2> DEFINE g == [s \in SUBSET D |-> base]
  <2>1. ASSUME NEW s \in SUBSET D, Cardinality(s) <= 0 PROVE Rounds(fold, m, base, seq, g, s)
    <3>1. Cardinality(s) \in Nat /\ (Cardinality(s) = 0 <=> s = {})
      BY WithoutMax
    <3>2. s = {}
      BY <2>1, <3>1
    <3> QED
      BY <3>2 DEF Rounds
  <2>2. g = [s \in SUBSET D |-> g[s]]
    OBVIOUS
  <2>3. Good(0)
    <3> HIDE DEF g
    <3>1. \A s \in SUBSET D : Cardinality(s) <= 0 => Rounds(fold, m, base, seq, g, s)
      BY <2>1
    <3> QED
      BY <2>2, <3>1
  <2> HIDE DEF Good
  <2> QED
    BY <2>3
<1>2. ASSUME NEW i \in Nat, i \in Sizes PROVE i + 1 \in Sizes
  <2>1. PICK g : /\ g = [s \in SUBSET D |-> g[s]]
                 /\ \A s \in SUBSET D : Cardinality(s) <= i => Rounds(fold, m, base, seq, g, s)
    BY <1>2
  <2> DEFINE h == [s \in SUBSET D |->
                     IF s = {} THEN base ELSE RoundOf(fold, m, g[s \ {Max(s)}], seq[Max(s)])]
  <2>2. \A s \in SUBSET D : Cardinality(s) <= i => h[s] = g[s]
    BY <2>1 DEF Rounds
  <2>3. ASSUME NEW s \in SUBSET D, Cardinality(s) <= i + 1 PROVE Rounds(fold, m, base, seq, h, s)
    <3>1. CASE s = {}
      BY <3>1 DEF Rounds
    <3>2. CASE s # {}
      <4>1. s \ {Max(s)} \in SUBSET D /\ Cardinality(s \ {Max(s)}) <= i
        BY <2>3, <3>2, WithoutMax
      <4>2. h[s \ {Max(s)}] = g[s \ {Max(s)}]
        BY <2>2, <4>1
      <4>3. h[s] = RoundOf(fold, m, g[s \ {Max(s)}], seq[Max(s)])
        BY <3>2
      <4> HIDE DEF h
      <4> QED
        BY <3>2, <4>2, <4>3 DEF Rounds
    <3> QED
      BY <3>1, <3>2
  <2>4. h = [s \in SUBSET D |-> h[s]]
    OBVIOUS
  <2>5. Good(i + 1)
    <3> HIDE DEF h
    <3>1. \A s \in SUBSET D : Cardinality(s) <= i + 1 => Rounds(fold, m, base, seq, h, s)
      BY <2>3
    <3> QED
      BY <2>4, <3>1
  <2> HIDE DEF Good
  <2> QED
    BY <2>5
<1>3. \A i \in Nat : i \in Sizes
  <2> HIDE DEF Sizes
  <2> QED
    BY <1>1, <1>2, AllNumbers
<1>4. PICK g : /\ g = [s \in SUBSET D |-> g[s]]
               /\ \A s \in SUBSET D : Cardinality(s) <= n => Rounds(fold, m, base, seq, g, s)
  BY <1>3
<1>5. \A s \in SUBSET D : Rounds(fold, m, base, seq, g, s)
  BY <1>4, WithoutMax
<1>6. IsFold(fold, m, base, seq, g)
  BY <1>4, <1>5 DEF IsFold, Rounds
<1> QED
  BY <1>6

(* A fold goes through the sequence from its first element to its last.      *)
IsRun(fold, m, base, seq, n, run) ==
  run[0] = base /\ \A i \in 0..n - 1 : run[i + 1] = RoundOf(fold, m, run[i], seq[i + 1])

LEMMA FoldRuns ==
  ASSUME NEW fold, NEW m, NEW base, NEW seq, NEW n \in Nat, DOMAIN seq = 1..n,
         NEW g, IsFold(fold, m, base, seq, g)
  PROVE  \E run : IsRun(fold, m, base, seq, n, run) /\ run[n] = g[DOMAIN seq]
<1> DEFINE run == [i \in 0..n |-> g[1..i]]
<1>1. \A s \in SUBSET (1..n) :
         g[s] = IF s = {} THEN base ELSE RoundOf(fold, m, g[s \ {Max(s)}], seq[Max(s)])
  BY DEF IsFold
<1>2. run[0] = base
  <2>1. 1..0 = {} /\ 1..0 \in SUBSET (1..n)
    OBVIOUS
  <2>2. g[1..0] = base
    BY <1>1, <2>1
  <2> QED
    BY <2>2
<1>3. ASSUME NEW i \in 0..n - 1 PROVE run[i + 1] = RoundOf(fold, m, run[i], seq[i + 1])
  <2>1. 1..i + 1 \in SUBSET (1..n) /\ 1..i + 1 # {} /\ i + 1 \in 1..i + 1 /\ i + 1 \in 0..n /\ i \in 0..n
    <3>1. i \in Nat /\ i + 1 <= n
      OBVIOUS
    <3>2. i + 1 \in 1..i + 1 /\ i + 1 \in 0..n /\ i \in 0..n
      BY <3>1
    <3>3. 1..i + 1 \in SUBSET (1..n)
      BY <3>1
    <3> QED
      BY <3>2, <3>3
  <2>2. Max(1..i + 1) \in 1..i + 1 /\ Max(1..i + 1) >= i + 1
    BY <2>1, MaxOf
  <2>3. Max(1..i + 1) = i + 1
    BY <2>2
  <2>4. (1..i + 1) \ {i + 1} = 1..i
    OBVIOUS
  <2>5. g[1..i + 1] = RoundOf(fold, m, g[(1..i + 1) \ {i + 1}], seq[i + 1])
    BY <1>1, <2>1, <2>3
  <2> QED
    BY <2>1, <2>4, <2>5
<1>4. run[n] = g[DOMAIN seq]
  OBVIOUS
<1> HIDE DEF run
<1> QED
  BY <1>2, <1>3, <1>4 DEF IsRun

(* A fold that someone chooses is one of them.                               *)
LEMMA FoldChosen ==
  ASSUME NEW fold, NEW m, NEW base, NEW seq, NEW n \in Nat, DOMAIN seq = 1..n,
         NEW g, (\E f : IsFold(fold, m, base, seq, f)) => IsFold(fold, m, base, seq, g)
  PROVE  \E run : IsRun(fold, m, base, seq, n, run) /\ run[n] = g[DOMAIN seq]
BY FoldExists, FoldRuns

(* What each of the five folds in the code is.                               *)
IsFollow(m, seq, g) ==
  g = [s \in SUBSET (DOMAIN seq) |->
         IF s = {} THEN Root ELSE FollowIn(m, g[s \ {Max(s)}], seq[Max(s)])]

ReachIn(m, word) == (CHOOSE g : IsFollow(m, word, g))[DOMAIN word]

(* All tries find the pointer of a word in the same way.                     *)
LEMMA ReachIs ==
  \A word : /\ Reach(word) = ReachIn(mem, word) /\ Reach(word)' = ReachIn(mem', word)
            /\ Tiny!Reach(word) = ReachIn(mem, word) /\ Tiny!Reach(word)' = ReachIn(mem', word)
            /\ Tiny2!Reach(word) = ReachIn(mem, word) /\ Tiny2!Reach(word)' = ReachIn(mem', word)
            /\ Plain!Reach(word) = ReachIn(mem, word) /\ Plain!Reach(word)' = ReachIn(mem', word)
BY DEF Reach, Follow, FoldLeft, MapThenFoldSet, IsFollow, ReachIn, IsSlot, null, tagged, Root, FollowIn, Max,
       Tiny!Reach, Tiny!Follow, Tiny!FoldLeft, Tiny!MapThenFoldSet, Tiny!IsSlot, Tiny!null, Tiny!tagged,
       Tiny!Root, Tiny!Max,
       Tiny2!Reach, Tiny2!Follow, Tiny2!FoldLeft, Tiny2!MapThenFoldSet, Tiny2!IsSlot, Tiny2!null, Tiny2!tagged,
       Tiny2!Root, Tiny2!Max,
       Plain!Reach, Plain!Follow, Plain!FoldLeft, Plain!MapThenFoldSet, Plain!IsSlot, Plain!null, Plain!tagged,
       Plain!Root, Plain!Max

(* The way to a word, character after character.                             *)
IsWay(m, word, n, way) ==
  /\ way[0] = Root /\ ReachIn(m, word) = way[n]
  /\ \A i \in 0..n - 1 : way[i + 1] = FollowIn(m, way[i], word[i + 1])

LEMMA ReachRuns ==
  ASSUME NEW m, NEW word, NEW n \in Nat, DOMAIN word = 1..n
  PROVE  \E way : IsWay(m, word, n, way)
<1>1. \A g : IsFollow(m, word, g) <=> IsFold("Follow", m, Root, word, g)
  BY DEF IsFollow, IsFold, RoundOf
<1>2. PICK g : g = CHOOSE f : IsFollow(m, word, f)
  OBVIOUS
<1>3. (\E f : IsFold("Follow", m, Root, word, f)) => IsFold("Follow", m, Root, word, g)
  BY <1>1, <1>2
<1>4. PICK run : IsRun("Follow", m, Root, word, n, run) /\ run[n] = g[DOMAIN word]
  BY <1>3, FoldChosen
<1>5. \A i \in 0..n - 1 : run[i + 1] = FollowIn(m, run[i], word[i + 1])
  BY <1>4 DEF IsRun, RoundOf
<1> QED
  BY <1>2, <1>4, <1>5 DEF IsRun, ReachIn, IsWay

(* The nodes that lead to a word, made one after the other.                  *)
IsTinyCreate(base, seq, g) ==
  g = [s \in SUBSET (DOMAIN seq) |->
         IF s = {} THEN base ELSE Tiny!CreateStep(g[s \ {Max(s)}], seq[Max(s)])]

LEMMA TinyRuns ==
  ASSUME NEW word, NEW room, NEW n \in Nat, DOMAIN Front(word) = 1..n
  PROVE  \E run : /\ run[0] = [mem |-> mem, cur |-> Root, h |-> <<>>, room |-> room, ok |-> TRUE]
                  /\ \A i \in 0..n - 1 : run[i + 1] = Tiny!CreateStep(run[i], Front(word)[i + 1])
                  /\ Tiny!create_parent_node(word, room) = run[n]
<1> DEFINE base == [mem |-> mem, cur |-> Root, h |-> <<>>, room |-> room, ok |-> TRUE]
           seq == Front(word)
<1>1. \A g : IsTinyCreate(base, seq, g) <=> IsFold("Tiny", mem, base, seq, g)
  BY DEF IsTinyCreate, IsFold, RoundOf
<1>2. PICK g : g = CHOOSE f : IsTinyCreate(base, seq, f)
  OBVIOUS
<1>3. Tiny!create_parent_node(word, room) = g[DOMAIN seq]
  BY <1>2 DEF IsTinyCreate, Tiny!create_parent_node, Tiny!FoldLeft, Tiny!MapThenFoldSet, Tiny!Max, Max, Tiny!Front, Front, Tiny!Root, Root
<1> HIDE DEF base, seq
<1>4. (\E f : IsFold("Tiny", mem, base, seq, f)) => IsFold("Tiny", mem, base, seq, g)
  BY <1>1, <1>2
<1>5. PICK run : IsRun("Tiny", mem, base, seq, n, run) /\ run[n] = g[DOMAIN seq]
  BY <1>4, FoldChosen DEF seq
<1>6. \A i \in 0..n - 1 : run[i + 1] = Tiny!CreateStep(run[i], seq[i + 1])
  BY <1>5 DEF IsRun, RoundOf
<1> QED
  BY <1>3, <1>5, <1>6 DEF IsRun, base, seq

IsTiny2Create(base, seq, g) ==
  g = [s \in SUBSET (DOMAIN seq) |->
         IF s = {} THEN base ELSE Tiny2!CreateStep(g[s \ {Max(s)}], seq[Max(s)])]

LEMMA Tiny2Runs ==
  ASSUME NEW word, NEW room, NEW n \in Nat, DOMAIN Front(word) = 1..n
  PROVE  \E run : /\ run[0] = [mem |-> mem, cur |-> Root, room |-> room, ok |-> TRUE]
                  /\ \A i \in 0..n - 1 : run[i + 1] = Tiny2!CreateStep(run[i], Front(word)[i + 1])
                  /\ Tiny2!create_parent_node(word, room) = run[n]
<1> DEFINE base == [mem |-> mem, cur |-> Root, room |-> room, ok |-> TRUE]
           seq == Front(word)
<1>1. \A g : IsTiny2Create(base, seq, g) <=> IsFold("Tiny2", mem, base, seq, g)
  BY DEF IsTiny2Create, IsFold, RoundOf
<1>2. PICK g : g = CHOOSE f : IsTiny2Create(base, seq, f)
  OBVIOUS
<1>3. Tiny2!create_parent_node(word, room) = g[DOMAIN seq]
  BY <1>2 DEF IsTiny2Create, Tiny2!create_parent_node, Tiny2!FoldLeft, Tiny2!MapThenFoldSet, Tiny2!Max, Max, Tiny2!Front, Front, Tiny2!Root, Root
<1> HIDE DEF base, seq
<1>4. (\E f : IsFold("Tiny2", mem, base, seq, f)) => IsFold("Tiny2", mem, base, seq, g)
  BY <1>1, <1>2
<1>5. PICK run : IsRun("Tiny2", mem, base, seq, n, run) /\ run[n] = g[DOMAIN seq]
  BY <1>4, FoldChosen DEF seq
<1>6. \A i \in 0..n - 1 : run[i + 1] = Tiny2!CreateStep(run[i], seq[i + 1])
  BY <1>5 DEF IsRun, RoundOf
<1> QED
  BY <1>3, <1>5, <1>6 DEF IsRun, base, seq

IsPlainCreate(base, seq, g) ==
  g = [s \in SUBSET (DOMAIN seq) |->
         IF s = {} THEN base ELSE Plain!CreateStep(g[s \ {Max(s)}], seq[Max(s)])]

LEMMA PlainRuns ==
  ASSUME NEW word, NEW n \in Nat, DOMAIN word = 1..n
  PROVE  \E run : /\ run[0] = [mem |-> mem, cur |-> Root]
                  /\ \A i \in 0..n - 1 : run[i + 1] = Plain!CreateStep(run[i], word[i + 1])
                  /\ Plain!create_node(word) = run[n]
<1> DEFINE base == [mem |-> mem, cur |-> Root]
           seq == word
<1>1. \A g : IsPlainCreate(base, seq, g) <=> IsFold("Plain", mem, base, seq, g)
  BY DEF IsPlainCreate, IsFold, RoundOf
<1>2. PICK g : g = CHOOSE f : IsPlainCreate(base, seq, f)
  OBVIOUS
<1>3. Plain!create_node(word) = g[DOMAIN seq]
  BY <1>2 DEF IsPlainCreate, Plain!create_node, Plain!FoldLeft, Plain!MapThenFoldSet, Plain!Max, Max, Plain!Root, Root
<1> HIDE DEF base, seq
<1>4. (\E f : IsFold("Plain", mem, base, seq, f)) => IsFold("Plain", mem, base, seq, g)
  BY <1>1, <1>2
<1>5. PICK run : IsRun("Plain", mem, base, seq, n, run) /\ run[n] = g[DOMAIN seq]
  BY <1>4, FoldChosen DEF seq
<1>6. \A i \in 0..n - 1 : run[i + 1] = Plain!CreateStep(run[i], seq[i + 1])
  BY <1>5 DEF IsRun, RoundOf
<1> QED
  BY <1>3, <1>5, <1>6 DEF IsRun, base, seq

(* The nodes that a removal leaves empty, from the last one upwards.         *)
IsPrune(base, seq, g) ==
  g = [s \in SUBSET (DOMAIN seq) |->
         IF s = {} THEN base ELSE Tiny2!PruneStep(g[s \ {Max(s)}], seq[Max(s)])]

IsPruneRun(m, path, word, n, run) ==
  /\ run[0] = [mem |-> m, path |-> path, word |-> word, done |-> FALSE]
  /\ \A i \in 0..n - 1 : run[i + 1] = Tiny2!PruneStep(run[i], n - i)
  /\ Tiny2!Prune(m, word) = run[n].mem

IsPath(path, word) == path = [j \in 1..Len(word) |-> Tiny2!Reach(SubSeq(word, 1, j - 1))]

LEMMA PruneRuns ==
  ASSUME NEW m, NEW word, NEW n \in Nat, Len(word) - 1 = n, NEW path, IsPath(path, word)
  PROVE  \E run : IsPruneRun(m, path, word, n, run)
<1> USE DEF IsPath
<1> DEFINE base == [mem |-> m, path |-> path, word |-> word, done |-> FALSE]
           seq == Reverse([j \in 1..Len(word) - 1 |-> j])
<1>1. \A g : IsPrune(base, seq, g) <=> IsFold("Prune", mem, base, seq, g)
  BY DEF IsPrune, IsFold, RoundOf
<1>2. PICK g : g = CHOOSE f : IsPrune(base, seq, f)
  OBVIOUS
<1>3. Tiny2!Prune(m, word) = g[DOMAIN seq].mem
  BY <1>2 DEF IsPrune, Tiny2!Prune, Tiny2!FoldLeft, Tiny2!MapThenFoldSet, Tiny2!Max, Max, Tiny2!Reverse, Reverse
<1>4. Len([j \in 1..Len(word) - 1 |-> j]) = n
  OBVIOUS
<1>5. DOMAIN seq = 1..n /\ \A i \in 0..n - 1 : seq[i + 1] = n - i
  BY <1>4 DEF Reverse
<1> HIDE DEF base, seq
<1>6. (\E f : IsFold("Prune", mem, base, seq, f)) => IsFold("Prune", mem, base, seq, g)
  BY <1>1, <1>2
<1>7. PICK run : IsRun("Prune", mem, base, seq, n, run) /\ run[n] = g[DOMAIN seq]
  <2>1. DOMAIN seq = 1..n
    BY <1>5
  <2>2. \E f : IsFold("Prune", mem, base, seq, f)
    BY <2>1, FoldExists
  <2>3. IsFold("Prune", mem, base, seq, g)
    BY <1>6, <2>2
  <2> QED
    BY <2>1, <2>3, FoldRuns
<1>8. \A i \in 0..n - 1 : run[i + 1] = Tiny2!PruneStep(run[i], seq[i + 1])
  BY <1>7 DEF IsRun, RoundOf
<1>9. \A i \in 0..n - 1 : run[i + 1] = Tiny2!PruneStep(run[i], n - i)
  BY <1>5, <1>8
<1>10. run[n] = g[DOMAIN seq] /\ run[0] = base
  BY <1>7 DEF IsRun
<1> QED
  BY <1>3, <1>9, <1>10 DEF IsPruneRun, base

-----------------------------------------------------------------------------
(* Where words lead, one character more at a time.                           *)
LEMMA ReachSteps ==
  ASSUME NEW m
  PROVE  /\ ReachIn(m, <<>>) = Root
         /\ \A u \in Seq(Chars) : \A c \in Chars :
               ReachIn(m, Append(u, c)) = FollowIn(m, ReachIn(m, u), c)
<1>1. ReachIn(m, <<>>) = Root
  <2>1. DOMAIN <<>> = 1..0
    OBVIOUS
  <2>2. PICK way : IsWay(m, <<>>, 0, way)
    BY <2>1, ReachRuns
  <2> QED
    BY <2>2 DEF IsWay
<1>2. ASSUME NEW u \in Seq(Chars), NEW c \in Chars
      PROVE  ReachIn(m, Append(u, c)) = FollowIn(m, ReachIn(m, u), c)
  <2> DEFINE n == Len(u)
             w == Append(u, c)
  <2>1. n \in Nat /\ DOMAIN u = 1..n /\ DOMAIN w = 1..n + 1 /\ \A i \in 1..n : w[i] = u[i]
    <3>1. n \in Nat /\ DOMAIN u = 1..n
      BY LenProperties
    <3>2. w \in Seq(Chars) /\ Len(w) = n + 1 /\ \A i \in 1..n : w[i] = u[i]
      BY AppendProperties
    <3> HIDE DEF w
    <3>3. DOMAIN w = 1..n + 1
      BY <3>2, LenProperties
    <3> QED
      BY <3>1, <3>2, <3>3
  <2>2. w[n + 1] = c
    BY AppendProperties
  <2> HIDE DEF n, w
  <2>3. PICK r : IsWay(m, u, n, r)
    <3>1. n \in Nat /\ DOMAIN u = 1..n
      BY <2>1
    <3> QED
      BY <3>1, ReachRuns
  <2>4. PICK q : IsWay(m, w, n + 1, q)
    <3>1. n + 1 \in Nat /\ DOMAIN w = 1..n + 1
      BY <2>1
    <3> QED
      BY <3>1, ReachRuns
  <2> DEFINE Same == {i \in Nat : i <= n => q[i] = r[i]}
  <2>5. 0 \in Same
    BY <2>3, <2>4 DEF IsWay
  <2>6. ASSUME NEW i \in Nat, i \in Same PROVE i + 1 \in Same
    <3> SUFFICES ASSUME i + 1 <= n PROVE q[i + 1] = r[i + 1]
      OBVIOUS
    <3>1. i \in 0..n - 1 /\ i \in 0..n + 1 - 1 /\ i + 1 \in 1..n /\ q[i] = r[i]
      BY <2>1, <2>6
    <3>2. q[i + 1] = FollowIn(m, q[i], w[i + 1])
      <4>1. i \in 0..(n + 1) - 1
        BY <2>1, <3>1
      <4> HIDE DEF Same
      <4> QED
        BY <2>4, <4>1 DEF IsWay
    <3>3. r[i + 1] = FollowIn(m, r[i], u[i + 1])
      <4>1. i \in 0..n - 1
        BY <3>1
      <4> HIDE DEF Same
      <4> QED
        BY <2>3, <4>1 DEF IsWay
    <3> QED
      BY <2>1, <3>1, <3>2, <3>3
  <2>7. \A i \in Nat : i \in Same
    <3> HIDE DEF Same
    <3> QED
      BY <2>5, <2>6, AllNumbers
  <2>8. q[n] = r[n] /\ n \in 0..n + 1 - 1
    BY <2>1, <2>7
  <2>9. q[n + 1] = FollowIn(m, q[n], w[n + 1])
    BY <2>4, <2>8 DEF IsWay
  <2> QED
    BY <2>2, <2>3, <2>4, <2>8, <2>9 DEF w, IsWay
<1> QED
  BY <1>1, <1>2

(* Memory that is well formed: every pointer leads to a node, every node but *)
(* the root has one pointer that leads to it.                                *)
NodeFields == {"is_terminal", "nodes", "hash", "value"}

IsNode(m, s) ==
  /\ DOMAIN m[s] = NodeFields /\ DOMAIN m[s].nodes = Chars /\ m[s].is_terminal \in BOOLEAN
  /\ \A c \in Chars : m[s].nodes[c] \in {null, tagged} \cup (DOMAIN m \ {Root})

OnePointer(m) ==
  \A s, q \in DOMAIN m : \A c, d \in Chars :
     IsSlot(m[s].nodes[c]) /\ m[s].nodes[c] = m[q].nodes[d] => s = q /\ c = d

IsMemory(m) ==
  /\ IsFiniteSet(DOMAIN m) /\ DOMAIN m \subseteq Nat /\ Root \in DOMAIN m
  /\ \A s \in DOMAIN m : IsSlot(s) /\ IsNode(m, s)
  /\ OnePointer(m)
  /\ \A s \in DOMAIN m \ {Root} : \E q \in DOMAIN m : \E c \in Chars : m[q].nodes[c] = s

(* A word leads to a node or nowhere, and the empty word alone to the root.  *)
LEMMA ReachFacts ==
  ASSUME NEW m, IsMemory(m), NEW w \in Seq(Chars)
  PROVE  /\ ReachIn(m, w) \in {null, tagged} \cup DOMAIN m
         /\ IsSlot(ReachIn(m, w)) <=> ReachIn(m, w) \in DOMAIN m
         /\ ReachIn(m, w) = Root <=> w = <<>>
<1>1. ASSUME NEW p, p \in {null, tagged} \cup DOMAIN m PROVE IsSlot(p) <=> p \in DOMAIN m
  BY <1>1 DEF IsMemory, IsSlot, null, tagged
<1>2. ASSUME NEW u \in Seq(Chars), NEW c \in Chars, ReachIn(m, u) \in {null, tagged} \cup DOMAIN m
      PROVE  ReachIn(m, Append(u, c)) \in {null, tagged} \cup (DOMAIN m \ {Root})
  <2>1. ReachIn(m, Append(u, c)) = FollowIn(m, ReachIn(m, u), c)
    BY ReachSteps
  <2> QED
    BY <1>1, <1>2, <2>1 DEF FollowIn, IsMemory, IsNode
<1> DEFINE S == {u \in Seq(Chars) : ReachIn(m, u) \in {null, tagged} \cup DOMAIN m}
<1>3. <<>> \in S
  BY ReachSteps, EmptySeq DEF IsMemory
<1>4. \A u \in Seq(Chars) : \A c \in Chars : u \in S => Append(u, c) \in S
  BY <1>2, AppendProperties
<1>5. \A u \in Seq(Chars) : u \in S
  <2> HIDE DEF S
  <2> QED
    BY <1>3, <1>4, AllWords
<1>6. ReachIn(m, w) = Root <=> w = <<>>
  <2>1. CASE w = <<>>
    BY <2>1, ReachSteps
  <2>2. CASE w # <<>>
    <3>1. PICK u \in Seq(Chars), c \in Chars : w = Append(u, c)
      BY <2>2, SequenceEmptyOrAppend
    <3>2. ReachIn(m, w) \in {null, tagged} \cup (DOMAIN m \ {Root})
      BY <1>2, <1>5, <3>1
    <3> QED
      BY <2>2, <3>2 DEF null, tagged, Root
  <2> QED
    BY <2>1, <2>2
<1> QED
  BY <1>1, <1>5, <1>6

(* Two words do not lead to the same node.                                   *)
LEMMA ReachApart ==
  ASSUME NEW m, IsMemory(m), NEW v \in Seq(Chars), NEW w \in Seq(Chars),
         IsSlot(ReachIn(m, v)), ReachIn(m, v) = ReachIn(m, w)
  PROVE  v = w
<1> DEFINE S == {u \in Seq(Chars) : \A x \in Seq(Chars) :
                    IsSlot(ReachIn(m, u)) /\ ReachIn(m, u) = ReachIn(m, x) => u = x}
<1>1. <<>> \in S
  BY ReachFacts, EmptySeq
<1>2. ASSUME NEW u \in Seq(Chars), NEW c \in Chars, u \in S PROVE Append(u, c) \in S
  <2> SUFFICES ASSUME NEW x \in Seq(Chars), IsSlot(ReachIn(m, Append(u, c))),
                      ReachIn(m, Append(u, c)) = ReachIn(m, x)
               PROVE  Append(u, c) = x
    BY AppendProperties
  <2>1. x # <<>>
    <3>1. Append(u, c) \in Seq(Chars) /\ Append(u, c) # <<>>
      BY AppendProperties
    <3>2. ReachIn(m, x) # Root
      BY <3>1, ReachFacts
    <3> QED
      BY <3>2, ReachFacts
  <2>2. PICK y \in Seq(Chars), d \in Chars : x = Append(y, d)
    BY <2>1, SequenceEmptyOrAppend
  <2>3. /\ FollowIn(m, ReachIn(m, u), c) = FollowIn(m, ReachIn(m, y), d)
        /\ IsSlot(FollowIn(m, ReachIn(m, u), c))
    BY <2>2, ReachSteps
  <2>4. IsSlot(ReachIn(m, u)) /\ IsSlot(ReachIn(m, y))
    BY <2>3 DEF FollowIn, IsSlot, null, tagged
  <2>5. ReachIn(m, u) \in DOMAIN m /\ ReachIn(m, y) \in DOMAIN m
    BY <2>4, ReachFacts
  <2>6. ReachIn(m, u) = ReachIn(m, y) /\ c = d
    BY <2>3, <2>4, <2>5 DEF FollowIn, IsMemory, OnePointer
  <2>7. u = y
    <3>1. ReachIn(m, u) = ReachIn(m, y)
      BY <2>6
    <3> QED
      BY <1>2, <2>4, <3>1
  <2> QED
    BY <2>2, <2>6, <2>7
<1>3. \A u \in Seq(Chars) : u \in S
  <2> HIDE DEF S
  <2> QED
    BY <1>1, <1>2, AllWords
<1> QED
  BY <1>3

-----------------------------------------------------------------------------
(* The pointer at c of the node that u leads to becomes v, and nothing is    *)
(* below it before or after: then only the word u with c leads elsewhere.    *)
MovesOne(m, m2, cur, c, old, v) ==
  /\ \A d \in Chars : FollowIn(m, old, d) = null /\ FollowIn(m2, v, d) = null
  /\ \A s \in DOMAIN m : \A d \in Chars :
        s # old => FollowIn(m2, s, d) = IF s = cur /\ d = c THEN v ELSE FollowIn(m, s, d)

AtWord(m, u, cur, c, old) == cur = ReachIn(m, u) /\ IsSlot(cur) /\ old = m[cur].nodes[c]

WordMoves(m, m2, u, c, v) ==
  \A x \in Seq(Chars) : ReachIn(m2, x) = IF x = Append(u, c) THEN v ELSE ReachIn(m, x)

LEMMA ReachChanges ==
  ASSUME NEW m, IsMemory(m), NEW m2, NEW u \in Seq(Chars), NEW c \in Chars, NEW v,
         NEW cur, NEW old, AtWord(m, u, cur, c, old), MovesOne(m, m2, cur, c, old, v)
  PROVE  WordMoves(m, m2, u, c, v)
<1>0. cur = ReachIn(m, u) /\ IsSlot(cur) /\ old = m[cur].nodes[c]
  BY DEF AtWord
<1> DEFINE w == Append(u, c)
           S == {x \in Seq(Chars) : ReachIn(m2, x) = IF x = w THEN v ELSE ReachIn(m, x)}
<1>1. w \in Seq(Chars) /\ w # <<>>
  BY AppendProperties
<1>2. ReachIn(m, w) = old
  BY <1>0, ReachSteps DEF FollowIn
<1>3. <<>> \in S
  BY <1>1, ReachSteps, EmptySeq
<1>4. ASSUME NEW x \in Seq(Chars), NEW d \in Chars, x \in S PROVE Append(x, d) \in S
  <2>1. /\ ReachIn(m2, Append(x, d)) = FollowIn(m2, ReachIn(m2, x), d)
        /\ ReachIn(m, Append(x, d)) = FollowIn(m, ReachIn(m, x), d)
    BY ReachSteps
  <2>2. /\ Append(x, d) \in Seq(Chars)
        /\ Append(x, d) = w <=> x = u /\ d = c
    <3>1. /\ Append(x, d) \in Seq(Chars) /\ Len(Append(x, d)) = Len(x) + 1
          /\ Append(x, d)[Len(x) + 1] = d /\ \A i \in 1..Len(x) : Append(x, d)[i] = x[i]
      BY AppendProperties
    <3>2. /\ Len(w) = Len(u) + 1 /\ w[Len(u) + 1] = c /\ \A i \in 1..Len(u) : w[i] = u[i]
      BY AppendProperties
    <3>3. Len(x) \in Nat /\ Len(u) \in Nat
      BY LenProperties
    <3>4. ASSUME Append(x, d) = w PROVE x = u /\ d = c
      <4>1. Len(x) = Len(u)
        BY <3>1, <3>2, <3>3, <3>4
      <4>2. \A i \in 1..Len(x) : x[i] = u[i]
        BY <3>1, <3>2, <3>4, <4>1
      <4>3. x = u
        BY <4>1, <4>2, SeqEqual
      <4> QED
        BY <3>1, <3>2, <3>4, <4>1, <4>3
    <3> QED
      BY <3>1, <3>4
  <2>3. CASE x = w
    <3>1. w # u
      <4>1. Len(w) = Len(u) + 1 /\ Len(u) \in Nat
        BY AppendProperties, LenProperties
      <4> QED
        BY <4>1
    <3>2. ReachIn(m2, x) = v /\ ReachIn(m, x) = old
      BY <1>2, <1>4, <2>3
    <3>3. ReachIn(m2, Append(x, d)) = null /\ ReachIn(m, Append(x, d)) = null
      BY <2>1, <3>2 DEF MovesOne
    <3> HIDE DEF w
    <3>4. Append(x, d) # w
      BY <2>2, <2>3, <3>1
    <3> QED
      BY <2>2, <3>3, <3>4
  <2>4. CASE x # w
    <3>1. ReachIn(m2, x) = ReachIn(m, x)
      BY <1>4, <2>4
    <3>2. CASE IsSlot(ReachIn(m, x))
      <4>1. ReachIn(m, x) \in DOMAIN m
        BY <3>2, ReachFacts
      <4>2. ReachIn(m, x) # old
        <5> HIDE DEF w
        <5> QED
          BY <1>1, <1>2, <2>4, <3>2, ReachApart
      <4>3. FollowIn(m2, ReachIn(m, x), d) =
              IF ReachIn(m, x) = cur /\ d = c THEN v ELSE FollowIn(m, ReachIn(m, x), d)
        BY <4>1, <4>2 DEF MovesOne
      <4>4. ReachIn(m, x) = cur <=> x = u
        BY <1>0, <3>2, ReachApart
      <4> HIDE DEF w
      <4> QED
        BY <2>1, <2>2, <3>1, <4>3, <4>4
    <3>3. CASE ~IsSlot(ReachIn(m, x))
      <4>1. x # u
        BY <1>0, <3>3
      <4>2. ReachIn(m2, Append(x, d)) = null /\ ReachIn(m, Append(x, d)) = null
        BY <2>1, <3>1, <3>3 DEF FollowIn
      <4> HIDE DEF w
      <4> QED
        BY <2>2, <4>1, <4>2
    <3> QED
      BY <3>2, <3>3
  <2> QED
    BY <2>3, <2>4
<1>5. \A x \in Seq(Chars) : x \in S
  <2> HIDE DEF S
  <2> QED
    BY <1>3, <1>4, AllWords
<1> QED
  BY <1>5 DEF WordMoves

(* Whether a word ends where it leads.                                       *)
Ends(m, w) ==
  LET p == ReachIn(m, w) IN p # null /\ (p # tagged => m[p].is_terminal)

(* Every node that is in both memories is the same but for the pointer at c  *)
(* of cur, which is v.                                                       *)
IsEdit(m, m2, cur, c, v) ==
  \A s \in DOMAIN m \cap DOMAIN m2 :
     /\ DOMAIN m2[s] = NodeFields /\ DOMAIN m2[s].nodes = Chars
     /\ m2[s].is_terminal = m[s].is_terminal
     /\ m2[s].hash = m[s].hash /\ m2[s].value = m[s].value
     /\ \A d \in Chars : m2[s].nodes[d] = IF s = cur /\ d = c THEN v ELSE m[s].nodes[d]

(* A fresh slot is found, and is not in use.                                 *)
LEMMA FreshIs ==
  ASSUME NEW m, IsMemory(m)
  PROVE  FreshSlot(m) \in Nat /\ FreshSlot(m) \notin DOMAIN m /\ FreshSlot(m) > Root
<1> DEFINE n == Cardinality(DOMAIN m)
           S == {s \in Root..Root + n : s \notin DOMAIN m}
<1>1. n \in Nat /\ IsFiniteSet(DOMAIN m)
  BY FS_CardinalityType DEF IsMemory
<1>2. S # {}
  <2> SUFFICES ASSUME Root..Root + n \subseteq DOMAIN m PROVE FALSE
    OBVIOUS
  <2>1. Cardinality(Root..Root + n) <= n
    BY <1>1, FS_Subset
  <2>2. Cardinality(Root..Root + n) = IF Root > Root + n THEN 0 ELSE Root + n - Root + 1
    BY <1>1, FS_Interval DEF Root
  <2> HIDE DEF n
  <2> QED
    BY <1>1, <2>1, <2>2 DEF Root
<1>3. S \in SUBSET Nat
  BY <1>1 DEF Root
<1>4. Min(S) \in S
  <2> HIDE DEF S
  <2> QED
    BY <1>2, <1>3, MinOf
<1>5. FreshSlot(m) \in S
  BY <1>4 DEF FreshSlot
<1>6. Root \in DOMAIN m
  BY DEF IsMemory
<1> HIDE DEF n
<1> QED
  BY <1>1, <1>3, <1>5, <1>6 DEF Root

(* A node whose pointer at c becomes v.                                      *)
LEMMA PointerSet ==
  ASSUME NEW node, DOMAIN node = NodeFields, DOMAIN node.nodes = Chars, NEW c, NEW v,
         NEW changed, changed = [node EXCEPT !.nodes[c] = v]
  PROVE  /\ DOMAIN changed = NodeFields /\ DOMAIN changed.nodes = Chars
         /\ changed.is_terminal = node.is_terminal
         /\ changed.hash = node.hash /\ changed.value = node.value
         /\ \A d \in Chars : changed.nodes[d] = IF d = c THEN v ELSE node.nodes[d]
<1>1. changed.nodes = [node.nodes EXCEPT ![c] = v]
  BY DEF NodeFields
<1>2. \A d \in Chars : changed.nodes[d] = IF d = c THEN v ELSE node.nodes[d]
  BY <1>1
<1>3. DOMAIN changed = NodeFields
  OBVIOUS
<1>4. changed.is_terminal = node.is_terminal /\ changed.hash = node.hash /\ changed.value = node.value
  BY DEF NodeFields
<1> QED
  BY <1>1, <1>2, <1>3, <1>4

(* What is added with a child.                                               *)
IsAdded(m, m2, cur, c, node, f) ==
  /\ f = FreshSlot(m) /\ f \in Nat /\ f \notin DOMAIN m /\ f > Root
  /\ DOMAIN m2 = DOMAIN m \cup {f} /\ m2[f] = node /\ IsEdit(m, m2, cur, c, f)

LEMMA ChildAdded ==
  ASSUME NEW m, IsMemory(m), NEW cur \in DOMAIN m, NEW c \in Chars, NEW node
  PROVE  IsAdded(m, AddChild(m, cur, c, node), cur, c, node, FreshSlot(m))
<1>0. PICK m2, f : m2 = AddChild(m, cur, c, node) /\ f = FreshSlot(m)
  OBVIOUS
<1>1. f \in Nat /\ f \notin DOMAIN m /\ f > Root
  BY <1>0, FreshIs
<1>2. DOMAIN m2 = DOMAIN m \cup {f} /\ m2[f] = node
  BY <1>0 DEF AddChild
<1>3. ASSUME NEW s \in DOMAIN m
      PROVE  m2[s] = IF s = cur THEN [m[s] EXCEPT !.nodes[c] = f] ELSE m[s]
  BY <1>0, <1>1 DEF AddChild
<1>4. ASSUME NEW s \in DOMAIN m PROVE IsNode(m, s)
  BY DEF IsMemory
<1>5. IsEdit(m, m2, cur, c, f)
  <2> SUFFICES ASSUME NEW s \in DOMAIN m
               PROVE  /\ DOMAIN m2[s] = NodeFields /\ DOMAIN m2[s].nodes = Chars
                      /\ m2[s].is_terminal = m[s].is_terminal
                      /\ m2[s].hash = m[s].hash /\ m2[s].value = m[s].value
                      /\ \A d \in Chars : m2[s].nodes[d] = IF s = cur /\ d = c THEN f ELSE m[s].nodes[d]
    BY DEF IsEdit
  <2>1. DOMAIN m[s] = NodeFields /\ DOMAIN m[s].nodes = Chars
    BY <1>4 DEF IsNode
  <2>2. CASE s = cur
    <3>1. m2[s] = [m[s] EXCEPT !.nodes[c] = f]
      BY <1>3, <2>2
    <3> QED
      BY <2>1, <2>2, <3>1, PointerSet
  <2>3. CASE s # cur
    <3>1. m2[s] = m[s]
      BY <1>3, <2>3
    <3> QED
      BY <2>1, <2>3, <3>1
  <2> QED
    BY <2>2, <2>3
<1> QED
  BY <1>0, <1>1, <1>2, <1>5 DEF IsAdded

(* A memory with a new node below it stays well formed.                      *)
LEMMA GrownMemory ==
  ASSUME NEW m, IsMemory(m), NEW cur \in DOMAIN m, NEW c \in Chars, ~IsSlot(m[cur].nodes[c]),
         NEW h, NEW t \in BOOLEAN, NEW m2, m2 = AddChild(m, cur, c, Node(h, t))
  PROVE  IsMemory(m2)
<1>1. PICK f : IsAdded(m, m2, cur, c, Node(h, t), f)
  BY ChildAdded
<1> USE <1>1 DEF IsAdded
<1>2. /\ DOMAIN m2[f] = NodeFields /\ DOMAIN m2[f].nodes = Chars
      /\ m2[f].is_terminal \in BOOLEAN /\ \A d \in Chars : m2[f].nodes[d] = null
  BY <1>1 DEF Node, NodeFields
<1>3. ASSUME NEW s \in DOMAIN m
      PROVE  /\ DOMAIN m2[s] = NodeFields /\ DOMAIN m2[s].nodes = Chars
             /\ m2[s].is_terminal \in BOOLEAN
             /\ \A d \in Chars : m2[s].nodes[d] = IF s = cur /\ d = c THEN f ELSE m[s].nodes[d]
  BY <1>1 DEF IsEdit, IsMemory, IsNode
<1>4. \A s \in DOMAIN m : \A d \in Chars : m[s].nodes[d] \in {null, tagged} \cup (DOMAIN m \ {Root})
  BY DEF IsMemory, IsNode
<1>5. /\ IsFiniteSet(DOMAIN m2) /\ DOMAIN m2 \subseteq Nat /\ Root \in DOMAIN m2
      /\ \A s \in DOMAIN m2 : IsSlot(s)
  <2>1. IsFiniteSet(DOMAIN m2)
    BY <1>1, FS_AddElement DEF IsMemory
  <2>2. DOMAIN m \subseteq Nat /\ Root \in DOMAIN m /\ \A s \in DOMAIN m : IsSlot(s)
    BY DEF IsMemory
  <2>3. IsSlot(f)
    BY <1>1 DEF IsSlot, tagged, Root
  <2> QED
    BY <1>1, <2>1, <2>2, <2>3
<1>6. \A s \in DOMAIN m2 : IsNode(m2, s)
  BY <1>1, <1>2, <1>3, <1>4 DEF IsNode, Root
<1>7. OnePointer(m2)
  <2>1. ASSUME NEW s \in DOMAIN m2, NEW d \in Chars, IsSlot(m2[s].nodes[d])
        PROVE  /\ s \in DOMAIN m
               /\ m2[s].nodes[d] = f <=> s = cur /\ d = c
               /\ m2[s].nodes[d] # f => m2[s].nodes[d] = m[s].nodes[d]
    <3>1. s \in DOMAIN m
      BY <1>1, <1>2, <2>1 DEF IsSlot, null, tagged
    <3>2. m[s].nodes[d] # f
      BY <1>1, <1>4, <3>1 DEF null, tagged, Root
    <3> QED
      BY <1>3, <3>1, <3>2
  <2> SUFFICES ASSUME NEW s \in DOMAIN m2, NEW q \in DOMAIN m2, NEW d \in Chars, NEW e \in Chars,
                      IsSlot(m2[s].nodes[d]), m2[s].nodes[d] = m2[q].nodes[e]
               PROVE  s = q /\ d = e
    BY DEF OnePointer
  <2>2. CASE m2[s].nodes[d] = f
    <3>1. IsSlot(m2[q].nodes[e]) /\ m2[q].nodes[e] = f
      BY <2>2
    <3>2. s = cur /\ d = c
      BY <2>1, <2>2
    <3>3. q = cur /\ e = c
      BY <2>1, <3>1
    <3> QED
      BY <3>2, <3>3
  <2>3. CASE m2[s].nodes[d] # f
    <3>1. s \in DOMAIN m /\ q \in DOMAIN m /\ m2[s].nodes[d] = m[s].nodes[d] /\ m2[q].nodes[e] = m[q].nodes[e]
      BY <2>1, <2>3
    <3>2. OnePointer(m)
      BY DEF IsMemory
    <3>3. IsSlot(m[s].nodes[d]) /\ m[s].nodes[d] = m[q].nodes[e]
      BY <3>1
    <3> QED
      BY <3>1, <3>2, <3>3 DEF OnePointer
  <2> QED
    BY <2>2, <2>3
<1>8. \A s \in DOMAIN m2 \ {Root} : \E q \in DOMAIN m2 : \E d \in Chars : m2[q].nodes[d] = s
  <2> SUFFICES ASSUME NEW s \in DOMAIN m2 \ {Root}
               PROVE  \E q \in DOMAIN m2 : \E d \in Chars : m2[q].nodes[d] = s
    OBVIOUS
  <2>1. CASE s = f
    <3>1. m2[cur].nodes[c] = s
      BY <1>3, <2>1
    <3> QED
      BY <1>1, <3>1
  <2>2. CASE s # f
    <3>1. s \in DOMAIN m /\ s # Root /\ IsSlot(s)
      BY <1>1, <2>2, <1>5
    <3>2. PICK q \in DOMAIN m, d \in Chars : m[q].nodes[d] = s
      BY <3>1 DEF IsMemory
    <3>3. ~(q = cur /\ d = c)
      BY <3>1, <3>2
    <3>4. m2[q].nodes[d] = s
      BY <1>3, <3>2, <3>3
    <3> QED
      BY <1>1, <3>4
  <2> QED
    BY <2>1, <2>2
<1> QED
  BY <1>5, <1>6, <1>7, <1>8 DEF IsMemory

(* The new node is where its word leads, and every other word leads where it *)
(* led.                                                                      *)
LEMMA GrownReach ==
  ASSUME NEW m, IsMemory(m), NEW u \in Seq(Chars), NEW cur, NEW c \in Chars, NEW old,
         AtWord(m, u, cur, c, old), ~IsSlot(old),
         NEW h, NEW t \in BOOLEAN, NEW m2, m2 = AddChild(m, cur, c, Node(h, t))
  PROVE  WordMoves(m, m2, u, c, FreshSlot(m))
<1>1. cur \in DOMAIN m
  BY ReachFacts DEF AtWord
<1>2. PICK node : node = Node(h, t)
  OBVIOUS
<1>3. PICK f : IsAdded(m, m2, cur, c, node, f)
  BY <1>1, <1>2, ChildAdded
<1>5. \A d \in Chars : FollowIn(m, old, d) = null /\ FollowIn(m2, f, d) = null
  BY <1>2, <1>3 DEF FollowIn, Node, IsAdded
<1>4. ASSUME NEW s \in DOMAIN m, NEW d \in Chars
      PROVE  FollowIn(m2, s, d) = IF s = cur /\ d = c THEN f ELSE FollowIn(m, s, d)
  <2>1. m2[s].nodes[d] = IF s = cur /\ d = c THEN f ELSE m[s].nodes[d]
    BY <1>3 DEF IsEdit, IsAdded
  <2> QED
    BY <2>1 DEF FollowIn, IsMemory
<1>6. MovesOne(m, m2, cur, c, old, f)
  BY <1>4, <1>5 DEF MovesOne
<1>7. WordMoves(m, m2, u, c, f)
  BY <1>6, ReachChanges
<1> QED
  BY <1>3, <1>7 DEF IsAdded

(* A pointer that becomes null or tagged, with the childless node that it    *)
(* led to, if it led to one, gone: the memory stays well formed.             *)
IsCut(m, m2, cur, c, old, v) ==
  /\ old = m[cur].nodes[c] /\ (IsSlot(old) => \A d \in Chars : m[old].nodes[d] = null)
  /\ DOMAIN m2 = DOMAIN m \ {old} /\ IsEdit(m, m2, cur, c, v)

LEMMA CutMemory ==
  ASSUME NEW m, IsMemory(m), NEW cur \in DOMAIN m, NEW c \in Chars, NEW v \in {null, tagged},
         NEW old, NEW m2, IsCut(m, m2, cur, c, old, v)
  PROVE  cur # old /\ IsMemory(m2)
<1> USE DEF IsCut
<1>1. \A s \in DOMAIN m : \A d \in Chars : m[s].nodes[d] \in {null, tagged} \cup (DOMAIN m \ {Root})
  BY DEF IsMemory, IsNode
<1>2. old \in {null, tagged} \cup (DOMAIN m \ {Root})
  BY <1>1
<1>3. \A s \in DOMAIN m : IsSlot(s)
  BY DEF IsMemory
<1>4. cur # old
  <2> SUFFICES ASSUME cur = old PROVE FALSE
    OBVIOUS
  <2>1. m[old].nodes[c] = null
    BY <1>3
  <2> QED
    BY <1>3, <2>1 DEF IsSlot, null, tagged
<1>5. ASSUME NEW s \in DOMAIN m2
      PROVE  /\ s \in DOMAIN m /\ DOMAIN m2[s] = NodeFields /\ DOMAIN m2[s].nodes = Chars
             /\ m2[s].is_terminal \in BOOLEAN
             /\ \A d \in Chars : m2[s].nodes[d] = IF s = cur /\ d = c THEN v ELSE m[s].nodes[d]
  BY DEF IsEdit, IsMemory, IsNode
<1>6. OnePointer(m)
  BY DEF IsMemory
<1>7. ASSUME NEW s \in DOMAIN m, NEW d \in Chars, ~(s = cur /\ d = c), m[s].nodes[d] = old
      PROVE  ~IsSlot(old)
  <2> SUFFICES ASSUME IsSlot(old) PROVE FALSE
    OBVIOUS
  <2>1. IsSlot(m[s].nodes[d]) /\ m[s].nodes[d] = m[cur].nodes[c]
    BY <1>7
  <2> QED
    BY <1>6, <1>7, <2>1 DEF OnePointer
<1>8. /\ IsFiniteSet(DOMAIN m2) /\ DOMAIN m2 \subseteq Nat /\ Root \in DOMAIN m2
      /\ \A s \in DOMAIN m2 : IsSlot(s)
  <2>1. IsFiniteSet(DOMAIN m) /\ DOMAIN m \subseteq Nat /\ Root \in DOMAIN m
    BY DEF IsMemory
  <2>2. IsFiniteSet(DOMAIN m2)
    BY <2>1, FS_Subset
  <2>3. Root # old
    BY <1>2 DEF null, tagged, Root
  <2> QED
    BY <1>3, <2>1, <2>2, <2>3
<1>9. ASSUME NEW s \in DOMAIN m2 PROVE IsNode(m2, s)
  <2> SUFFICES ASSUME NEW d \in Chars
               PROVE  m2[s].nodes[d] \in {null, tagged} \cup (DOMAIN m2 \ {Root})
    BY <1>5 DEF IsNode
  <2>1. CASE s = cur /\ d = c
    BY <1>5, <2>1
  <2>2. CASE ~(s = cur /\ d = c)
    <3>1. m2[s].nodes[d] = m[s].nodes[d] /\ s \in DOMAIN m
      BY <1>5, <2>2
    <3>2. m[s].nodes[d] = old => ~IsSlot(old)
      BY <1>7, <2>2, <3>1
    <3> QED
      BY <1>1, <1>3, <3>1, <3>2
  <2> QED
    BY <2>1, <2>2
<1>10. OnePointer(m2)
  <2> SUFFICES ASSUME NEW s \in DOMAIN m2, NEW q \in DOMAIN m2, NEW d \in Chars, NEW e \in Chars,
                      IsSlot(m2[s].nodes[d]), m2[s].nodes[d] = m2[q].nodes[e]
               PROVE  s = q /\ d = e
    BY DEF OnePointer
  <2>1. ~IsSlot(v)
    BY DEF IsSlot, null, tagged
  <2>2. s \in DOMAIN m /\ m2[s].nodes[d] = m[s].nodes[d]
    BY <1>5, <2>1
  <2>3. q \in DOMAIN m /\ m2[q].nodes[e] = m[q].nodes[e]
    BY <1>5, <2>1
  <2>4. IsSlot(m[s].nodes[d]) /\ m[s].nodes[d] = m[q].nodes[e]
    BY <2>2, <2>3
  <2> QED
    BY <1>6, <2>2, <2>3, <2>4 DEF OnePointer
<1>11. ASSUME NEW s \in DOMAIN m2 \ {Root}
       PROVE  \E q \in DOMAIN m2 : \E d \in Chars : m2[q].nodes[d] = s
  <2>1. s \in DOMAIN m \ {Root} /\ s # old /\ IsSlot(s)
    BY <1>3
  <2>2. PICK q \in DOMAIN m, d \in Chars : m[q].nodes[d] = s
    BY <2>1 DEF IsMemory
  <2>3. ~(q = cur /\ d = c)
    BY <2>1, <2>2
  <2>4. q # old
    <3> SUFFICES ASSUME q = old PROVE FALSE
      OBVIOUS
    <3>1. m[q].nodes[d] = null
      BY <1>3
    <3> QED
      BY <2>1, <2>2, <3>1 DEF IsSlot, null, tagged
  <2>5. q \in DOMAIN m2 /\ m2[q].nodes[d] = s
    BY <1>5, <2>2, <2>3, <2>4
  <2> QED
    BY <2>5
<1> QED
  BY <1>4, <1>8, <1>9, <1>10, <1>11 DEF IsMemory

(* Only the word of that pointer leads elsewhere.                            *)
LEMMA CutReach ==
  ASSUME NEW m, IsMemory(m), NEW u \in Seq(Chars), NEW cur, NEW c \in Chars, NEW old,
         AtWord(m, u, cur, c, old), NEW v \in {null, tagged}, NEW m2, IsCut(m, m2, cur, c, old, v)
  PROVE  WordMoves(m, m2, u, c, v)
<1>1. \A d \in Chars : FollowIn(m, old, d) = null /\ FollowIn(m2, v, d) = null
  BY DEF FollowIn, IsSlot, null, tagged, IsCut
<1>2. ASSUME NEW s \in DOMAIN m, NEW d \in Chars, s # old
      PROVE  FollowIn(m2, s, d) = IF s = cur /\ d = c THEN v ELSE FollowIn(m, s, d)
  <2>1. m2[s].nodes[d] = IF s = cur /\ d = c THEN v ELSE m[s].nodes[d]
    BY <1>2 DEF IsEdit, IsCut
  <2> QED
    BY <2>1 DEF FollowIn, IsMemory
<1>3. MovesOne(m, m2, cur, c, old, v)
  BY <1>1, <1>2 DEF MovesOne
<1> QED
  BY <1>3, ReachChanges

(* Nodes whose marks, values or hashes change leave all words where they are. *)
LEMMA SameReach ==
  ASSUME NEW m, IsMemory(m), NEW m2, DOMAIN m2 = DOMAIN m,
         \A s \in DOMAIN m : /\ DOMAIN m2[s] = NodeFields /\ m2[s].nodes = m[s].nodes
                             /\ m2[s].is_terminal \in BOOLEAN
  PROVE  IsMemory(m2) /\ \A x \in Seq(Chars) : ReachIn(m2, x) = ReachIn(m, x)
<1>1. IsMemory(m2)
  <2>1. \A s \in DOMAIN m : IsNode(m2, s)
    BY DEF IsMemory, IsNode
  <2>2. OnePointer(m2)
    BY DEF IsMemory, OnePointer
  <2>3. \A s \in DOMAIN m \ {Root} : \E q \in DOMAIN m : \E c \in Chars : m2[q].nodes[c] = s
    BY DEF IsMemory
  <2> QED
    BY <2>1, <2>2, <2>3 DEF IsMemory
<1> DEFINE S == {x \in Seq(Chars) : ReachIn(m2, x) = ReachIn(m, x)}
<1>2. <<>> \in S
  BY ReachSteps, EmptySeq
<1>3. ASSUME NEW x \in Seq(Chars), NEW d \in Chars, x \in S PROVE Append(x, d) \in S
  <2>1. /\ ReachIn(m2, Append(x, d)) = FollowIn(m2, ReachIn(m2, x), d)
        /\ ReachIn(m, Append(x, d)) = FollowIn(m, ReachIn(m, x), d)
    BY ReachSteps
  <2>2. FollowIn(m2, ReachIn(m, x), d) = FollowIn(m, ReachIn(m, x), d)
    BY ReachFacts DEF FollowIn
  <2>3. Append(x, d) \in Seq(Chars)
    BY AppendProperties
  <2> QED
    BY <1>3, <2>1, <2>2, <2>3
<1>4. \A x \in Seq(Chars) : x \in S
  <2> HIDE DEF S
  <2> QED
    BY <1>2, <1>3, AllWords
<1> QED
  BY <1>1, <1>4

-----------------------------------------------------------------------------
(* What each trie keeps, and what a caller sees of it.                       *)
ChildHash(kind, m, s, c) == IF kind = "TinyTrie" THEN Append(m[s].hash, c) ELSE <<s, c>>

Fits(kind, m) ==
  /\ m[Root].hash = <<>>
  /\ \A s \in DOMAIN m : \A c \in Chars :
        IsSlot(m[s].nodes[c]) => m[m[s].nodes[c]].hash = ChildHash(kind, m, s, c)

Valued(m) ==
  /\ \A s \in DOMAIN m : m[s].is_terminal => m[s].value \in TrieValues
  /\ \A s \in DOMAIN m : \A c \in Chars : m[s].nodes[c] # tagged

Good(kind, m) ==
  /\ IsMemory(m)
  /\ kind # "ValueTrie" => Fits(kind, m)
  /\ kind = "ValueTrie" => Valued(m)

GotIn(kind, m, w) ==
  IF ~Ends(m, w) THEN No
  ELSE IF kind = "ValueTrie" THEN m[ReachIn(m, w)].value ELSE Yes

SameGot(kind, m, m2) == \A x \in Seq(Chars) : GotIn(kind, m2, x) = GotIn(kind, m, x)

WordGets(kind, m, m2, w, a) ==
  \A x \in Seq(Chars) : GotIn(kind, m2, x) = IF x = w THEN a ELSE GotIn(kind, m, x)

(* A word in a trie without tagged pointers leads to a node or to null.      *)
LEMMA NoTagReached ==
  ASSUME NEW m, IsMemory(m), Valued(m), NEW w \in Seq(Chars)
  PROVE  ReachIn(m, w) = null \/ ReachIn(m, w) \in DOMAIN m
<1>1. CASE w = <<>>
  BY <1>1, ReachSteps DEF IsMemory
<1>2. CASE w # <<>>
  <2>1. PICK u \in Seq(Chars), c \in Chars : w = Append(u, c)
    BY <1>2, SequenceEmptyOrAppend
  <2>2. ReachIn(m, w) = FollowIn(m, ReachIn(m, u), c)
    BY <2>1, ReachSteps
  <2>3. ReachIn(m, w) # tagged
    BY <2>2, ReachFacts DEF FollowIn, Valued, null, tagged
  <2> QED
    BY <2>3, ReachFacts
<1> QED
  BY <1>1, <1>2

(* A new node keeps its trie in order, and no caller sees it.                *)
IsNew(kind, m, cur, c, old, h, t) ==
  /\ ~IsSlot(old) /\ (t <=> old = tagged)
  /\ kind # "ValueTrie" => h = ChildHash(kind, m, cur, c)

LEMMA GrownGood ==
  ASSUME NEW kind, NEW m, Good(kind, m), NEW u \in Seq(Chars), NEW cur, NEW c \in Chars, NEW old,
         AtWord(m, u, cur, c, old), NEW t \in BOOLEAN, NEW h, IsNew(kind, m, cur, c, old, h, t),
         NEW m2, m2 = AddChild(m, cur, c, Node(h, t))
  PROVE  Good(kind, m2) /\ SameGot(kind, m, m2)
<1> USE DEF IsNew
<1>1. IsMemory(m) /\ cur \in DOMAIN m /\ old = m[cur].nodes[c] /\ IsSlot(cur) /\ cur = ReachIn(m, u)
  BY ReachFacts DEF AtWord, Good
<1>2. IsMemory(m2)
  BY <1>1, GrownMemory
<1>3. PICK node : node = Node(h, t)
  OBVIOUS
<1>0. PICK f : IsAdded(m, m2, cur, c, node, f)
  BY <1>1, <1>3, ChildAdded
<1>4. /\ f = FreshSlot(m) /\ f \in Nat /\ f \notin DOMAIN m /\ f > Root
      /\ DOMAIN m2 = DOMAIN m \cup {f} /\ m2[f] = node /\ IsEdit(m, m2, cur, c, f)
  BY <1>0 DEF IsAdded
<1>5. WordMoves(m, m2, u, c, f)
  BY <1>1, <1>4, GrownReach
<1>6. node.is_terminal = t /\ node.hash = h /\ \A d \in Chars : node.nodes[d] = null
  BY <1>3 DEF Node
<1>7. ASSUME NEW s \in DOMAIN m
      PROVE  /\ s # f /\ m2[s].is_terminal = m[s].is_terminal
             /\ m2[s].hash = m[s].hash /\ m2[s].value = m[s].value
             /\ \A d \in Chars : m2[s].nodes[d] = IF s = cur /\ d = c THEN f ELSE m[s].nodes[d]
  BY <1>4 DEF IsEdit
<1>8. \A s \in DOMAIN m : \A d \in Chars : m[s].nodes[d] \in {null, tagged} \cup (DOMAIN m \ {Root})
  BY <1>1 DEF IsMemory, IsNode
<1>9. old = null \/ old = tagged
  BY <1>1, <1>8 DEF IsMemory
<1>10. Root \in DOMAIN m /\ \A s \in DOMAIN m : IsSlot(s)
  BY <1>1 DEF IsMemory
<1>11. ASSUME kind # "ValueTrie" PROVE Fits(kind, m2)
  <2>1. Fits(kind, m)
    BY <1>11 DEF Good
  <2>2. m2[Root].hash = <<>>
    BY <1>7, <1>10, <2>1 DEF Fits
  <2>3. ASSUME NEW s \in DOMAIN m2, NEW d \in Chars, IsSlot(m2[s].nodes[d])
        PROVE  m2[m2[s].nodes[d]].hash = ChildHash(kind, m2, s, d)
    <3>1. s \in DOMAIN m
      BY <1>4, <1>6, <2>3 DEF IsSlot, null, tagged
    <3>2. ChildHash(kind, m2, s, d) = ChildHash(kind, m, s, d)
      BY <1>7, <3>1 DEF ChildHash
    <3>3. CASE s = cur /\ d = c
      <4>1. m2[s].nodes[d] = f
        BY <1>7, <3>1, <3>3
      <4> QED
        BY <1>4, <1>6, <1>11, <3>2, <3>3, <4>1
    <3>4. CASE ~(s = cur /\ d = c)
      <4>1. m2[s].nodes[d] = m[s].nodes[d]
        BY <1>7, <3>1, <3>4
      <4>2. m[s].nodes[d] \in DOMAIN m
        BY <1>8, <2>3, <3>1, <4>1 DEF IsSlot, null, tagged
      <4>3. m2[m[s].nodes[d]].hash = m[m[s].nodes[d]].hash
        BY <1>7, <4>2
      <4>4. m[m[s].nodes[d]].hash = ChildHash(kind, m, s, d)
        BY <2>1, <2>3, <3>1, <4>1 DEF Fits
      <4> QED
        BY <3>2, <4>1, <4>3, <4>4
    <3> QED
      BY <3>3, <3>4
  <2> QED
    BY <2>2, <2>3 DEF Fits
<1>12. ASSUME kind = "ValueTrie" PROVE Valued(m2) /\ old = null /\ t = FALSE
  <2>1. Valued(m)
    BY <1>12 DEF Good
  <2>2. old # tagged
    BY <1>1, <2>1 DEF Valued
  <2>3. old = null /\ t = FALSE
    BY <1>9, <2>2
  <2>4. \A s \in DOMAIN m2 : m2[s].is_terminal => m2[s].value \in TrieValues
    BY <1>4, <1>6, <1>7, <2>1, <2>3 DEF Valued
  <2>5. \A s \in DOMAIN m2 : \A d \in Chars : m2[s].nodes[d] # tagged
    BY <1>4, <1>6, <1>7, <2>1 DEF Valued, null, tagged, Root
  <2> QED
    BY <2>3, <2>4, <2>5 DEF Valued
<1>13. ASSUME NEW x \in Seq(Chars) PROVE GotIn(kind, m2, x) = GotIn(kind, m, x)
  <2>1. CASE x = Append(u, c)
    <3>1. ReachIn(m2, x) = f
      BY <1>5, <2>1 DEF WordMoves
    <3>2. ReachIn(m, x) = old
      BY <1>1, <2>1, ReachSteps DEF FollowIn
    <3>3. Ends(m2, x) <=> t
      BY <1>4, <1>6, <3>1 DEF Ends, null, tagged, Root
    <3>4. Ends(m, x) <=> t
      BY <1>9, <3>2 DEF Ends, null, tagged
    <3> QED
      BY <1>12, <3>3, <3>4 DEF GotIn
  <2>2. CASE x # Append(u, c)
    <3>1. ReachIn(m2, x) = ReachIn(m, x)
      BY <1>5, <2>2 DEF WordMoves
    <3>2. CASE ReachIn(m, x) \in DOMAIN m
      <4>1. /\ m2[ReachIn(m, x)].is_terminal = m[ReachIn(m, x)].is_terminal
            /\ m2[ReachIn(m, x)].value = m[ReachIn(m, x)].value
        BY <1>7, <3>2
      <4> QED
        BY <3>1, <4>1 DEF GotIn, Ends
    <3>3. CASE ReachIn(m, x) = null
      BY <3>1, <3>3 DEF GotIn, Ends
    <3>4. CASE ReachIn(m, x) = tagged /\ ReachIn(m, x) \notin DOMAIN m
      <4>1. kind # "ValueTrie"
        BY <1>1, <3>4, NoTagReached DEF Good, null, tagged
      <4> QED
        BY <3>1, <3>4, <4>1 DEF GotIn, Ends
    <3> QED
      BY <1>1, <3>2, <3>3, <3>4, ReachFacts
  <2> QED
    BY <2>1, <2>2
<1> QED
  BY <1>2, <1>11, <1>12, <1>13 DEF Good, SameGot

(* A pointer that becomes null or tagged, with or without the childless node *)
(* below it, keeps its trie in order, and only one word is seen to change.   *)
LEMMA CutGood ==
  ASSUME NEW kind, kind # "ValueTrie", NEW m, Good(kind, m), NEW u \in Seq(Chars), NEW cur,
         NEW c \in Chars, NEW old, AtWord(m, u, cur, c, old),
         NEW v \in {null, tagged}, NEW m2, IsCut(m, m2, cur, c, old, v)
  PROVE  /\ Good(kind, m2) /\ WordMoves(m, m2, u, c, v)
         /\ WordGets(kind, m, m2, Append(u, c), IF v = tagged THEN Yes ELSE No)
<1>1. IsMemory(m) /\ cur \in DOMAIN m /\ old = m[cur].nodes[c] /\ IsSlot(cur) /\ cur = ReachIn(m, u)
  BY ReachFacts DEF AtWord, Good
<1>2. IsMemory(m2)
  BY <1>1, CutMemory
<1>3. WordMoves(m, m2, u, c, v)
  BY <1>1, CutReach
<1>4. ASSUME NEW s \in DOMAIN m2
      PROVE  /\ s \in DOMAIN m /\ m2[s].is_terminal = m[s].is_terminal /\ m2[s].hash = m[s].hash
             /\ \A d \in Chars : m2[s].nodes[d] = IF s = cur /\ d = c THEN v ELSE m[s].nodes[d]
  BY DEF IsEdit, IsCut
<1>5. Fits(kind, m2)
  <2>1. Fits(kind, m)
    BY DEF Good
  <2>2. m2[Root].hash = <<>>
    BY <1>2, <1>4, <2>1 DEF Fits, IsMemory
  <2>3. ASSUME NEW s \in DOMAIN m2, NEW d \in Chars, IsSlot(m2[s].nodes[d])
        PROVE  m2[m2[s].nodes[d]].hash = ChildHash(kind, m2, s, d)
    <3>1. m2[s].nodes[d] = m[s].nodes[d] /\ s \in DOMAIN m
      BY <1>4, <2>3 DEF IsSlot, null, tagged
    <3>2. m2[s].nodes[d] \in DOMAIN m2
      BY <1>2, <2>3 DEF IsMemory, IsNode, IsSlot, null, tagged
    <3>3. m2[m2[s].nodes[d]].hash = m[m[s].nodes[d]].hash
      BY <1>4, <3>1, <3>2
    <3>4. m[m[s].nodes[d]].hash = ChildHash(kind, m, s, d)
      BY <2>1, <2>3, <3>1 DEF Fits
    <3>5. ChildHash(kind, m2, s, d) = ChildHash(kind, m, s, d)
      BY <1>4 DEF ChildHash
    <3> QED
      BY <3>3, <3>4, <3>5
  <2> QED
    BY <2>2, <2>3 DEF Fits
<1>6. ASSUME NEW x \in Seq(Chars)
      PROVE  GotIn(kind, m2, x) =
               IF x = Append(u, c) THEN IF v = tagged THEN Yes ELSE No ELSE GotIn(kind, m, x)
  <2>1. CASE x = Append(u, c)
    <3>1. ReachIn(m2, x) = v
      BY <1>3, <2>1 DEF WordMoves
    <3>2. Ends(m2, x) <=> v = tagged
      BY <3>1 DEF Ends, null, tagged
    <3> QED
      BY <2>1, <3>2 DEF GotIn
  <2>2. CASE x # Append(u, c)
    <3>1. ReachIn(m2, x) = ReachIn(m, x)
      BY <1>3, <2>2 DEF WordMoves
    <3>2. ReachIn(m2, x) \in {null, tagged} \cup DOMAIN m2
      BY <1>2, ReachFacts
    <3>3. CASE ReachIn(m2, x) \in DOMAIN m2
      <4>1. m2[ReachIn(m, x)].is_terminal = m[ReachIn(m, x)].is_terminal
        BY <1>4, <3>1, <3>3
      <4> QED
        BY <2>2, <3>1, <4>1 DEF GotIn, Ends
    <3>4. CASE ReachIn(m2, x) \in {null, tagged}
      BY <2>2, <3>1, <3>4 DEF GotIn, Ends
    <3> QED
      BY <3>2, <3>3, <3>4
  <2> QED
    BY <2>1, <2>2
<1> QED
  BY <1>2, <1>3, <1>5, <1>6 DEF Good, WordGets

(* A node whose mark is set or cleared, and its value with it, keeps its     *)
(* trie in order, and only its word is seen to change.                       *)
IsMarked(m, m2, p, b) ==
  /\ DOMAIN m2 = DOMAIN m
  /\ \A s \in DOMAIN m : /\ DOMAIN m2[s] = NodeFields /\ m2[s].nodes = m[s].nodes
                         /\ m2[s].hash = m[s].hash
                         /\ m2[s].is_terminal = IF s = p THEN b ELSE m[s].is_terminal
                         /\ s # p => m2[s].value = m[s].value

AtNode(m, w, p) == p = ReachIn(m, w) /\ IsSlot(p)

MayShow(kind, m2, p, b) == kind = "ValueTrie" /\ b => m2[p].value \in TrieValues

Shown(kind, m2, p, b) == IF ~b THEN No ELSE IF kind = "ValueTrie" THEN m2[p].value ELSE Yes

LEMMA MarkedGood ==
  ASSUME NEW kind, NEW m, Good(kind, m), NEW w \in Seq(Chars), NEW p, AtNode(m, w, p),
         NEW b \in BOOLEAN, NEW m2, IsMarked(m, m2, p, b), MayShow(kind, m2, p, b)
  PROVE  /\ Good(kind, m2) /\ WordGets(kind, m, m2, w, Shown(kind, m2, p, b))
         /\ \A x \in Seq(Chars) : ReachIn(m2, x) = ReachIn(m, x)
<1> USE DEF AtNode, MayShow
<1>1. IsMemory(m) /\ p \in DOMAIN m
  BY ReachFacts DEF Good
<1>2. /\ DOMAIN m2 = DOMAIN m
      /\ \A s \in DOMAIN m : /\ DOMAIN m2[s] = NodeFields /\ m2[s].nodes = m[s].nodes
                             /\ m2[s].hash = m[s].hash
                             /\ m2[s].is_terminal = IF s = p THEN b ELSE m[s].is_terminal
                             /\ s # p => m2[s].value = m[s].value
  BY DEF IsMarked
<1>3. \A s \in DOMAIN m : m[s].is_terminal \in BOOLEAN /\ IsSlot(s)
  BY <1>1 DEF IsMemory, IsNode
<1>4. IsMemory(m2) /\ \A x \in Seq(Chars) : ReachIn(m2, x) = ReachIn(m, x)
  <2>1. \A s \in DOMAIN m : /\ DOMAIN m2[s] = NodeFields /\ m2[s].nodes = m[s].nodes
                            /\ m2[s].is_terminal \in BOOLEAN
    BY <1>2, <1>3
  <2> QED
    BY <1>1, <1>2, <2>1, SameReach
<1>5. ASSUME kind # "ValueTrie" PROVE Fits(kind, m2)
  <2>1. Fits(kind, m)
    BY <1>5 DEF Good
  <2>2. Root \in DOMAIN m
    BY <1>1 DEF IsMemory
  <2>3. \A s \in DOMAIN m : \A d \in Chars : IsSlot(m[s].nodes[d]) => m[s].nodes[d] \in DOMAIN m
    BY <1>1 DEF IsMemory, IsNode, IsSlot, null, tagged
  <2> QED
    BY <1>2, <2>1, <2>2, <2>3 DEF Fits, ChildHash
<1>6. ASSUME kind = "ValueTrie" PROVE Valued(m2)
  <2>1. Valued(m)
    BY <1>6 DEF Good
  <2> QED
    BY <1>2, <1>6, <2>1 DEF Valued
<1>7. ASSUME NEW x \in Seq(Chars)
      PROVE  GotIn(kind, m2, x) =
               IF x # w THEN GotIn(kind, m, x)
               ELSE IF ~b THEN No ELSE IF kind = "ValueTrie" THEN m2[p].value ELSE Yes
  <2>1. CASE x = w
    <3>1. ReachIn(m2, x) = p /\ p # null /\ p # tagged
      BY <1>1, <1>4, <2>1 DEF IsMemory, IsSlot, null, tagged
    <3>2. Ends(m2, x) <=> b
      BY <1>1, <1>2, <3>1 DEF Ends
    <3> QED
      BY <2>1, <3>1, <3>2 DEF GotIn
  <2>2. CASE x # w
    <3>1. ReachIn(m2, x) = ReachIn(m, x)
      BY <1>4
    <3>2. ReachIn(m, x) # p
      BY <1>1, <2>2, ReachApart
    <3>3. CASE ReachIn(m, x) \in DOMAIN m
      <4>1. /\ m2[ReachIn(m, x)].is_terminal = m[ReachIn(m, x)].is_terminal
            /\ m2[ReachIn(m, x)].value = m[ReachIn(m, x)].value
        BY <1>2, <3>2, <3>3
      <4> QED
        BY <2>2, <3>1, <4>1 DEF GotIn, Ends
    <3>4. CASE ReachIn(m, x) = null
      BY <2>2, <3>1, <3>4 DEF GotIn, Ends
    <3>5. CASE ReachIn(m, x) = tagged /\ ReachIn(m, x) \notin DOMAIN m
      <4>1. kind # "ValueTrie"
        BY <1>1, <3>5, NoTagReached DEF Good, null, tagged
      <4> QED
        BY <2>2, <3>1, <3>5, <4>1 DEF GotIn, Ends
    <3> QED
      BY <1>1, <3>3, <3>4, <3>5, ReachFacts
  <2> QED
    BY <2>1, <2>2
<1> QED
  BY <1>4, <1>5, <1>6, <1>7 DEF Good, WordGets, Shown

-----------------------------------------------------------------------------
(* Every node but the root and e has something below it.                     *)
Filled(m, e) == \A s \in DOMAIN m \ {Root, e} : \E d \in Chars : m[s].nodes[d] # null

(* One character further, with a new node if there is none: the trie stays   *)
(* in order, no caller sees a difference, the hash on the way is that of the *)
(* node, and only the last node on the way may have nothing below it.        *)
IsRound(m, cur, c, h, m2, cur2) ==
  LET p == m[cur].nodes[c]
  IN  \/ IsSlot(p) /\ m2 = m /\ cur2 = p
      \/ ~IsSlot(p) /\ m2 = AddChild(m, cur, c, Node(h, p = tagged)) /\ cur2 = FreshSlot(m)

LEMMA WayStep ==
  ASSUME NEW kind, NEW m, Good(kind, m), NEW u \in Seq(Chars), NEW cur, NEW c \in Chars,
         cur = ReachIn(m, u), IsSlot(cur), NEW h, kind # "ValueTrie" => h = ChildHash(kind, m, cur, c),
         NEW m2, NEW cur2, IsRound(m, cur, c, h, m2, cur2)
  PROVE  /\ Good(kind, m2) /\ SameGot(kind, m, m2)
         /\ cur2 = ReachIn(m2, Append(u, c)) /\ IsSlot(cur2)
         /\ kind # "ValueTrie" => m2[cur2].hash = h
         /\ Filled(m, cur) => Filled(m2, cur2)
<1>1. PICK p : p = m[cur].nodes[c]
  OBVIOUS
<1>2. IsMemory(m) /\ cur \in DOMAIN m
  BY ReachFacts DEF Good
<1>3. ReachIn(m, Append(u, c)) = p
  BY <1>1, ReachSteps DEF FollowIn
<1>4. CASE IsSlot(p) /\ m2 = m /\ cur2 = p
  <2>1. kind # "ValueTrie" => m[p].hash = h
    BY <1>1, <1>2, <1>4 DEF Good, Fits
  <2>2. Filled(m, cur) => Filled(m, p)
    BY <1>1, <1>2, <1>4 DEF Filled, IsSlot, null, tagged
  <2>3. SameGot(kind, m, m)
    BY DEF SameGot
  <2> QED
    BY <1>3, <1>4, <2>1, <2>2, <2>3
<1>5. CASE ~IsSlot(p) /\ m2 = AddChild(m, cur, c, Node(h, p = tagged)) /\ cur2 = FreshSlot(m)
  <2>1. PICK t \in BOOLEAN : t <=> p = tagged
    OBVIOUS
  <2>2. m2 = AddChild(m, cur, c, Node(h, t))
    <3>1. t = (p = tagged)
      BY <2>1
    <3> QED
      BY <1>5, <3>1
  <2>3. AtWord(m, u, cur, c, p)
    BY <1>1 DEF AtWord
  <2>12. IsNew(kind, m, cur, c, p, h, t)
    BY <1>5, <2>1 DEF IsNew
  <2>4. Good(kind, m2) /\ SameGot(kind, m, m2)
    BY <2>2, <2>3, <2>12, GrownGood
  <2>5. WordMoves(m, m2, u, c, cur2)
    BY <1>2, <1>5, <2>2, <2>3, GrownReach
  <2>6. Append(u, c) \in Seq(Chars)
    BY AppendProperties
  <2>7. cur2 = ReachIn(m2, Append(u, c))
    BY <2>5, <2>6 DEF WordMoves
  <2>8. PICK node : node = Node(h, t)
    OBVIOUS
  <2>9. IsAdded(m, m2, cur, c, node, cur2)
    BY <1>2, <1>5, <2>2, <2>8, ChildAdded
  <2>10. IsSlot(cur2) /\ m2[cur2].hash = h
    BY <2>8, <2>9 DEF IsAdded, Node, IsSlot, tagged, Root
  <2>11. ASSUME Filled(m, cur) PROVE Filled(m2, cur2)
    <3> SUFFICES ASSUME NEW s \in DOMAIN m2 \ {Root, cur2}
                 PROVE  \E d \in Chars : m2[s].nodes[d] # null
      BY DEF Filled
    <3>1. s \in DOMAIN m
      BY <2>9 DEF IsAdded
    <3>2. \A d \in Chars : m2[s].nodes[d] = IF s = cur /\ d = c THEN cur2 ELSE m[s].nodes[d]
      BY <2>9, <3>1 DEF IsAdded, IsEdit
    <3>3. CASE s = cur
      BY <2>10, <3>2, <3>3 DEF IsSlot, null, tagged
    <3>4. CASE s # cur
      BY <2>11, <3>1, <3>2, <3>4 DEF Filled
    <3> QED
      BY <3>3, <3>4
  <2> QED
    BY <2>4, <2>7, <2>10, <2>11
<1> QED
  BY <1>1, <1>4, <1>5 DEF IsRound

(* How far the making of nodes has come after i characters of w: at a node   *)
(* in a trie in order, in which no caller sees a difference.                 *)
OnWay(kind, m, m2, cur, w, i) ==
  /\ Good(kind, m2) /\ SameGot(kind, m, m2)
  /\ \E u \in Seq(Chars) : /\ Len(u) = i /\ \A j \in 1..i : u[j] = w[j]
                           /\ cur = ReachIn(m2, u) /\ IsSlot(cur)
  /\ Filled(m, Root) => Filled(m2, cur)

HashIs(kind, m, cur, c, h) == kind # "ValueTrie" => h = ChildHash(kind, m, cur, c)

IsNext(w, i, k, c) == k = i + 1 /\ k <= Len(w) /\ c = w[k]

LEMMA WayRound ==
  ASSUME NEW kind, NEW m, NEW m2, NEW cur, NEW w \in Seq(Chars), NEW i \in Nat,
         OnWay(kind, m, m2, cur, w, i), NEW k, NEW c0, IsNext(w, i, k, c0),
         NEW h, HashIs(kind, m2, cur, c0, h), NEW m3, NEW cur3, IsRound(m2, cur, c0, h, m3, cur3)
  PROVE  OnWay(kind, m, m3, cur3, w, k) /\ (kind # "ValueTrie" => m3[cur3].hash = h)
<1> USE DEF HashIs, IsNext
<1>1. PICK u \in Seq(Chars) : /\ Len(u) = i /\ \A j \in 1..i : u[j] = w[j]
                              /\ cur = ReachIn(m2, u) /\ IsSlot(cur)
  BY DEF OnWay
<1>2. PICK c \in Chars : c = w[i + 1]
  <2>1. i + 1 \in 1..Len(w)
    BY LenProperties
  <2> QED
    BY <2>1, ElementOfSeq
<1>3. Good(kind, m2) /\ SameGot(kind, m, m2) /\ (Filled(m, Root) => Filled(m2, cur))
  BY DEF OnWay
<1>4. IsRound(m2, cur, c, h, m3, cur3) /\ (kind # "ValueTrie" => h = ChildHash(kind, m2, cur, c))
  BY <1>2
<1>5. /\ Good(kind, m3) /\ SameGot(kind, m2, m3)
      /\ cur3 = ReachIn(m3, Append(u, c)) /\ IsSlot(cur3)
      /\ kind # "ValueTrie" => m3[cur3].hash = h
      /\ Filled(m2, cur) => Filled(m3, cur3)
  BY <1>1, <1>3, <1>4, WayStep
<1>6. SameGot(kind, m, m3)
  BY <1>3, <1>5 DEF SameGot
<1>7. /\ Append(u, c) \in Seq(Chars) /\ Len(Append(u, c)) = i + 1
      /\ \A j \in 1..i + 1 : Append(u, c)[j] = w[j]
  <2>1. /\ Append(u, c) \in Seq(Chars) /\ Len(Append(u, c)) = Len(u) + 1
        /\ Append(u, c)[Len(u) + 1] = c /\ \A j \in 1..Len(u) : Append(u, c)[j] = u[j]
    BY AppendProperties
  <2> QED
    BY <1>1, <1>2, <2>1
<1> QED
  BY <1>3, <1>5, <1>6, <1>7 DEF OnWay

-----------------------------------------------------------------------------
(* create_parent_node of TinyTrie, round after round.                        *)
AtTiny(s, w, i) ==
  /\ DOMAIN s = {"mem", "cur", "h", "room", "ok"} /\ s.ok \in BOOLEAN
  /\ Good("TinyTrie", s.mem) /\ SameGot("TinyTrie", mem, s.mem)
  /\ s.ok => OnWay("TinyTrie", mem, s.mem, s.cur, w, i) /\ s.h = s.mem[s.cur].hash

LEMMA TinyStep ==
  ASSUME NEW w \in Seq(Chars), NEW i \in Nat, i + 1 <= Len(w), NEW s, AtTiny(s, w, i),
         NEW s2, s2 = Tiny!CreateStep(s, w[i + 1])
  PROVE  AtTiny(s2, w, i + 1)
<1> DEFINE c == w[i + 1]
           p == s.mem[s.cur].nodes[c]
           h == Append(s.h, c)
<1>1. DOMAIN s = {"mem", "cur", "h", "room", "ok"} /\ s.ok \in BOOLEAN
  BY DEF AtTiny
<1>2. s2 = IF ~s.ok THEN s
           ELSE IF IsSlot(p) THEN [s EXCEPT !.cur = p, !.h = h]
           ELSE IF s.room = 0 THEN [s EXCEPT !.ok = FALSE]
           ELSE [s EXCEPT !.mem = AddChild(@, s.cur, c, Node(h, p = tagged)),
                          !.cur = FreshSlot(s.mem), !.h = h, !.room = @ - 1]
  BY DEF Tiny!CreateStep, Tiny!djb2_sdbm_hash, Tiny!IsSlot, IsSlot, Tiny!tagged, tagged,
         Tiny!AddChild, AddChild, Tiny!FreshSlot, FreshSlot, Tiny!Min, Min, Tiny!Root, Root,
         Tiny!Cardinality, Cardinality, Tiny!Node, Node, Tiny!null, null, Tiny!No, No
<1> HIDE DEF p, c, h
<1>3. CASE ~s.ok
  BY <1>2, <1>3 DEF AtTiny
<1>4. CASE s.ok /\ ~IsSlot(p) /\ s.room = 0
  <2>1. s2 = [s EXCEPT !.ok = FALSE]
    BY <1>2, <1>4
  <2>2. DOMAIN s2 = {"mem", "cur", "h", "room", "ok"} /\ s2.ok = FALSE /\ s2.mem = s.mem
    BY <1>1, <2>1
  <2> QED
    BY <2>2 DEF AtTiny
<1>5. CASE s.ok /\ (IsSlot(p) \/ s.room # 0)
  <2>1. /\ DOMAIN s2 = {"mem", "cur", "h", "room", "ok"} /\ s2.ok = s.ok /\ s2.h = h
        /\ \/ IsSlot(p) /\ s2.mem = s.mem /\ s2.cur = p
           \/ ~IsSlot(p) /\ s2.mem = AddChild(s.mem, s.cur, c, Node(h, p = tagged))
                         /\ s2.cur = FreshSlot(s.mem)
    <3>1. CASE IsSlot(p)
      <4>1. s2 = [s EXCEPT !.cur = p, !.h = h]
        BY <1>2, <1>5, <3>1
      <4> QED
        BY <1>1, <3>1, <4>1
    <3>2. CASE ~IsSlot(p)
      <4>1. s2 = [s EXCEPT !.mem = AddChild(@, s.cur, c, Node(h, p = tagged)),
                           !.cur = FreshSlot(s.mem), !.h = h, !.room = @ - 1]
        BY <1>2, <1>5, <3>2
      <4> QED
        BY <1>1, <3>2, <4>1
    <3> QED
      BY <3>1, <3>2
  <2>2. IsRound(s.mem, s.cur, c, h, s2.mem, s2.cur)
    BY <2>1 DEF IsRound, p
  <2>3. OnWay("TinyTrie", mem, s.mem, s.cur, w, i) /\ h = ChildHash("TinyTrie", s.mem, s.cur, c)
    BY <1>5 DEF AtTiny, ChildHash, h
  <2>5. PICK m, cur, m3, cur3 : m = s.mem /\ cur = s.cur /\ m3 = s2.mem /\ cur3 = s2.cur
    OBVIOUS
  <2>6. PICK kind : kind = "TinyTrie"
    OBVIOUS
  <2>7. OnWay(kind, mem, m, cur, w, i) /\ HashIs(kind, m, cur, c, h)
    BY <2>3, <2>5, <2>6 DEF HashIs
  <2>8. IsRound(m, cur, c, h, m3, cur3)
    BY <2>2, <2>5
  <2>9. OnWay(kind, mem, m3, cur3, w, i + 1) /\ (kind # "ValueTrie" => m3[cur3].hash = h)
    <3>1. PICK k : IsNext(w, i, k, c) /\ k = i + 1
      BY DEF c, IsNext
    <3>2. OnWay(kind, mem, m3, cur3, w, k) /\ (kind # "ValueTrie" => m3[cur3].hash = h)
      BY <2>7, <2>8, <3>1, WayRound
    <3> QED
      BY <3>1, <3>2
  <2>4. OnWay("TinyTrie", mem, s2.mem, s2.cur, w, i + 1) /\ s2.mem[s2.cur].hash = h
    BY <2>5, <2>6, <2>9
  <2> QED
    BY <1>5, <2>1, <2>4 DEF AtTiny, OnWay
<1> QED
  BY <1>1, <1>3, <1>4, <1>5

(* Where the way begins.                                                     *)
LEMMA WayBegins ==
  ASSUME NEW kind, NEW m, Good(kind, m), NEW w \in Seq(Chars)
  PROVE  OnWay(kind, m, m, Root, w, 0)
<1>1. SameGot(kind, m, m)
  BY DEF SameGot
<1>2. PICK u \in Seq(Chars) : Len(u) = 0 /\ u = <<>>
  BY EmptySeq
<1>3. Root = ReachIn(m, u) /\ IsSlot(Root)
  BY <1>2, ReachSteps DEF IsSlot, Root, tagged
<1>4. \A j \in 1..0 : u[j] = w[j]
  OBVIOUS
<1> QED
  BY <1>1, <1>2, <1>3, <1>4 DEF OnWay

(* Where it ends: at the node of the whole word.                             *)
IsEnd(kind, m, m2, cur, w) ==
  /\ Good(kind, m2) /\ SameGot(kind, m, m2) /\ (Filled(m, Root) => Filled(m2, cur))
  /\ cur = ReachIn(m2, w) /\ IsSlot(cur)

LEMMA WayEnds ==
  ASSUME NEW kind, NEW m, NEW m2, NEW cur, NEW w \in Seq(Chars), NEW n \in Nat,
         OnWay(kind, m, m2, cur, w, n), n = Len(w)
  PROVE  IsEnd(kind, m, m2, cur, w)
<1>1. PICK u \in Seq(Chars) : /\ Len(u) = Len(w) /\ \A j \in 1..Len(w) : u[j] = w[j]
                              /\ cur = ReachIn(m2, u) /\ IsSlot(cur)
  BY DEF OnWay
<1>2. u = w
  BY <1>1, SeqEqual
<1> QED
  BY <1>1, <1>2 DEF OnWay, IsEnd

LEMMA TinyCreate ==
  ASSUME Good("TinyTrie", mem), NEW word \in Seq(Chars), word # <<>>, NEW room,
         NEW s, s = Tiny!create_parent_node(word, room)
  PROVE  /\ s.ok \in BOOLEAN /\ Good("TinyTrie", s.mem) /\ SameGot("TinyTrie", mem, s.mem)
         /\ s.ok => IsEnd("TinyTrie", mem, s.mem, s.cur, Front(word))
<1>1. PICK w \in Seq(Chars) : w = Front(word)
  BY FrontLast
<1>2. PICK n \in Nat : n = Len(w) /\ DOMAIN w = 1..n
  BY LenProperties
<1>3. PICK run : /\ run[0] = [mem |-> mem, cur |-> Root, h |-> <<>>, room |-> room, ok |-> TRUE]
                 /\ \A i \in 0..n - 1 : run[i + 1] = Tiny!CreateStep(run[i], w[i + 1])
                 /\ s = run[n]
  BY <1>1, <1>2, TinyRuns
<1> DEFINE S == {i \in Nat : i <= n => AtTiny(run[i], w, i)}
<1>4. 0 \in S
  <2>1. OnWay("TinyTrie", mem, mem, Root, w, 0) /\ SameGot("TinyTrie", mem, mem)
    BY WayBegins DEF SameGot
  <2>2. mem[Root].hash = <<>>
    BY DEF Good, Fits
  <2>3. /\ DOMAIN run[0] = {"mem", "cur", "h", "room", "ok"} /\ run[0].ok \in BOOLEAN
        /\ run[0].mem = mem /\ run[0].cur = Root /\ run[0].h = <<>>
    BY <1>3
  <2>4. AtTiny(run[0], w, 0)
    BY <2>1, <2>2, <2>3 DEF AtTiny
  <2> QED
    BY <2>4
<1>5. ASSUME NEW i \in Nat, i \in S PROVE i + 1 \in S
  <2> SUFFICES ASSUME i + 1 <= n PROVE AtTiny(run[i + 1], w, i + 1)
    OBVIOUS
  <2>1. AtTiny(run[i], w, i) /\ run[i + 1] = Tiny!CreateStep(run[i], w[i + 1])
    BY <1>2, <1>3, <1>5
  <2> QED
    BY <1>2, <2>1, TinyStep
<1>6. \A i \in Nat : i \in S
  <2> HIDE DEF S
  <2> QED
    BY <1>4, <1>5, AllNumbers
<1>7. AtTiny(s, w, n)
  BY <1>2, <1>3, <1>6
<1>8. ASSUME s.ok PROVE IsEnd("TinyTrie", mem, s.mem, s.cur, w)
  <2>1. OnWay("TinyTrie", mem, s.mem, s.cur, w, n)
    BY <1>7, <1>8 DEF AtTiny
  <2>2. PICK m, cur, kind : m = s.mem /\ cur = s.cur /\ kind = "TinyTrie"
    OBVIOUS
  <2>3. OnWay(kind, mem, m, cur, w, n) /\ n = Len(w)
    BY <1>2, <2>1, <2>2
  <2>4. IsEnd(kind, mem, m, cur, w)
    BY <2>3, WayEnds
  <2> QED
    BY <2>2, <2>4
<1> QED
  BY <1>1, <1>7, <1>8 DEF AtTiny

-----------------------------------------------------------------------------
(* create_parent_node of TinyTrie2, round after round.                       *)
AtTiny2(s, w, i) ==
  /\ DOMAIN s = {"mem", "cur", "room", "ok"} /\ s.ok \in BOOLEAN
  /\ Good("TinyTrie2", s.mem) /\ SameGot("TinyTrie2", mem, s.mem)
  /\ s.ok => OnWay("TinyTrie2", mem, s.mem, s.cur, w, i)

LEMMA Tiny2Step ==
  ASSUME NEW w \in Seq(Chars), NEW i \in Nat, i + 1 <= Len(w), NEW s, AtTiny2(s, w, i),
         NEW s2, s2 = Tiny2!CreateStep(s, w[i + 1])
  PROVE  AtTiny2(s2, w, i + 1)
<1> DEFINE c == w[i + 1]
           p == s.mem[s.cur].nodes[c]
           h == <<s.cur, c>>
<1>1. DOMAIN s = {"mem", "cur", "room", "ok"} /\ s.ok \in BOOLEAN
  BY DEF AtTiny2
<1>2. s2 = IF ~s.ok THEN s
           ELSE IF IsSlot(p) THEN [s EXCEPT !.cur = p]
           ELSE IF s.room = 0 THEN [s EXCEPT !.ok = FALSE]
           ELSE [s EXCEPT !.mem = AddChild(@, s.cur, c, Node(h, p = tagged)),
                          !.cur = FreshSlot(s.mem), !.room = @ - 1]
  BY DEF Tiny2!CreateStep, Tiny2!address_hash, Tiny2!IsSlot, IsSlot, Tiny2!tagged, tagged,
         Tiny2!AddChild, AddChild, Tiny2!FreshSlot, FreshSlot, Tiny2!Min, Min, Tiny2!Root, Root,
         Tiny2!Cardinality, Cardinality, Tiny2!Node, Node, Tiny2!null, null, Tiny2!No, No
<1> HIDE DEF p, c, h
<1>3. CASE ~s.ok
  BY <1>2, <1>3 DEF AtTiny2
<1>4. CASE s.ok /\ ~IsSlot(p) /\ s.room = 0
  <2>1. s2 = [s EXCEPT !.ok = FALSE]
    BY <1>2, <1>4
  <2>2. DOMAIN s2 = {"mem", "cur", "room", "ok"} /\ s2.ok = FALSE /\ s2.mem = s.mem
    BY <1>1, <2>1
  <2> QED
    BY <2>2 DEF AtTiny2
<1>5. CASE s.ok /\ (IsSlot(p) \/ s.room # 0)
  <2>1. /\ DOMAIN s2 = {"mem", "cur", "room", "ok"} /\ s2.ok = s.ok
        /\ \/ IsSlot(p) /\ s2.mem = s.mem /\ s2.cur = p
           \/ ~IsSlot(p) /\ s2.mem = AddChild(s.mem, s.cur, c, Node(h, p = tagged))
                         /\ s2.cur = FreshSlot(s.mem)
    <3>1. CASE IsSlot(p)
      <4>1. s2 = [s EXCEPT !.cur = p]
        BY <1>2, <1>5, <3>1
      <4> QED
        BY <1>1, <3>1, <4>1
    <3>2. CASE ~IsSlot(p)
      <4>1. s2 = [s EXCEPT !.mem = AddChild(@, s.cur, c, Node(h, p = tagged)),
                           !.cur = FreshSlot(s.mem), !.room = @ - 1]
        BY <1>2, <1>5, <3>2
      <4> QED
        BY <1>1, <3>2, <4>1
    <3> QED
      BY <3>1, <3>2
  <2>2. IsRound(s.mem, s.cur, c, h, s2.mem, s2.cur)
    BY <2>1 DEF IsRound, p
  <2>3. OnWay("TinyTrie2", mem, s.mem, s.cur, w, i) /\ h = ChildHash("TinyTrie2", s.mem, s.cur, c)
    BY <1>5 DEF AtTiny2, ChildHash, h
  <2>4. PICK m, cur, m3, cur3 : m = s.mem /\ cur = s.cur /\ m3 = s2.mem /\ cur3 = s2.cur
    OBVIOUS
  <2>5. PICK kind : kind = "TinyTrie2"
    OBVIOUS
  <2>6. OnWay(kind, mem, m, cur, w, i) /\ HashIs(kind, m, cur, c, h)
    BY <2>3, <2>4, <2>5 DEF HashIs
  <2>7. IsRound(m, cur, c, h, m3, cur3)
    BY <2>2, <2>4
  <2>8. OnWay(kind, mem, m3, cur3, w, i + 1)
    <3>1. PICK k : IsNext(w, i, k, c) /\ k = i + 1
      BY DEF c, IsNext
    <3>2. OnWay(kind, mem, m3, cur3, w, k)
      BY <2>6, <2>7, <3>1, WayRound
    <3> QED
      BY <3>1, <3>2
  <2>9. OnWay("TinyTrie2", mem, s2.mem, s2.cur, w, i + 1)
    BY <2>4, <2>5, <2>8
  <2> QED
    BY <1>5, <2>1, <2>9 DEF AtTiny2, OnWay
<1> QED
  BY <1>1, <1>3, <1>4, <1>5

LEMMA Tiny2Create ==
  ASSUME Good("TinyTrie2", mem), NEW word \in Seq(Chars), word # <<>>, NEW room,
         NEW s, s = Tiny2!create_parent_node(word, room)
  PROVE  /\ s.ok \in BOOLEAN /\ Good("TinyTrie2", s.mem) /\ SameGot("TinyTrie2", mem, s.mem)
         /\ s.ok => IsEnd("TinyTrie2", mem, s.mem, s.cur, Front(word))
<1>1. PICK w \in Seq(Chars) : w = Front(word)
  BY FrontLast
<1>2. PICK n \in Nat : n = Len(w) /\ DOMAIN w = 1..n
  BY LenProperties
<1>3. PICK run : /\ run[0] = [mem |-> mem, cur |-> Root, room |-> room, ok |-> TRUE]
                 /\ \A i \in 0..n - 1 : run[i + 1] = Tiny2!CreateStep(run[i], w[i + 1])
                 /\ s = run[n]
  BY <1>1, <1>2, Tiny2Runs
<1> DEFINE S == {i \in Nat : i <= n => AtTiny2(run[i], w, i)}
<1>4. 0 \in S
  <2>1. OnWay("TinyTrie2", mem, mem, Root, w, 0) /\ SameGot("TinyTrie2", mem, mem)
    BY WayBegins DEF SameGot
  <2>2. /\ DOMAIN run[0] = {"mem", "cur", "room", "ok"} /\ run[0].ok \in BOOLEAN
        /\ run[0].mem = mem /\ run[0].cur = Root
    BY <1>3
  <2>3. AtTiny2(run[0], w, 0)
    BY <2>1, <2>2 DEF AtTiny2
  <2> QED
    BY <2>3
<1>5. ASSUME NEW i \in Nat, i \in S PROVE i + 1 \in S
  <2> SUFFICES ASSUME i + 1 <= n PROVE AtTiny2(run[i + 1], w, i + 1)
    OBVIOUS
  <2>1. AtTiny2(run[i], w, i) /\ run[i + 1] = Tiny2!CreateStep(run[i], w[i + 1])
    BY <1>2, <1>3, <1>5
  <2> QED
    BY <1>2, <2>1, Tiny2Step
<1>6. \A i \in Nat : i \in S
  <2> HIDE DEF S
  <2> QED
    BY <1>4, <1>5, AllNumbers
<1>7. AtTiny2(s, w, n)
  BY <1>2, <1>3, <1>6
<1>8. ASSUME s.ok PROVE IsEnd("TinyTrie2", mem, s.mem, s.cur, w)
  <2>1. OnWay("TinyTrie2", mem, s.mem, s.cur, w, n)
    BY <1>7, <1>8 DEF AtTiny2
  <2>2. PICK m, cur, kind : m = s.mem /\ cur = s.cur /\ kind = "TinyTrie2"
    OBVIOUS
  <2>3. OnWay(kind, mem, m, cur, w, n) /\ n = Len(w)
    BY <1>2, <2>1, <2>2
  <2>4. IsEnd(kind, mem, m, cur, w)
    BY <2>3, WayEnds
  <2> QED
    BY <2>2, <2>4
<1> QED
  BY <1>1, <1>7, <1>8 DEF AtTiny2

-----------------------------------------------------------------------------
(* create_node of ValueTrie, round after round.                              *)
AtPlain(s, w, i) ==
  DOMAIN s = {"mem", "cur"} /\ OnWay("ValueTrie", mem, s.mem, s.cur, w, i)

LEMMA PlainStep ==
  ASSUME NEW w \in Seq(Chars), NEW i \in Nat, i + 1 <= Len(w), NEW s, AtPlain(s, w, i),
         NEW s2, s2 = Plain!CreateStep(s, w[i + 1])
  PROVE  AtPlain(s2, w, i + 1)
<1> DEFINE c == w[i + 1]
           p == s.mem[s.cur].nodes[c]
           h == <<>>
<1>1. DOMAIN s = {"mem", "cur"} /\ OnWay("ValueTrie", mem, s.mem, s.cur, w, i)
  BY DEF AtPlain
<1>2. s2 = IF p # null THEN [s EXCEPT !.cur = p]
           ELSE [mem |-> AddChild(s.mem, s.cur, c, Node(h, FALSE)), cur |-> FreshSlot(s.mem)]
  BY DEF Plain!CreateStep,
         Plain!AddChild, AddChild, Plain!FreshSlot, FreshSlot, Plain!Min, Min, Plain!Root, Root,
         Plain!Cardinality, Cardinality, Plain!Node, Node, Plain!null, null, Plain!No, No
<1>3. c \in Chars
  <2>1. i + 1 \in 1..Len(w)
    BY LenProperties
  <2> QED
    BY <2>1, ElementOfSeq
<1> HIDE DEF p, c, h
<1>4. p # null <=> IsSlot(p)
  <2>1. IsMemory(s.mem) /\ Valued(s.mem)
    BY <1>1 DEF OnWay, Good
  <2>2. s.cur \in DOMAIN s.mem
    <3>1. PICK u \in Seq(Chars) : s.cur = ReachIn(s.mem, u) /\ IsSlot(s.cur)
      BY <1>1 DEF OnWay
    <3> QED
      BY <2>1, <3>1, ReachFacts
  <2>3. p \in {null, tagged} \cup (DOMAIN s.mem \ {Root}) /\ p # tagged
    BY <1>3, <2>1, <2>2 DEF IsMemory, IsNode, Valued, p
  <2>4. \A q \in DOMAIN s.mem : IsSlot(q)
    BY <2>1 DEF IsMemory
  <2> QED
    BY <2>3, <2>4 DEF IsSlot, null, tagged
<1>5. /\ DOMAIN s2 = {"mem", "cur"}
      /\ \/ IsSlot(p) /\ s2.mem = s.mem /\ s2.cur = p
         \/ ~IsSlot(p) /\ s2.mem = AddChild(s.mem, s.cur, c, Node(h, p = tagged))
                       /\ s2.cur = FreshSlot(s.mem)
  <2>1. CASE IsSlot(p)
    <3>1. s2 = [s EXCEPT !.cur = p]
      BY <1>2, <1>4, <2>1
    <3> QED
      BY <1>1, <2>1, <3>1
  <2>2. CASE ~IsSlot(p)
    <3>1. p = null /\ (p = tagged) = FALSE
      BY <1>4, <2>2 DEF null, tagged
    <3>2. s2 = [mem |-> AddChild(s.mem, s.cur, c, Node(h, FALSE)), cur |-> FreshSlot(s.mem)]
      BY <1>2, <3>1
    <3>3. Node(h, FALSE) = Node(h, p = tagged)
      BY <3>1 DEF Node
    <3>4. /\ DOMAIN s2 = {"mem", "cur"} /\ s2.mem = AddChild(s.mem, s.cur, c, Node(h, FALSE))
          /\ s2.cur = FreshSlot(s.mem)
      BY <3>2
    <3>5. s2.mem = AddChild(s.mem, s.cur, c, Node(h, p = tagged))
      BY <3>3, <3>4, Zenon
    <3> QED
      BY <2>2, <3>4, <3>5, Zenon
  <2> QED
    BY <2>1, <2>2
<1>6. IsRound(s.mem, s.cur, c, h, s2.mem, s2.cur)
  BY <1>5 DEF IsRound, p
<1>7. PICK m, cur, m3, cur3 : m = s.mem /\ cur = s.cur /\ m3 = s2.mem /\ cur3 = s2.cur
  OBVIOUS
<1>8. PICK kind : kind = "ValueTrie"
  OBVIOUS
<1>9. OnWay(kind, mem, m, cur, w, i) /\ HashIs(kind, m, cur, c, h)
  BY <1>1, <1>7, <1>8 DEF HashIs
<1>10. IsRound(m, cur, c, h, m3, cur3)
  BY <1>6, <1>7
<1>11. OnWay(kind, mem, m3, cur3, w, i + 1)
  <2>1. PICK k : IsNext(w, i, k, c) /\ k = i + 1
    BY DEF c, IsNext
  <2>2. OnWay(kind, mem, m3, cur3, w, k)
    BY <1>9, <1>10, <2>1, WayRound
  <2> QED
    BY <2>1, <2>2
<1> QED
  BY <1>5, <1>7, <1>8, <1>11 DEF AtPlain

LEMMA PlainCreate ==
  ASSUME Good("ValueTrie", mem), NEW word \in Seq(Chars), NEW s, s = Plain!create_node(word)
  PROVE  IsEnd("ValueTrie", mem, s.mem, s.cur, word)
<1>2. PICK n \in Nat : n = Len(word) /\ DOMAIN word = 1..n
  BY LenProperties
<1>3. PICK run : /\ run[0] = [mem |-> mem, cur |-> Root]
                 /\ \A i \in 0..n - 1 : run[i + 1] = Plain!CreateStep(run[i], word[i + 1])
                 /\ s = run[n]
  BY <1>2, PlainRuns
<1> DEFINE S == {i \in Nat : i <= n => AtPlain(run[i], word, i)}
<1>4. 0 \in S
  <2>1. OnWay("ValueTrie", mem, mem, Root, word, 0)
    BY WayBegins
  <2>2. DOMAIN run[0] = {"mem", "cur"} /\ run[0].mem = mem /\ run[0].cur = Root
    BY <1>3
  <2>3. AtPlain(run[0], word, 0)
    BY <2>1, <2>2 DEF AtPlain
  <2> QED
    BY <2>3
<1>5. ASSUME NEW i \in Nat, i \in S PROVE i + 1 \in S
  <2> SUFFICES ASSUME i + 1 <= n PROVE AtPlain(run[i + 1], word, i + 1)
    OBVIOUS
  <2>1. AtPlain(run[i], word, i) /\ run[i + 1] = Plain!CreateStep(run[i], word[i + 1])
    BY <1>2, <1>3, <1>5
  <2> QED
    BY <1>2, <2>1, PlainStep
<1>6. \A i \in Nat : i \in S
  <2> HIDE DEF S
  <2> QED
    BY <1>4, <1>5, AllNumbers
<1>7. AtPlain(s, word, n)
  BY <1>2, <1>3, <1>6
<1>8. PICK m, cur, kind : m = s.mem /\ cur = s.cur /\ kind = "ValueTrie"
  OBVIOUS
<1>9. OnWay(kind, mem, m, cur, word, n) /\ n = Len(word)
  BY <1>2, <1>7, <1>8 DEF AtPlain
<1>10. IsEnd(kind, mem, m, cur, word)
  BY <1>9, WayEnds
<1> QED
  BY <1>8, <1>10

-----------------------------------------------------------------------------
(* Removing a word from TinyTrie2.  A pointer that is set to null or tagged  *)
(* is cut, with the childless node below it or without one.                  *)
LEMMA CutByFunction ==
  ASSUME NEW m, IsMemory(m), NEW cur \in DOMAIN m, NEW c \in Chars, NEW v, NEW old,
         old = m[cur].nodes[c], IsSlot(old) => \A d \in Chars : m[old].nodes[d] = null,
         NEW gone, DOMAIN m \ gone = DOMAIN m \ {old},
         NEW m2, m2 = [x \in DOMAIN m \ gone |->
                         IF x = cur THEN [m[x] EXCEPT !.nodes[c] = v] ELSE m[x]]
  PROVE  IsCut(m, m2, cur, c, old, v)
<1>1. ASSUME NEW s \in DOMAIN m2
      PROVE  /\ DOMAIN m2[s] = NodeFields /\ DOMAIN m2[s].nodes = Chars
             /\ m2[s].is_terminal = m[s].is_terminal
             /\ m2[s].hash = m[s].hash /\ m2[s].value = m[s].value
             /\ \A d \in Chars : m2[s].nodes[d] = IF s = cur /\ d = c THEN v ELSE m[s].nodes[d]
  <2>1. s \in DOMAIN m
    OBVIOUS
  <2>2. DOMAIN m[s] = NodeFields /\ DOMAIN m[s].nodes = Chars
    BY <2>1 DEF IsMemory, IsNode
  <2>3. CASE s = cur
    <3>1. m2[s] = [m[s] EXCEPT !.nodes[c] = v]
      BY <2>3
    <3> QED
      BY <2>2, <2>3, <3>1, PointerSet
  <2>4. CASE s # cur
    <3>1. m2[s] = m[s]
      BY <2>4
    <3> QED
      BY <2>2, <2>4, <3>1
  <2> QED
    BY <2>3, <2>4
<1>2. DOMAIN m2 = DOMAIN m \ {old}
  OBVIOUS
<1>3. IsEdit(m, m2, cur, c, v)
  BY <1>1 DEF IsEdit
<1> QED
  BY <1>2, <1>3 DEF IsCut

LEMMA CutByExcept ==
  ASSUME NEW m, IsMemory(m), NEW cur \in DOMAIN m, NEW c \in Chars, NEW v, NEW old,
         old = m[cur].nodes[c], ~IsSlot(old), NEW m2, m2 = [m EXCEPT ![cur].nodes[c] = v]
  PROVE  IsCut(m, m2, cur, c, old, v)
<1>1. old \notin DOMAIN m
  BY DEF IsMemory
<1>2. PICK gone : gone = {}
  OBVIOUS
<1>3. m2 = [x \in DOMAIN m \ gone |-> IF x = cur THEN [m[x] EXCEPT !.nodes[c] = v] ELSE m[x]]
  BY <1>2
<1>4. DOMAIN m \ gone = DOMAIN m \ {old}
  BY <1>1, <1>2
<1> QED
  BY <1>3, <1>4, CutByFunction

(* A node that is freed because it has nothing below it is not missed, as a  *)
(* word that ends in it is then told by the tagged pointer.                  *)
IsFreed(m, m2, u, cur, c, q, v) ==
  /\ AtWord(m, u, cur, c, q) /\ IsSlot(q) /\ v = IF m[q].is_terminal THEN tagged ELSE null
  /\ \A d \in Chars : m[q].nodes[d] = null
  /\ m2 = [x \in DOMAIN m \ {q} |-> IF x = cur THEN [m[x] EXCEPT !.nodes[c] = v] ELSE m[x]]

LEMMA FreedGood ==
  ASSUME NEW kind, kind # "ValueTrie", NEW m, Good(kind, m), NEW u \in Seq(Chars), NEW cur,
         NEW c \in Chars, NEW q, NEW v, NEW m2, IsFreed(m, m2, u, cur, c, q, v)
  PROVE  /\ Good(kind, m2) /\ SameGot(kind, m, m2) /\ WordMoves(m, m2, u, c, v)
         /\ IsSlot(cur) /\ cur = ReachIn(m2, u)
         /\ Filled(m, q) => Filled(m2, IF v = tagged THEN Root ELSE cur)
<1>1. /\ AtWord(m, u, cur, c, q) /\ IsSlot(q) /\ v = IF m[q].is_terminal THEN tagged ELSE null
      /\ \A d \in Chars : m[q].nodes[d] = null
      /\ m2 = [x \in DOMAIN m \ {q} |-> IF x = cur THEN [m[x] EXCEPT !.nodes[c] = v] ELSE m[x]]
  BY DEF IsFreed
<1>2. IsMemory(m) /\ cur \in DOMAIN m /\ q = m[cur].nodes[c] /\ IsSlot(cur) /\ cur = ReachIn(m, u)
  BY <1>1, ReachFacts DEF AtWord, Good
<1>3. IsCut(m, m2, cur, c, q, v)
  <2>1. PICK gone : gone = {q}
    OBVIOUS
  <2>2. m2 = [x \in DOMAIN m \ gone |-> IF x = cur THEN [m[x] EXCEPT !.nodes[c] = v] ELSE m[x]]
    BY <1>1, <2>1
  <2>3. DOMAIN m \ gone = DOMAIN m \ {q}
    BY <2>1
  <2>4. IsMemory(m) /\ cur \in DOMAIN m /\ q = m[cur].nodes[c]
    BY <1>2
  <2>5. IsSlot(q) => \A d \in Chars : m[q].nodes[d] = null
    BY <1>1
  <2> QED
    BY <2>2, <2>3, <2>4, <2>5, CutByFunction
<1>4. v \in {null, tagged}
  BY <1>1
<1>11. AtWord(m, u, cur, c, q)
  BY <1>1
<1>5. /\ Good(kind, m2) /\ WordMoves(m, m2, u, c, v)
      /\ WordGets(kind, m, m2, Append(u, c), IF v = tagged THEN Yes ELSE No)
  BY <1>3, <1>4, <1>11, CutGood
<1>6. ReachIn(m, Append(u, c)) = q
  BY <1>2, ReachSteps DEF FollowIn
<1>7. GotIn(kind, m, Append(u, c)) = IF v = tagged THEN Yes ELSE No
  <2>1. Ends(m, Append(u, c)) <=> v = tagged
    BY <1>1, <1>6 DEF Ends, IsSlot, null, tagged
  <2> QED
    BY <2>1 DEF GotIn
<1>8. SameGot(kind, m, m2)
  BY <1>5, <1>7 DEF SameGot, WordGets
<1>9. cur = ReachIn(m2, u)
  <2>1. Append(u, c) # u
    <3>1. Len(Append(u, c)) = Len(u) + 1 /\ Len(u) \in Nat
      BY AppendProperties, LenProperties
    <3> QED
      BY <3>1
  <2> QED
    BY <1>2, <1>5, <2>1 DEF WordMoves
<1>10. ASSUME Filled(m, q) PROVE Filled(m2, IF v = tagged THEN Root ELSE cur)
  <2> SUFFICES ASSUME NEW s \in DOMAIN m2 \ {Root}, s = cur => v = tagged
               PROVE  \E d \in Chars : m2[s].nodes[d] # null
    BY DEF Filled
  <2>1. s \in DOMAIN m /\ s # q
    BY <1>1
  <2>2. \A d \in Chars : m2[s].nodes[d] = IF s = cur /\ d = c THEN v ELSE m[s].nodes[d]
    BY <1>3, <2>1 DEF IsCut, IsEdit
  <2>3. CASE s = cur
    BY <2>2, <2>3 DEF null, tagged
  <2>4. CASE s # cur
    BY <1>10, <2>1, <2>2, <2>4 DEF Filled
  <2> QED
    BY <2>3, <2>4
<1> QED
  BY <1>2, <1>5, <1>8, <1>9, <1>10

(* The parts of a word from its beginning, one character longer at a time.   *)
LEMMA FrontParts ==
  ASSUME NEW w \in Seq(Chars)
  PROVE  /\ SubSeq(w, 1, 0) = <<>> /\ w # <<>> => SubSeq(w, 1, Len(w) - 1) = Front(w)
         /\ \A k \in 0..Len(w) : SubSeq(w, 1, k) \in Seq(Chars) /\ Len(SubSeq(w, 1, k)) = k
         /\ \A k \in 1..Len(w) : w[k] \in Chars /\ SubSeq(w, 1, k) = Append(SubSeq(w, 1, k - 1), w[k])
<1>1. Len(w) \in Nat /\ \A i \in 1..Len(w) : w[i] \in Chars
  BY LenProperties, ElementOfSeq
<1>2. ASSUME NEW k \in 0..Len(w)
      PROVE  /\ SubSeq(w, 1, k) \in Seq(Chars) /\ Len(SubSeq(w, 1, k)) = k
             /\ \A i \in 1..k : SubSeq(w, 1, k)[i] = w[i]
  <2>1. \A i \in 1..k : w[i] \in Chars
    BY <1>1
  <2>2. /\ SubSeq(w, 1, k) \in Seq(Chars)
        /\ Len(SubSeq(w, 1, k)) = IF 1 <= k THEN k - 1 + 1 ELSE 0
        /\ \A i \in 1..k - 1 + 1 : SubSeq(w, 1, k)[i] = w[1 + i - 1]
    BY <1>1, <2>1, SubSeqProperties
  <2> QED
    BY <1>1, <2>2
<1>3. SubSeq(w, 1, 0) = <<>>
  <2>1. SubSeq(w, 1, 0) \in Seq(Chars) /\ Len(SubSeq(w, 1, 0)) = 0
    BY <1>1, <1>2
  <2> QED
    BY <2>1, EmptySeq
<1>4. w # <<>> => SubSeq(w, 1, Len(w) - 1) = Front(w)
  BY DEF Front
<1>5. ASSUME NEW k \in 1..Len(w)
      PROVE  SubSeq(w, 1, k) = Append(SubSeq(w, 1, k - 1), w[k])
  <2>1. k - 1 \in 0..Len(w) /\ k \in 0..Len(w) /\ w[k] \in Chars
    BY <1>1
  <2>2. PICK u \in Seq(Chars) : u = SubSeq(w, 1, k - 1)
    BY <1>2, <2>1
  <2>3. PICK x \in Seq(Chars) : x = SubSeq(w, 1, k)
    BY <1>2, <2>1
  <2>4. PICK y \in Seq(Chars) : y = Append(u, w[k])
    BY <2>1, AppendProperties
  <2>5. Len(u) = k - 1 /\ \A i \in 1..k - 1 : u[i] = w[i]
    BY <1>2, <2>1, <2>2
  <2>6. Len(x) = k /\ \A i \in 1..k : x[i] = w[i]
    BY <1>2, <2>1, <2>3
  <2>7. Len(y) = Len(u) + 1 /\ y[Len(u) + 1] = w[k] /\ \A i \in 1..Len(u) : y[i] = u[i]
    BY <2>1, <2>4, AppendProperties
  <2>8. Len(y) = k /\ \A i \in 1..k : y[i] = w[i]
    BY <2>5, <2>7
  <2>9. x = y
    BY <2>6, <2>8, SeqEqual
  <2> QED
    BY <2>2, <2>3, <2>4, <2>9
<1> QED
  BY <1>1, <1>2, <1>3, <1>4, <1>5

(* A node has children if its count says so.                                 *)
LEMMA ChildCount ==
  ASSUME NEW node
  PROVE  Tiny2!compute_child_count(node) > 0 <=> \E d \in Chars : node.nodes[d] # null
<1> DEFINE C == {d \in Chars : node.nodes[d] # null}
<1>1. IsFiniteSet(C)
  BY TrieAssumption, FS_Subset
<1>2. Cardinality(C) \in Nat /\ (Cardinality(C) = 0 <=> C = {})
  BY <1>1, FS_CardinalityType, FS_EmptySet
<1>3. Tiny2!compute_child_count(node) = Cardinality(C)
  BY DEF Tiny2!compute_child_count, Tiny2!Cardinality, Cardinality, Tiny2!null, null
<1>4. C # {} <=> \E d \in Chars : node.nodes[d] # null
  OBVIOUS
<1> HIDE DEF C
<1> QED
  BY <1>2, <1>3, <1>4

(* Prune, round after round upwards: before the node of the first j          *)
(* characters of w is looked at.                                             *)
AtPrune(s, m, path, w, j) ==
  /\ DOMAIN s = {"mem", "path", "word", "done"} /\ s.path = path /\ s.word = w /\ s.done \in BOOLEAN
  /\ Good("TinyTrie2", s.mem) /\ SameGot("TinyTrie2", m, s.mem)
  /\ ~s.done => /\ IsSlot(path[j + 1])
                /\ \A x \in Seq(Chars) : Len(x) <= j => ReachIn(s.mem, x) = ReachIn(mem, x)
  /\ Filled(mem, Root) => Filled(s.mem, IF s.done THEN Root ELSE path[j + 1])

LEMMA PruneRound ==
  ASSUME NEW w \in Seq(Chars), NEW path, path = [k \in 1..Len(w) |-> ReachIn(mem, SubSeq(w, 1, k - 1))],
         NEW j \in Nat, 1 <= j, j + 1 <= Len(w), NEW m, NEW s, AtPrune(s, m, path, w, j),
         NEW s2, s2 = Tiny2!PruneStep(s, j)
  PROVE  AtPrune(s2, m, path, w, j - 1)
<1>1. /\ DOMAIN s = {"mem", "path", "word", "done"} /\ s.path = path /\ s.word = w /\ s.done \in BOOLEAN
      /\ Good("TinyTrie2", s.mem) /\ SameGot("TinyTrie2", m, s.mem)
  BY DEF AtPrune
<1>2. /\ ~s.done => /\ IsSlot(path[j + 1])
                    /\ \A x \in Seq(Chars) : Len(x) <= j => ReachIn(s.mem, x) = ReachIn(mem, x)
      /\ Filled(mem, Root) => Filled(s.mem, IF s.done THEN Root ELSE path[j + 1])
  BY DEF AtPrune
<1>3. PICK q, cur, c : q = path[j + 1] /\ cur = path[j] /\ c = w[j]
  OBVIOUS
<1>4. PICK v : v = IF s.mem[q].is_terminal THEN tagged ELSE null
  OBVIOUS
<1>5. PICK childless \in BOOLEAN : childless <=> \A d \in Chars : s.mem[q].nodes[d] = null
  OBVIOUS
<1>6. s2 = IF s.done \/ ~childless THEN [s EXCEPT !.done = TRUE]
           ELSE [s EXCEPT !.mem = [x \in DOMAIN s.mem \ {q} |->
                                     IF x = cur THEN [s.mem[x] EXCEPT !.nodes[c] = v] ELSE s.mem[x]],
                          !.done = s.mem[q].is_terminal]
  <2>1. Tiny2!compute_child_count(s.mem[q]) > 0 <=> ~childless
    BY <1>5, ChildCount
  <2> QED
    BY <1>1, <1>3, <1>4, <2>1 DEF Tiny2!PruneStep, Tiny2!tagged, tagged, Tiny2!null, null
<1>7. CASE s.done
  <2>1. DOMAIN s2 = DOMAIN s /\ s2.mem = s.mem /\ s2.path = s.path /\ s2.word = s.word /\ s2.done = TRUE
    BY <1>1, <1>6, <1>7
  <2> QED
    BY <1>1, <1>2, <1>7, <2>1 DEF AtPrune
<1>8. CASE ~s.done /\ ~childless
  <2>1. DOMAIN s2 = DOMAIN s /\ s2.mem = s.mem /\ s2.path = s.path /\ s2.word = s.word /\ s2.done = TRUE
    BY <1>1, <1>6, <1>8
  <2>2. Filled(s.mem, q) => Filled(s.mem, Root)
    BY <1>5, <1>8 DEF Filled
  <2> QED
    BY <1>1, <1>2, <1>3, <1>8, <2>1, <2>2 DEF AtPrune
<1>9. CASE ~s.done /\ childless
  <2>1. PICK m2 : m2 = [x \in DOMAIN s.mem \ {q} |->
                          IF x = cur THEN [s.mem[x] EXCEPT !.nodes[c] = v] ELSE s.mem[x]]
    OBVIOUS
  <2>2. s2 = [s EXCEPT !.mem = m2, !.done = s.mem[q].is_terminal]
    BY <1>6, <1>9, <2>1
  <2>3. /\ DOMAIN s2 = DOMAIN s /\ s2.mem = m2 /\ s2.path = s.path /\ s2.word = s.word
        /\ s2.done = s.mem[q].is_terminal
    BY <1>1, <2>2
  <2>4. PICK u \in Seq(Chars) : u = SubSeq(w, 1, j - 1) /\ Len(u) = j - 1
    <3>1. j - 1 \in 0..Len(w) /\ Len(w) \in Nat
      BY LenProperties
    <3> QED
      BY <3>1, FrontParts
  <2>5. c \in Chars /\ SubSeq(w, 1, j) = Append(u, c)
    <3>1. j \in 1..Len(w) /\ Len(w) \in Nat
      BY LenProperties
    <3> QED
      BY <1>3, <2>4, <3>1, FrontParts
  <2>6. Append(u, c) \in Seq(Chars) /\ Len(Append(u, c)) = j
    BY <2>4, <2>5, AppendProperties
  <2>7. q = ReachIn(mem, Append(u, c)) /\ cur = ReachIn(mem, u)
    <3>1. j \in 1..Len(w) /\ j + 1 \in 1..Len(w) /\ Len(w) \in Nat /\ (j + 1) - 1 = j
      BY LenProperties
    <3>2. path[j + 1] = ReachIn(mem, SubSeq(w, 1, (j + 1) - 1)) /\ path[j] = ReachIn(mem, SubSeq(w, 1, j - 1))
      BY <3>1
    <3> QED
      BY <1>3, <2>4, <2>5, <3>1, <3>2
  <2>8. q = ReachIn(s.mem, Append(u, c)) /\ cur = ReachIn(s.mem, u)
    <3>1. \A x \in Seq(Chars) : Len(x) <= j => ReachIn(s.mem, x) = ReachIn(mem, x)
      BY <1>2, <1>9
    <3>2. Append(u, c) \in Seq(Chars) /\ Len(Append(u, c)) <= j /\ Len(u) <= j
      BY <2>4, <2>6
    <3>3. ReachIn(s.mem, Append(u, c)) = ReachIn(mem, Append(u, c)) /\ ReachIn(s.mem, u) = ReachIn(mem, u)
      BY <3>1, <3>2
    <3> QED
      BY <2>7, <3>3
  <2>9. q = FollowIn(s.mem, cur, c) /\ IsSlot(q)
    <3>1. IsSlot(q)
      BY <1>2, <1>3, <1>9
    <3>2. ReachIn(s.mem, Append(u, c)) = FollowIn(s.mem, ReachIn(s.mem, u), c)
      BY <2>5, ReachSteps
    <3> QED
      BY <2>8, <3>1, <3>2, Zenon
  <2>10. AtWord(s.mem, u, cur, c, q)
    BY <2>8, <2>9 DEF AtWord, FollowIn, IsSlot, null, tagged
  <2>11. PICK mm, kind : mm = s.mem /\ kind = "TinyTrie2"
    OBVIOUS
  <2>12. IsFreed(mm, m2, u, cur, c, q, v) /\ Good(kind, mm) /\ kind # "ValueTrie"
    BY <1>1, <1>4, <1>5, <1>9, <2>1, <2>9, <2>10, <2>11 DEF IsFreed
  <2>13. /\ Good(kind, m2) /\ SameGot(kind, mm, m2) /\ WordMoves(mm, m2, u, c, v)
         /\ IsSlot(cur) /\ cur = ReachIn(m2, u)
         /\ Filled(mm, q) => Filled(m2, IF v = tagged THEN Root ELSE cur)
    BY <2>5, <2>12, FreedGood
  <2>14. SameGot("TinyTrie2", m, m2)
    BY <1>1, <2>11, <2>13 DEF SameGot
  <2>15. ASSUME NEW x \in Seq(Chars), Len(x) <= j - 1 PROVE ReachIn(m2, x) = ReachIn(mem, x)
    <3>1. Len(x) \in Nat
      BY LenProperties
    <3>2. x # Append(u, c) /\ Len(x) <= j
      BY <2>6, <2>15, <3>1
    <3>3. ReachIn(m2, x) = ReachIn(mm, x)
      BY <2>13, <3>2 DEF WordMoves
    <3> QED
      BY <1>2, <1>9, <2>11, <3>2, <3>3
  <2>16. s2.done \in BOOLEAN /\ (s2.done <=> v = tagged)
    <3>1. q \in DOMAIN s.mem
      <4>1. IsMemory(s.mem)
        BY <1>1 DEF Good
      <4>2. PICK x \in Seq(Chars) : x = Append(u, c)
        BY <2>6
      <4>3. PICK mn : mn = s.mem
        OBVIOUS
      <4>4. IsMemory(mn) /\ ReachIn(mn, x) = q /\ IsSlot(q)
        BY <2>8, <2>9, <4>1, <4>2, <4>3
      <4>5. q \in DOMAIN mn
        BY <4>4, ReachFacts
      <4> QED
        BY <4>3, <4>5
    <3>2. s.mem[q].is_terminal \in BOOLEAN
      BY <1>1, <3>1 DEF Good, IsMemory, IsNode
    <3> QED
      BY <1>4, <2>3, <3>2 DEF null, tagged
  <2>17. (j - 1) + 1 = j
    OBVIOUS
  <2>18. Filled(mem, Root) => Filled(m2, IF s2.done THEN Root ELSE path[j])
    BY <1>2, <1>3, <1>9, <2>11, <2>13, <2>16
  <2>19. Good("TinyTrie2", m2) /\ IsSlot(path[j])
    BY <1>3, <2>11, <2>13
  <2> QED
    BY <1>1, <2>3, <2>14, <2>15, <2>16, <2>17, <2>18, <2>19 DEF AtPrune
<1> QED
  BY <1>1, <1>7, <1>8, <1>9

IsUnset(m, w) == m = [mem EXCEPT ![ReachIn(mem, Front(w))].nodes[Last(w)] = null]

LEMMA PruneGood ==
  ASSUME Good("TinyTrie2", mem), NEW w \in Seq(Chars), w # <<>>, ReachIn(mem, w) = tagged,
         NEW m, IsUnset(m, w), NEW m2, m2 = Tiny2!Prune(m, w)
  PROVE  /\ Good("TinyTrie2", m2) /\ WordGets("TinyTrie2", mem, m2, w, No)
         /\ Filled(mem, Root) => Filled(m2, Root)
<1>1. PICK u \in Seq(Chars), c \in Chars : u = Front(w) /\ c = Last(w) /\ w = Append(u, c)
  BY FrontLast
<1>2. PICK n \in Nat : n = Len(w) - 1 /\ Len(u) = n
  BY <1>1, FrontLast
<1>3. PICK cur : cur = ReachIn(mem, u)
  OBVIOUS
<1>4. tagged = FollowIn(mem, cur, c)
  BY <1>1, <1>3, ReachSteps
<1>5. AtWord(mem, u, cur, c, tagged)
  BY <1>3, <1>4 DEF AtWord, FollowIn, null, tagged
<1>6. IsMemory(mem) /\ cur \in DOMAIN mem /\ tagged = mem[cur].nodes[c] /\ ~IsSlot(tagged)
  <2>1. IsMemory(mem)
    BY DEF Good
  <2>2. cur = ReachIn(mem, u) /\ IsSlot(cur) /\ tagged = mem[cur].nodes[c]
    BY <1>5 DEF AtWord
  <2>3. cur \in DOMAIN mem
    BY <2>1, <2>2, ReachFacts
  <2>4. ~IsSlot(tagged)
    BY DEF IsSlot, tagged
  <2> QED
    BY <2>1, <2>2, <2>3, <2>4
<1>7. m = [mem EXCEPT ![cur].nodes[c] = null]
  BY <1>1, <1>3 DEF IsUnset
<1>8. PICK kind, v, old : kind = "TinyTrie2" /\ v = null /\ old = tagged
  OBVIOUS
<1>9. IsCut(mem, m, cur, c, old, v)
  <2>1. m = [mem EXCEPT ![cur].nodes[c] = v] /\ old = mem[cur].nodes[c] /\ ~IsSlot(old)
    BY <1>6, <1>7, <1>8
  <2> QED
    BY <1>6, <2>1, CutByExcept
<1>10. /\ Good(kind, m) /\ WordMoves(mem, m, u, c, v)
       /\ WordGets(kind, mem, m, Append(u, c), IF v = tagged THEN Yes ELSE No)
  <2>1. kind # "ValueTrie" /\ Good(kind, mem) /\ v \in {null, tagged} /\ AtWord(mem, u, cur, c, old)
    BY <1>5, <1>8
  <2> QED
    BY <1>9, <2>1, CutGood
<1>11. WordGets(kind, mem, m, w, No)
  BY <1>1, <1>8, <1>10 DEF null, tagged
<1>12. PICK path : path = [k \in 1..Len(w) |-> ReachIn(mem, SubSeq(w, 1, k - 1))]
  OBVIOUS
<1>13. IsPath(path, w)
  BY <1>12, ReachIs DEF IsPath
<1>22. PICK run : IsPruneRun(m, path, w, n, run)
  BY <1>2, <1>13, PruneRuns
<1>14. /\ run[0] = [mem |-> m, path |-> path, word |-> w, done |-> FALSE]
       /\ \A i \in 0..n - 1 : run[i + 1] = Tiny2!PruneStep(run[i], n - i)
       /\ Tiny2!Prune(m, w) = run[n].mem
  BY <1>22 DEF IsPruneRun
<1> DEFINE S == {i \in Nat : i <= n => AtPrune(run[i], m, path, w, n - i)}
<1>15. 0 \in S
  <2>1. PICK s : s = run[0]
    OBVIOUS
  <2>2. /\ DOMAIN s = {"mem", "path", "word", "done"} /\ s.path = path /\ s.word = w
        /\ s.done = FALSE /\ s.mem = m
    BY <1>14, <2>1
  <2>3. path[n + 1] = cur
    <3>1. n + 1 \in 1..Len(w) /\ (n + 1) - 1 = Len(w) - 1
      BY <1>2, LenProperties
    <3>2. SubSeq(w, 1, Len(w) - 1) = u
      BY <1>1, FrontParts
    <3>3. path[n + 1] = ReachIn(mem, SubSeq(w, 1, (n + 1) - 1))
      BY <1>12, <3>1
    <3> QED
      BY <1>3, <3>1, <3>2, <3>3
  <2>4. ASSUME NEW x \in Seq(Chars), Len(x) <= n PROVE ReachIn(m, x) = ReachIn(mem, x)
    <3>1. x # Append(u, c)
      BY <1>1, <1>2, <2>4, LenProperties
    <3> QED
      BY <1>10, <3>1 DEF WordMoves
  <2>5. ASSUME Filled(mem, Root) PROVE Filled(m, cur)
    <3> SUFFICES ASSUME NEW x \in DOMAIN m \ {Root, cur} PROVE \E d \in Chars : m[x].nodes[d] # null
      BY DEF Filled
    <3>1. x \in DOMAIN mem
      BY <1>7
    <3>2. m[x] = mem[x]
      BY <1>7, <3>1
    <3> QED
      BY <2>5, <3>1, <3>2 DEF Filled
  <2>6. SameGot("TinyTrie2", m, m)
    BY DEF SameGot
  <2>7. Good("TinyTrie2", m) /\ IsSlot(cur)
    BY <1>5, <1>8, <1>10 DEF AtWord
  <2>8. n - 0 = n
    OBVIOUS
  <2>9. AtPrune(s, m, path, w, n)
    BY <2>2, <2>3, <2>4, <2>5, <2>6, <2>7 DEF AtPrune
  <2> QED
    BY <2>1, <2>8, <2>9
<1>16. ASSUME NEW i \in Nat, i \in S PROVE i + 1 \in S
  <2> SUFFICES ASSUME i + 1 <= n PROVE AtPrune(run[i + 1], m, path, w, n - (i + 1))
    OBVIOUS
  <2>0. Len(w) \in Nat /\ Len(w) = n + 1
    BY <1>2, LenProperties
  <2>1. PICK j \in Nat : j = n - i /\ 1 <= j /\ j + 1 <= Len(w) /\ j - 1 = n - (i + 1)
    <3>1. n - i \in Nat /\ 1 <= n - i /\ (n - i) + 1 <= Len(w) /\ (n - i) - 1 = n - (i + 1)
      BY <2>0
    <3> QED
      BY <3>1
  <2>2. AtPrune(run[i], m, path, w, j) /\ run[i + 1] = Tiny2!PruneStep(run[i], j)
    BY <1>14, <1>16, <2>1
  <2>3. AtPrune(run[i + 1], m, path, w, j - 1)
    BY <1>12, <2>1, <2>2, PruneRound
  <2> QED
    BY <2>1, <2>3
<1>17. \A i \in Nat : i \in S
  <2> HIDE DEF S
  <2> QED
    BY <1>15, <1>16, AllNumbers
<1>18. AtPrune(run[n], m, path, w, 0)
  <2>1. n - n = 0 /\ n <= n
    OBVIOUS
  <2>2. n \in S
    BY <1>17
  <2>3. AtPrune(run[n], m, path, w, n - n)
    BY <2>1, <2>2
  <2> HIDE DEF S
  <2> QED
    BY <2>1, <2>3
<1>19. Good("TinyTrie2", m2) /\ SameGot("TinyTrie2", m, m2)
  BY <1>14, <1>18 DEF AtPrune
<1>20. Filled(mem, Root) => Filled(m2, Root)
  <2>1. path[0 + 1] = Root
    <3>1. 1 \in 1..Len(w) /\ 1 - 1 = 0
      BY <1>2, LenProperties
    <3>2. path[1] = ReachIn(mem, SubSeq(w, 1, 1 - 1))
      BY <1>12, <3>1
    <3>3. SubSeq(w, 1, 1 - 1) = <<>>
      BY <3>1, FrontParts
    <3>4. path[1] = ReachIn(mem, <<>>)
      BY <3>2, <3>3
    <3> QED
      BY <3>4, ReachSteps
  <2> QED
    BY <1>14, <1>18, <2>1 DEF AtPrune
<1>21. WordGets("TinyTrie2", mem, m2, w, No)
  BY <1>8, <1>11, <1>19 DEF WordGets, SameGot
<1> QED
  BY <1>19, <1>20, <1>21

-----------------------------------------------------------------------------
(* The last step of each call.  First: setting or clearing the mark of one   *)
(* node, where the caller is told what the mark was.                         *)
IsMark(kind, m, m2, p, b) ==
  /\ m2 = [m EXCEPT ![p].is_terminal = b]
  /\ kind = "ValueTrie" => ~b

LEMMA MarkOne ==
  ASSUME NEW kind, NEW m, Good(kind, m), NEW w \in Seq(Chars), NEW p, AtNode(m, w, p),
         NEW b \in BOOLEAN, NEW m2, IsMark(kind, m, m2, p, b)
  PROVE  /\ Good(kind, m2) /\ WordGets(kind, m, m2, w, IF b THEN Yes ELSE No)
         /\ \A e : Filled(m, e) => Filled(m2, e)
<1> USE DEF IsMark
<1>1. IsMemory(m) /\ p \in DOMAIN m
  BY ReachFacts DEF Good, AtNode
<1>2. ASSUME NEW s \in DOMAIN m
      PROVE  /\ DOMAIN m2[s] = NodeFields /\ m2[s].nodes = m[s].nodes
             /\ m2[s].hash = m[s].hash /\ m2[s].value = m[s].value
             /\ m2[s].is_terminal = IF s = p THEN b ELSE m[s].is_terminal
  <2>1. DOMAIN m[s] = NodeFields
    BY <1>1 DEF IsMemory, IsNode
  <2>2. m2[s] = IF s = p THEN [m[s] EXCEPT !.is_terminal = b] ELSE m[s]
    OBVIOUS
  <2>3. CASE s = p
    <3>1. m2[s] = [m[s] EXCEPT !.is_terminal = b]
      BY <2>2, <2>3
    <3> QED
      BY <2>1, <2>3, <3>1 DEF NodeFields
  <2>4. CASE s # p
    BY <2>1, <2>2, <2>4
  <2> QED
    BY <2>3, <2>4
<1>3. DOMAIN m2 = DOMAIN m
  OBVIOUS
<1>4. IsMarked(m, m2, p, b)
  BY <1>2, <1>3 DEF IsMarked
<1>5. MayShow(kind, m2, p, b)
  BY DEF MayShow
<1>6. Good(kind, m2) /\ WordGets(kind, m, m2, w, Shown(kind, m2, p, b))
  BY <1>4, <1>5, MarkedGood
<1>7. Shown(kind, m2, p, b) = IF b THEN Yes ELSE No
  BY DEF Shown
<1>8. \A e : Filled(m, e) => Filled(m2, e)
  BY <1>2, <1>3 DEF Filled
<1> QED
  BY <1>6, <1>7, <1>8

(* The mark of a node is what a caller sees of its word.                     *)
LEMMA MarkSeen ==
  ASSUME NEW kind, NEW m, Good(kind, m), No \notin TrieValues,
         NEW w \in Seq(Chars), NEW p, AtNode(m, w, p)
  PROVE  m[p].is_terminal \in BOOLEAN /\ (GotIn(kind, m, w) = No <=> ~m[p].is_terminal)
<1>1. IsMemory(m) /\ p \in DOMAIN m
  BY ReachFacts DEF Good, AtNode
<1>2. m[p].is_terminal \in BOOLEAN
  BY <1>1 DEF IsMemory, IsNode
<1>3. Ends(m, w) <=> m[p].is_terminal
  BY DEF Ends, AtNode, IsSlot, null, tagged
<1>4. CASE kind = "ValueTrie"
  <2>1. m[p].is_terminal => m[p].value \in TrieValues
    BY <1>1, <1>4 DEF Good, Valued
  <2>2. ReachIn(m, w) = p
    BY DEF AtNode
  <2> QED
    BY <1>2, <1>3, <1>4, <2>1, <2>2 DEF GotIn
<1>5. CASE kind # "ValueTrie"
  BY <1>2, <1>3, <1>5 DEF GotIn, Yes, No
<1> QED
  BY <1>2, <1>4, <1>5

(* The end of an insertion of a word that is not empty into a trie of tiny   *)
(* pointers, at the node of all but its last character.                      *)
IsInserted(m, cur, p, c, m2, change, a) ==
  \/ p = tagged /\ m2 = m /\ change = 0 /\ a = No
  \/ p = null /\ m2 = [m EXCEPT ![cur].nodes[c] = tagged] /\ change = 1 /\ a = Yes
  \/ /\ p # tagged /\ p # null /\ m2 = [m EXCEPT ![p].is_terminal = TRUE]
     /\ change = (IF m[p].is_terminal THEN 0 ELSE 1) /\ a = Says(~m[p].is_terminal)

IsAnswer(kind, m, w, change, a) ==
  /\ change = IF GotIn(kind, m, w) = No THEN 1 ELSE 0
  /\ a = Says(GotIn(kind, m, w) = No)

IsPointer(m, cur, w, p) == p = m[cur].nodes[Last(w)]

LEMMA InsertEnd ==
  ASSUME NEW kind, kind # "ValueTrie", No \notin TrieValues, NEW m, Good(kind, m), NEW w \in Seq(Chars), w # <<>>,
         NEW cur, AtNode(m, Front(w), cur), NEW p, IsPointer(m, cur, w, p),
         NEW m2, NEW change, NEW a, IsInserted(m, cur, p, Last(w), m2, change, a)
  PROVE  /\ Good(kind, m2) /\ WordGets(kind, m, m2, w, Yes) /\ IsAnswer(kind, m, w, change, a)
         /\ Filled(m, cur) => Filled(m2, Root)
<1>1. PICK u \in Seq(Chars), c \in Chars : u = Front(w) /\ c = Last(w) /\ w = Append(u, c)
  BY FrontLast
<1>2. cur = ReachIn(m, u) /\ IsSlot(cur) /\ p = m[cur].nodes[c]
  BY <1>1 DEF AtNode, IsPointer
<1>3. IsMemory(m)
  BY DEF Good
<1>4. cur \in DOMAIN m
  BY <1>2, <1>3, ReachFacts
<1>5. ReachIn(m, w) = p
  <2>1. ReachIn(m, w) = FollowIn(m, ReachIn(m, u), c)
    BY <1>1, ReachSteps
  <2> QED
    BY <1>2, <2>1 DEF FollowIn
<1>6. p \in {null, tagged} \cup DOMAIN m /\ (IsSlot(p) <=> p \in DOMAIN m)
  BY <1>3, <1>5, ReachFacts
<1>7. CASE p = tagged /\ m2 = m /\ change = 0 /\ a = No
  <2>1. GotIn(kind, m, w) = Yes
    BY <1>5, <1>7 DEF GotIn, Ends, null, tagged
  <2>2. Filled(m, cur) => Filled(m, Root)
    BY <1>1, <1>2, <1>7 DEF Filled, null, tagged
  <2> QED
    BY <1>7, <2>1, <2>2 DEF WordGets, IsAnswer, Says, Yes, No
<1>8. CASE p = null /\ m2 = [m EXCEPT ![cur].nodes[c] = tagged] /\ change = 1 /\ a = Yes
  <2>1. GotIn(kind, m, w) = No
    BY <1>5, <1>8 DEF GotIn, Ends
  <2>2. PICK v, old : v = tagged /\ old = null
    OBVIOUS
  <2>3. IsCut(m, m2, cur, c, old, v)
    <3>1. old = m[cur].nodes[c] /\ ~IsSlot(old) /\ m2 = [m EXCEPT ![cur].nodes[c] = v]
      BY <1>2, <1>8, <2>2 DEF IsSlot, null, tagged
    <3> QED
      BY <1>3, <1>4, <3>1, CutByExcept
  <2>4. v \in {null, tagged} /\ AtWord(m, u, cur, c, old)
    BY <1>2, <1>8, <2>2 DEF AtWord
  <2>5. Good(kind, m2) /\ WordGets(kind, m, m2, Append(u, c), IF v = tagged THEN Yes ELSE No)
    BY <2>3, <2>4, CutGood
  <2>6. ASSUME Filled(m, cur) PROVE Filled(m2, Root)
    <3> SUFFICES ASSUME NEW s \in DOMAIN m2 \ {Root} PROVE \E d \in Chars : m2[s].nodes[d] # null
      BY DEF Filled
    <3>1. s \in DOMAIN m
      BY <1>8
    <3>2. m2[s].nodes[c] = IF s = cur THEN v ELSE m[s].nodes[c]
      BY <2>3, <3>1, <1>8 DEF IsCut, IsEdit
    <3>3. CASE s = cur
      BY <2>2, <3>2, <3>3 DEF null, tagged
    <3>4. CASE s # cur
      <4>1. m2[s] = m[s]
        BY <1>8, <3>1, <3>4
      <4> QED
        BY <2>6, <3>1, <3>4, <4>1 DEF Filled
    <3> QED
      BY <3>3, <3>4
  <2>7. WordGets(kind, m, m2, w, Yes)
    BY <1>1, <2>2, <2>5
  <2>8. IsAnswer(kind, m, w, change, a)
    BY <1>8, <2>1 DEF IsAnswer, Says, Yes, No
  <2> QED
    BY <2>5, <2>6, <2>7, <2>8
<1>9. CASE /\ p # tagged /\ p # null /\ m2 = [m EXCEPT ![p].is_terminal = TRUE]
           /\ change = (IF m[p].is_terminal THEN 0 ELSE 1) /\ a = Says(~m[p].is_terminal)
  <2>1. AtNode(m, w, p)
    BY <1>5, <1>6, <1>9 DEF AtNode
  <2>2. m[p].is_terminal \in BOOLEAN /\ (GotIn(kind, m, w) = No <=> ~m[p].is_terminal)
    BY <2>1, MarkSeen
  <2>3. PICK b \in BOOLEAN : b = TRUE
    OBVIOUS
  <2>4. IsMark(kind, m, m2, p, b)
    BY <1>9, <2>3 DEF IsMark
  <2>5. /\ Good(kind, m2) /\ WordGets(kind, m, m2, w, IF b THEN Yes ELSE No)
        /\ \A e : Filled(m, e) => Filled(m2, e)
    BY <2>1, <2>4, MarkOne
  <2>6. Filled(m, cur) => Filled(m, Root)
    BY <1>1, <1>2, <1>9 DEF Filled
  <2>7. IsAnswer(kind, m, w, change, a)
    BY <1>9, <2>2 DEF IsAnswer, Says
  <2> QED
    BY <2>3, <2>5, <2>6, <2>7
<1> QED
  BY <1>1, <1>7, <1>8, <1>9 DEF IsInserted

(* A node that is marked or unmarked, and what the caller is told.           *)
IsRemoved(kind, m, w, change, a) ==
  /\ change = IF GotIn(kind, m, w) = No THEN 0 ELSE -1
  /\ a = Says(GotIn(kind, m, w) # No)

IsMarkEnd(m, p, m2, change, a) ==
  /\ m2 = [m EXCEPT ![p].is_terminal = TRUE]
  /\ change = (IF m[p].is_terminal THEN 0 ELSE 1) /\ a = Says(~m[p].is_terminal)

IsUnmarkEnd(m, p, m2, change, a) ==
  /\ m2 = [m EXCEPT ![p].is_terminal = FALSE]
  /\ change = (IF m[p].is_terminal THEN -1 ELSE 0) /\ a = Says(m[p].is_terminal)

LEMMA MarkEnd ==
  ASSUME NEW kind, kind # "ValueTrie", No \notin TrieValues, NEW m, Good(kind, m), NEW w \in Seq(Chars),
         NEW p, AtNode(m, w, p), NEW m2, NEW change, NEW a, IsMarkEnd(m, p, m2, change, a)
  PROVE  /\ Good(kind, m2) /\ WordGets(kind, m, m2, w, Yes) /\ IsAnswer(kind, m, w, change, a)
         /\ \A e : Filled(m, e) => Filled(m2, e)
<1>1. PICK b \in BOOLEAN : b = TRUE
  OBVIOUS
<1>2. IsMark(kind, m, m2, p, b)
  BY <1>1 DEF IsMarkEnd, IsMark
<1>3. /\ Good(kind, m2) /\ WordGets(kind, m, m2, w, IF b THEN Yes ELSE No)
      /\ \A e : Filled(m, e) => Filled(m2, e)
  BY <1>2, MarkOne
<1>4. m[p].is_terminal \in BOOLEAN /\ (GotIn(kind, m, w) = No <=> ~m[p].is_terminal)
  BY MarkSeen
<1>5. IsAnswer(kind, m, w, change, a)
  BY <1>4 DEF IsMarkEnd, IsAnswer, Says
<1> QED
  BY <1>1, <1>3, <1>5

LEMMA UnmarkEnd ==
  ASSUME NEW kind, No \notin TrieValues, NEW m, Good(kind, m), NEW w \in Seq(Chars),
         NEW p, AtNode(m, w, p), NEW m2, NEW change, NEW a, IsUnmarkEnd(m, p, m2, change, a)
  PROVE  /\ Good(kind, m2) /\ WordGets(kind, m, m2, w, No) /\ IsRemoved(kind, m, w, change, a)
         /\ \A e : Filled(m, e) => Filled(m2, e)
<1>1. PICK b \in BOOLEAN : b = FALSE
  OBVIOUS
<1>2. IsMark(kind, m, m2, p, b)
  BY <1>1 DEF IsUnmarkEnd, IsMark
<1>3. /\ Good(kind, m2) /\ WordGets(kind, m, m2, w, IF b THEN Yes ELSE No)
      /\ \A e : Filled(m, e) => Filled(m2, e)
  BY <1>2, MarkOne
<1>4. m[p].is_terminal \in BOOLEAN /\ (GotIn(kind, m, w) = No <=> ~m[p].is_terminal)
  BY MarkSeen
<1>5. IsRemoved(kind, m, w, change, a)
  BY <1>4 DEF IsUnmarkEnd, IsRemoved, Says
<1> QED
  BY <1>1, <1>3, <1>5

(* A removal of a word that leads nowhere, and in TinyTrie of one that a     *)
(* tagged pointer stands for.                                                *)
LEMMA NothingRemoved ==
  ASSUME NEW kind, NEW m, Good(kind, m), NEW w \in Seq(Chars), ReachIn(m, w) = null
  PROVE  WordGets(kind, m, m, w, No) /\ IsRemoved(kind, m, w, 0, No)
<1>1. GotIn(kind, m, w) = No
  BY DEF GotIn, Ends
<1> QED
  BY <1>1 DEF WordGets, IsRemoved, Says

LEMMA TaggedRemoved ==
  ASSUME Good("TinyTrie", mem), NEW w \in Seq(Chars), w # <<>>, ReachIn(mem, w) = tagged,
         NEW m2, IsUnset(m2, w)
  PROVE  Good("TinyTrie", m2) /\ WordGets("TinyTrie", mem, m2, w, No) /\ IsRemoved("TinyTrie", mem, w, -1, Yes)
<1>1. PICK u \in Seq(Chars), c \in Chars : u = Front(w) /\ c = Last(w) /\ w = Append(u, c)
  BY FrontLast
<1>2. PICK m, kind, cur, old, v : /\ m = mem /\ kind = "TinyTrie" /\ cur = ReachIn(mem, u)
                                 /\ old = tagged /\ v = null
  OBVIOUS
<1>3. tagged = FollowIn(mem, ReachIn(mem, u), c)
  BY <1>1, ReachSteps
<1>4. AtWord(m, u, cur, c, old)
  BY <1>2, <1>3 DEF AtWord, FollowIn, null, tagged
<1>5. Good(kind, m) /\ IsMemory(m) /\ kind # "ValueTrie"
  BY <1>2 DEF Good
<1>6. cur \in DOMAIN m /\ old = m[cur].nodes[c] /\ ~IsSlot(old)
  BY <1>2, <1>4, <1>5, ReachFacts DEF AtWord, IsSlot, tagged
<1>7. m2 = [m EXCEPT ![cur].nodes[c] = v]
  BY <1>1, <1>2 DEF IsUnset
<1>8. IsCut(m, m2, cur, c, old, v)
  BY <1>5, <1>6, <1>7, CutByExcept
<1>9. v \in {null, tagged} /\ v # tagged
  BY <1>2 DEF null, tagged
<1>10. Good(kind, m2) /\ WordGets(kind, m, m2, Append(u, c), IF v = tagged THEN Yes ELSE No)
  BY <1>4, <1>5, <1>8, <1>9, CutGood
<1>11. GotIn("TinyTrie", mem, w) = Yes
  BY DEF GotIn, Ends, null, tagged
<1>12. IsRemoved("TinyTrie", mem, w, -1, Yes)
  BY <1>11 DEF IsRemoved, Says, Yes, No
<1> QED
  BY <1>1, <1>2, <1>9, <1>10, <1>12

-----------------------------------------------------------------------------
(* What a call does to the trie and what it returns, in terms of the words   *)
(* that are stored.                                                          *)
StaysFilled(kind) == kind = "TinyTrie2" => (Filled(mem, Root) => Filled(mem', Root))

IsSet(kind, w, v) ==
  /\ Good(kind, mem') /\ WordGets(kind, mem, mem', w, v) /\ StaysFilled(kind)
  /\ refused' = refused /\ \E change : count' = count + change /\ IsAnswer(kind, mem, w, change, answer')

IsRemove(kind, w) ==
  /\ Good(kind, mem') /\ WordGets(kind, mem, mem', w, No) /\ StaysFilled(kind)
  /\ refused' = refused /\ \E change : count' = count + change /\ IsRemoved(kind, mem, w, change, answer')

IsRefused(kind) ==
  /\ Good(kind, mem') /\ SameGot(kind, mem, mem')
  /\ refused' = TRUE /\ count' = count /\ answer' = Refused

IsGet(kind, w) ==
  mem' = mem /\ count' = count /\ refused' = refused /\ answer' = GotIn(kind, mem, w)

(* An insertion into TinyTrie, and what it does.                             *)
LEMMA TinyInsert ==
  ASSUME Good("TinyTrie", mem), No \notin TrieValues, NEW w \in Seq(Chars), NEW room, Tiny!insert(w, room)
  PROVE  IsSet("TinyTrie", w, Yes) \/ IsRefused("TinyTrie")
<1>1. PICK kind, m2 : kind = "TinyTrie" /\ m2 = mem'
  OBVIOUS
<1>2. CASE w = <<>>
  <2>1. PICK p : p = Root
    OBVIOUS
  <2>2. AtNode(mem, w, p)
    BY <1>2, <2>1, ReachSteps DEF AtNode, IsSlot, Root, tagged
  <2>3. PICK change : change = IF mem[p].is_terminal THEN 0 ELSE 1
    OBVIOUS
  <2>4. IsMarkEnd(mem, p, m2, change, answer') /\ count' = count + change /\ refused' = refused
    BY <1>1, <1>2, <2>1, <2>3
       DEF IsMarkEnd, Tiny!insert, Tiny!Mark, Tiny!Answer, Tiny!Root, Root, Tiny!Says, Says, Tiny!Yes, Yes, Tiny!No, No
  <2>5. Good(kind, mem) /\ kind # "ValueTrie"
    BY <1>1
  <2>6. Good(kind, m2) /\ WordGets(kind, mem, m2, w, Yes) /\ IsAnswer(kind, mem, w, change, answer')
    BY <2>2, <2>4, <2>5, MarkEnd
  <2> QED
    BY <1>1, <2>4, <2>6 DEF IsSet, StaysFilled
<1>3. CASE w # <<>>
  <2>1. PICK s : s = Tiny!create_parent_node(w, room)
    OBVIOUS
  <2>2. /\ s.ok \in BOOLEAN /\ Good("TinyTrie", s.mem) /\ SameGot("TinyTrie", mem, s.mem)
        /\ s.ok => IsEnd("TinyTrie", mem, s.mem, s.cur, Front(w))
    BY <1>3, <2>1, TinyCreate
  <2>3. PICK m, cur, p, c : m = s.mem /\ cur = s.cur /\ p = m[cur].nodes[c] /\ c = Last(w)
    OBVIOUS
  <2>4. CASE ~s.ok
    <3>1. mem' = m /\ answer' = Refused /\ refused' = TRUE /\ count' = count
      BY <1>3, <2>1, <2>3, <2>4 DEF Tiny!insert, Tiny!Refuse, Tiny!Refused, Refused
    <3> QED
      BY <2>2, <2>3, <3>1 DEF IsRefused
  <2>5. CASE s.ok
    <3>1. \E change : IsInserted(m, cur, p, c, m2, change, answer') /\ count' = count + change /\ refused' = refused
      BY <1>1, <1>3, <2>1, <2>3, <2>5
         DEF IsInserted, Tiny!insert, Tiny!Last, Last, Tiny!Mark, Tiny!Answer, Tiny!tagged, tagged,
             Tiny!null, null, Tiny!Says, Says, Tiny!Yes, Yes, Tiny!No, No
    <3>2. PICK change : IsInserted(m, cur, p, c, m2, change, answer') /\ count' = count + change /\ refused' = refused
      BY <3>1
    <3>3. IsInserted(m, cur, p, Last(w), m2, change, answer') /\ IsPointer(m, cur, w, p)
      BY <2>3, <3>2 DEF IsPointer
    <3>4. Good(kind, m) /\ kind # "ValueTrie" /\ SameGot(kind, mem, m) /\ AtNode(m, Front(w), cur)
      BY <1>1, <2>2, <2>3, <2>5 DEF IsEnd, AtNode
    <3>5. Good(kind, m2) /\ WordGets(kind, m, m2, w, Yes) /\ IsAnswer(kind, m, w, change, answer')
      BY <1>3, <3>3, <3>4, InsertEnd
    <3>6. WordGets(kind, mem, m2, w, Yes) /\ IsAnswer(kind, mem, w, change, answer')
      BY <3>4, <3>5 DEF SameGot, WordGets, IsAnswer
    <3> QED
      BY <1>1, <3>2, <3>5, <3>6 DEF IsSet, StaysFilled
  <2> QED
    BY <2>2, <2>4, <2>5
<1> QED
  BY <1>2, <1>3

(* Where the operations of TinyTrie and TinyTrie2 find a word that is not    *)
(* empty.                                                                    *)
LEMMA LastStep ==
  ASSUME NEW m, NEW w \in Seq(Chars), w # <<>>
  PROVE  ReachIn(m, w) = FollowIn(m, ReachIn(m, Front(w)), Last(w))
<1>1. PICK u \in Seq(Chars), c \in Chars : u = Front(w) /\ c = Last(w) /\ w = Append(u, c)
  BY FrontLast
<1>2. ReachIn(m, Append(u, c)) = FollowIn(m, ReachIn(m, u), c)
  BY ReachSteps
<1> QED
  BY <1>1, <1>2

(* What a caller of a trie of tiny pointers sees of a word.                  *)
LEMMA StoredIs ==
  ASSUME NEW w \in Seq(Chars)
  PROVE  /\ Tiny!Stored(w) <=> Ends(mem, w)
         /\ Tiny!Stored(w)' <=> Ends(mem', w)
         /\ Tiny2!Stored(w) <=> Ends(mem, w)
         /\ Tiny2!Stored(w)' <=> Ends(mem', w)
<1>1. CASE w = <<>>
  <2>1. ReachIn(mem, w) = Root /\ ReachIn(mem', w) = Root
    BY <1>1, ReachSteps
  <2> QED
    BY <1>1, <2>1 DEF Ends, Tiny!Stored, Tiny2!Stored, Tiny!Root, Tiny2!Root, Root, Tiny!null, Tiny2!null, null,
                      Tiny!tagged, Tiny2!tagged, tagged, IsSlot
<1>2. CASE w # <<>>
  <2>1. /\ ReachIn(mem, w) = FollowIn(mem, ReachIn(mem, Front(w)), Last(w))
        /\ ReachIn(mem', w) = FollowIn(mem', ReachIn(mem', Front(w)), Last(w))
    BY <1>2, LastStep
  <2>2. /\ Tiny!Follow(Tiny!get_parent_node(w), Tiny!Last(w)) = ReachIn(mem, w)
        /\ Tiny2!Follow(Tiny2!get_parent_node(w), Tiny2!Last(w)) = ReachIn(mem, w)
        /\ Tiny!Follow(Tiny!get_parent_node(w), Tiny!Last(w))' = ReachIn(mem', w)
        /\ Tiny2!Follow(Tiny2!get_parent_node(w), Tiny2!Last(w))' = ReachIn(mem', w)
    BY <2>1, ReachIs DEF Tiny!Follow, Tiny2!Follow, FollowIn, Tiny!get_parent_node, Tiny2!get_parent_node,
       Tiny!Front, Tiny2!Front, Front, Tiny!Last, Tiny2!Last, Last, Tiny!IsSlot, Tiny2!IsSlot, IsSlot,
       Tiny!null, Tiny2!null, null, Tiny!tagged, Tiny2!tagged, tagged
  <2> QED
    BY <1>2, <2>2 DEF Ends, Tiny!Stored, Tiny2!Stored, Tiny!null, Tiny2!null, null,
                      Tiny!tagged, Tiny2!tagged, tagged, IsSlot
<1> QED
  BY <1>1, <1>2

(* A question to a trie of tiny pointers.                                    *)
LEMMA TinyContains ==
  ASSUME count \in Nat, NEW w \in Seq(Chars), Tiny!contains(w)
  PROVE  IsGet("TinyTrie", w)
<1>1. mem' = mem /\ count' = count + 0 /\ refused' = refused /\ answer' = Says(Ends(mem, w))
  BY StoredIs DEF Tiny!contains, Tiny!Answer, Tiny!Says, Says, Tiny!Yes, Yes, Tiny!No, No
<1>2. GotIn("TinyTrie", mem, w) = Says(Ends(mem, w))
  BY DEF GotIn, Says, Yes, No
<1> QED
  BY <1>1, <1>2 DEF IsGet

LEMMA Tiny2Contains ==
  ASSUME count \in Nat, NEW w \in Seq(Chars), Tiny2!contains(w)
  PROVE  IsGet("TinyTrie2", w)
<1>1. mem' = mem /\ count' = count + 0 /\ refused' = refused /\ answer' = Says(Ends(mem, w))
  BY StoredIs DEF Tiny2!contains, Tiny2!Answer, Tiny2!Says, Says, Tiny2!Yes, Yes, Tiny2!No, No
<1>2. GotIn("TinyTrie2", mem, w) = Says(Ends(mem, w))
  BY DEF GotIn, Says, Yes, No
<1> QED
  BY <1>1, <1>2 DEF IsGet

(* A removal from TinyTrie.                                                  *)
LEMMA TinyRemove ==
  ASSUME Good("TinyTrie", mem), No \notin TrieValues, NEW w \in Seq(Chars), Tiny!remove(w)
  PROVE  IsRemove("TinyTrie", w)
<1>1. PICK kind, m2, p : kind = "TinyTrie" /\ m2 = mem' /\ p = ReachIn(mem, w)
  OBVIOUS
<1>2. ASSUME IsUnmarkEnd(mem, p, m2, IF mem[p].is_terminal THEN -1 ELSE 0, answer'), IsSlot(p),
             count' = count + (IF mem[p].is_terminal THEN -1 ELSE 0), refused' = refused
      PROVE  IsRemove("TinyTrie", w)
  <2>1. PICK change : change = IF mem[p].is_terminal THEN -1 ELSE 0
    OBVIOUS
  <2>2. IsUnmarkEnd(mem, p, m2, change, answer') /\ AtNode(mem, w, p) /\ Good(kind, mem)
    BY <1>1, <1>2, <2>1 DEF AtNode
  <2>3. Good(kind, m2) /\ WordGets(kind, mem, m2, w, No) /\ IsRemoved(kind, mem, w, change, answer')
    BY <2>2, UnmarkEnd
  <2> QED
    BY <1>1, <1>2, <2>1, <2>3 DEF IsRemove, StaysFilled
<1>3. CASE w = <<>>
  <2>1. p = Root
    BY <1>1, <1>3, ReachSteps
  <2>2. /\ IsUnmarkEnd(mem, p, m2, IF mem[p].is_terminal THEN -1 ELSE 0, answer')
        /\ count' = count + (IF mem[p].is_terminal THEN -1 ELSE 0) /\ refused' = refused
    BY <1>1, <1>3, <2>1
       DEF IsUnmarkEnd, Tiny!remove, Tiny!Unmark, Tiny!Answer, Tiny!Root, Root, Tiny!Says, Says, Tiny!Yes, Yes, Tiny!No, No
  <2> QED
    BY <1>2, <2>1, <2>2 DEF IsSlot, Root, tagged
<1>4. CASE w # <<>>
  <2>1. /\ Tiny!get_parent_node(w) = ReachIn(mem, Front(w)) /\ Tiny!Last(w) = Last(w)
        /\ Tiny!Follow(Tiny!get_parent_node(w), Tiny!Last(w)) = p
    BY <1>1, <1>4, LastStep, ReachIs DEF Tiny!Follow, FollowIn, Tiny!get_parent_node, Tiny!Front, Front,
       Tiny!Last, Last, Tiny!IsSlot, IsSlot, Tiny!null, null, Tiny!tagged, tagged
  <2>2. CASE p = null
    <3>1. mem' = mem /\ answer' = No /\ count' = count + 0 /\ refused' = refused
      BY <1>4, <2>1, <2>2 DEF Tiny!remove, Tiny!Answer, Tiny!null, null, Tiny!No, No
    <3>2. WordGets("TinyTrie", mem, mem, w, No) /\ IsRemoved("TinyTrie", mem, w, 0, No)
      BY <1>1, <2>2, NothingRemoved
    <3> QED
      BY <3>1, <3>2 DEF IsRemove, StaysFilled
  <2>3. CASE p = tagged
    <3>1. IsUnset(mem', w) /\ answer' = Yes /\ count' = count + -1 /\ refused' = refused
      BY <1>4, <2>1, <2>3
         DEF Tiny!remove, Tiny!Answer, Tiny!null, null, Tiny!tagged, tagged, Tiny!Yes, Yes, IsUnset
    <3>2. IsUnset(m2, w)
      BY <1>1, <3>1
    <3>3. Good("TinyTrie", m2) /\ WordGets("TinyTrie", mem, m2, w, No) /\ IsRemoved("TinyTrie", mem, w, -1, Yes)
      BY <1>1, <1>4, <2>3, <3>2, TaggedRemoved
    <3> QED
      BY <1>1, <3>1, <3>3 DEF IsRemove, StaysFilled
  <2>4. CASE p # null /\ p # tagged
    <3>1. /\ IsUnmarkEnd(mem, p, m2, IF mem[p].is_terminal THEN -1 ELSE 0, answer')
          /\ count' = count + (IF mem[p].is_terminal THEN -1 ELSE 0) /\ refused' = refused
      BY <1>1, <1>4, <2>1, <2>4
         DEF IsUnmarkEnd, Tiny!remove, Tiny!Unmark, Tiny!Answer, Tiny!null, null, Tiny!tagged, tagged,
             Tiny!Says, Says, Tiny!Yes, Yes, Tiny!No, No
    <3>2. IsMemory(mem)
      BY DEF Good
    <3>3. IsSlot(p)
      BY <1>1, <2>4, <3>2, ReachFacts DEF null, tagged
    <3> QED
      BY <1>2, <3>1, <3>3
  <2> QED
    BY <2>2, <2>3, <2>4
<1> QED
  BY <1>3, <1>4

(* An insertion into TinyTrie2, and a removal from it.                       *)
LEMMA Tiny2Insert ==
  ASSUME Good("TinyTrie2", mem), No \notin TrieValues, NEW w \in Seq(Chars), NEW room, Tiny2!insert(w, room)
  PROVE  IsSet("TinyTrie2", w, Yes) \/ IsRefused("TinyTrie2")
<1>1. PICK kind, m2 : kind = "TinyTrie2" /\ m2 = mem'
  OBVIOUS
<1>2. CASE w = <<>>
  <2>1. PICK p : p = Root
    OBVIOUS
  <2>2. AtNode(mem, w, p)
    BY <1>2, <2>1, ReachSteps DEF AtNode, IsSlot, Root, tagged
  <2>3. PICK change : change = IF mem[p].is_terminal THEN 0 ELSE 1
    OBVIOUS
  <2>4. IsMarkEnd(mem, p, m2, change, answer') /\ count' = count + change /\ refused' = refused
    BY <1>1, <1>2, <2>1, <2>3
       DEF IsMarkEnd, Tiny2!insert, Tiny2!Mark, Tiny2!Answer, Tiny2!Root, Root, Tiny2!Says, Says,
           Tiny2!Yes, Yes, Tiny2!No, No
  <2>5. Good(kind, mem) /\ kind # "ValueTrie"
    BY <1>1
  <2>6. /\ Good(kind, m2) /\ WordGets(kind, mem, m2, w, Yes) /\ IsAnswer(kind, mem, w, change, answer')
        /\ \A e : Filled(mem, e) => Filled(m2, e)
    BY <2>2, <2>4, <2>5, MarkEnd
  <2> QED
    BY <1>1, <2>4, <2>6 DEF IsSet, StaysFilled
<1>3. CASE w # <<>>
  <2>1. PICK s : s = Tiny2!create_parent_node(w, room)
    OBVIOUS
  <2>2. /\ s.ok \in BOOLEAN /\ Good("TinyTrie2", s.mem) /\ SameGot("TinyTrie2", mem, s.mem)
        /\ s.ok => IsEnd("TinyTrie2", mem, s.mem, s.cur, Front(w))
    BY <1>3, <2>1, Tiny2Create
  <2>3. PICK m, cur, p, c : m = s.mem /\ cur = s.cur /\ p = m[cur].nodes[c] /\ c = Last(w)
    OBVIOUS
  <2>4. CASE ~s.ok
    <3>1. mem' = m /\ answer' = Refused /\ refused' = TRUE /\ count' = count
      BY <1>3, <2>1, <2>3, <2>4 DEF Tiny2!insert, Tiny2!Refuse, Tiny2!Refused, Refused
    <3> QED
      BY <2>2, <2>3, <3>1 DEF IsRefused
  <2>5. CASE s.ok
    <3>1. \E change : IsInserted(m, cur, p, c, m2, change, answer') /\ count' = count + change /\ refused' = refused
      BY <1>1, <1>3, <2>1, <2>3, <2>5
         DEF IsInserted, Tiny2!insert, Tiny2!Last, Last, Tiny2!Mark, Tiny2!Answer, Tiny2!tagged, tagged,
             Tiny2!null, null, Tiny2!Says, Says, Tiny2!Yes, Yes, Tiny2!No, No
    <3>2. PICK change : IsInserted(m, cur, p, c, m2, change, answer') /\ count' = count + change /\ refused' = refused
      BY <3>1
    <3>3. IsInserted(m, cur, p, Last(w), m2, change, answer') /\ IsPointer(m, cur, w, p)
      BY <2>3, <3>2 DEF IsPointer
    <3>4. /\ Good(kind, m) /\ kind # "ValueTrie" /\ SameGot(kind, mem, m) /\ AtNode(m, Front(w), cur)
          /\ Filled(mem, Root) => Filled(m, cur)
      BY <1>1, <2>2, <2>3, <2>5 DEF IsEnd, AtNode
    <3>5. /\ Good(kind, m2) /\ WordGets(kind, m, m2, w, Yes) /\ IsAnswer(kind, m, w, change, answer')
          /\ Filled(m, cur) => Filled(m2, Root)
      BY <1>3, <3>3, <3>4, InsertEnd
    <3>6. WordGets(kind, mem, m2, w, Yes) /\ IsAnswer(kind, mem, w, change, answer')
      BY <3>4, <3>5 DEF SameGot, WordGets, IsAnswer
    <3>7. StaysFilled(kind)
      BY <1>1, <3>4, <3>5 DEF StaysFilled
    <3> QED
      BY <1>1, <3>2, <3>5, <3>6, <3>7 DEF IsSet
  <2> QED
    BY <2>2, <2>4, <2>5
<1> QED
  BY <1>2, <1>3

LEMMA Tiny2Remove ==
  ASSUME Good("TinyTrie2", mem), No \notin TrieValues, NEW w \in Seq(Chars), Tiny2!remove(w)
  PROVE  IsRemove("TinyTrie2", w)
<1>1. PICK kind, m2, p : kind = "TinyTrie2" /\ m2 = mem' /\ p = ReachIn(mem, w)
  OBVIOUS
<1>2. /\ Tiny2!Reach(w) = p /\ Tiny2!Reach(Tiny2!Front(w)) = ReachIn(mem, Front(w)) /\ Tiny2!Last(w) = Last(w)
  BY <1>1, ReachIs DEF Tiny2!Front, Front, Tiny2!Last, Last
<1>3. CASE p = null
  <2>1. mem' = mem /\ answer' = No /\ count' = count + 0 /\ refused' = refused
    BY <1>2, <1>3 DEF Tiny2!remove, Tiny2!Answer, Tiny2!null, null, Tiny2!No, No
  <2>2. WordGets("TinyTrie2", mem, mem, w, No) /\ IsRemoved("TinyTrie2", mem, w, 0, No)
    BY <1>1, <1>3, NothingRemoved
  <2> QED
    BY <2>1, <2>2 DEF IsRemove, StaysFilled
<1>4. CASE p = tagged
  <2>1. PICK m : IsUnset(m, w)
    BY DEF IsUnset
  <2>2. m2 = Tiny2!Prune(m, w) /\ answer' = Yes /\ count' = count + -1 /\ refused' = refused
    BY <1>1, <1>2, <1>4, <2>1
       DEF Tiny2!remove, Tiny2!Answer, Tiny2!null, null, Tiny2!tagged, tagged, Tiny2!Yes, Yes, IsUnset
  <2>3. w # <<>> /\ ReachIn(mem, w) = tagged
    <3>1. ReachIn(mem, <<>>) = Root
      BY ReachSteps
    <3>2. tagged # Root
      BY DEF tagged, Root
    <3> QED
      BY <1>1, <1>4, <3>1, <3>2
  <2>4. /\ Good("TinyTrie2", m2) /\ WordGets("TinyTrie2", mem, m2, w, No)
        /\ Filled(mem, Root) => Filled(m2, Root)
    BY <2>1, <2>2, <2>3, PruneGood
  <2>5. GotIn("TinyTrie2", mem, w) = Yes
    BY <2>3 DEF GotIn, Ends, null, tagged
  <2>6. IsRemoved("TinyTrie2", mem, w, -1, Yes)
    BY <2>5 DEF IsRemoved, Says, Yes, No
  <2> QED
    BY <1>1, <2>2, <2>4, <2>6 DEF IsRemove, StaysFilled
<1>5. CASE p # null /\ p # tagged
  <2>1. PICK change : change = IF mem[p].is_terminal THEN -1 ELSE 0
    OBVIOUS
  <2>2. IsUnmarkEnd(mem, p, m2, change, answer') /\ count' = count + change /\ refused' = refused
    BY <1>1, <1>2, <1>5, <2>1
       DEF IsUnmarkEnd, Tiny2!remove, Tiny2!Unmark, Tiny2!Answer, Tiny2!null, null, Tiny2!tagged, tagged,
           Tiny2!Says, Says, Tiny2!Yes, Yes, Tiny2!No, No
  <2>3. IsMemory(mem)
    BY DEF Good
  <2>4. AtNode(mem, w, p) /\ Good(kind, mem)
    BY <1>1, <1>5, <2>3, ReachFacts DEF null, tagged, AtNode
  <2>5. /\ Good(kind, m2) /\ WordGets(kind, mem, m2, w, No) /\ IsRemoved(kind, mem, w, change, answer')
        /\ \A e : Filled(mem, e) => Filled(m2, e)
    BY <2>2, <2>4, UnmarkEnd
  <2> QED
    BY <1>1, <2>2, <2>5 DEF IsRemove, StaysFilled
<1> QED
  BY <1>3, <1>4, <1>5

(* The calls of ValueTrie.                                                   *)
LEMMA PlainSet ==
  ASSUME Good("ValueTrie", mem), No \notin TrieValues, NEW w \in Seq(Chars), NEW v \in TrieValues, Plain!set(w, v)
  PROVE  IsSet("ValueTrie", w, v)
<1>1. PICK s : s = Plain!create_node(w)
  OBVIOUS
<1>2. IsEnd("ValueTrie", mem, s.mem, s.cur, w)
  BY <1>1, PlainCreate
<1>3. PICK m, p, kind, m2 : m = s.mem /\ p = s.cur /\ kind = "ValueTrie" /\ m2 = mem'
  OBVIOUS
<1>4. Good(kind, m) /\ SameGot(kind, mem, m) /\ AtNode(m, w, p)
  BY <1>2, <1>3 DEF IsEnd, AtNode
<1>5. PICK mv : mv = [m EXCEPT ![p].value = v]
  OBVIOUS
<1>6. PICK change : change = IF mv[p].is_terminal THEN 0 ELSE 1
  OBVIOUS
<1>7. /\ m2 = [mv EXCEPT ![p].is_terminal = TRUE] /\ refused' = refused
      /\ answer' = Says(~mv[p].is_terminal) /\ count' = count + change
  BY <1>1, <1>3, <1>5, <1>6
     DEF Plain!set, Plain!Mark, Plain!Answer, Plain!Says, Says, Plain!Yes, Yes, Plain!No, No
<1>8. IsMemory(m) /\ p \in DOMAIN m
  BY <1>4, ReachFacts DEF Good, AtNode
<1>9. ASSUME NEW x \in DOMAIN m
      PROVE  /\ DOMAIN m2[x] = NodeFields /\ m2[x].nodes = m[x].nodes /\ m2[x].hash = m[x].hash
             /\ m2[x].is_terminal = (IF x = p THEN TRUE ELSE m[x].is_terminal)
             /\ m2[x].value = (IF x = p THEN v ELSE m[x].value)
             /\ mv[x].is_terminal = m[x].is_terminal
  <2>1. DOMAIN m[x] = NodeFields
    BY <1>8 DEF IsMemory, IsNode
  <2>2. mv[x] = IF x = p THEN [m[x] EXCEPT !.value = v] ELSE m[x]
    BY <1>5
  <2>3. m2[x] = IF x = p THEN [mv[x] EXCEPT !.is_terminal = TRUE] ELSE mv[x]
    BY <1>5, <1>7
  <2>4. DOMAIN mv[x] = NodeFields
    BY <2>1, <2>2
  <2>5. /\ mv[x].nodes = m[x].nodes /\ mv[x].hash = m[x].hash /\ mv[x].is_terminal = m[x].is_terminal
        /\ mv[x].value = IF x = p THEN v ELSE m[x].value
    BY <2>1, <2>2 DEF NodeFields
  <2>6. /\ DOMAIN m2[x] = NodeFields /\ m2[x].nodes = mv[x].nodes /\ m2[x].hash = mv[x].hash
        /\ m2[x].is_terminal = (IF x = p THEN TRUE ELSE mv[x].is_terminal) /\ m2[x].value = mv[x].value
    BY <2>3, <2>4 DEF NodeFields
  <2> QED
    BY <2>5, <2>6
<1>10. DOMAIN m2 = DOMAIN m
  BY <1>5, <1>7
<1>11. PICK b \in BOOLEAN : b = TRUE
  OBVIOUS
<1>12. IsMarked(m, m2, p, b)
  BY <1>9, <1>10, <1>11 DEF IsMarked
<1>13. m2[p].value = v /\ mv[p].is_terminal = m[p].is_terminal
  BY <1>8, <1>9
<1>14. MayShow(kind, m2, p, b)
  BY <1>13 DEF MayShow
<1>15. Good(kind, m2) /\ WordGets(kind, m, m2, w, Shown(kind, m2, p, b))
  BY <1>4, <1>12, <1>14, MarkedGood
<1>16. Shown(kind, m2, p, b) = v
  BY <1>3, <1>11, <1>13 DEF Shown
<1>17. m[p].is_terminal \in BOOLEAN /\ (GotIn(kind, m, w) = No <=> ~m[p].is_terminal)
  BY <1>4, MarkSeen
<1>18. WordGets(kind, mem, m2, w, v) /\ GotIn(kind, m, w) = GotIn(kind, mem, w)
  BY <1>4, <1>15, <1>16 DEF SameGot, WordGets
<1>19. IsAnswer(kind, mem, w, change, answer')
  BY <1>6, <1>7, <1>13, <1>17, <1>18 DEF IsAnswer, Says
<1> QED
  BY <1>3, <1>7, <1>15, <1>18, <1>19 DEF IsSet, StaysFilled

LEMMA PlainRemove ==
  ASSUME Good("ValueTrie", mem), No \notin TrieValues, NEW w \in Seq(Chars), Plain!remove(w)
  PROVE  IsRemove("ValueTrie", w)
<1>1. PICK kind, m2, p : kind = "ValueTrie" /\ m2 = mem' /\ p = ReachIn(mem, w)
  OBVIOUS
<1>2. Plain!get_node(w) = p
  BY <1>1, ReachIs DEF Plain!get_node
<1>3. CASE p = null
  <2>1. mem' = mem /\ answer' = No /\ count' = count + 0 /\ refused' = refused
    BY <1>2, <1>3 DEF Plain!remove, Plain!Answer, Plain!null, null, Plain!No, No
  <2>2. WordGets("ValueTrie", mem, mem, w, No) /\ IsRemoved("ValueTrie", mem, w, 0, No)
    BY <1>1, <1>3, NothingRemoved
  <2> QED
    BY <2>1, <2>2 DEF IsRemove, StaysFilled
<1>4. CASE p # null
  <2>1. PICK change : change = IF mem[p].is_terminal THEN -1 ELSE 0
    OBVIOUS
  <2>2. IsUnmarkEnd(mem, p, m2, change, answer') /\ count' = count + change /\ refused' = refused
    BY <1>1, <1>2, <1>4, <2>1
       DEF IsUnmarkEnd, Plain!remove, Plain!Unmark, Plain!Answer, Plain!null, null,
           Plain!Says, Says, Plain!Yes, Yes, Plain!No, No
  <2>3. IsMemory(mem) /\ Valued(mem)
    BY DEF Good
  <2>4. AtNode(mem, w, p) /\ Good(kind, mem)
    BY <1>1, <1>4, <2>3, ReachFacts, NoTagReached DEF AtNode
  <2>5. Good(kind, m2) /\ WordGets(kind, mem, m2, w, No) /\ IsRemoved(kind, mem, w, change, answer')
    BY <2>2, <2>4, UnmarkEnd
  <2> QED
    BY <1>1, <2>2, <2>5 DEF IsRemove, StaysFilled
<1> QED
  BY <1>3, <1>4

LEMMA FoundIs ==
  ASSUME NEW w \in Seq(Chars)
  PROVE  /\ Good("ValueTrie", mem) => Plain!Found(w) = GotIn("ValueTrie", mem, w)
         /\ Good("ValueTrie", mem') => Plain!Found(w)' = GotIn("ValueTrie", mem', w)
<1>1. Plain!get_node(w) = ReachIn(mem, w) /\ Plain!get_node(w)' = ReachIn(mem', w)
  BY ReachIs DEF Plain!get_node
<1>2. ASSUME NEW m, Good("ValueTrie", m) PROVE ReachIn(m, w) # tagged
  BY <1>2, NoTagReached DEF Good, IsMemory, IsSlot, null, tagged
<1>3. ASSUME Good("ValueTrie", mem) PROVE Plain!Found(w) = GotIn("ValueTrie", mem, w)
  <2>1. ReachIn(mem, w) # tagged
    BY <1>2, <1>3
  <2> QED
    BY <1>1, <2>1 DEF Plain!Found, GotIn, Ends, Plain!null, null, Plain!No, No
<1>4. ASSUME Good("ValueTrie", mem') PROVE Plain!Found(w)' = GotIn("ValueTrie", mem', w)
  <2>1. ReachIn(mem', w) # tagged
    BY <1>2, <1>4
  <2> QED
    BY <1>1, <2>1 DEF Plain!Found, GotIn, Ends, Plain!null, null, Plain!No, No
<1> QED
  BY <1>3, <1>4

LEMMA PlainGet ==
  ASSUME Good("ValueTrie", mem), count \in Nat, NEW w \in Seq(Chars), Plain!get(w)
  PROVE  IsGet("ValueTrie", w)
<1>1. mem' = mem /\ count' = count + 0 /\ refused' = refused /\ answer' = Plain!Found(w)
  BY DEF Plain!get, Plain!Answer
<1> QED
  BY <1>1, FoundIs DEF IsGet

-----------------------------------------------------------------------------
(* The map that a trie stands for.                                           *)
Kinds == {"TinyTrie", "TinyTrie2", "ValueTrie"}

Used(kind, w) == kind = "ValueTrie" => w \in PlainWords

WordValue(kind, m, w) == IF Used(kind, w) THEN GotIn(kind, m, w) ELSE No

StoredIn(kind, m) == {x \in Words : WordValue(kind, m, x) # No}

MapOf(kind, m) == [w \in StoredIn(kind, m) |-> WordValue(kind, m, w)]

(* What the model says of a word is what the trie gives for it.              *)
LEMMA GotIs ==
  ASSUME NEW w \in Words
  PROVE  /\ which \in Kinds /\ Good(which, mem) => Got(w) = WordValue(which, mem, w)
         /\ which' \in Kinds /\ Good(which', mem') => Got(w)' = WordValue(which', mem', w)
<1>1. w \in Seq(Chars)
  BY TrieAssumption
<1>2. ASSUME NEW m, NEW kind \in {"TinyTrie", "TinyTrie2"}
      PROVE  Says(Ends(m, w)) = WordValue(kind, m, w)
  BY DEF WordValue, Used, GotIn, Says, Yes, No
<1>3. ASSUME which \in Kinds, Good(which, mem) PROVE Got(w) = WordValue(which, mem, w)
  <2>1. CASE which = "TinyTrie"
    <3>1. Got(w) = Says(Ends(mem, w))
      BY <1>1, <2>1, StoredIs DEF Got, Says
    <3> QED
      BY <1>2, <2>1, <3>1
  <2>2. CASE which = "TinyTrie2"
    <3>1. Got(w) = Says(Ends(mem, w))
      BY <1>1, <2>2, StoredIs DEF Got, Says
    <3> QED
      BY <1>2, <2>2, <3>1
  <2>3. CASE which = "ValueTrie"
    <3>1. Plain!Found(w) = GotIn("ValueTrie", mem, w)
      BY <1>1, <1>3, <2>3, FoundIs
    <3> QED
      BY <2>3, <3>1 DEF Got, WordValue, Used
  <2> QED
    BY <1>3, <2>1, <2>2, <2>3 DEF Kinds
<1>4. ASSUME which' \in Kinds, Good(which', mem') PROVE Got(w)' = WordValue(which', mem', w)
  <2>1. CASE which' = "TinyTrie"
    <3>1. Got(w)' = Says(Ends(mem', w))
      BY <1>1, <2>1, StoredIs DEF Got, Says
    <3> QED
      BY <1>2, <2>1, <3>1
  <2>2. CASE which' = "TinyTrie2"
    <3>1. Got(w)' = Says(Ends(mem', w))
      BY <1>1, <2>2, StoredIs DEF Got, Says
    <3> QED
      BY <1>2, <2>2, <3>1
  <2>3. CASE which' = "ValueTrie"
    <3>1. Plain!Found(w)' = GotIn("ValueTrie", mem', w)
      BY <1>1, <1>4, <2>3, FoundIs
    <3> QED
      BY <2>3, <3>1 DEF Got, WordValue, Used
  <2> QED
    BY <1>4, <2>1, <2>2, <2>3 DEF Kinds
<1> QED
  BY <1>3, <1>4

(* A word that is set, and one that is removed: the map changes there alone. *)
LEMMA SetMap ==
  ASSUME NEW kind, NEW m, NEW m2, NEW w \in Words, Used(kind, w), NEW v, v # No, WordGets(kind, m, m2, w, v)
  PROVE  /\ StoredIn(kind, m2) = StoredIn(kind, m) \cup {w}
         /\ MapOf(kind, m2) = [x \in DOMAIN MapOf(kind, m) \cup {w} |-> IF x = w THEN v ELSE MapOf(kind, m)[x]]
         /\ w \in DOMAIN MapOf(kind, m) <=> GotIn(kind, m, w) # No
<1>1. \A x \in Words : WordValue(kind, m2, x) = IF x = w THEN v ELSE WordValue(kind, m, x)
  BY TrieAssumption DEF WordGets, WordValue
<1>2. StoredIn(kind, m2) = StoredIn(kind, m) \cup {w}
  BY <1>1 DEF StoredIn
<1>3. DOMAIN MapOf(kind, m) = StoredIn(kind, m) /\ DOMAIN MapOf(kind, m2) = StoredIn(kind, m2)
  BY DEF MapOf
<1>4. \A x \in StoredIn(kind, m2) : WordValue(kind, m2, x) = IF x = w THEN v ELSE MapOf(kind, m)[x]
  BY <1>1, <1>2 DEF MapOf, StoredIn
<1>5. MapOf(kind, m2) = [x \in DOMAIN MapOf(kind, m) \cup {w} |-> IF x = w THEN v ELSE MapOf(kind, m)[x]]
  BY <1>2, <1>3, <1>4 DEF MapOf
<1>6. w \in DOMAIN MapOf(kind, m) <=> GotIn(kind, m, w) # No
  BY <1>3 DEF StoredIn, WordValue
<1> QED
  BY <1>2, <1>5, <1>6

LEMMA RemovedMap ==
  ASSUME NEW kind, NEW m, NEW m2, NEW w \in Words, Used(kind, w), WordGets(kind, m, m2, w, No)
  PROVE  /\ StoredIn(kind, m2) = StoredIn(kind, m) \ {w}
         /\ MapOf(kind, m2) = [x \in DOMAIN MapOf(kind, m) \ {w} |-> MapOf(kind, m)[x]]
         /\ w \in DOMAIN MapOf(kind, m) <=> GotIn(kind, m, w) # No
<1>1. \A x \in Words : WordValue(kind, m2, x) = IF x = w THEN No ELSE WordValue(kind, m, x)
  BY TrieAssumption DEF WordGets, WordValue
<1>2. StoredIn(kind, m2) = StoredIn(kind, m) \ {w}
  BY <1>1 DEF StoredIn
<1>3. DOMAIN MapOf(kind, m) = StoredIn(kind, m) /\ DOMAIN MapOf(kind, m2) = StoredIn(kind, m2)
  BY DEF MapOf
<1>4. \A x \in StoredIn(kind, m2) : WordValue(kind, m2, x) = MapOf(kind, m)[x]
  BY <1>1, <1>2 DEF MapOf, StoredIn
<1>5. MapOf(kind, m2) = [x \in DOMAIN MapOf(kind, m) \ {w} |-> MapOf(kind, m)[x]]
  BY <1>2, <1>3, <1>4 DEF MapOf
<1>6. w \in DOMAIN MapOf(kind, m) <=> GotIn(kind, m, w) # No
  BY <1>3 DEF StoredIn, WordValue
<1> QED
  BY <1>2, <1>5, <1>6

LEMMA SameMap ==
  ASSUME NEW kind, NEW m, NEW m2, SameGot(kind, m, m2)
  PROVE  StoredIn(kind, m2) = StoredIn(kind, m) /\ MapOf(kind, m2) = MapOf(kind, m)
<1>1. \A x \in Words : WordValue(kind, m2, x) = WordValue(kind, m, x)
  BY TrieAssumption DEF SameGot, WordValue
<1>2. StoredIn(kind, m2) = StoredIn(kind, m)
  BY <1>1 DEF StoredIn
<1> QED
  BY <1>1, <1>2 DEF MapOf, StoredIn

-----------------------------------------------------------------------------
(* What every call of every trie does.                                       *)
StepShown ==
  \E w \in Words :
    /\ Used(which, w)
    /\ \/ \E v \in TrieValues \cup {Yes} : IsSet(which, w, v)
       \/ IsRefused(which) \/ IsRemove(which, w) \/ IsGet(which, w)

LEMMA EachCall ==
  ASSUME which \in Kinds, Good(which, mem), count \in Nat, Next
  PROVE  which' = which /\ StepShown
<1>1. which' = which /\ No \notin TrieValues /\ PlainWords \subseteq Words
  BY TriesAssumption DEF Next
<1>2. CASE which = "TinyTrie" /\ Tiny!Next
  <2>1. PICK w \in Words : \/ \E room \in 0..Len(w) : Tiny!insert(w, room)
                           \/ Tiny!remove(w) \/ Tiny!contains(w)
    BY <1>2 DEF Tiny!Next
  <2>2. w \in Seq(Chars) /\ Good("TinyTrie", mem) /\ Used(which, w)
    BY <1>2, TrieAssumption DEF Used
  <2>3. CASE \E room \in 0..Len(w) : Tiny!insert(w, room)
    <3>1. IsSet("TinyTrie", w, Yes) \/ IsRefused("TinyTrie")
      BY <1>1, <2>2, <2>3, TinyInsert
    <3> QED
      BY <1>1, <1>2, <2>2, <3>1 DEF StepShown
  <2>4. CASE Tiny!remove(w)
    <3>1. IsRemove("TinyTrie", w)
      BY <1>1, <2>2, <2>4, TinyRemove
    <3> QED
      BY <1>1, <1>2, <2>2, <3>1 DEF StepShown
  <2>5. CASE Tiny!contains(w)
    <3>1. IsGet("TinyTrie", w)
      BY <2>2, <2>5, TinyContains
    <3> QED
      BY <1>1, <1>2, <2>2, <3>1 DEF StepShown
  <2> QED
    BY <1>1, <2>1, <2>3, <2>4, <2>5
<1>3. CASE which = "TinyTrie2" /\ Tiny2!Next
  <2>1. PICK w \in Words : \/ \E room \in 0..Len(w) : Tiny2!insert(w, room)
                           \/ Tiny2!remove(w) \/ Tiny2!contains(w)
    BY <1>3 DEF Tiny2!Next
  <2>2. w \in Seq(Chars) /\ Good("TinyTrie2", mem) /\ Used(which, w)
    BY <1>3, TrieAssumption DEF Used
  <2>3. CASE \E room \in 0..Len(w) : Tiny2!insert(w, room)
    <3>1. IsSet("TinyTrie2", w, Yes) \/ IsRefused("TinyTrie2")
      BY <1>1, <2>2, <2>3, Tiny2Insert
    <3> QED
      BY <1>1, <1>3, <2>2, <3>1 DEF StepShown
  <2>4. CASE Tiny2!remove(w)
    <3>1. IsRemove("TinyTrie2", w)
      BY <1>1, <2>2, <2>4, Tiny2Remove
    <3> QED
      BY <1>1, <1>3, <2>2, <3>1 DEF StepShown
  <2>5. CASE Tiny2!contains(w)
    <3>1. IsGet("TinyTrie2", w)
      BY <2>2, <2>5, Tiny2Contains
    <3> QED
      BY <1>1, <1>3, <2>2, <3>1 DEF StepShown
  <2> QED
    BY <1>1, <2>1, <2>3, <2>4, <2>5
<1>4. CASE which = "ValueTrie" /\ Plain!Next
  <2>1. PICK w \in PlainWords : \/ \E v \in TrieValues : Plain!set(w, v)
                                \/ Plain!remove(w) \/ Plain!get(w)
    BY <1>4 DEF Plain!Next
  <2>2. w \in Words /\ w \in Seq(Chars) /\ Good("ValueTrie", mem) /\ Used(which, w)
    BY <1>1, <1>4, TrieAssumption DEF Used
  <2>3. CASE \E v \in TrieValues : Plain!set(w, v)
    <3>1. PICK v \in TrieValues : Plain!set(w, v)
      BY <2>3
    <3>2. IsSet("ValueTrie", w, v)
      BY <1>1, <2>2, <3>1, PlainSet
    <3> QED
      BY <1>1, <1>4, <2>2, <3>2 DEF StepShown
  <2>4. CASE Plain!remove(w)
    <3>1. IsRemove("ValueTrie", w)
      BY <1>1, <2>2, <2>4, PlainRemove
    <3> QED
      BY <1>1, <1>4, <2>2, <3>1 DEF StepShown
  <2>5. CASE Plain!get(w)
    <3>1. IsGet("ValueTrie", w)
      BY <2>2, <2>5, PlainGet
    <3> QED
      BY <1>1, <1>4, <2>2, <3>1 DEF StepShown
  <2> QED
    BY <1>1, <2>1, <2>3, <2>4, <2>5
<1> QED
  BY <1>2, <1>3, <1>4 DEF Next

(* The inductive invariant: the memory of the trie in use is in order, and   *)
(* count is the number of the words that it stores.                          *)
InOrder ==
  /\ which \in Kinds /\ Good(which, mem)
  /\ which = "TinyTrie2" => refused \/ Filled(mem, Root)
  /\ IsFiniteSet(StoredIn(which, mem)) /\ count = Cardinality(StoredIn(which, mem))

(* The calls add to count what they add to the words.                        *)
LEMMA CountKept ==
  ASSUME NEW S, NEW T, NEW w, IsFiniteSet(S), T = S \cup {w} \/ T = S \ {w}
  PROVE  /\ IsFiniteSet(T) /\ Cardinality(S) \in Nat /\ Cardinality(T) \in Nat
         /\ T = S \cup {w} => Cardinality(T) = Cardinality(S) + (IF w \in S THEN 0 ELSE 1)
         /\ T = S \ {w} => Cardinality(T) = Cardinality(S) + (IF w \in S THEN -1 ELSE 0)
<1>1. Cardinality(S) \in Nat
  BY FS_CardinalityType
<1>2. CASE T = S \cup {w}
  <2>1. IsFiniteSet(T) /\ Cardinality(T) = (IF w \in S THEN Cardinality(S) ELSE Cardinality(S) + 1)
    BY <1>2, FS_AddElement
  <2>2. T = S \ {w} => FALSE
    BY <1>2
  <2> QED
    BY <1>1, <1>2, <2>1, <2>2
<1>3. CASE T = S \ {w}
  <2>1. IsFiniteSet(T) /\ Cardinality(T) = (IF w \in S THEN Cardinality(S) - 1 ELSE Cardinality(S))
    BY <1>3, FS_RemoveElement
  <2>2. Cardinality(T) \in Nat
    BY <2>1, FS_CardinalityType
  <2>3. T = S \cup {w} => FALSE
    BY <1>3
  <2> QED
    BY <1>1, <1>3, <2>1, <2>2, <2>3
<1> QED
  BY <1>2, <1>3

(* One call keeps the invariant, and is a call of the map.                   *)
MapStep(m, m2) ==
  \E w \in Words :
    \/ \E v \in TrieValues \cup {Yes} :
         \/ /\ m2 = [x \in DOMAIN m \cup {w} |-> IF x = w THEN v ELSE m[x]]
            /\ answer' = Says(w \notin DOMAIN m) /\ count' = Cardinality(DOMAIN m2)
         \/ answer' = Refused /\ m2 = m /\ count' = count
    \/ /\ m2 = [x \in DOMAIN m \ {w} |-> m[x]]
       /\ answer' = Says(w \in DOMAIN m) /\ count' = Cardinality(DOMAIN m2)
    \/ m2 = m /\ count' = count /\ answer' = IF w \in DOMAIN m THEN m[w] ELSE No

LEMMA CallKeeps ==
  ASSUME InOrder, Next
  PROVE  InOrder' /\ which' = which /\ MapStep(MapOf(which, mem), MapOf(which, mem'))
<1>1. /\ which \in Kinds /\ Good(which, mem) /\ IsFiniteSet(StoredIn(which, mem))
      /\ count = Cardinality(StoredIn(which, mem)) /\ count \in Nat
      /\ which = "TinyTrie2" => refused \/ Filled(mem, Root)
  BY FS_CardinalityType DEF InOrder
<1>2. which' = which /\ StepShown
  BY <1>1, EachCall
<1>3. PICK w \in Words : /\ Used(which, w)
                         /\ \/ \E v \in TrieValues \cup {Yes} : IsSet(which, w, v)
                            \/ IsRefused(which) \/ IsRemove(which, w) \/ IsGet(which, w)
  BY <1>2 DEF StepShown
<1>4. PICK kind, m, m2, S, T : /\ kind = which /\ m = mem /\ m2 = mem'
                               /\ S = StoredIn(kind, m) /\ T = StoredIn(kind, m2)
  OBVIOUS
<1>5. DOMAIN MapOf(kind, m) = S /\ DOMAIN MapOf(kind, m2) = T
  BY <1>4 DEF MapOf
<1>6. ASSUME Good(kind, m2), IsFiniteSet(T), count' = Cardinality(T),
             kind = "TinyTrie2" => refused' \/ Filled(m2, Root)
      PROVE  InOrder'
  BY <1>1, <1>2, <1>4, <1>6 DEF InOrder
<1>7. CASE \E v \in TrieValues \cup {Yes} : IsSet(which, w, v)
  <2>1. PICK v \in TrieValues \cup {Yes} : IsSet(which, w, v)
    BY <1>7
  <2>2. PICK change : count' = count + change /\ IsAnswer(kind, m, w, change, answer')
    BY <1>4, <2>1 DEF IsSet
  <2>3. Good(kind, m2) /\ WordGets(kind, m, m2, w, v) /\ refused' = refused /\ StaysFilled(kind)
    BY <1>4, <2>1 DEF IsSet
  <2>4. v # No
    BY TriesAssumption DEF Yes, No
  <2>5. Used(kind, w)
    BY <1>3, <1>4
  <2>6. /\ T = S \cup {w} /\ (w \in S <=> GotIn(kind, m, w) # No)
        /\ MapOf(kind, m2) = [x \in DOMAIN MapOf(kind, m) \cup {w} |-> IF x = w THEN v ELSE MapOf(kind, m)[x]]
    <3>1. /\ StoredIn(kind, m2) = StoredIn(kind, m) \cup {w}
          /\ MapOf(kind, m2) = [x \in DOMAIN MapOf(kind, m) \cup {w} |-> IF x = w THEN v ELSE MapOf(kind, m)[x]]
          /\ w \in DOMAIN MapOf(kind, m) <=> GotIn(kind, m, w) # No
      BY <2>3, <2>4, <2>5, SetMap
    <3> QED
      BY <1>4, <1>5, <3>1
  <2>7. IsFiniteSet(S) /\ count = Cardinality(S)
    BY <1>1, <1>4
  <2>8. IsFiniteSet(T) /\ Cardinality(T) = Cardinality(S) + (IF w \in S THEN 0 ELSE 1)
    BY <2>6, <2>7, CountKept
  <2>9. change = (IF w \in S THEN 0 ELSE 1) /\ answer' = Says(w \notin S)
    BY <2>2, <2>6 DEF IsAnswer, Says
  <2>10. count' = Cardinality(T)
    BY <2>2, <2>7, <2>8, <2>9
  <2>11. kind = "TinyTrie2" => refused' \/ Filled(m2, Root)
    BY <1>1, <1>4, <2>3 DEF StaysFilled
  <2>12. InOrder'
    BY <1>6, <2>3, <2>8, <2>10, <2>11
  <2>13. MapStep(MapOf(kind, m), MapOf(kind, m2))
    BY <1>5, <2>6, <2>9, <2>10 DEF MapStep
  <2> QED
    BY <1>2, <1>4, <2>12, <2>13
<1>8. CASE IsRefused(which)
  <2>1. /\ Good(kind, m2) /\ SameGot(kind, m, m2) /\ refused' = TRUE
        /\ count' = count /\ answer' = Refused
    BY <1>4, <1>8 DEF IsRefused
  <2>2. T = S /\ MapOf(kind, m2) = MapOf(kind, m)
    BY <1>4, <2>1, SameMap
  <2>3. InOrder'
    BY <1>1, <1>4, <1>6, <2>1, <2>2
  <2>4. MapStep(MapOf(kind, m), MapOf(kind, m2))
    BY <2>1, <2>2 DEF MapStep
  <2> QED
    BY <1>2, <1>4, <2>3, <2>4
<1>9. CASE IsRemove(which, w)
  <2>2. PICK change : count' = count + change /\ IsRemoved(kind, m, w, change, answer')
    BY <1>4, <1>9 DEF IsRemove
  <2>3. Good(kind, m2) /\ WordGets(kind, m, m2, w, No) /\ refused' = refused /\ StaysFilled(kind)
    BY <1>4, <1>9 DEF IsRemove
  <2>5. Used(kind, w)
    BY <1>3, <1>4
  <2>6. /\ T = S \ {w} /\ (w \in S <=> GotIn(kind, m, w) # No)
        /\ MapOf(kind, m2) = [x \in DOMAIN MapOf(kind, m) \ {w} |-> MapOf(kind, m)[x]]
    <3>1. /\ StoredIn(kind, m2) = StoredIn(kind, m) \ {w}
          /\ MapOf(kind, m2) = [x \in DOMAIN MapOf(kind, m) \ {w} |-> MapOf(kind, m)[x]]
          /\ w \in DOMAIN MapOf(kind, m) <=> GotIn(kind, m, w) # No
      BY <2>3, <2>5, RemovedMap
    <3> QED
      BY <1>4, <1>5, <3>1
  <2>7. IsFiniteSet(S) /\ count = Cardinality(S)
    BY <1>1, <1>4
  <2>8. IsFiniteSet(T) /\ Cardinality(T) = Cardinality(S) + (IF w \in S THEN -1 ELSE 0)
    BY <2>6, <2>7, CountKept
  <2>9. change = (IF w \in S THEN -1 ELSE 0) /\ answer' = Says(w \in S)
    BY <2>2, <2>6 DEF IsRemoved, Says
  <2>10. count' = Cardinality(T)
    BY <2>2, <2>7, <2>8, <2>9
  <2>11. kind = "TinyTrie2" => refused' \/ Filled(m2, Root)
    BY <1>1, <1>4, <2>3 DEF StaysFilled
  <2>12. InOrder'
    BY <1>6, <2>3, <2>8, <2>10, <2>11
  <2>13. MapStep(MapOf(kind, m), MapOf(kind, m2))
    BY <1>5, <2>6, <2>9, <2>10 DEF MapStep
  <2> QED
    BY <1>2, <1>4, <2>12, <2>13
<1>10. CASE IsGet(which, w)
  <2>1. m2 = m /\ count' = count /\ refused' = refused /\ answer' = GotIn(kind, m, w)
    BY <1>4, <1>10 DEF IsGet
  <2>2. T = S /\ MapOf(kind, m2) = MapOf(kind, m)
    BY <1>4, <2>1
  <2>3. InOrder'
    BY <1>1, <1>4, <1>6, <2>1, <2>2
  <2>4. WordValue(kind, m, w) = GotIn(kind, m, w)
    BY <1>3, <1>4 DEF WordValue
  <2>5. answer' = IF w \in DOMAIN MapOf(kind, m) THEN MapOf(kind, m)[w] ELSE No
    BY <1>4, <1>5, <2>1, <2>4 DEF MapOf, StoredIn
  <2>6. MapStep(MapOf(kind, m), MapOf(kind, m2))
    BY <2>1, <2>2, <2>5 DEF MapStep
  <2> QED
    BY <1>2, <1>4, <2>3, <2>6
<1> QED
  BY <1>3, <1>7, <1>8, <1>9, <1>10

(* A new trie is in order, and empty.                                        *)
LEMMA NewTrie ==
  ASSUME Init
  PROVE  InOrder /\ StoredIn(which, mem) = {}
<1>1. /\ DOMAIN mem = {Root} /\ mem[Root].is_terminal = FALSE /\ mem[Root].hash = <<>>
      /\ DOMAIN mem[Root] = NodeFields /\ DOMAIN mem[Root].nodes = Chars
      /\ \A c \in Chars : mem[Root].nodes[c] = null
  BY DEF Init, TrieInit, Node, NodeFields
<1>2. which \in Kinds /\ count = 0
  BY DEF Init, TrieInit, Kinds
<1>3. Root \in Nat /\ IsSlot(Root) /\ ~IsSlot(null) /\ null # tagged
  BY DEF Root, null, tagged, IsSlot
<1>4. IsFiniteSet({Root})
  BY FS_Singleton
<1>5. IsMemory(mem)
  BY <1>1, <1>3, <1>4 DEF IsMemory, IsNode, OnePointer
<1>6. Fits(which, mem) /\ Valued(mem)
  BY <1>1, <1>3 DEF Fits, Valued
<1>7. Good(which, mem) /\ Filled(mem, Root)
  BY <1>1, <1>5, <1>6 DEF Good, Filled
<1>8. ASSUME NEW w \in Seq(Chars) PROVE ~Ends(mem, w)
  <2>1. CASE w = <<>>
    <3>1. ReachIn(mem, w) = Root
      BY <2>1, ReachSteps
    <3>2. Root # tagged
      BY DEF Root, tagged
    <3> QED
      BY <1>1, <3>1, <3>2 DEF Ends
  <2>2. CASE w # <<>>
    <3>1. PICK p, c : /\ c \in Chars /\ p \in {null, tagged} \cup DOMAIN mem
                      /\ ReachIn(mem, w) = FollowIn(mem, p, c)
      <4>1. Front(w) \in Seq(Chars) /\ Last(w) \in Chars
        BY <2>2, FrontLast
      <4>2. ReachIn(mem, Front(w)) \in {null, tagged} \cup DOMAIN mem
        BY <1>5, <4>1, ReachFacts
      <4> QED
        BY <2>2, <4>1, <4>2, LastStep
    <3>2. ReachIn(mem, w) = null
      BY <1>1, <3>1 DEF FollowIn, IsSlot, null, tagged, Root
    <3> QED
      BY <3>2 DEF Ends
  <2> QED
    BY <2>1, <2>2
<1>9. \A w \in Words : WordValue(which, mem, w) = No
  BY <1>8, TrieAssumption DEF WordValue, GotIn
<1>10. StoredIn(which, mem) = {}
  BY <1>9 DEF StoredIn
<1>11. IsFiniteSet(StoredIn(which, mem)) /\ Cardinality(StoredIn(which, mem)) = 0
  BY <1>10, FS_EmptySet
<1> QED
  BY <1>2, <1>7, <1>10, <1>11 DEF InOrder

(* Whatever calls were made, the memory of the trie is in order and count is *)
(* the number of words that are stored.                                      *)
THEOREM InOrderHolds == Spec => []InOrder
<1>1. Init => InOrder
  BY NewTrie
<1>2. InOrder /\ [Next]_<<vars, which>> => InOrder'
  <2> SUFFICES ASSUME InOrder, [Next]_<<vars, which>> PROVE InOrder'
    OBVIOUS
  <2>1. CASE Next
    BY <2>1, CallKeeps
  <2>2. CASE UNCHANGED <<vars, which>>
    BY <2>2 DEF InOrder, vars
  <2> QED
    BY <2>1, <2>2
<1> QED
  BY <1>1, <1>2, PTL DEF Spec

(* The hashes on the way to a node are those it was allocated with, in       *)
(* TinyTrie, which makes them of characters, and in TinyTrie2, which makes   *)
(* them of addresses that are used again (tiny_trie.cpp:124,                 *)
(* tiny_trie_2.cpp:76).                                                      *)
IsTreeIn(m) ==
  /\ {m[p[1]].nodes[p[2]] : p \in {q \in (DOMAIN m) \X Chars : IsSlot(m[q[1]].nodes[q[2]])}} = DOMAIN m \ {Root}
  /\ \A p, q \in {r \in (DOMAIN m) \X Chars : IsSlot(m[r[1]].nodes[r[2]])} :
        m[p[1]].nodes[p[2]] = m[q[1]].nodes[q[2]] => p = q

LEMMA TreeIs ==
  ASSUME NEW m, IsMemory(m)
  PROVE  IsTreeIn(m)
<1> DEFINE pointers == {q \in (DOMAIN m) \X Chars : IsSlot(m[q[1]].nodes[q[2]])}
<1>1. ASSUME NEW p \in pointers PROVE m[p[1]].nodes[p[2]] \in DOMAIN m \ {Root}
  <2>1. p[1] \in DOMAIN m /\ p[2] \in Chars /\ IsSlot(m[p[1]].nodes[p[2]])
    OBVIOUS
  <2>2. m[p[1]].nodes[p[2]] \in {null, tagged} \cup (DOMAIN m \ {Root})
    BY <2>1 DEF IsMemory, IsNode
  <2> QED
    BY <2>1, <2>2 DEF IsSlot, null, tagged
<1>2. ASSUME NEW s \in DOMAIN m \ {Root} PROVE \E p \in pointers : m[p[1]].nodes[p[2]] = s
  <2>1. PICK q, c : q \in DOMAIN m /\ c \in Chars /\ m[q].nodes[c] = s
    BY DEF IsMemory
  <2>2. <<q, c>> \in pointers
    BY <2>1 DEF IsMemory
  <2> QED
    BY <2>1, <2>2
<1>3. ASSUME NEW p \in pointers, NEW q \in pointers, m[p[1]].nodes[p[2]] = m[q[1]].nodes[q[2]] PROVE p = q
  <2>1. /\ p[1] \in DOMAIN m /\ p[2] \in Chars /\ q[1] \in DOMAIN m /\ q[2] \in Chars
        /\ IsSlot(m[p[1]].nodes[p[2]])
    OBVIOUS
  <2>2. p[1] = q[1] /\ p[2] = q[2]
    BY <1>3, <2>1 DEF IsMemory, OnePointer
  <2> QED
    BY <2>2
<1>4. {m[p[1]].nodes[p[2]] : p \in pointers} = DOMAIN m \ {Root}
  BY <1>1, <1>2
<1> QED
  BY <1>3, <1>4 DEF IsTreeIn

THEOREM HashesAgreeHolds == Spec => []HashesAgree
<1>1. InOrder => HashesAgree
  <2> SUFFICES ASSUME InOrder PROVE HashesAgree
    OBVIOUS
  <2>1. Good(which, mem)
    BY DEF InOrder
  <2>2. IsTreeIn(mem)
    BY <2>1, TreeIs DEF Good
  <2>3. Tiny!IsTree /\ Tiny2!IsTree
    BY <2>2 DEF IsTreeIn, Tiny!IsTree, Tiny2!IsTree, Tiny!IsSlot, Tiny2!IsSlot, IsSlot, Tiny!tagged, Tiny2!tagged,
                tagged, Tiny!Root, Tiny2!Root, Root
  <2>4. ASSUME which = "TinyTrie" PROVE Tiny!HashesAgree
    <3>1. \A s \in DOMAIN mem : \A c \in Chars :
             IsSlot(mem[s].nodes[c]) => mem[mem[s].nodes[c]].hash = Append(mem[s].hash, c)
      BY <2>1, <2>4 DEF Good, Fits, ChildHash
    <3> QED
      BY <2>3, <3>1 DEF Tiny!HashesAgree, Tiny!HashesFit, Tiny!djb2_sdbm_hash, Tiny!IsSlot, IsSlot, Tiny!tagged, tagged
  <2>5. ASSUME which = "TinyTrie2" PROVE Tiny2!HashesAgree
    <3>1. \A s \in DOMAIN mem : \A c \in Chars :
             IsSlot(mem[s].nodes[c]) => mem[mem[s].nodes[c]].hash = <<s, c>>
      BY <2>1, <2>5 DEF Good, Fits, ChildHash
    <3> QED
      BY <2>3, <3>1 DEF Tiny2!HashesAgree, Tiny2!HashesFit, Tiny2!address_hash, Tiny2!IsSlot, IsSlot, Tiny2!tagged, tagged
  <2> QED
    BY <2>4, <2>5 DEF HashesAgree
<1> QED
  BY <1>1, InOrderHolds, PTL

(* TinyTrie2 keeps no node with nothing below it, unless an insertion was    *)
(* refused (tiny_trie_2.cpp:67 to 84).                                       *)
THEOREM Tiny2NoEmptyNodeHolds == Spec => []Tiny2NoEmptyNode
<1>1. InOrder => Tiny2NoEmptyNode
  <2> SUFFICES ASSUME InOrder, which = "TinyTrie2", ~refused,
                      NEW s \in DOMAIN mem \ {Root}
               PROVE  Tiny2!compute_child_count(mem[s]) > 0
    BY DEF Tiny2NoEmptyNode, Tiny2!NoEmptyNode, Tiny2!Root, Root
  <2>1. \E d \in Chars : mem[s].nodes[d] # null
    BY DEF InOrder, Filled
  <2> QED
    BY <2>1, ChildCount
<1> QED
  BY <1>1, InOrderHolds, PTL

(* The map of the refinement is the map that the trie stands for.            *)
LEMMA MapIs ==
  /\ InOrder => [w \in {x \in Words : Got(x) # No} |-> Got(w)] = MapOf(which, mem)
  /\ InOrder' => [w \in {x \in Words : Got(x)' # No} |-> Got(w)'] = MapOf(which', mem')
<1>1. ASSUME InOrder PROVE [w \in {x \in Words : Got(x) # No} |-> Got(w)] = MapOf(which, mem)
  <2>1. \A w \in Words : Got(w) = WordValue(which, mem, w)
    BY <1>1, GotIs DEF InOrder
  <2>2. {x \in Words : Got(x) # No} = StoredIn(which, mem)
    BY <2>1 DEF StoredIn
  <2> QED
    BY <2>1, <2>2 DEF MapOf, StoredIn
<1>2. ASSUME InOrder' PROVE [w \in {x \in Words : Got(x)' # No} |-> Got(w)'] = MapOf(which', mem')
  <2>1. \A w \in Words : Got(w)' = WordValue(which', mem', w)
    BY <1>2, GotIs DEF InOrder
  <2>2. {x \in Words : Got(x)' # No} = StoredIn(which', mem')
    BY <2>1 DEF StoredIn
  <2> QED
    BY <2>1, <2>2 DEF MapOf, StoredIn
<1> QED
  BY <1>1, <1>2

(* A call of a trie is a call of the map.                                    *)
Sets(m, m2, w) ==
  \E v \in TrieValues \cup {Yes} :
    \/ /\ answer' = Map!Says(w \notin DOMAIN m)
       /\ count' = Map!Cardinality(DOMAIN [x \in DOMAIN m \cup {w} |-> IF x = w THEN v ELSE m[x]])
       /\ m2 = [x \in DOMAIN m \cup {w} |-> IF x = w THEN v ELSE m[x]]
    \/ answer' = Map!Refused /\ m2 = m /\ count' = count

Removes(m, m2, w) ==
  /\ answer' = Map!Says(w \in DOMAIN m)
  /\ count' = Map!Cardinality(DOMAIN [x \in DOMAIN m \ {w} |-> m[x]])
  /\ m2 = [x \in DOMAIN m \ {w} |-> m[x]]

Gets(m, m2, w) ==
  answer' = (IF w \in DOMAIN m THEN m[w] ELSE Map!No) /\ m2 = m /\ count' = count

LEMMA MapStepIs ==
  ASSUME NEW m, NEW m2, MapStep(m, m2)
  PROVE  \E w \in Words : Sets(m, m2, w) \/ Removes(m, m2, w) \/ Gets(m, m2, w)
<1>1. \A S : Map!Cardinality(S) = Cardinality(S)
  BY DEF Map!Cardinality, Cardinality
<1>2. Map!Refused = Refused /\ Map!No = No
  BY DEF Map!Refused, Refused, Map!No, No
<1>3. PICK w \in Words :
        \/ \E v \in TrieValues \cup {Yes} :
             \/ /\ m2 = [x \in DOMAIN m \cup {w} |-> IF x = w THEN v ELSE m[x]]
                /\ answer' = Says(w \notin DOMAIN m) /\ count' = Cardinality(DOMAIN m2)
             \/ answer' = Refused /\ m2 = m /\ count' = count
        \/ /\ m2 = [x \in DOMAIN m \ {w} |-> m[x]]
           /\ answer' = Says(w \in DOMAIN m) /\ count' = Cardinality(DOMAIN m2)
        \/ m2 = m /\ count' = count /\ answer' = IF w \in DOMAIN m THEN m[w] ELSE No
  BY DEF MapStep
<1>4. Map!Says(w \notin DOMAIN m) = Says(w \notin DOMAIN m) /\ Map!Says(w \in DOMAIN m) = Says(w \in DOMAIN m)
  BY DEF Map!Says, Says, Map!No, No, Map!Yes, Yes
<1> QED
  BY <1>1, <1>2, <1>3, <1>4 DEF Sets, Removes, Gets

(* The three tries answer every call as a map from words to values would,    *)
(* whatever nodes and tagged pointers the calls before it left.              *)
THEOREM ImplementsMapHolds == Spec => ImplementsMap
<1>1. Init => Map!Init
  <2> SUFFICES ASSUME Init PROVE Map!Init
    OBVIOUS
  <2>1. InOrder /\ StoredIn(which, mem) = {}
    BY NewTrie
  <2>2. [w \in {x \in Words : Got(x) # No} |-> Got(w)] = MapOf(which, mem)
    BY <2>1, MapIs
  <2>3. MapOf(which, mem) = [w \in {} |-> Map!No]
    BY <2>1 DEF MapOf
  <2>4. count = 0 /\ answer = Map!No
    BY DEF Init, TrieInit, No, Map!No
  <2> QED
    BY <2>2, <2>3, <2>4 DEF Map!Init
<1>2. InOrder /\ [Next]_<<vars, which>> => [Map!Next]_(Map!vars)
  <2> SUFFICES ASSUME InOrder, [Next]_<<vars, which>> PROVE [Map!Next]_(Map!vars)
    OBVIOUS
  <2>1. [w \in {x \in Words : Got(x) # No} |-> Got(w)] = MapOf(which, mem)
    BY MapIs
  <2>2. CASE Next
    <3>1. InOrder' /\ which' = which /\ MapStep(MapOf(which, mem), MapOf(which, mem'))
      BY <2>2, CallKeeps
    <3>2. [w \in {x \in Words : Got(x)' # No} |-> Got(w)'] = MapOf(which', mem')
      BY <3>1, MapIs
    <3>3. PICK m, m2 : m = MapOf(which, mem) /\ m2 = MapOf(which', mem')
      OBVIOUS
    <3>4. PICK word \in Words : Sets(m, m2, word) \/ Removes(m, m2, word) \/ Gets(m, m2, word)
      BY <3>1, <3>3, MapStepIs
    <3>5. /\ [w \in {x \in Words : Got(x) # No} |-> Got(w)] = m
          /\ [w \in {x \in Words : Got(x)' # No} |-> Got(w)'] = m2
      BY <2>1, <3>2, <3>3
    <3>6. Sets(m, m2, word) => \E v \in TrieValues \cup {Yes} : Map!set(word, v)
      BY <3>5 DEF Sets, Map!set, Map!Become
    <3>7. Removes(m, m2, word) => Map!remove(word)
      BY <3>5 DEF Removes, Map!remove, Map!Become
    <3>8. Gets(m, m2, word) => Map!get(word)
      BY <3>5 DEF Gets, Map!get
    <3> QED
      BY <3>4, <3>6, <3>7, <3>8 DEF Map!Next
  <2>3. CASE UNCHANGED <<vars, which>>
    <3>1. mem' = mem /\ count' = count /\ answer' = answer /\ which' = which /\ InOrder'
      BY <2>3 DEF vars, InOrder
    <3>2. [w \in {x \in Words : Got(x)' # No} |-> Got(w)'] = MapOf(which', mem')
      BY <3>1, MapIs
    <3>3. [w \in {x \in Words : Got(x)' # No} |-> Got(w)'] = [w \in {x \in Words : Got(x) # No} |-> Got(w)]
      BY <2>1, <3>1, <3>2
    <3> QED
      BY <3>1, <3>3 DEF Map!vars
  <2> QED
    BY <2>2, <2>3
<1> QED
  BY <1>1, <1>2, InOrderHolds, PTL DEF Spec, ImplementsMap, Map!Spec

=============================================================================
