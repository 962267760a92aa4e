-------------------------- MODULE AlgorithmProofs --------------------------
(***************************************************************************)
(* The word of a pointer, at any width: what was packed reads back, and    *)
(* null and tagged name no slot.  The size of a table, for any increasing  *)
(* table of primes, any powers of two, any width of a word and any number  *)
(* of slots per bucket: the search for a prime never ends at one that is   *)
(* too small.  The links and the matches of the Aho-Corasick automaton,    *)
(* for any words over any characters and any text.                         *)
(***************************************************************************)
EXTENDS Sizing, Automaton, SequenceTheorems, WellFoundedInduction, TLAPS

-----------------------------------------------------------------------------
(* The word of a pointer.                                                  *)

\* A number is split into quotient and remainder in one way.
LEMMA Split ==
  ASSUME NEW d \in Nat \ {0}, NEW q \in Nat, NEW r \in 0 .. d - 1
  PROVE  (q * d + r) \div d = q /\ (q * d + r) % d = r
<1>1. (q * d + r) \div d = q
  OBVIOUS
<1>2. (q * d + r) % d = r
  OBVIOUS
<1> QED
  BY <1>1, <1>2

\* A number that fits loses nothing.
LEMMA Fits ==
  ASSUME NEW d \in Nat, NEW r \in 0 .. d - 1
  PROVE  r % d = r
OBVIOUS

\* The three parts of a word lie side by side: the special bits above the hash
\* bit, and the index above both.
LEMMA PackIs ==
  ASSUME NEW index \in SlotIndices, NEW special \in Specials, NEW h \in Bits
  PROVE  /\ Pack(index, special, h) =
              (index + 1) * (2 * SpecialCount) + (special * 2 + h)
         /\ Pack(index, special, h) = ((index + 1) * SpecialCount + special) * 2 + h
         /\ Pack(index, special, h) \in Words
<1> DEFINE high == index + 1
           pair == high * SpecialCount + special
<1>1. /\ SpecialCount \in Nat \ {0} /\ IndexCount \in Nat
      /\ high \in 1 .. IndexCount - 1
      /\ special \in 0 .. SpecialCount - 1 /\ h \in 0 .. 1
  BY WordAssumption DEF SlotIndices, EntriesPerBin, Specials, Bits
<1> HIDE DEF high
<1>2. high * SpecialCount \in Nat /\ (IndexCount - 1) * SpecialCount \in Nat
  BY <1>1
<1>3. high * SpecialCount <= (IndexCount - 1) * SpecialCount
  BY <1>1
<1>4. (IndexCount - 1) * SpecialCount = SpecialCount * IndexCount - SpecialCount
  BY <1>1
<1>5. pair \in 0 .. SpecialCount * IndexCount - 1
  BY <1>1, <1>2, <1>3, <1>4
<1>6. high * (2 * SpecialCount) = (high * SpecialCount) * 2
  BY <1>1
<1>7. BitOr(high * (2 * SpecialCount), special * 2) = pair * 2
  <2>1. BitOr(high * (2 * SpecialCount), special * 2) = high * (2 * SpecialCount) + special * 2
    BY <1>1, WordAssumption
  <2> QED
    BY <2>1, <1>1, <1>2, <1>6
<1> HIDE DEF pair
<1>8. BitOr(pair * 2, h) = pair * 2 + h
  BY <1>1, <1>5, WordAssumption
<1>9. SpecialCount * IndexCount \in Nat /\ WordCount = 2 * (SpecialCount * IndexCount)
  BY <1>1 DEF WordCount
<1>10. pair * 2 + h \in 0 .. WordCount - 1
  BY <1>1, <1>5, <1>9
<1>11. (pair * 2 + h) % WordCount = pair * 2 + h
  <2>1. WordCount \in Nat
    BY <1>9
  <2> QED
    BY <2>1, <1>10, Fits
<1>12. Pack(index, special, h) = pair * 2 + h
  BY <1>7, <1>8, <1>11 DEF Pack, Truncate, high
<1>13. pair * 2 + h = high * (2 * SpecialCount) + (special * 2 + h)
  BY <1>1, <1>2, <1>6 DEF pair
<1> QED
  BY <1>10, <1>12, <1>13 DEF Words, high, pair

\* Each part is read back, and the word is neither null nor tagged.
LEMMA Unpack ==
  ASSUME NEW index \in SlotIndices, NEW special \in Specials, NEW h \in Bits
  PROVE  LET v == Pack(index, special, h)
         IN  /\ v # null /\ v # tagged
             /\ hash_fn(v) = h
             /\ special_of(v) = special
             /\ index_of(v) = index
<1> DEFINE v == Pack(index, special, h)
           pair == (index + 1) * SpecialCount + special
           low == special * 2 + h
<1>1. /\ SpecialCount \in Nat \ {0} /\ IndexCount \in Nat \ {0, 1}
      /\ index \in 0 .. IndexCount - 2
      /\ special \in 0 .. SpecialCount - 1 /\ h \in 0 .. 1
  BY WordAssumption DEF SlotIndices, EntriesPerBin, Specials, Bits
<1>2. v = (index + 1) * (2 * SpecialCount) + low /\ v = pair * 2 + h /\ v \in Words
  BY PackIs
<1>3. low \in 0 .. 2 * SpecialCount - 1 /\ pair \in Nat /\ pair >= 1
  BY <1>1
<1> HIDE DEF v, low
<1>4. v # null /\ v # tagged
  BY <1>1, <1>2, <1>3 DEF null, tagged
<1>5. hash_fn(v) = h /\ v \div 2 = pair
  BY <1>1, <1>2, <1>3, Split DEF hash_fn
<1>6. special_of(v) = special
  <2> DEFINE next == index + 1
  <2>1. pair = next * SpecialCount + special /\ next \in Nat
    BY <1>1
  <2> HIDE DEF pair, next
  <2>2. pair % SpecialCount = special
    BY <1>1, <2>1, Split
  <2> QED
    BY <1>5, <2>2 DEF special_of
<1>7. v \div (2 * SpecialCount) = index + 1
  <2> DEFINE unit == 2 * SpecialCount
  <2>1. unit \in Nat \ {0} /\ low \in 0 .. unit - 1 /\ index + 1 \in Nat
    BY <1>1, <1>3
  <2>2. v = (index + 1) * unit + low
    BY <1>2
  <2> HIDE DEF unit
  <2>3. v \div unit = index + 1
    BY <2>1, <2>2, Split
  <2> QED
    BY <2>3 DEF unit
<1>8. WordCount \in Nat /\ index < WordCount
  <2>1. WordCount = (2 * SpecialCount) * IndexCount /\ 2 * SpecialCount \in Nat \ {0}
    BY <1>1 DEF WordCount
  <2>2. (2 * SpecialCount) * IndexCount >= IndexCount
    BY <1>1
  <2> QED
    BY <1>1, <2>1, <2>2
<1>9. index_of(v) = index
  BY <1>1, <1>7, <1>8 DEF index_of, Truncate
<1> QED
  BY <1>4, <1>5, <1>6, <1>9 DEF v

-----------------------------------------------------------------------------
\* The word is the encoding of what the program meant.
Encodes ==
  \/ value = null /\ meant = Nothing
  \/ value = tagged /\ meant = Tag
  \/ \E index \in SlotIndices, special \in Specials, h \in Bits :
       value = Pack(index, special, h) /\ meant = Pointer(index, special, h)

\* At every moment the word in a field encodes what the program stored there
\* last (tiny_ptr.h:30-47).
THEOREM EncodesInvariant == PointerSpec => []Encodes
<1>1. PointerInit => Encodes
  BY DEF PointerInit, Encodes
<1>2. Encodes /\ [PointerNext]_pointerVars => Encodes'
  <2> SUFFICES ASSUME Encodes, [PointerNext]_pointerVars PROVE Encodes'
    OBVIOUS
  <2>1. ASSUME NEW index \in SlotIndices, NEW special \in Specials, NEW h \in Bits,
               StorePointer(index, special, h)
        PROVE  Encodes'
    BY <2>1 DEF StorePointer, Encodes
  <2>2. CASE Clear
    BY <2>2 DEF Clear, Encodes
  <2>3. CASE StoreTag
    BY <2>3 DEF StoreTag, Encodes
  <2>4. CASE UNCHANGED pointerVars
    BY <2>4 DEF pointerVars, Encodes
  <2> QED
    BY <2>1, <2>2, <2>3, <2>4 DEF PointerNext
<1> QED
  BY <1>1, <1>2, PTL DEF PointerSpec

LEMMA EncodesReadsBack == Encodes => ReadsBack
<1>1. ASSUME NEW index \in SlotIndices, NEW special \in Specials, NEW h \in Bits,
             value = Pack(index, special, h), meant = Pointer(index, special, h)
      PROVE  ReadsBack
  <2>1. meant.special = special /\ meant.h = h /\ meant.index = index
    BY <1>1 DEF Pointer
  <2>2. value \in Words
    BY <1>1, PackIs
  <2>3. special_of(value) = special
    BY <1>1, Unpack
  <2>4. ASSUME NEW hashes \in Hashes
        PROVE  Dereference(value, hashes) = <<hashes[h], index>>
    <3>1. value # null /\ value # tagged /\ hash_fn(value) = h /\ index_of(value) = index
      BY <1>1, Unpack
    <3> QED
      BY <3>1 DEF Dereference
  <2> QED
    BY <2>1, <2>2, <2>3, <2>4 DEF ReadsBack
<1>2. ASSUME value = null \/ value = tagged, meant = Nothing \/ meant = Tag
      PROVE  ReadsBack
  <2>1. SpecialCount \in Nat \ {0} /\ IndexCount \in Nat \ {0, 1}
    BY WordAssumption
  <2>2. SpecialCount * IndexCount \in Nat /\ SpecialCount * IndexCount >= 1
    BY <2>1
  <2>3. WordCount = 2 * (SpecialCount * IndexCount)
    BY <2>1 DEF WordCount
  <2>4. value \in Words
    BY <1>2, <2>2, <2>3 DEF Words, null, tagged
  <2>5. meant.kind # "slot"
    BY <1>2 DEF Nothing, Tag
  <2> QED
    BY <2>4, <2>5 DEF ReadsBack
<1> QED
  BY <1>1, <1>2 DEF Encodes

\* What was stored is read back at every width: the parts of the word do not
\* disturb each other (tiny_ptr.h:62-82, deref_table.h:487).
THEOREM ReadsBackHolds == PointerSpec => []ReadsBack
  BY EncodesInvariant, EncodesReadsBack, PTL

LEMMA EncodesReserved == Encodes => ReservedWords
<1>1. Nothing # Tag /\ null # tagged
  BY DEF Nothing, Tag, null, tagged
<1>2. ASSUME NEW index, NEW special, NEW h
      PROVE  Pointer(index, special, h) # Nothing /\ Pointer(index, special, h) # Tag
  <2>1. Pointer(index, special, h).kind = "slot" /\ Nothing.kind = "null" /\ Tag.kind = "tagged"
    BY DEF Pointer, Nothing, Tag
  <2> QED
    BY <2>1
<1>3. ASSUME NEW index \in SlotIndices, NEW special \in Specials, NEW h \in Bits
      PROVE  Pack(index, special, h) # null /\ Pack(index, special, h) # tagged
  BY Unpack
<1> QED
  BY <1>1, <1>2, <1>3 DEF Encodes, ReservedWords

\* No slot is ever taken for null or tagged, not even the last slot of a bucket
\* with all special bits set (tiny_ptr.h:37).
THEOREM ReservedWordsHold == PointerSpec => []ReservedWords
  BY EncodesInvariant, EncodesReserved, PTL

-----------------------------------------------------------------------------
(* What is asked of the table.                                             *)

\* The capacity in buckets, rounded up, and with the load factor, rounded down.
Whole(n) == (n + EntriesPerBin - 1) \div EntriesPerBin
Loaded(n) == (Whole(n) * 100) \div load_factor

\* A set of numbers that is not empty has a least one.
LEMMA LeastNumber ==
  ASSUME NEW S \in SUBSET Nat, S # {}
  PROVE  \E n \in S : \A m \in S : n <= m
<1> DEFINE R == {ss \in Nat \X Nat : ss[1] < ss[2]}
<1>1. IsWellFoundedOn(R, Nat)
  BY NatLessThanWellFounded DEF OpToRel
<1>2. PICK n \in S : \A m \in S : ~(<<m, n>> \in R)
  <2> HIDE DEF R
  <2> QED
    BY <1>1, WFMin
<1>3. \A m \in S : ~(m < n)
  BY <1>2
<1> QED
  BY <1>3

\* Division rounds down.
LEMMA Division ==
  ASSUME NEW a \in Nat, NEW d \in Nat \ {0}
  PROVE  /\ a \div d \in Nat
         /\ (a \div d) * d <= a
         /\ a < (a \div d) * d + d
<1>1. a \div d \in Nat /\ a % d \in 0..d - 1 /\ a = d * (a \div d) + (a % d)
  OBVIOUS
<1> DEFINE q == a \div d
           r == a % d
<1>2. q \in Nat /\ r \in 0..d - 1 /\ a = d * q + r /\ d * q = q * d
  BY <1>1
<1> HIDE DEF q, r
<1>3. q * d \in Nat
  BY <1>2
<1>4. q \in Nat /\ q * d <= a /\ a < q * d + d
  BY <1>2, <1>3
<1> QED
  BY <1>4 DEF q

\* A larger factor makes a larger product.
LEMMA Product ==
  ASSUME NEW a \in Nat, NEW b \in Nat, NEW c \in Nat, a <= b
  PROVE  a * c \in Nat /\ b * c \in Nat /\ a * c <= b * c
OBVIOUS

\* The reserved words leave some slots.
LEMMA EntriesAreNatural == EntriesPerBin \in Nat
BY WordAssumption DEF EntriesPerBin

\* The load factor at the smallest bin the code compiles with, and from 15 slots on.
LEMMA LoadFactor ==
  /\ load_factor \in 45..100
  /\ EntriesPerBin >= 15 => load_factor >= 70
BY EntriesAreNatural DEF load_factor

\* A request that a capacity can say needs no more buckets than half of what the
\* word of a size can say, and no fewer than hold it.
LEMMA Request ==
  ASSUME NEW n \in 0..MaxRequest
  PROVE  /\ Whole(n) \in Nat /\ n <= Whole(n) * EntriesPerBin
         /\ Loaded(n) \in Nat /\ Whole(n) <= Loaded(n)
         /\ 2 * Loaded(n) <= WordMod
         /\ requested_buckets(n) = Loaded(n)
<1> DEFINE whole == Whole(n)
           loaded == Loaded(n)
           E == EntriesPerBin
           L == load_factor
<1>1. /\ E \in Nat /\ E >= 7 /\ WordMod \in Nat /\ WordMod >= 16 /\ n \in 0..WordMod - 1
      /\ L \in 45..100 /\ (E >= 15 => L >= 70)
  BY SizingAssumption, EntriesAreNatural, LoadFactor
<1>2. whole = (n + E - 1) \div E
  BY DEF Whole
<1>3. loaded = (whole * 100) \div L
  BY DEF Loaded
<1> HIDE DEF whole, loaded, E, L
<1>4. n + E - 1 \in Nat /\ E \in Nat \ {0}
  BY <1>1
<1>5. whole \in Nat /\ whole * E <= n + E - 1 /\ n + E - 1 < whole * E + E
  BY <1>2, <1>4, Division
<1>6. whole * E \in Nat /\ n <= whole * E
  BY <1>1, <1>5
<1>7. whole * 100 \in Nat /\ L \in Nat \ {0}
  BY <1>1, <1>5
<1>8. loaded \in Nat /\ loaded * L <= whole * 100 /\ whole * 100 < loaded * L + L
  BY <1>3, <1>7, Division
<1>9. whole <= loaded
  <2> SUFFICES ASSUME loaded <= whole - 1 PROVE FALSE
    BY <1>5, <1>8
  <2>1. whole - 1 \in Nat
    BY <1>5, <1>8
  <2>2. loaded * L <= (whole - 1) * L
    BY <2>1, <1>7, <1>8, Product
  <2>3. (whole - 1) * L <= (whole - 1) * 100
    BY <2>1, <1>1
  <2>4. whole * 100 < (whole - 1) * 100 + L
    BY <2>1, <2>2, <2>3, <1>1, <1>5, <1>8
  <2> QED
    BY <2>4, <1>1, <1>5
<1>10. ASSUME NEW e \in Nat, e <= E, e >= 7
       PROVE  whole * e <= n + e - 1
  <2>1. CASE whole = 0
    BY <2>1, <1>1, <1>10
  <2>2. CASE whole # 0
    <3>1. whole - 1 \in Nat
      BY <2>2, <1>5
    <3>2. (whole - 1) * e <= (whole - 1) * E
      BY <3>1, <1>1, <1>10
    <3>3. (whole - 1) * E = whole * E - E /\ (whole - 1) * e = whole * e - e
      BY <3>1, <1>1, <1>5
    <3>4. whole * e \in Nat
      BY <1>5
    <3> QED
      BY <3>2, <3>3, <3>4, <1>1, <1>5, <1>6
  <2> QED
    BY <2>1, <2>2
<1>11. ASSUME NEW l \in Nat, l <= L
       PROVE  loaded * l <= whole * 100
  <2>1. loaded * l <= loaded * L /\ loaded * l \in Nat /\ loaded * L \in Nat
    BY <1>1, <1>8, <1>11
  <2> QED
    BY <2>1, <1>8, <1>7
<1>12. 2 * loaded <= WordMod
  <2>1. CASE E >= 15
    <3>1. whole * 15 <= n + 14
      BY <2>1, <1>1, <1>10
    <3>2. loaded * 70 <= whole * 100
      BY <2>1, <1>1, <1>11
    <3> QED
      BY <3>1, <3>2, <1>1, <1>5, <1>8
  <2>2. CASE ~(E >= 15)
    <3>1. whole * 7 <= n + 6
      BY <2>2, <1>1, <1>10
    <3>2. loaded * 45 <= whole * 100
      BY <1>1, <1>11
    <3> QED
      BY <3>1, <3>2, <1>1, <1>5, <1>8
  <2> QED
    BY <2>1, <2>2
<1>13. whole < WordMod /\ loaded < WordMod
  BY <1>1, <1>5, <1>8, <1>9, <1>12
<1>14. whole % WordMod = whole /\ loaded % WordMod = loaded
  BY <1>13, <1>1, <1>5, <1>8
<1>15. requested_buckets(n) = loaded
  BY <1>14, <1>2, <1>3 DEF requested_buckets, min_bucket_count, E, L
<1> QED
  BY <1>5, <1>6, <1>8, <1>9, <1>12, <1>15 DEF whole, loaded, E

-----------------------------------------------------------------------------
(* The sizes on offer.                                                     *)

Sizes == IF use_primes THEN {Primes[i] : i \in DOMAIN Primes} ELSE PowersOfTwo

\* A number is the size to choose for so many buckets.
Chosen(size, d) ==
  /\ size \in Nat /\ size < WordMod /\ d <= size
  /\ \A other \in Sizes : other < size => other < d

LEMMA PrimesAre ==
  /\ Len(Primes) \in Nat /\ Len(Primes) >= 1
  /\ DOMAIN Primes = 1..Len(Primes)
  /\ \A i \in 1..Len(Primes) : Primes[i] \in Nat
  /\ \A i, j \in 1..Len(Primes) : i < j => Primes[i] < Primes[j]
<1>1. Primes \in Seq(Nat) /\ \E i \in DOMAIN Primes : TRUE
  BY SizingAssumption
<1>2. Len(Primes) \in Nat /\ DOMAIN Primes = 1..Len(Primes)
  BY <1>1
<1>3. Len(Primes) >= 1
  BY <1>1, <1>2
<1>4. \A i \in 1..Len(Primes) : Primes[i] \in Nat
  BY <1>1, <1>2
<1> QED
  BY <1>2, <1>3, <1>4, SizingAssumption

\* The first prime that is large enough is chosen; it fits in the word, as a prime
\* of as many bits is large enough.
LEMMA FirstPrime ==
  ASSUME use_primes, NEW d \in Nat, 2 * d <= WordMod, NEW k \in 1..Len(Primes),
         d <= Primes[k], \A i \in 1..Len(Primes) : i < k => Primes[i] < d
  PROVE  Chosen(Primes[k], d)
<1>1. WordMod \in Nat
  BY SizingAssumption
<1>2. PICK big \in 1..Len(Primes) : Primes[big] < WordMod /\ WordMod <= 2 * Primes[big]
  BY SizingAssumption, PrimesAre
<1>3. d <= Primes[big]
  BY <1>1, <1>2, PrimesAre
<1>4. k <= big
  BY <1>3, PrimesAre
<1>5. Primes[k] <= Primes[big]
  BY <1>4, PrimesAre
<1>6. Primes[k] \in Nat /\ Primes[k] < WordMod
  BY <1>1, <1>2, <1>5, PrimesAre
<1>7. \A i \in 1..Len(Primes) : Primes[i] < Primes[k] => i < k
  BY PrimesAre
<1> QED
  BY <1>6, <1>7, PrimesAre DEF Chosen, Sizes

\* The power of two that is taken for a request is chosen: one of as many bits as
\* the word less one is large enough.
LEMMA LeastPower ==
  ASSUME ~use_primes, NEW d \in Nat, 2 * d <= WordMod
  PROVE  Chosen(bit_ceil(d), d)
<1> DEFINE enough == {p \in PowersOfTwo : p >= d}
           half == WordMod \div 2
<1>1. WordMod \in Nat /\ WordMod >= 16 /\ PowersOfTwo \subseteq Nat \ {0}
  BY SizingAssumption
<1>2. half \in PowersOfTwo /\ WordMod % 2 = 0
  BY <1>1, SizingAssumption
<1>3. half \in Nat /\ half < WordMod /\ d <= half
  BY <1>1, <1>2
<1>4. half \in enough /\ enough \in SUBSET Nat
  BY <1>1, <1>2, <1>3
<1>5. PICK least \in enough : \A q \in enough : least <= q
  <2> HIDE DEF enough
  <2> QED
    BY <1>4, LeastNumber
<1>6. \E p \in PowersOfTwo : p >= d /\ \A q \in PowersOfTwo : q >= d => p <= q
  BY <1>5
<1>7. /\ bit_ceil(d) \in PowersOfTwo /\ bit_ceil(d) >= d
      /\ \A q \in PowersOfTwo : q >= d => bit_ceil(d) <= q
  BY <1>6 DEF bit_ceil
<1>8. bit_ceil(d) \in Nat /\ bit_ceil(d) <= half
  BY <1>1, <1>2, <1>3, <1>7
<1>9. ASSUME NEW other \in Sizes, other < bit_ceil(d)
      PROVE  other < d
  <2>1. other \in PowersOfTwo /\ other \in Nat
    BY <1>1, <1>9 DEF Sizes
  <2>2. ~(other >= d)
    BY <2>1, <1>7, <1>8, <1>9
  <2> QED
    BY <2>1, <2>2
<1> HIDE DEF half
<1> QED
  BY <1>1, <1>3, <1>7, <1>8, <1>9 DEF Chosen

-----------------------------------------------------------------------------
(* The search.                                                             *)

Wanted == requested_buckets(max_capacity)

\* All primes before the range of the search are too small, and the last in it is
\* not; what is made in the end is the size to choose.
SizingInv ==
  /\ use_primes \in BOOLEAN
  /\ max_capacity \in 0..MaxRequest
  /\ stage \in {"idle", "search", "made"}
  /\ stage = "search" =>
       /\ use_primes
       /\ lower \in 1..Len(Primes) /\ upper \in 1..Len(Primes) /\ lower <= upper
       /\ Wanted <= Primes[upper]
       /\ \A i \in 1..Len(Primes) : i < lower => Primes[i] < Wanted
  /\ stage = "made" => Chosen(num_buckets, Wanted)

LEMMA WantedIs ==
  ASSUME max_capacity \in 0..MaxRequest
  PROVE  Wanted \in Nat /\ 2 * Wanted <= WordMod /\ Wanted = Loaded(max_capacity)
BY Request DEF Wanted

\* A chosen size is made as it is.
LEMMA MakeChosen ==
  ASSUME NEW size, NEW d, Chosen(size, d), MakeBuckets(size)
  PROVE  stage' = "made" /\ num_buckets' = size
<1>1. WordMod \in Nat /\ size \in Nat /\ size < WordMod
  BY SizingAssumption DEF Chosen
<1>2. size % WordMod = size
  BY <1>1
<1> QED
  BY <1>2 DEF MakeBuckets

LEMMA InitSizes == SizingInit => SizingInv
<1> SUFFICES ASSUME SizingInit PROVE SizingInv
  OBVIOUS
<1>1. 0 \in 0..MaxRequest
  BY SizingAssumption
<1> QED
  BY <1>1 DEF SizingInit, SizingInv

LEMMA CreateStep ==
  ASSUME SizingInv, NEW n \in 0..MaxRequest, CreateTable(n)
  PROVE  SizingInv'
<1> DEFINE d == requested_buckets(n)
<1>1. d \in Nat /\ 2 * d <= WordMod
  BY Request
<1>2. Wanted' = d /\ max_capacity' = n /\ use_primes' = use_primes /\ use_primes \in BOOLEAN
  BY DEF CreateTable, Wanted, SizingInv
<1>3. \A size : Chosen(size, d) => Chosen(size, d)'
  BY <1>2 DEF Chosen, Sizes
<1> HIDE DEF d
<1>4. CASE ~use_primes
  <2>1. Chosen(bit_ceil(d), d) /\ MakeBuckets(bit_ceil(d))
    BY <1>1, <1>4, LeastPower DEF CreateTable, d
  <2>2. stage' = "made" /\ num_buckets' = bit_ceil(d)
    BY <2>1, MakeChosen
  <2> QED
    BY <1>2, <1>3, <2>1, <2>2 DEF SizingInv
<1>5. CASE use_primes /\ d >= Primes[Len(Primes)]
  <2> DEFINE last == Len(Primes)
  <2>1. last \in 1..Len(Primes) /\ Primes[last] \in Nat
    BY PrimesAre
  <2>2. PICK big \in 1..Len(Primes) : Primes[big] < WordMod /\ WordMod <= 2 * Primes[big]
    BY SizingAssumption, PrimesAre
  <2>3. Primes[big] <= Primes[last] /\ Primes[big] \in Nat
    BY <2>2, PrimesAre
  <2>4. WordMod \in Nat
    BY SizingAssumption
  <2>5. d = Primes[last]
    BY <1>1, <1>5, <2>1, <2>2, <2>3, <2>4
  <2>6. \A i \in 1..Len(Primes) : i < last => Primes[i] < d
    BY <2>5, PrimesAre
  <2>7. Chosen(Primes[last], d)
    BY <1>1, <1>5, <2>1, <2>5, <2>6, FirstPrime
  <2>8. MakeBuckets(Primes[last])
    BY <1>5 DEF CreateTable, pick, d
  <2>9. stage' = "made" /\ num_buckets' = Primes[last]
    BY <2>7, <2>8, MakeChosen
  <2> QED
    BY <1>2, <1>3, <2>7, <2>9 DEF SizingInv
<1>6. CASE use_primes /\ ~(d >= Primes[Len(Primes)])
  <2>1. stage' = "search" /\ lower' = 1 /\ upper' = Len(Primes)
    BY <1>6 DEF CreateTable, pick, d
  <2>2. d <= Primes[Len(Primes)]
    BY <1>1, <1>6, PrimesAre
  <2> QED
    BY <1>2, <1>6, <2>1, <2>2, PrimesAre DEF SizingInv
<1> QED
  BY <1>4, <1>5, <1>6

LEMMA SearchStep ==
  ASSUME SizingInv, SearchPrime
  PROVE  SizingInv'
<1> DEFINE d == Wanted
<1>1. /\ use_primes /\ lower \in 1..Len(Primes) /\ upper \in 1..Len(Primes)
      /\ lower < upper /\ d <= Primes[upper]
      /\ \A i \in 1..Len(Primes) : i < lower => Primes[i] < d
      /\ max_capacity \in 0..MaxRequest
  BY DEF SearchPrime, SizingInv
<1>2. d \in Nat /\ 2 * d <= WordMod
  BY <1>1, WantedIs
<1>3. middle \in 1..Len(Primes) /\ lower <= middle /\ middle < upper
  BY <1>1 DEF middle
<1>4. use_primes' = use_primes /\ max_capacity' = max_capacity /\ Wanted' = Wanted
  BY DEF SearchPrime, Wanted
<1>5. d = requested_buckets(max_capacity)
  BY DEF Wanted
<1>6. \A i \in 1..Len(Primes) : i < middle => Primes[i] < Primes[middle]
  BY <1>3, PrimesAre
<1> HIDE DEF d
<1>7. CASE /\ Primes[middle] < d /\ lower' = middle + 1
           /\ UNCHANGED <<stage, upper, num_buckets>>
  <2>1. \A i \in 1..Len(Primes) : i < middle + 1 => Primes[i] < d
    BY <1>2, <1>3, <1>6, <1>7, PrimesAre
  <2>2. middle + 1 \in 1..Len(Primes) /\ middle + 1 <= upper
    BY <1>1, <1>3
  <2> QED
    BY <1>1, <1>4, <1>7, <2>1, <2>2 DEF SizingInv, SearchPrime, d
<1>8. CASE /\ Primes[middle] > d /\ upper' = middle
           /\ UNCHANGED <<stage, lower, num_buckets>>
  <2>1. d <= Primes[middle]
    BY <1>2, <1>3, <1>8, PrimesAre
  <2> QED
    BY <1>1, <1>3, <1>4, <1>8, <2>1 DEF SizingInv, SearchPrime, d
<1>9. CASE Primes[middle] = d /\ MakeBuckets(Primes[middle])
  <2>1. Chosen(Primes[middle], d)
    BY <1>1, <1>2, <1>3, <1>6, <1>9, FirstPrime
  <2>2. stage' = "made" /\ num_buckets' = Primes[middle]
    BY <1>9, <2>1, MakeChosen
  <2>3. Chosen(num_buckets, d)'
    BY <1>4, <2>1, <2>2 DEF Chosen, Sizes, d
  <2> QED
    BY <1>1, <1>4, <2>2, <2>3 DEF SizingInv, d
<1> QED
  BY <1>5, <1>7, <1>8, <1>9 DEF SearchPrime

LEMMA SearchEndsStep ==
  ASSUME SizingInv, SearchPrimeEnds
  PROVE  SizingInv'
<1> DEFINE d == Wanted
<1>1. /\ use_primes /\ lower \in 1..Len(Primes) /\ d <= Primes[lower]
      /\ \A i \in 1..Len(Primes) : i < lower => Primes[i] < d
      /\ max_capacity \in 0..MaxRequest
  BY DEF SearchPrimeEnds, SizingInv
<1>2. d \in Nat /\ 2 * d <= WordMod
  BY <1>1, WantedIs
<1>3. use_primes' = use_primes /\ max_capacity' = max_capacity /\ Wanted' = Wanted
  BY DEF SearchPrimeEnds, Wanted
<1> HIDE DEF d
<1>4. Chosen(Primes[lower], d)
  BY <1>1, <1>2, FirstPrime
<1>5. stage' = "made" /\ num_buckets' = Primes[lower]
  BY <1>4, MakeChosen DEF SearchPrimeEnds
<1>6. Chosen(num_buckets, d)'
  BY <1>3, <1>4, <1>5 DEF Chosen, Sizes, d
<1> QED
  BY <1>1, <1>3, <1>5, <1>6 DEF SizingInv, d

\* The range of the search always holds the first prime that is large enough
\* (primes.hpp:893-904).
THEOREM SizingInvariant == SizingSpec => []SizingInv
<1>1. SizingInv /\ [SizingNext]_sizingVars => SizingInv'
  <2> SUFFICES ASSUME SizingInv, [SizingNext]_sizingVars PROVE SizingInv'
    OBVIOUS
  <2>1. CASE UNCHANGED sizingVars
    BY <2>1 DEF sizingVars, SizingInv, Wanted, Chosen, Sizes
  <2> QED
    BY <2>1, CreateStep, SearchStep, SearchEndsStep DEF SizingNext
<1> QED
  BY <1>1, InitSizes, PTL DEF SizingSpec

LEMMA SizeSuffices == SizingInv => EnoughRoom
<1> SUFFICES ASSUME SizingInv, stage = "made", num_buckets * EntriesPerBin < WordMod
             PROVE  /\ capacity >= max_capacity
                    /\ num_buckets >= Loaded(max_capacity)
                    /\ \A size \in Sizes : size < num_buckets => size < Loaded(max_capacity)
  BY DEF EnoughRoom, Loaded, Whole, Sizes
<1> DEFINE whole == Whole(max_capacity)
<1>1. max_capacity \in 0..MaxRequest /\ Chosen(num_buckets, Wanted)
  BY DEF SizingInv
<1>2. /\ whole \in Nat /\ max_capacity <= whole * EntriesPerBin
      /\ Wanted \in Nat /\ whole <= Wanted /\ Wanted = Loaded(max_capacity)
  BY <1>1, Request, WantedIs
<1>3. num_buckets \in Nat /\ Wanted <= num_buckets
  BY <1>1 DEF Chosen
<1>4. EntriesPerBin \in Nat /\ WordMod \in Nat /\ MaxRequest \in Nat
  BY SizingAssumption, EntriesAreNatural
<1> HIDE DEF whole
<1>5. whole <= num_buckets
  BY <1>2, <1>3
<1>6. /\ whole * EntriesPerBin <= num_buckets * EntriesPerBin
      /\ whole * EntriesPerBin \in Nat /\ num_buckets * EntriesPerBin \in Nat
  BY <1>2, <1>3, <1>4, <1>5, Product
<1>7. (num_buckets * EntriesPerBin) % WordMod = num_buckets * EntriesPerBin
  <2> DEFINE product == num_buckets * EntriesPerBin
  <2>1. product \in Nat /\ product < WordMod
    BY <1>6
  <2> HIDE DEF product
  <2>2. product % WordMod = product
    BY <1>4, <2>1
  <2> QED
    BY <2>2 DEF product
<1>8. capacity >= max_capacity
  BY <1>1, <1>2, <1>4, <1>6, <1>7 DEF capacity
<1> QED
  BY <1>1, <1>2, <1>3, <1>8 DEF Chosen

\* A table has the room it was made for, whether its sizes are primes or powers of
\* two, and is not larger than it has to be (deref_table.h:371-378).
THEOREM EnoughRoomHolds == SizingSpec => []EnoughRoom
  BY SizingInvariant, SizeSuffices, PTL


-----------------------------------------------------------------------------
(* Suffixes.                                                               *)

Suffix(u, s) == Len(u) <= Len(s) /\ \A i \in 1..Len(u) : u[i] = s[i + (Len(s) - Len(u))]

Proper(u, s) == Suffix(u, s) /\ Len(u) < Len(s)

\* No suffix is longer, and every sequence is its own.
LEMMA SuffixBasics ==
  ASSUME NEW s \in Seq(Codes)
  PROVE  /\ root \in Seq(Codes) /\ Len(root) = 0 /\ Suffix(root, s)
         /\ Suffix(s, s) /\ Len(s) \in Nat
         /\ Len(s) = 0 <=> s = root
         /\ \A u \in Seq(Codes) : Suffix(u, s) /\ Len(u) = Len(s) => u = s
<1>1. root \in Seq(Codes) /\ Len(root) = 0 /\ Len(s) \in Nat
  BY DEF root
<1>2. Len(s) = 0 <=> s = root
  BY <1>1, SeqEqual, EmptySeq DEF root
<1>3. Suffix(root, s) /\ Suffix(s, s)
  BY <1>1 DEF Suffix
<1>4. ASSUME NEW u \in Seq(Codes), Suffix(u, s), Len(u) = Len(s)
      PROVE  u = s
  <2>1. \A i \in 1..Len(u) : u[i] = s[i]
    BY <1>1, <1>4 DEF Suffix
  <2> QED
    BY <2>1, <1>4, SeqEqual
<1> QED
  BY <1>1, <1>2, <1>3, <1>4

LEMMA SuffixTransitive ==
  ASSUME NEW u \in Seq(Codes), NEW s \in Seq(Codes), NEW t \in Seq(Codes),
         Suffix(u, s), Suffix(s, t)
  PROVE  Suffix(u, t)
<1>1. Len(u) \in Nat /\ Len(s) \in Nat /\ Len(t) \in Nat /\ Len(u) <= Len(s) /\ Len(s) <= Len(t)
  BY DEF Suffix
<1>2. ASSUME NEW i \in 1..Len(u)
      PROVE  u[i] = t[i + (Len(t) - Len(u))]
  <2>1. u[i] = s[i + (Len(s) - Len(u))] /\ i + (Len(s) - Len(u)) \in 1..Len(s)
    BY <1>1 DEF Suffix
  <2>2. s[i + (Len(s) - Len(u))] = t[(i + (Len(s) - Len(u))) + (Len(t) - Len(s))]
    BY <2>1 DEF Suffix
  <2> QED
    BY <2>1, <2>2, <1>1
<1> QED
  BY <1>1, <1>2 DEF Suffix

\* Of two suffixes the shorter is a suffix of the longer.
LEMMA SuffixComparable ==
  ASSUME NEW u \in Seq(Codes), NEW s \in Seq(Codes), NEW t \in Seq(Codes),
         Suffix(u, t), Suffix(s, t), Len(u) <= Len(s)
  PROVE  Suffix(u, s)
<1>1. Len(u) \in Nat /\ Len(s) \in Nat /\ Len(t) \in Nat /\ Len(s) <= Len(t)
  BY DEF Suffix
<1>2. ASSUME NEW i \in 1..Len(u)
      PROVE  u[i] = s[i + (Len(s) - Len(u))]
  <2>1. u[i] = t[i + (Len(t) - Len(u))] /\ i + (Len(s) - Len(u)) \in 1..Len(s)
    BY <1>1 DEF Suffix
  <2>2. s[i + (Len(s) - Len(u))] = t[(i + (Len(s) - Len(u))) + (Len(t) - Len(s))]
    BY <2>1 DEF Suffix
  <2> QED
    BY <2>1, <2>2, <1>1
<1> QED
  BY <1>1, <1>2 DEF Suffix

\* The suffixes are what is left after some characters.
LEMMA TailIsSuffix ==
  ASSUME NEW s \in Seq(Codes), NEW k \in 1..Len(s) + 1
  PROVE  /\ SubSeq(s, k, Len(s)) \in Seq(Codes)
         /\ Len(SubSeq(s, k, Len(s))) = Len(s) - k + 1
         /\ Suffix(SubSeq(s, k, Len(s)), s)
<1> DEFINE u == SubSeq(s, k, Len(s))
<1>1. Len(s) \in Nat /\ \A i \in k..Len(s) : s[i] \in Codes
  OBVIOUS
<1>2. /\ u \in Seq(Codes) /\ Len(u) = IF k <= Len(s) THEN Len(s) - k + 1 ELSE 0
      /\ \A i \in 1..Len(s) - k + 1 : u[i] = s[k + i - 1]
  BY <1>1, SubSeqProperties
<1> HIDE DEF u
<1>3. Len(u) = Len(s) - k + 1
  BY <1>1, <1>2
<1>4. ASSUME NEW i \in 1..Len(u)
      PROVE  u[i] = s[i + (Len(s) - Len(u))]
  <2>1. k + i - 1 = i + (Len(s) - Len(u)) /\ i \in 1..Len(s) - k + 1
    BY <1>1, <1>3
  <2> QED
    BY <2>1, <1>2
<1>5. Suffix(u, s)
  BY <1>1, <1>3, <1>4 DEF Suffix
<1> QED
  BY <1>2, <1>3, <1>5 DEF u

LEMMA SuffixIsTail ==
  ASSUME NEW u \in Seq(Codes), NEW s \in Seq(Codes), Suffix(u, s)
  PROVE  /\ Len(s) - Len(u) + 1 \in 1..Len(s) + 1
         /\ u = SubSeq(s, Len(s) - Len(u) + 1, Len(s))
<1> DEFINE k == Len(s) - Len(u) + 1
           v == SubSeq(s, k, Len(s))
<1>1. k \in 1..Len(s) + 1 /\ Len(u) \in Nat /\ Len(s) \in Nat
  BY DEF Suffix
<1>2. v \in Seq(Codes) /\ Len(v) = Len(s) - k + 1 /\ Suffix(v, s)
  <2> HIDE DEF k
  <2> QED
    BY <1>1, TailIsSuffix
<1> HIDE DEF v
<1>3. Len(v) = Len(u)
  BY <1>1, <1>2
<1>4. Suffix(u, v)
  BY <1>1, <1>2, <1>3, SuffixComparable
<1>5. u = v
  BY <1>2, <1>3, <1>4, SuffixBasics
<1> QED
  BY <1>1, <1>5 DEF v

LEMMA SuffixAppend ==
  ASSUME NEW u \in Seq(Codes), NEW s \in Seq(Codes), NEW c \in Codes, Suffix(u, s)
  PROVE  Suffix(Append(u, c), Append(s, c))
<1> DEFINE uc == Append(u, c)
           sc == Append(s, c)
<1>1. /\ Len(u) \in Nat /\ Len(s) \in Nat /\ Len(u) <= Len(s)
      /\ Len(uc) = Len(u) + 1 /\ Len(sc) = Len(s) + 1
  BY AppendProperties DEF Suffix
<1>2. ASSUME NEW i \in 1..Len(u) + 1
      PROVE  uc[i] = sc[i + (Len(s) - Len(u))]
  <2>1. CASE i = Len(u) + 1
    BY <2>1, <1>1, AppendProperties
  <2>2. CASE i \in 1..Len(u)
    <3>1. uc[i] = u[i] /\ u[i] = s[i + (Len(s) - Len(u))]
      BY <2>2, AppendProperties DEF Suffix
    <3>2. i + (Len(s) - Len(u)) \in 1..Len(s)
      BY <2>2, <1>1
    <3> QED
      BY <3>1, <3>2, AppendProperties
  <2> QED
    BY <1>1, <1>2, <2>1, <2>2
<1> HIDE DEF uc, sc
<1>3. ASSUME NEW i \in 1..Len(uc)
      PROVE  uc[i] = sc[i + (Len(sc) - Len(uc))]
  <2>1. i \in 1..Len(u) + 1 /\ i + (Len(sc) - Len(uc)) = i + (Len(s) - Len(u))
    BY <1>1
  <2> QED
    BY <1>1, <1>2, <2>1
<1>4. Suffix(uc, sc)
  BY <1>1, <1>3 DEF Suffix
<1> QED
  BY <1>4 DEF uc, sc

\* A suffix that is not empty ends with the same character.
LEMMA SuffixOfAppend ==
  ASSUME NEW v \in Seq(Codes), NEW s \in Seq(Codes), NEW c \in Codes,
         Suffix(v, Append(s, c)), v # root
  PROVE  \E u \in Seq(Codes) : v = Append(u, c) /\ Suffix(u, s)
<1>1. PICK u \in Seq(Codes), d \in Codes : v = Append(u, d)
  BY SequenceEmptyOrAppend DEF root
<1> DEFINE sc == Append(s, c)
<1>2. /\ Len(u) \in Nat /\ Len(s) \in Nat /\ Len(v) = Len(u) + 1 /\ Len(sc) = Len(s) + 1
      /\ v[Len(u) + 1] = d /\ sc[Len(s) + 1] = c
      /\ \A i \in 1..Len(u) : v[i] = u[i]
      /\ \A i \in 1..Len(s) : sc[i] = s[i]
  BY <1>1, AppendProperties
<1>3. Len(v) <= Len(sc) /\ \A i \in 1..Len(v) : v[i] = sc[i + (Len(sc) - Len(v))]
  BY DEF Suffix
<1> HIDE DEF sc
<1>4. d = c
  <2>1. Len(u) + 1 \in 1..Len(v) /\ (Len(u) + 1) + (Len(sc) - Len(v)) = Len(s) + 1
    BY <1>2
  <2> QED
    BY <2>1, <1>2, <1>3
<1>5. Len(u) <= Len(s)
  BY <1>2, <1>3
<1>6. ASSUME NEW i \in 1..Len(u)
      PROVE  u[i] = s[i + (Len(s) - Len(u))]
  <2>1. i \in 1..Len(v) /\ i + (Len(sc) - Len(v)) = i + (Len(s) - Len(u))
    BY <1>2
  <2>2. i + (Len(s) - Len(u)) \in 1..Len(s)
    BY <1>2, <1>5
  <2> QED
    BY <2>1, <2>2, <1>2, <1>3
<1> QED
  BY <1>1, <1>4, <1>5, <1>6 DEF Suffix

-----------------------------------------------------------------------------
(* The invariant.                                                          *)

Linked(n) == suffixLink[n] # nullptr
InQueue(n) == \E i \in DOMAIN queue : queue[i] = n

\* The link of n leads to the longest of those that are proper suffixes of n.
LongestProper(link, n, those) ==
  /\ link \in those /\ Proper(link, n)
  /\ \A m \in those : Proper(m, n) => Len(m) <= Len(link)

LinkTo(link, n, those) ==
  IF \E m \in those : Proper(m, n) THEN LongestProper(link, n, those) ELSE link = nullptr

Building == {"words", "root"}
Linking == {"child", "fall"}
Searching == {"search", "follow", "report"}

TypeInv ==
  /\ pc \in Building \cup {"link"} \cup Linking \cup Searching
  /\ nodes \subseteq Seq(Codes)
  /\ wordLength \in [nodes -> Int]
  /\ suffixLink \in [nodes -> nodes \cup {nullptr}]
  /\ terminalLink \in [nodes -> nodes \cup {nullptr}]
  /\ queue \in Seq(nodes) /\ rest \subseteq Codes
  /\ node \in nodes /\ fallback \in nodes /\ match \in nodes \cup {nullptr}
  /\ text \in Seq(Codes) /\ matches \in Seq(Int \X Int)

\* The trie: each node has its parent, and words are as long as the way to them.
TrieInv ==
  /\ root \in nodes
  /\ \A n \in nodes \ {root} : \E p \in nodes, c \in Codes : n = Append(p, c)
  /\ \A n \in nodes : wordLength[n] \in {-1, Len(n)}

\* Links that are set are right, and terminal links are once a node left the queue.
LinksInv ==
  /\ ~Linked(root) /\ terminalLink[root] = nullptr
  /\ \A n \in nodes : Linked(n) => LongestProper(suffixLink[n], n, nodes)
  /\ \A n \in nodes : Linked(n) /\ ~InQueue(n) => LinkTo(terminalLink[n], n, Terminals)
  /\ pc = "words" => \A n \in nodes : ~Linked(n)

\* The queue is in breadth-first order.
QueueInv ==
  /\ \A i \in DOMAIN queue : Linked(queue[i])
  /\ \A i, j \in DOMAIN queue :
       /\ i < j => Len(queue[i]) <= Len(queue[j])
       /\ Len(queue[j]) <= Len(queue[i]) + 1
  /\ pc = "words" => queue = <<>>
  /\ pc = "root" => \A i \in DOMAIN queue : Len(queue[i]) = 1
  /\ pc \in Linking =>
       /\ Linked(node)
       /\ \A i \in DOMAIN queue : Len(queue[i]) \in {Len(node), Len(node) + 1}
  /\ pc \in Searching => queue = <<>>

\* A node waits for its link only while its parent is still to be worked on.
PendingInv ==
  \A p \in nodes, c \in Codes :
    Append(p, c) \in nodes /\ ~Linked(Append(p, c)) =>
      \/ pc = "words"
      \/ p = root /\ pc = "root" /\ c \in rest
      \/ p # root /\ (~Linked(p) \/ InQueue(p))
      \/ p = node /\ pc \in Linking /\ c \in rest
      \/ p = node /\ pc = "fall" /\ c = char

RestInv ==
  /\ pc = "root" => rest \subseteq Children(root)
  /\ pc \in Linking => rest \subseteq Children(node)
  /\ pc = "fall" => char \in Children(node)

\* Of the suffixes of s that are shorter than k, no longer one than f leads on by c.
Tried(f, s, k, c) ==
  /\ Suffix(f, s) /\ Len(f) < k
  /\ \A m \in nodes : Suffix(m, s) /\ Len(m) < k /\ Append(m, c) \in nodes => Len(m) <= Len(f)

\* No link that was passed over led to where the character can be taken.
FallInv == pc = "fall" => char \in Codes /\ Tried(fallback, node, Len(node), char)

\* The text without the character in hand.
Before == SubSeq(text, 1, Len(text) - 1)

\* The search is at the longest suffix of the text that is in the trie.
NodeInv ==
  /\ pc \in {"search", "report"} =>
       Suffix(node, text) /\ \A m \in nodes : Suffix(m, text) => Len(m) <= Len(node)
  /\ pc = "follow" =>
       /\ char \in Codes /\ text # <<>> /\ text = Append(Before, char)
       /\ Tried(node, Before, Len(text), char)
  /\ pc = "report" => text # <<>> /\ (match # nullptr => Suffix(match, text))

\* What is to be found so far.
Due ==
  CASE pc = "follow" -> {o \in Occurrences : o[2] < Len(text) - 1}
    [] pc = "report" -> {o \in Occurrences : \/ o[2] < Len(text) - 1
                                             \/ match = nullptr
                                             \/ Len(text) - o[1] > Len(match)}
    [] OTHER -> Occurrences

MatchInv ==
  /\ pc \notin Searching => text = <<>> /\ matches = <<>>
  /\ ToSet(matches) = Due
  /\ \A i, j \in DOMAIN matches : i < j => IsBefore(matches[i], matches[j])

AutomatonInv ==
  /\ TypeInv /\ TrieInv /\ LinksInv /\ QueueInv /\ PendingInv /\ RestInv
  /\ FallInv /\ NodeInv /\ MatchInv

-----------------------------------------------------------------------------
(* What the invariant is good for.                                         *)

\* The way to a node leads through its parent.
LEMMA ParentIsNode ==
  ASSUME TypeInv, TrieInv, NEW p \in Seq(Codes), NEW c \in Codes, Append(p, c) \in nodes
  PROVE  p \in nodes
<1>1. Append(p, c) # root
  BY AppendProperties DEF root
<1>2. PICK q \in nodes, d \in Codes : Append(p, c) = Append(q, d)
  BY <1>1 DEF TrieInv
<1>3. q \in Seq(Codes)
  BY DEF TypeInv
<1>4. p = q
  BY <1>2, <1>3, AppendInjective
<1> QED
  BY <1>4

\* Up to the depth of the node in hand all nodes are linked: of the others, take one
\* that is least deep; its parent is linked and no longer worked on.
LEMMA LinkedSoFar ==
  ASSUME TypeInv, TrieInv, PendingInv, pc \notin Building, NEW d \in Nat,
         \A i \in DOMAIN queue : d <= Len(queue[i]),
         pc \in Linking => d <= Len(node)
  PROVE  \A n \in nodes \ {root} : Len(n) <= d => Linked(n)
<1> DEFINE late == {n \in nodes \ {root} : Len(n) <= d /\ ~Linked(n)}
           depths == {Len(n) : n \in late}
<1>1. \A n \in nodes : n \in Seq(Codes) /\ Len(n) \in Nat
  BY DEF TypeInv
<1>2. SUFFICES ASSUME late # {} PROVE FALSE
  OBVIOUS
<1>3. depths \in SUBSET Nat /\ depths # {}
  BY <1>1, <1>2
<1>4. PICK n \in late : \A m \in late : Len(n) <= Len(m)
  <2>1. PICK k \in depths : \A j \in depths : k <= j
    <3> HIDE DEF depths
    <3> QED
      BY <1>3, LeastNumber
  <2> QED
    BY <2>1
<1>5. PICK p \in nodes, c \in Codes : n = Append(p, c)
  BY <1>4 DEF TrieInv
<1>6. p \in Seq(Codes) /\ Len(p) \in Nat /\ Len(n) = Len(p) + 1 /\ Len(n) <= d
  BY <1>1, <1>4, <1>5, AppendProperties
<1>7. p = root \/ Linked(p)
  <2>1. ~(Len(n) <= Len(p))
    BY <1>6
  <2>2. p \notin late
    BY <2>1, <1>4
  <2>3. Len(p) <= d
    BY <1>6
  <2> QED
    BY <2>2, <2>3
<1>8. ~InQueue(p)
  BY <1>6 DEF InQueue
<1>9. ~(p = node /\ pc \in Linking)
  BY <1>6
<1>10. pc # "words" /\ pc # "root" /\ (pc = "fall" => pc \in Linking)
  BY DEF Building, Linking
<1>11. Append(p, c) \in nodes /\ ~Linked(Append(p, c))
  BY <1>4, <1>5
<1> HIDE DEF late, depths
<1> QED
  BY <1>7, <1>8, <1>9, <1>10, <1>11 DEF PendingInv

\* Once nothing waits, every node has its links.
LEMMA AllLinked ==
  ASSUME TypeInv, TrieInv, LinksInv, PendingInv,
         pc \notin Building, pc \notin Linking, queue = <<>>
  PROVE  \A n \in nodes \ {root} :
           /\ Linked(n) /\ LongestProper(suffixLink[n], n, nodes)
           /\ LinkTo(terminalLink[n], n, Terminals)
<1>1. SUFFICES ASSUME NEW n \in nodes \ {root}
               PROVE  /\ Linked(n) /\ LongestProper(suffixLink[n], n, nodes)
                      /\ LinkTo(terminalLink[n], n, Terminals)
  OBVIOUS
<1>2. Len(n) \in Nat
  BY DEF TypeInv
<1>3. DOMAIN queue = {}
  OBVIOUS
<1>4. Linked(n)
  BY <1>2, <1>3, LinkedSoFar
<1>5. ~InQueue(n)
  BY <1>3 DEF InQueue
<1> QED
  BY <1>4, <1>5 DEF LinksInv

\* The nearest word among the suffixes of a node is where its suffix link leads, or the
\* nearest word from there.
LEMMA NearestWord ==
  ASSUME TypeInv, NEW n \in nodes, NEW s \in nodes, LongestProper(s, n, nodes),
         LinkTo(terminalLink[s], s, Terminals)
  PROVE  LinkTo(IF s \in Terminals THEN s ELSE terminalLink[s], n, Terminals)
<1>1. Terminals \subseteq nodes /\ \A m \in nodes : m \in Seq(Codes) /\ Len(m) \in Nat
  BY DEF TypeInv, Terminals
<1>2. Suffix(s, n) /\ Len(s) < Len(n)
  BY DEF LongestProper, Proper
<1>3. CASE s \in Terminals
  BY <1>1, <1>3 DEF LinkTo, LongestProper
<1>4. CASE s \notin Terminals
  <2>1. ASSUME NEW m \in Terminals, Proper(m, n)
        PROVE  Proper(m, s)
    <3>1. Len(m) <= Len(s) /\ Suffix(m, n)
      BY <2>1, <1>1 DEF LongestProper, Proper
    <3>2. Suffix(m, s)
      BY <3>1, <1>1, <1>2, SuffixComparable
    <3>3. Len(m) # Len(s)
      BY <3>2, <1>1, <1>4, SuffixBasics
    <3> QED
      BY <3>1, <3>2, <3>3, <1>1 DEF Proper
  <2>2. ASSUME NEW m \in Terminals, Proper(m, s)
        PROVE  Proper(m, n)
    <3>1. Suffix(m, s) /\ Len(m) < Len(s)
      BY <2>2 DEF Proper
    <3>2. Suffix(m, n)
      BY <3>1, <1>1, <1>2, SuffixTransitive
    <3> QED
      BY <3>1, <3>2, <1>1, <1>2 DEF Proper
  <2>3. LinkTo(terminalLink[s], n, Terminals)
    BY <2>1, <2>2 DEF LinkTo, LongestProper
  <2> QED
    BY <2>3, <1>4
<1> QED
  BY <1>3, <1>4

\* A node that does not lead on may be given up for its suffix link.
LEMMA GiveUp ==
  ASSUME TypeInv, NEW f \in nodes, NEW s \in Seq(Codes), NEW k \in Nat, NEW c \in Codes,
         Tried(f, s, k, c), Append(f, c) \notin nodes,
         NEW l \in nodes, LongestProper(l, f, nodes)
  PROVE  Tried(l, s, k, c)
<1>1. \A m \in nodes : m \in Seq(Codes) /\ Len(m) \in Nat
  BY DEF TypeInv
<1>2. Suffix(l, f) /\ Len(l) < Len(f) /\ Suffix(f, s) /\ Len(f) < k
  BY DEF LongestProper, Proper, Tried
<1>3. Suffix(l, s) /\ Len(l) < k
  BY <1>1, <1>2, SuffixTransitive
<1>4. ASSUME NEW m \in nodes, Suffix(m, s), Len(m) < k, Append(m, c) \in nodes
      PROVE  Len(m) <= Len(l)
  <2>1. Len(m) <= Len(f)
    BY <1>4 DEF Tried
  <2>2. Suffix(m, f)
    BY <2>1, <1>1, <1>2, <1>4, SuffixComparable
  <2>3. m # f
    BY <1>4
  <2>4. Len(m) # Len(f)
    BY <2>2, <2>3, <1>1, SuffixBasics
  <2>5. Proper(m, f)
    BY <2>1, <2>2, <2>4, <1>1 DEF Proper
  <2> QED
    BY <2>5 DEF LongestProper
<1> QED
  BY <1>3, <1>4 DEF Tried

\* The longest suffix that ends with c is one character longer than the longest that
\* leads on by c, or empty.
LEMMA TakeOn ==
  ASSUME TypeInv, TrieInv, NEW f \in nodes, NEW s \in Seq(Codes), NEW k \in Nat, NEW c \in Codes,
         Tried(f, s, k, c), f = root \/ Append(f, c) \in nodes,
         NEW to \in nodes, to = IF Append(f, c) \in nodes THEN Append(f, c) ELSE root
  PROVE  /\ Suffix(to, Append(s, c)) /\ Len(to) < k + 1
         /\ \A m \in nodes : Suffix(m, Append(s, c)) /\ Len(m) < k + 1 => Len(m) <= Len(to)
<1>1. \A m \in nodes : m \in Seq(Codes) /\ Len(m) \in Nat
  BY DEF TypeInv
<1>2. Suffix(f, s) /\ Len(f) < k /\ Append(s, c) \in Seq(Codes)
  BY AppendProperties DEF Tried
<1>3. ASSUME NEW m \in nodes, Suffix(m, Append(s, c)), Len(m) < k + 1, m # root
      PROVE  /\ Append(f, c) \in nodes
             /\ Len(m) <= Len(f) + 1
  <2>1. PICK t \in Seq(Codes) : m = Append(t, c) /\ Suffix(t, s)
    BY <1>1, <1>3, SuffixOfAppend
  <2>2. t \in nodes
    BY <2>1, <1>3, ParentIsNode
  <2>3. Len(m) = Len(t) + 1 /\ Len(t) \in Nat
    BY <2>1, AppendProperties
  <2>4. Len(t) <= Len(f)
    BY <2>1, <2>2, <2>3, <1>1, <1>3 DEF Tried
  <2>5. Append(f, c) \in nodes
    <3>1. CASE f = root
      <4>1. Len(t) = 0
        BY <2>3, <2>4, <3>1, SuffixBasics
      <4>2. t = root
        BY <4>1, <2>1, SuffixBasics
      <4> QED
        BY <4>2, <3>1, <2>1, <1>3
    <3> QED
      BY <3>1
  <2> QED
    BY <2>3, <2>4, <2>5, <1>1
<1>4. CASE Append(f, c) \in nodes
  <2>1. to = Append(f, c) /\ Len(to) = Len(f) + 1 /\ Suffix(to, Append(s, c))
    BY <1>1, <1>2, <1>4, AppendProperties, SuffixAppend
  <2>2. ASSUME NEW m \in nodes, Suffix(m, Append(s, c)), Len(m) < k + 1
        PROVE  Len(m) <= Len(to)
    <3>1. CASE m = root
      BY <3>1, <1>1, SuffixBasics
    <3>2. CASE m # root
      BY <3>2, <2>1, <2>2, <1>3
    <3> QED
      BY <3>1, <3>2
  <2> QED
    BY <2>1, <2>2, <1>1, <1>2
<1>5. CASE Append(f, c) \notin nodes
  <2>1. to = root /\ Len(to) = 0 /\ Suffix(to, Append(s, c))
    BY <1>2, <1>5, SuffixBasics
  <2>2. ASSUME NEW m \in nodes, Suffix(m, Append(s, c)), Len(m) < k + 1
        PROVE  Len(m) <= Len(to)
    BY <2>1, <2>2, <1>1, <1>3, <1>5
  <2> QED
    BY <2>1, <2>2, <1>1, <1>2
<1> QED
  BY <1>4, <1>5

-----------------------------------------------------------------------------
(* What the steps leave alone.                                             *)

LEMMA NoNode ==
  ASSUME TypeInv
  PROVE  nullptr \notin nodes
<1>1. SUFFICES ASSUME nullptr \in nodes PROVE FALSE
  OBVIOUS
<1>2. nullptr \in Seq(Codes) /\ Len(nullptr) = 1 /\ nullptr[1] = 0
  BY <1>1 DEF TypeInv, nullptr
<1>3. nullptr[1] \in Codes
  BY <1>2
<1> QED
  BY <1>2, <1>3, AutomatonAssumption

\* The next character is one of those that are left.
LEMMA MinIsIn ==
  ASSUME TypeInv, rest # {}
  PROVE  Min(rest) \in rest /\ Min(rest) \in Codes
<1>1. rest \in SUBSET Nat /\ rest \subseteq Codes
  BY AutomatonAssumption DEF TypeInv
<1>2. \E c \in rest : \A d \in rest : c <= d
  BY <1>1, LeastNumber
<1>3. Min(rest) \in rest
  BY <1>2 DEF Min
<1> QED
  BY <1>1, <1>3

LEMMA KeepTrie ==
  ASSUME TrieInv, UNCHANGED trie
  PROVE  TrieInv'
BY DEF TrieInv, trie

LEMMA KeepLinks ==
  ASSUME LinksInv, UNCHANGED <<trie, links, queue>>, pc' # "words"
  PROVE  LinksInv'
BY DEF LinksInv, Linked, InQueue, LinkTo, LongestProper, Terminals, trie, links

\* Before the search nothing is found.
LEMMA KeepFound ==
  ASSUME TypeInv, MatchInv, pc \notin Searching, pc' \notin Searching, UNCHANGED found
  PROVE  NodeInv' /\ MatchInv'
<1>1. pc' \notin {"search", "follow", "report"}
  BY DEF Searching
<1>2. text' = <<>> /\ matches' = <<>>
  BY DEF MatchInv, found
<1>3. NodeInv'
  BY <1>1 DEF NodeInv
<1>4. Occurrences' = {} /\ Due' = Occurrences'
  <2>1. Len(text') = 0
    BY <1>2
  <2>2. 0..(Len(text') - 1) = {}
    BY <2>1
  <2>3. Occurrences' = {}
    BY <2>2 DEF Occurrences
  <2> QED
    BY <1>1, <2>3 DEF Due
<1>5. ToSet(matches') = {}
  BY <1>2 DEF ToSet
<1> QED
  BY <1>2, <1>3, <1>4, <1>5 DEF MatchInv, Searching

-----------------------------------------------------------------------------
(* The trie is built.                                                      *)

LEMMA InitHolds ==
  ASSUME AutomatonInit
  PROVE  AutomatonInv
<1> USE DEF AutomatonInit
<1>1. nodes = {root} /\ root \in Seq(Codes) /\ Len(root) = 0 /\ nullptr # root
  BY DEF root, nullptr
<1>2. wordLength = [n \in {root} |-> -1] /\ suffixLink = [n \in {root} |-> nullptr]
      /\ terminalLink = [n \in {root} |-> nullptr]
  BY <1>1
<1>3. TypeInv
  BY <1>1, <1>2 DEF TypeInv, Building
<1>4. TrieInv
  BY <1>1, <1>2 DEF TrieInv
<1>5. LinksInv
  BY <1>1, <1>2 DEF LinksInv, Linked
<1>6. QueueInv
  BY DEF QueueInv, Linking, Searching
<1>7. PendingInv /\ RestInv /\ FallInv /\ NodeInv
  BY DEF PendingInv, RestInv, FallInv, NodeInv, Linking
<1>8. MatchInv
  <2>1. Len(text) = 0 /\ matches = <<>> /\ text = <<>>
    OBVIOUS
  <2>2. 0..(Len(text) - 1) = {}
    BY <2>1
  <2>3. Occurrences = {}
    BY <2>2 DEF Occurrences
  <2>4. Due = {}
    BY <2>3 DEF Due
  <2>5. ToSet(matches) = {}
    BY <2>1 DEF ToSet
  <2> QED
    BY <2>1, <2>4, <2>5 DEF MatchInv
<1> QED
  BY <1>3, <1>4, <1>5, <1>6, <1>7, <1>8 DEF AutomatonInv

\* A word brings its prefixes along.
LEMMA AddWordStep ==
  ASSUME AutomatonInv, NEW w \in WordPool, AddWord(w)
  PROVE  AutomatonInv'
<1> USE DEF AutomatonInv
<1> DEFINE prefixes == {SubSeq(w, 1, n) : n \in 1..Len(w)}
           new == prefixes \ nodes
<1>1. w \in Seq(Codes) /\ Len(w) \in Nat
  BY AutomatonAssumption
<1>2. ASSUME NEW k \in 0..Len(w)
      PROVE  /\ SubSeq(w, 1, k) \in Seq(Codes) /\ Len(SubSeq(w, 1, k)) = k
             /\ \A i \in 1..k : SubSeq(w, 1, k)[i] = w[i]
  <2>1. \A i \in 1..k : w[i] \in Codes
    BY <1>1
  <2> QED
    BY <1>1, <2>1, SubSeqProperties
<1>3. /\ pc = "words" /\ pc' = "words"
      /\ nodes' = nodes \cup new
      /\ wordLength' = [n \in nodes' |-> IF n = w THEN Len(w)
                                         ELSE IF n \in new THEN -1 ELSE wordLength[n]]
      /\ suffixLink' = [n \in nodes' |-> IF n \in new THEN nullptr ELSE suffixLink[n]]
      /\ terminalLink' = [n \in nodes' |-> IF n \in new THEN nullptr ELSE terminalLink[n]]
      /\ UNCHANGED <<queue, rest, node, char, fallback, match, found>>
  BY DEF AddWord
<1>4. new \subseteq Seq(Codes) /\ nodes \subseteq nodes'
  BY <1>2, <1>3
<1>5. root \in nodes /\ root \notin new
  BY DEF TrieInv
<1> HIDE DEF new
<1>6. TypeInv'
  <2>1. nodes' \subseteq Seq(Codes)
    BY <1>3, <1>4 DEF TypeInv
  <2>2. wordLength' \in [nodes' -> Int]
    BY <1>1, <1>3 DEF TypeInv
  <2>3. /\ suffixLink' \in [nodes' -> nodes' \cup {nullptr}]
        /\ terminalLink' \in [nodes' -> nodes' \cup {nullptr}]
    BY <1>3 DEF TypeInv
  <2>4. queue' \in Seq(nodes')
    BY <1>3, <1>4, SeqMonotonic DEF TypeInv
  <2> QED
    BY <2>1, <2>2, <2>3, <2>4, <1>3, <1>4 DEF TypeInv, found
<1>7. TrieInv'
  <2>1. ASSUME NEW n \in new
        PROVE  \E p \in nodes', c \in Codes : n = Append(p, c)
    <3>1. PICK k \in 1..Len(w) : n = SubSeq(w, 1, k)
      BY DEF new
    <3> DEFINE p == SubSeq(w, 1, k - 1)
    <3>2. /\ p \in Seq(Codes) /\ Len(p) = k - 1 /\ \A i \in 1..k - 1 : p[i] = w[i]
          /\ n \in Seq(Codes) /\ Len(n) = k /\ \A i \in 1..k : n[i] = w[i]
          /\ w[k] \in Codes
      BY <1>1, <1>2, <3>1
    <3>3. p \in nodes'
      <4>1. CASE k = 1
        <5>1. p = root
          BY <4>1, <3>2, SuffixBasics
        <5> QED
          BY <5>1, <1>5, <1>4
      <4>2. CASE k # 1
        <5>1. k - 1 \in 1..Len(w)
          BY <4>2, <1>1
        <5>2. p \in prefixes
          BY <5>1
        <5> QED
          BY <5>2, <1>3 DEF new
      <4> QED
        BY <4>1, <4>2
    <3> HIDE DEF p
    <3> DEFINE q == Append(p, w[k])
    <3>4. q \in Seq(Codes) /\ Len(q) = k /\ q[k] = w[k] /\ \A i \in 1..k - 1 : q[i] = w[i]
      BY <3>2, AppendProperties
    <3> HIDE DEF q
    <3>5. \A i \in 1..k : q[i] = n[i]
      BY <3>2, <3>4
    <3>6. q = n
      BY <3>2, <3>4, <3>5, SeqEqual
    <3> QED
      BY <3>2, <3>3, <3>6 DEF q
  <2>2. \A n \in nodes' \ {root} : \E p \in nodes', c \in Codes : n = Append(p, c)
    BY <2>1, <1>3, <1>4 DEF TrieInv
  <2>3. \A n \in nodes' : wordLength'[n] \in {-1, Len(n)}
    BY <1>3 DEF TrieInv
  <2> QED
    BY <2>2, <2>3, <1>4, <1>5 DEF TrieInv
<1>8. LinksInv'
  <2>1. \A n \in nodes : suffixLink[n] = nullptr
    BY <1>3 DEF LinksInv, Linked
  <2>2. \A n \in nodes' : suffixLink'[n] = nullptr
    BY <2>1, <1>3
  <2>3. terminalLink'[root] = nullptr /\ root \in nodes'
    BY <1>3, <1>4, <1>5 DEF LinksInv
  <2> QED
    BY <2>2, <2>3 DEF LinksInv, Linked
<1>9. QueueInv' /\ PendingInv' /\ RestInv' /\ FallInv'
  <2>1. queue' = <<>>
    BY <1>3 DEF QueueInv
  <2> QED
    BY <2>1, <1>3 DEF QueueInv, PendingInv, RestInv, FallInv, Linking, Searching
<1>10. NodeInv' /\ MatchInv'
  BY <1>3, KeepFound DEF Searching
<1> QED
  BY <1>6, <1>7, <1>8, <1>9, <1>10

LEMMA WordsEndStep ==
  ASSUME AutomatonInv, WordsEnd
  PROVE  AutomatonInv'
<1> USE DEF AutomatonInv
<1>1. /\ pc = "words" /\ pc' = "root" /\ rest' = Children(root)
      /\ UNCHANGED <<trie, links, queue, node, char, fallback, match, found>>
  BY DEF WordsEnd
<1>2. /\ nodes' = nodes /\ wordLength' = wordLength /\ queue' = queue /\ queue = <<>>
      /\ suffixLink' = suffixLink /\ terminalLink' = terminalLink
  BY <1>1 DEF trie, links, QueueInv
<1>3. TypeInv'
  BY <1>1, <1>2 DEF TypeInv, Children, Building, found
<1>4. TrieInv' /\ LinksInv'
  BY <1>1, KeepTrie, KeepLinks
<1>5. QueueInv'
  BY <1>1, <1>2 DEF QueueInv, Linking, Searching
<1>6. PendingInv'
  <2>1. ASSUME NEW p \in nodes, NEW c \in Codes, Append(p, c) \in nodes
        PROVE  \/ p = root /\ c \in rest'
               \/ p # root /\ ~Linked(p)'
    BY <2>1, <1>1, <1>2 DEF LinksInv, Linked, Children
  <2> QED
    BY <2>1, <1>1, <1>2 DEF PendingInv
<1>7. RestInv' /\ FallInv'
  BY <1>1, <1>2 DEF RestInv, FallInv, Children, Linking
<1>8. NodeInv' /\ MatchInv'
  BY <1>1, KeepFound DEF Searching
<1> QED
  BY <1>3, <1>4, <1>5, <1>6, <1>7, <1>8

-----------------------------------------------------------------------------
(* The nodes are linked.                                                   *)

\* A node gets its suffix link and is put at the end of the queue.
LEMMA Enqueue ==
  ASSUME TypeInv, TrieInv, LinksInv, UNCHANGED <<trie, terminalLink>>, pc' # "words",
         NEW child \in nodes, child # root, NEW l \in nodes, LongestProper(l, child, nodes),
         suffixLink' = [suffixLink EXCEPT ![child] = l], queue' = Append(queue, child)
  PROVE  /\ TrieInv' /\ LinksInv'
         /\ suffixLink' \in [nodes -> nodes \cup {nullptr}] /\ queue' \in Seq(nodes)
         /\ \A n \in nodes : Linked(n)' <=> Linked(n) \/ n = child
         /\ \A n \in nodes : InQueue(n)' <=> InQueue(n) \/ n = child
         /\ \A i \in DOMAIN queue' : \/ i \in DOMAIN queue /\ queue'[i] = queue[i]
                                     \/ i = Len(queue) + 1 /\ queue'[i] = child
         /\ DOMAIN queue = 1..Len(queue) /\ Len(queue) \in Nat
<1>1. nodes' = nodes /\ wordLength' = wordLength /\ terminalLink' = terminalLink
      /\ Terminals' = Terminals
  BY DEF trie, Terminals
<1>2. nullptr \notin nodes
  BY NoNode
<1>3. suffixLink' \in [nodes -> nodes \cup {nullptr}]
  BY DEF TypeInv
<1>4. /\ queue' \in Seq(nodes) /\ Len(queue') = Len(queue) + 1 /\ Len(queue) \in Nat
      /\ DOMAIN queue = 1..Len(queue) /\ DOMAIN queue' = 1..Len(queue) + 1
      /\ queue'[Len(queue) + 1] = child
      /\ \A i \in 1..Len(queue) : queue'[i] = queue[i]
  BY AppendProperties DEF TypeInv
<1>5. \A i \in DOMAIN queue' : \/ i \in DOMAIN queue /\ queue'[i] = queue[i]
                               \/ i = Len(queue) + 1 /\ queue'[i] = child
  BY <1>4
<1>6. \A n \in nodes : suffixLink'[n] = IF n = child THEN l ELSE suffixLink[n]
  BY DEF TypeInv
<1>7. \A n \in nodes : Linked(n)' <=> Linked(n) \/ n = child
  BY <1>2, <1>6 DEF Linked
<1>8. \A n \in nodes : InQueue(n)' <=> InQueue(n) \/ n = child
  BY <1>4, <1>5 DEF InQueue
<1>9. TrieInv'
  BY KeepTrie
<1>10. LinksInv'
  <2>1. ~Linked(root)' /\ terminalLink'[root] = nullptr
    BY <1>1, <1>7 DEF LinksInv, TrieInv
  <2>2. ASSUME NEW n \in nodes, Linked(n)'
        PROVE  LongestProper(suffixLink'[n], n, nodes)
    BY <2>2, <1>6, <1>7 DEF LinksInv
  <2>3. ASSUME NEW n \in nodes, Linked(n)', ~InQueue(n)'
        PROVE  LinkTo(terminalLink'[n], n, Terminals)
    BY <2>3, <1>1, <1>7, <1>8 DEF LinksInv
  <2>4. \A n \in nodes' : Linked(n)' => LongestProper(suffixLink'[n], n, nodes')
    BY <2>2, <1>1
  <2>5. \A n \in nodes' : Linked(n)' /\ ~InQueue(n)' => LinkTo(terminalLink'[n], n, Terminals')
    BY <2>3, <1>1
  <2> QED
    BY <2>1, <2>4, <2>5 DEF LinksInv
<1> QED
  BY <1>3, <1>4, <1>5, <1>7, <1>8, <1>9, <1>10

LEMMA LinkOfRootStep ==
  ASSUME AutomatonInv, LinkOfRoot
  PROVE  AutomatonInv'
<1> USE DEF AutomatonInv
<1> DEFINE c0 == Min(rest)
           child == <<c0>>
<1>1. /\ pc = "root" /\ pc' = "root" /\ rest # {} /\ rest' = rest \ {c0}
      /\ suffixLink' = [suffixLink EXCEPT ![child] = root] /\ queue' = Append(queue, child)
      /\ UNCHANGED <<trie, terminalLink, node, char, fallback, match, found>>
  BY DEF LinkOfRoot
<1>2. c0 \in rest /\ c0 \in Codes
  BY <1>1, MinIsIn
<1> HIDE DEF c0
<1>3. child = Append(root, c0) /\ Len(child) = 1 /\ child # root
  BY <1>2 DEF root
<1> HIDE DEF child
<1>4. child \in nodes
  BY <1>1, <1>2, <1>3 DEF RestInv, Children
<1>5. root \in nodes /\ root \in Seq(Codes) /\ Len(root) = 0 /\ child \in Seq(Codes)
  BY <1>4, SuffixBasics DEF TrieInv, TypeInv
<1>6. LongestProper(root, child, nodes)
  <2>1. Proper(root, child)
    <3>1. Suffix(root, child)
      BY <1>5, SuffixBasics
    <3> QED
      BY <3>1, <1>3, <1>5 DEF Proper
  <2>2. \A m \in nodes : Proper(m, child) => Len(m) <= Len(root)
    BY <1>3, <1>5 DEF Proper, TypeInv
  <2> QED
    BY <2>1, <2>2, <1>5 DEF LongestProper
<1>7. /\ TrieInv' /\ LinksInv'
      /\ suffixLink' \in [nodes -> nodes \cup {nullptr}] /\ queue' \in Seq(nodes)
      /\ \A n \in nodes : Linked(n)' <=> Linked(n) \/ n = child
      /\ \A n \in nodes : InQueue(n)' <=> InQueue(n) \/ n = child
      /\ \A i \in DOMAIN queue' : \/ i \in DOMAIN queue /\ queue'[i] = queue[i]
                                  \/ i = Len(queue) + 1 /\ queue'[i] = child
  BY <1>1, <1>3, <1>4, <1>5, <1>6, Enqueue
<1>8. nodes' = nodes /\ wordLength' = wordLength /\ terminalLink' = terminalLink
  BY <1>1 DEF trie
<1>9. TypeInv'
  BY <1>1, <1>7, <1>8 DEF TypeInv, found
<1>10. QueueInv'
  <2>1. \A i \in DOMAIN queue' : suffixLink'[queue'[i]] # nullptr /\ Len(queue'[i]) = 1
    <3>1. \A i \in DOMAIN queue : queue[i] \in nodes /\ Linked(queue[i]) /\ Len(queue[i]) = 1
      BY <1>1 DEF QueueInv, TypeInv
    <3>2. \A n \in nodes : Linked(n) \/ n = child => suffixLink'[n] # nullptr
      BY <1>7 DEF Linked
    <3> QED
      BY <3>1, <3>2, <1>3, <1>4, <1>7
  <2>2. \A i \in DOMAIN queue' : suffixLink'[queue'[i]] # nullptr
    BY <2>1
  <2>3. \A i, j \in DOMAIN queue' : /\ i < j => Len(queue'[i]) <= Len(queue'[j])
                                    /\ Len(queue'[j]) <= Len(queue'[i]) + 1
    BY <2>1
  <2> QED
    BY <2>1, <2>2, <2>3, <1>1 DEF QueueInv, Linked, Linking, Searching
<1>11. PendingInv'
  <2>1. ASSUME NEW p \in nodes, NEW c \in Codes, Append(p, c) \in nodes, ~Linked(Append(p, c))'
        PROVE  \/ p = root /\ c \in rest'
               \/ p # root /\ (~Linked(p)' \/ InQueue(p)')
    <3>1. ~Linked(Append(p, c)) /\ Append(p, c) # child
      BY <2>1, <1>7
    <3>2. \/ p = root /\ c \in rest
          \/ p # root /\ (~Linked(p) \/ InQueue(p))
      BY <2>1, <3>1, <1>1 DEF PendingInv, Linking
    <3>3. CASE p = root /\ c \in rest
      BY <3>1, <3>3, <1>1, <1>3
    <3>4. CASE p # root /\ (~Linked(p) \/ InQueue(p))
      BY <3>4, <1>7
    <3> QED
      BY <3>2, <3>3, <3>4
  <2> QED
    BY <2>1, <1>1, <1>8 DEF PendingInv
<1>12. RestInv' /\ FallInv'
  BY <1>1, <1>8 DEF RestInv, FallInv, Children, Linking
<1>13. NodeInv' /\ MatchInv'
  BY <1>1, KeepFound DEF Searching
<1> QED
  BY <1>7, <1>9, <1>10, <1>11, <1>12, <1>13

LEMMA RootEndsStep ==
  ASSUME AutomatonInv, RootEnds
  PROVE  AutomatonInv'
<1> USE DEF AutomatonInv
<1>1. /\ pc = "root" /\ pc' = "link" /\ rest = {}
      /\ UNCHANGED <<trie, links, queue, rest, node, char, fallback, match, found>>
  BY DEF RootEnds
<1>2. /\ nodes' = nodes /\ wordLength' = wordLength /\ queue' = queue
      /\ suffixLink' = suffixLink /\ terminalLink' = terminalLink
  BY <1>1 DEF trie, links
<1>3. TypeInv'
  BY <1>1, <1>2 DEF TypeInv, found
<1>4. TrieInv' /\ LinksInv'
  BY <1>1, KeepTrie, KeepLinks
<1>5. QueueInv'
  BY <1>1, <1>2 DEF QueueInv, Linked, Linking, Searching
<1>6. PendingInv'
  BY <1>1, <1>2 DEF PendingInv, Linked, InQueue, Linking
<1>7. RestInv' /\ FallInv'
  BY <1>1 DEF RestInv, FallInv, Linking
<1>8. NodeInv' /\ MatchInv'
  BY <1>1, KeepFound DEF Searching
<1> QED
  BY <1>3, <1>4, <1>5, <1>6, <1>7, <1>8

LEMMA LinkNodeStep ==
  ASSUME AutomatonInv, LinkNode
  PROVE  AutomatonInv'
<1> USE DEF AutomatonInv
<1> DEFINE n == Head(queue)
           s == suffixLink[n]
<1>1. /\ pc = "link" /\ pc' = "child" /\ queue # <<>> /\ queue' = Tail(queue)
      /\ node' = n /\ rest' = Children(n)
      /\ terminalLink' = [terminalLink EXCEPT ![n] = TerminalLink(n)]
      /\ UNCHANGED <<trie, suffixLink, char, fallback, match, found>>
  BY DEF LinkNode
<1>2. nodes' = nodes /\ wordLength' = wordLength /\ suffixLink' = suffixLink
      /\ Terminals' = Terminals
  BY <1>1 DEF trie, Terminals
<1>3. /\ n = queue[1] /\ n \in nodes /\ 1 \in DOMAIN queue
      /\ queue' \in Seq(nodes) /\ Len(queue') = Len(queue) - 1 /\ Len(queue) \in Nat \ {0}
      /\ DOMAIN queue = 1..Len(queue) /\ DOMAIN queue' = 1..Len(queue) - 1
      /\ \A i \in 1..Len(queue) - 1 : queue'[i] = queue[i + 1]
  <2>1. queue \in Seq(nodes) /\ queue # <<>>
    BY <1>1 DEF TypeInv
  <2>2. Len(queue) \in Nat \ {0}
    BY <2>1, EmptySeq
  <2> QED
    BY <2>1, <2>2, <1>1, HeadTailProperties
<1> HIDE DEF n
<1>4. Linked(n) /\ n # root /\ \A i \in DOMAIN queue : queue[i] \in nodes
  <2>1. Linked(n)
    BY <1>3 DEF QueueInv
  <2> QED
    BY <2>1 DEF LinksInv, TypeInv
<1>5. s \in nodes /\ LongestProper(s, n, nodes)
  BY <1>3, <1>4 DEF LinksInv, LongestProper
<1> HIDE DEF s
<1>6. /\ \A m \in nodes : m \in Seq(Codes) /\ Len(m) \in Nat
      /\ Len(s) < Len(n)
  BY <1>5 DEF TypeInv, LongestProper, Proper
<1>7. \A i \in DOMAIN queue : Len(n) <= Len(queue[i]) /\ Len(queue[i]) <= Len(n) + 1
  <2>1. ASSUME NEW i \in DOMAIN queue
        PROVE  Len(n) <= Len(queue[i]) /\ Len(queue[i]) <= Len(n) + 1
    <3>1. Len(queue[i]) <= Len(n) + 1
      BY <1>3 DEF QueueInv
    <3>2. CASE i = 1
      BY <3>1, <3>2, <1>3, <1>6
    <3>3. CASE i # 1
      <4>1. 1 < i
        BY <3>3, <1>3
      <4> QED
        BY <4>1, <3>1, <1>3 DEF QueueInv
    <3> QED
      BY <3>2, <3>3
  <2> QED
    BY <2>1
<1>8. LinkTo(terminalLink[s], s, Terminals)
  <2>1. CASE s = root
    <3>1. Len(s) = 0
      BY <2>1, <1>6, <1>5, SuffixBasics
    <3>2. \A m \in Terminals : ~Proper(m, s)
      BY <3>1, <1>6 DEF Proper, Terminals
    <3>3. terminalLink[s] = nullptr
      BY <2>1 DEF LinksInv
    <3> QED
      BY <3>2, <3>3 DEF LinkTo
  <2>2. CASE s # root
    <3>1. Linked(s)
      <4>1. pc \notin Building /\ pc \notin Linking
        BY <1>1 DEF Building, Linking
      <4>2. \A i \in DOMAIN queue : Len(n) <= Len(queue[i])
        BY <1>7
      <4>3. Len(n) \in Nat /\ Len(s) <= Len(n) /\ s \in nodes \ {root}
        BY <2>2, <1>3, <1>5, <1>6
      <4> HIDE DEF AutomatonInv
      <4>4. TypeInv /\ TrieInv /\ PendingInv
        BY DEF AutomatonInv
      <4> QED
        BY <4>1, <4>2, <4>3, <4>4, LinkedSoFar
    <3>2. ~InQueue(s)
      BY <1>3, <1>5, <1>6, <1>7 DEF InQueue
    <3> QED
      BY <3>1, <3>2, <1>5 DEF LinksInv
  <2> QED
    BY <2>1, <2>2
<1>9. LinkTo(TerminalLink(n), n, Terminals)
  <2>1. TerminalLink(n) = IF s \in Terminals THEN s ELSE terminalLink[s]
    BY DEF TerminalLink, s
  <2> QED
    BY <2>1, <1>3, <1>5, <1>8, NearestWord
<1>10. TerminalLink(n) \in nodes \cup {nullptr}
  BY <1>9 DEF LinkTo, LongestProper, Terminals
<1>11. TypeInv'
  <2>1. Children(n) \subseteq Codes
    BY DEF Children
  <2> QED
    BY <2>1, <1>1, <1>2, <1>3, <1>10 DEF TypeInv, Linking, found
<1>12. TrieInv'
  BY <1>1, KeepTrie
<1>13. \A m \in nodes : InQueue(m) => m = n \/ InQueue(m)'
  <2>1. ASSUME NEW i \in DOMAIN queue, queue[i] # n
        PROVE  i - 1 \in DOMAIN queue' /\ queue'[i - 1] = queue[i]
    BY <2>1, <1>3
  <2> QED
    BY <2>1 DEF InQueue
<1>14. LinksInv'
  <2>1. ASSUME NEW m \in nodes, Linked(m), ~InQueue(m)'
        PROVE  LinkTo(terminalLink'[m], m, Terminals)
    <3>1. CASE m = n
      BY <3>1, <1>1, <1>9 DEF TypeInv
    <3>2. CASE m # n
      <4>1. ~InQueue(m)
        BY <2>1, <3>2, <1>13
      <4>2. terminalLink'[m] = terminalLink[m]
        BY <3>2, <1>1 DEF TypeInv
      <4> QED
        BY <4>1, <4>2, <2>1 DEF LinksInv
    <3> QED
      BY <3>1, <3>2
  <2>2. terminalLink'[root] = nullptr
    BY <1>1, <1>4 DEF LinksInv, TypeInv, TrieInv
  <2>3. \A m \in nodes' : Linked(m)' /\ ~InQueue(m)' => LinkTo(terminalLink'[m], m, Terminals')
    BY <2>1, <1>2 DEF Linked
  <2>4. \A m \in nodes' : Linked(m)' => LongestProper(suffixLink'[m], m, nodes')
    BY <1>2 DEF LinksInv, Linked
  <2>5. ~Linked(root)'
    BY <1>2 DEF LinksInv, Linked
  <2> QED
    BY <2>2, <2>3, <2>4, <2>5, <1>1 DEF LinksInv
<1>15. QueueInv'
  <2>1. \A i \in DOMAIN queue' : i + 1 \in DOMAIN queue /\ queue'[i] = queue[i + 1]
    BY <1>3
  <2>2. \A i \in DOMAIN queue' : suffixLink'[queue'[i]] # nullptr
    BY <2>1, <1>2 DEF QueueInv, Linked
  <2>3. \A i, j \in DOMAIN queue' : /\ i < j => Len(queue'[i]) <= Len(queue'[j])
                                    /\ Len(queue'[j]) <= Len(queue'[i]) + 1
    <3>1. \A i, j \in DOMAIN queue' : i < j => i + 1 < j + 1
      BY <1>3
    <3> QED
      BY <2>1, <3>1 DEF QueueInv
  <2>4. \A i \in DOMAIN queue' : Len(queue'[i]) \in {Len(node'), Len(node') + 1}
    BY <2>1, <1>1, <1>3, <1>4, <1>6, <1>7
  <2>5. suffixLink'[node'] # nullptr
    BY <1>1, <1>2, <1>4 DEF Linked
  <2> QED
    BY <2>2, <2>3, <2>4, <2>5, <1>1 DEF QueueInv, Linked, Searching
<1>16. PendingInv'
  <2>1. ASSUME NEW p \in nodes, NEW c \in Codes, Append(p, c) \in nodes, ~Linked(Append(p, c))
        PROVE  \/ p # root /\ (~Linked(p) \/ InQueue(p)')
               \/ p = n /\ c \in rest'
    <3>1. p # root /\ (~Linked(p) \/ InQueue(p))
      BY <2>1, <1>1 DEF PendingInv, Linking
    <3> QED
      BY <3>1, <2>1, <1>1, <1>13 DEF Children
  <2> QED
    BY <2>1, <1>1, <1>2 DEF PendingInv, Linked, Linking
<1>17. RestInv' /\ FallInv'
  BY <1>1, <1>2 DEF RestInv, FallInv, Children
<1>18. NodeInv' /\ MatchInv'
  BY <1>1, KeepFound DEF Searching
<1> QED
  BY <1>11, <1>12, <1>14, <1>15, <1>16, <1>17, <1>18

LEMMA NextChildStep ==
  ASSUME AutomatonInv, NextChild
  PROVE  AutomatonInv'
<1> USE DEF AutomatonInv
<1>1. /\ pc = "child" /\ pc' = "fall" /\ rest # {} /\ char' = Min(rest)
      /\ rest' = rest \ {Min(rest)} /\ fallback' = suffixLink[node]
      /\ UNCHANGED <<trie, links, queue, node, match, found>>
  BY DEF NextChild
<1>2. /\ nodes' = nodes /\ wordLength' = wordLength /\ queue' = queue
      /\ suffixLink' = suffixLink /\ terminalLink' = terminalLink
  BY <1>1 DEF trie, links
<1>3. Min(rest) \in rest /\ Min(rest) \in Codes
  BY <1>1, MinIsIn
<1>4. suffixLink[node] \in nodes /\ LongestProper(suffixLink[node], node, nodes)
  BY <1>1 DEF QueueInv, LinksInv, LongestProper, TypeInv, Linking
<1>5. TypeInv'
  BY <1>1, <1>2, <1>4 DEF TypeInv, Linking, found
<1>6. TrieInv' /\ LinksInv'
  BY <1>1, KeepTrie, KeepLinks
<1>7. QueueInv'
  BY <1>1, <1>2 DEF QueueInv, Linked, Linking, Searching
<1>8. PendingInv'
  BY <1>1, <1>2 DEF PendingInv, Linked, InQueue, Linking
<1>9. RestInv'
  BY <1>1, <1>2, <1>3 DEF RestInv, Children, Linking
<1>10. FallInv'
  <2>1. Tried(suffixLink[node], node, Len(node), Min(rest))
    BY <1>4 DEF Tried, LongestProper, Proper
  <2> QED
    BY <2>1, <1>1, <1>2, <1>3 DEF FallInv, Tried
<1>11. NodeInv' /\ MatchInv'
  BY <1>1, KeepFound DEF Searching
<1> QED
  BY <1>5, <1>6, <1>7, <1>8, <1>9, <1>10, <1>11

LEMMA ChildrenEndStep ==
  ASSUME AutomatonInv, ChildrenEnd
  PROVE  AutomatonInv'
<1> USE DEF AutomatonInv
<1>1. /\ pc = "child" /\ pc' = "link" /\ rest = {}
      /\ UNCHANGED <<trie, links, queue, rest, node, char, fallback, match, found>>
  BY DEF ChildrenEnd
<1>2. /\ nodes' = nodes /\ wordLength' = wordLength /\ queue' = queue
      /\ suffixLink' = suffixLink /\ terminalLink' = terminalLink
  BY <1>1 DEF trie, links
<1>3. TypeInv'
  BY <1>1, <1>2 DEF TypeInv, found
<1>4. TrieInv' /\ LinksInv'
  BY <1>1, KeepTrie, KeepLinks
<1>5. QueueInv'
  BY <1>1, <1>2 DEF QueueInv, Linked, Linking, Searching
<1>6. PendingInv'
  BY <1>1, <1>2 DEF PendingInv, Linked, InQueue, Linking
<1>7. RestInv' /\ FallInv'
  BY <1>1 DEF RestInv, FallInv, Linking
<1>8. NodeInv' /\ MatchInv'
  BY <1>1, KeepFound DEF Searching
<1> QED
  BY <1>3, <1>4, <1>5, <1>6, <1>7, <1>8

LEMMA FallBackStep ==
  ASSUME AutomatonInv, FallBack
  PROVE  AutomatonInv'
<1> USE DEF AutomatonInv
<1> DEFINE l == suffixLink[fallback]
<1>1. /\ pc = "fall" /\ pc' = "fall" /\ fallback # root /\ char \notin Children(fallback)
      /\ fallback' = l
      /\ UNCHANGED <<trie, links, queue, rest, node, char, match, found>>
  BY DEF FallBack
<1>2. /\ nodes' = nodes /\ wordLength' = wordLength /\ queue' = queue
      /\ suffixLink' = suffixLink /\ terminalLink' = terminalLink
  BY <1>1 DEF trie, links
<1>3. /\ char \in Codes /\ Tried(fallback, node, Len(node), char)
      /\ Append(fallback, char) \notin nodes
  BY <1>1 DEF FallInv, Children
<1>4. /\ fallback \in nodes /\ node \in nodes /\ node \in Seq(Codes) /\ Len(node) \in Nat
      /\ Len(fallback) \in Nat /\ Len(fallback) < Len(node)
  BY <1>3 DEF TypeInv, Tried
<1>5. Linked(fallback)
  <2>1. pc \notin Building
    BY <1>1 DEF Building
  <2>2. \A i \in DOMAIN queue : Len(node) <= Len(queue[i])
    BY <1>1, <1>4 DEF QueueInv, Linking
  <2>3. Len(node) <= Len(node) /\ Len(fallback) <= Len(node)
    BY <1>4
  <2> QED
    BY <2>1, <2>2, <2>3, <1>1, <1>4, LinkedSoFar
<1>6. l \in nodes /\ LongestProper(l, fallback, nodes)
  BY <1>4, <1>5 DEF LinksInv, LongestProper
<1>7. TypeInv'
  BY <1>1, <1>2, <1>6 DEF TypeInv, found
<1>8. TrieInv' /\ LinksInv'
  BY <1>1, KeepTrie, KeepLinks
<1>9. QueueInv' /\ PendingInv' /\ RestInv'
  BY <1>1, <1>2 DEF QueueInv, PendingInv, RestInv, Linked, InQueue, Children, Linking, Searching
<1>10. FallInv'
  <2> HIDE DEF l
  <2>1. Tried(l, node, Len(node), char)
    BY <1>3, <1>4, <1>6, GiveUp
  <2> QED
    BY <2>1, <1>1, <1>2, <1>3 DEF FallInv, Tried
<1>11. NodeInv' /\ MatchInv'
  BY <1>1, KeepFound DEF Searching
<1> QED
  BY <1>7, <1>8, <1>9, <1>10, <1>11

LEMMA LinkChildStep ==
  ASSUME AutomatonInv, LinkChild
  PROVE  AutomatonInv'
<1> USE DEF AutomatonInv
<1> DEFINE child == Append(node, char)
           to == IF Append(fallback, char) \in nodes THEN Append(fallback, char) ELSE root
<1>1. /\ pc = "fall" /\ pc' = "child" /\ (fallback = root \/ char \in Children(fallback))
      /\ suffixLink' = [suffixLink EXCEPT ![child] =
                          IF char \in Children(fallback) /\ Append(fallback, char) # child
                          THEN Append(fallback, char) ELSE root]
      /\ queue' = Append(queue, child)
      /\ UNCHANGED <<trie, terminalLink, rest, node, char, fallback, match, found>>
  BY DEF LinkChild
<1>2. nodes' = nodes /\ wordLength' = wordLength /\ terminalLink' = terminalLink
  BY <1>1 DEF trie
<1>3. /\ char \in Codes /\ Tried(fallback, node, Len(node), char)
      /\ fallback = root \/ Append(fallback, char) \in nodes
  BY <1>1 DEF FallInv, Children
<1>4. /\ \A m \in nodes : m \in Seq(Codes) /\ Len(m) \in Nat
      /\ fallback \in nodes /\ node \in nodes /\ root \in nodes
      /\ Len(fallback) < Len(node)
  BY <1>3 DEF TypeInv, TrieInv, Tried
<1>5. /\ child \in nodes /\ Len(child) = Len(node) + 1 /\ child # root
      /\ Len(Append(fallback, char)) = Len(fallback) + 1
  <2>1. child \in nodes
    BY <1>1 DEF RestInv, Children
  <2> QED
    BY <2>1, <1>3, <1>4, AppendProperties, SuffixBasics
<1>6. Append(fallback, char) # child
  BY <1>4, <1>5
<1>7. suffixLink' = [suffixLink EXCEPT ![child] = to]
  BY <1>1, <1>3, <1>6 DEF Children
<1>8. to \in nodes
  BY <1>4
<1> HIDE DEF to
<1>9. LongestProper(to, child, nodes)
  <2>1. /\ Suffix(to, child) /\ Len(to) < Len(node) + 1
        /\ \A m \in nodes : Suffix(m, child) /\ Len(m) < Len(node) + 1 => Len(m) <= Len(to)
    BY <1>3, <1>4, <1>8, TakeOn DEF to
  <2> HIDE DEF child
  <2> QED
    BY <2>1, <1>5, <1>8 DEF LongestProper, Proper
<1> HIDE DEF child
<1>10. /\ TrieInv' /\ LinksInv'
       /\ suffixLink' \in [nodes -> nodes \cup {nullptr}] /\ queue' \in Seq(nodes)
       /\ \A n \in nodes : Linked(n)' <=> Linked(n) \/ n = child
       /\ \A n \in nodes : InQueue(n)' <=> InQueue(n) \/ n = child
       /\ \A i \in DOMAIN queue' : \/ i \in DOMAIN queue /\ queue'[i] = queue[i]
                                   \/ i = Len(queue) + 1 /\ queue'[i] = child
       /\ DOMAIN queue = 1..Len(queue) /\ Len(queue) \in Nat
  BY <1>1, <1>5, <1>7, <1>8, <1>9, Enqueue
<1>11. TypeInv'
  BY <1>1, <1>2, <1>10 DEF TypeInv, Linking, found
<1>12. QueueInv'
  <2>1. /\ Linked(node)
        /\ \A i \in DOMAIN queue : /\ queue[i] \in nodes /\ Linked(queue[i])
                                   /\ Len(queue[i]) \in {Len(node), Len(node) + 1}
    BY <1>1 DEF QueueInv, TypeInv, Linking
  <2>2. \A n \in nodes : Linked(n) \/ n = child => suffixLink'[n] # nullptr
    BY <1>10 DEF Linked
  <2>3. \A i \in DOMAIN queue' : /\ suffixLink'[queue'[i]] # nullptr
                                 /\ Len(queue'[i]) \in {Len(node), Len(node) + 1}
    BY <2>1, <2>2, <1>5, <1>10
  <2>4. \A i, j \in DOMAIN queue' : i < j => Len(queue'[i]) <= Len(queue'[j])
    <3>1. SUFFICES ASSUME NEW i \in DOMAIN queue', NEW j \in DOMAIN queue', i < j
                   PROVE  Len(queue'[i]) <= Len(queue'[j])
      OBVIOUS
    <3>2. CASE j \in DOMAIN queue
      <4>1. i \in DOMAIN queue
        BY <3>1, <3>2, <1>10
      <4>2. queue'[i] = queue[i] /\ queue'[j] = queue[j]
        BY <4>1, <3>2, <1>10
      <4> QED
        BY <4>1, <4>2, <3>1, <3>2 DEF QueueInv
    <3>3. CASE j \notin DOMAIN queue
      BY <3>3, <2>3, <1>4, <1>5, <1>10
    <3> QED
      BY <3>2, <3>3
  <2>5. \A i, j \in DOMAIN queue' : Len(queue'[j]) <= Len(queue'[i]) + 1
    BY <2>3, <1>4
  <2>6. suffixLink'[node'] # nullptr /\ node' = node
    BY <2>1, <2>2, <1>1, <1>4
  <2> QED
    BY <2>3, <2>4, <2>5, <2>6, <1>1 DEF QueueInv, Linked, Searching
<1>13. PendingInv'
  <2>1. ASSUME NEW p \in nodes, NEW c \in Codes, Append(p, c) \in nodes, ~Linked(Append(p, c))'
        PROVE  \/ p # root /\ (~Linked(p)' \/ InQueue(p)')
               \/ p = node /\ c \in rest
    <3>1. ~Linked(Append(p, c)) /\ Append(p, c) # child
      BY <2>1, <1>10
    <3>2. \/ p # root /\ (~Linked(p) \/ InQueue(p))
          \/ p = node /\ c \in rest
          \/ p = node /\ c = char
      BY <2>1, <3>1, <1>1 DEF PendingInv
    <3>3. CASE p # root /\ (~Linked(p) \/ InQueue(p))
      BY <3>3, <1>10
    <3>4. ~(p = node /\ c = char)
      BY <3>1 DEF child
    <3> QED
      BY <3>2, <3>3, <3>4
  <2> QED
    BY <2>1, <1>1, <1>2 DEF PendingInv, Linking
<1>14. RestInv' /\ FallInv'
  BY <1>1, <1>2 DEF RestInv, FallInv, Children, Linking
<1>15. NodeInv' /\ MatchInv'
  BY <1>1, KeepFound DEF Searching
<1> QED
  BY <1>10, <1>11, <1>12, <1>13, <1>14, <1>15

-----------------------------------------------------------------------------
(* The search.                                                             *)

\* The search changes nothing of the automaton.
LEMMA KeepAutomaton ==
  ASSUME TypeInv, TrieInv, LinksInv, QueueInv, PendingInv, UNCHANGED <<trie, links, queue>>,
         pc \in Searching \/ (pc = "link" /\ queue = <<>>), pc' \in Searching
  PROVE  /\ TrieInv' /\ LinksInv' /\ QueueInv' /\ PendingInv' /\ RestInv' /\ FallInv'
         /\ pc' \in Building \cup {"link"} \cup Linking \cup Searching
         /\ nodes' \subseteq Seq(Codes)
         /\ wordLength' \in [nodes' -> Int]
         /\ suffixLink' \in [nodes' -> nodes' \cup {nullptr}]
         /\ terminalLink' \in [nodes' -> nodes' \cup {nullptr}]
         /\ queue' \in Seq(nodes')
<1>1. /\ nodes' = nodes /\ wordLength' = wordLength /\ queue' = queue
      /\ suffixLink' = suffixLink /\ terminalLink' = terminalLink
  BY DEF trie, links
<1>2. /\ pc \notin {"words", "root", "child", "fall"}
      /\ pc' \notin {"words", "root", "child", "fall"}
  BY DEF Searching
<1>3. TrieInv' /\ LinksInv'
  BY <1>2, KeepTrie, KeepLinks
<1>4. QueueInv'
  BY <1>1, <1>2 DEF QueueInv, Linked, Linking
<1>5. PendingInv'
  BY <1>1, <1>2 DEF PendingInv, Linked, InQueue, Linking
<1>6. RestInv' /\ FallInv'
  BY <1>2 DEF RestInv, FallInv, Linking
<1> QED
  BY <1>1, <1>3, <1>4, <1>5, <1>6 DEF TypeInv

\* A word that ends with the text is a suffix of it.
LEMMA EndsHere ==
  ASSUME TypeInv, NEW o \in Occurrences, o[2] = Len(text) - 1
  PROVE  \E m \in Terminals : /\ Suffix(m, text) /\ m \in nodes /\ m \in Seq(Codes)
                              /\ o = <<Len(text) - Len(m), Len(text) - 1>>
<1>1. /\ text \in Seq(Codes) /\ Len(text) \in Nat
      /\ o = <<o[1], o[2]>> /\ o[1] \in 0..Len(text) /\ o[1] <= o[2] + 1
      /\ SubSeq(text, o[1] + 1, o[2] + 1) \in Terminals
  BY DEF TypeInv, Occurrences
<1> DEFINE m == SubSeq(text, o[1] + 1, Len(text))
<1>2. m \in Terminals /\ m \in nodes
  <2>1. o[2] + 1 = Len(text)
    BY <1>1
  <2> QED
    BY <2>1, <1>1 DEF Terminals
<1>3. m \in Seq(Codes) /\ Len(m) = Len(text) - (o[1] + 1) + 1 /\ Suffix(m, text)
  <2>1. o[1] + 1 \in 1..Len(text) + 1
    BY <1>1
  <2> QED
    BY <2>1, <1>1, TailIsSuffix
<1> HIDE DEF m
<1>4. o[1] = Len(text) - Len(m) /\ o = <<o[1], o[2]>>
  BY <1>1, <1>3
<1> QED
  BY <1>2, <1>3, <1>4

\* A word that is a suffix of the text occurs at its end.
LEMMA OccursAtEnd ==
  ASSUME TypeInv, NEW m \in Terminals, Suffix(m, text), text # <<>>
  PROVE  <<Len(text) - Len(m), Len(text) - 1>> \in Occurrences
<1> DEFINE k == Len(text) - Len(m)
<1>1. /\ text \in Seq(Codes) /\ Len(text) \in Nat \ {0} /\ m \in Seq(Codes) /\ Len(m) \in Nat
  BY EmptySeq DEF TypeInv, Terminals
<1>2. k + 1 \in 1..Len(text) + 1 /\ m = SubSeq(text, k + 1, Len(text))
  BY <1>1, SuffixIsTail
<1>3. SubSeq(text, k + 1, (Len(text) - 1) + 1) \in Terminals
  <2>1. (Len(text) - 1) + 1 = Len(text)
    BY <1>1
  <2> QED
    BY <2>1, <1>2
<1>4. <<k, Len(text) - 1>> \in (0..Len(text)) \X (0..Len(text) - 1) /\ k <= (Len(text) - 1) + 1
  BY <1>1, <1>2
<1> HIDE DEF k
<1>5. <<k, Len(text) - 1>> \in Occurrences
  BY <1>3, <1>4 DEF Occurrences
<1> QED
  BY <1>5 DEF k

LEMMA StartSearchStep ==
  ASSUME AutomatonInv, StartSearch
  PROVE  AutomatonInv'
<1> USE DEF AutomatonInv
<1>1. /\ pc = "link" /\ queue = <<>> /\ pc' = "search" /\ node' = root
      /\ UNCHANGED <<trie, links, queue, rest, char, fallback, match, found>>
  BY DEF StartSearch
<1>2. /\ nodes' = nodes /\ wordLength' = wordLength /\ root \in nodes
      /\ text' = text /\ matches' = matches
  BY <1>1 DEF trie, found, TrieInv
<1>3. /\ TrieInv' /\ LinksInv' /\ QueueInv' /\ PendingInv' /\ RestInv' /\ FallInv'
      /\ TypeInv'
  <2>1. pc' \in Searching
    BY <1>1 DEF Searching
  <2> QED
    BY <2>1, <1>1, <1>2, KeepAutomaton DEF TypeInv
<1>4. text = <<>> /\ matches = <<>> /\ ToSet(matches) = Due
  BY <1>1 DEF MatchInv, Searching
<1>5. NodeInv'
  <2>1. Suffix(root, text) /\ Len(root) = 0 /\ Len(text) = 0
    BY <1>4, SuffixBasics DEF TypeInv
  <2>2. \A m \in nodes : Suffix(m, text) => Len(m) <= Len(root)
    BY <2>1 DEF Suffix
  <2> QED
    BY <2>1, <2>2, <1>1, <1>2 DEF NodeInv
<1>6. MatchInv'
  <2>1. Due = Occurrences /\ Due' = Occurrences'
    BY <1>1 DEF Due
  <2>2. Occurrences' = Occurrences
    BY <1>2 DEF Occurrences, Terminals
  <2> QED
    BY <2>1, <2>2, <1>1, <1>2, <1>4 DEF MatchInv, Searching
<1> QED
  BY <1>3, <1>5, <1>6

LEMMA NextCharStep ==
  ASSUME AutomatonInv, NEW c \in Codes, NextChar(c)
  PROVE  AutomatonInv'
<1> USE DEF AutomatonInv
<1>1. /\ pc = "search" /\ pc' = "follow" /\ char' = c /\ text' = Append(text, c)
      /\ UNCHANGED <<trie, links, queue, rest, node, fallback, match, matches>>
  BY DEF NextChar
<1>2. nodes' = nodes /\ wordLength' = wordLength /\ Terminals' = Terminals
  BY <1>1 DEF trie, Terminals
<1>3. /\ text \in Seq(Codes) /\ Len(text) \in Nat
      /\ text' \in Seq(Codes) /\ Len(text') = Len(text) + 1
      /\ \A i \in 1..Len(text) : text'[i] = text[i]
  BY <1>1, AppendProperties DEF TypeInv
<1>4. /\ TrieInv' /\ LinksInv' /\ QueueInv' /\ PendingInv' /\ RestInv' /\ FallInv'
      /\ TypeInv'
  <2>1. pc \in Searching /\ pc' \in Searching
    BY <1>1 DEF Searching
  <2> QED
    BY <2>1, <1>1, <1>2, <1>3, KeepAutomaton DEF TypeInv
<1>5. ASSUME NEW a \in 1..Len(text) + 1, NEW b \in 0..Len(text)
      PROVE  SubSeq(text', a, b) = SubSeq(text, a, b)
  <2>1. \A i \in a..b : text[i] \in Codes /\ text'[i] \in Codes /\ text'[i] = text[i]
    BY <1>3
  <2> DEFINE u == SubSeq(text, a, b)
             v == SubSeq(text', a, b)
  <2>2. /\ u \in Seq(Codes) /\ Len(u) = IF a <= b THEN b - a + 1 ELSE 0
        /\ \A i \in 1..b - a + 1 : u[i] = text[a + i - 1]
    BY <2>1, SubSeqProperties
  <2>3. /\ v \in Seq(Codes) /\ Len(v) = IF a <= b THEN b - a + 1 ELSE 0
        /\ \A i \in 1..b - a + 1 : v[i] = text'[a + i - 1]
    BY <2>1, SubSeqProperties
  <2> HIDE DEF u, v
  <2>4. \A i \in 1..Len(u) : u[i] = v[i]
    <3>1. \A i \in 1..b - a + 1 : a + i - 1 \in a..b
      OBVIOUS
    <3>2. \A i \in 1..b - a + 1 : u[i] = v[i]
      BY <2>1, <2>2, <2>3, <3>1
    <3>3. 1..Len(u) \subseteq 1..b - a + 1
      BY <2>2
    <3> QED
      BY <3>2, <3>3
  <2>5. u = v
    BY <2>2, <2>3, <2>4, SeqEqual
  <2> QED
    BY <2>5 DEF u, v
<1>6. NodeInv'
  <2>1. Before' = text
    <3>1. Before' = SubSeq(text', 1, Len(text))
      BY <1>3 DEF Before
    <3>2. Before' = SubSeq(text, 1, Len(text))
      BY <3>1, <1>3, <1>5
    <3> QED
      BY <3>2, <1>3, SubSeqFull
  <2>2. Tried(node, text, Len(text) + 1, c)
    <3>1. Suffix(node, text) /\ \A m \in nodes : Suffix(m, text) => Len(m) <= Len(node)
      BY <1>1 DEF NodeInv
    <3>2. Len(node) < Len(text) + 1
      BY <3>1, <1>3 DEF Suffix, TypeInv
    <3> QED
      BY <3>1, <3>2 DEF Tried
  <2>3. text' # <<>>
    BY <1>3
  <2> QED
    BY <2>1, <2>2, <2>3, <1>1, <1>2, <1>3 DEF NodeInv, Tried
<1>7. MatchInv'
  <2>1. ToSet(matches) = Occurrences
    BY <1>1 DEF MatchInv, Due
  <2>2. Due' = {o \in Occurrences' : o[2] < Len(text)}
    BY <1>1, <1>3 DEF Due
  <2>3. ASSUME NEW o \in Occurrences
        PROVE  o \in Occurrences' /\ o[2] < Len(text)
    <3>1. /\ o \in (0..Len(text)) \X (0..Len(text) - 1) /\ o[1] <= o[2] + 1
          /\ SubSeq(text, o[1] + 1, o[2] + 1) \in Terminals
      BY DEF Occurrences
    <3>2. o[1] + 1 \in 1..Len(text) + 1 /\ o[2] + 1 \in 0..Len(text)
      BY <3>1, <1>3
    <3>3. o \in (0..Len(text')) \X (0..Len(text') - 1)
      BY <3>1, <1>3
    <3>4. SubSeq(text', o[1] + 1, o[2] + 1) \in Terminals'
      BY <3>1, <3>2, <1>2, <1>5
    <3> QED
      BY <3>1, <3>2, <3>3, <3>4, <1>3 DEF Occurrences
  <2>4. ASSUME NEW o \in Occurrences', o[2] < Len(text)
        PROVE  o \in Occurrences
    <3>1. /\ o \in (0..Len(text')) \X (0..Len(text') - 1) /\ o[1] <= o[2] + 1
          /\ SubSeq(text', o[1] + 1, o[2] + 1) \in Terminals
      BY <1>2 DEF Occurrences
    <3>2. o[1] + 1 \in 1..Len(text) + 1 /\ o[2] + 1 \in 0..Len(text)
      BY <3>1, <2>4, <1>3
    <3>3. o \in (0..Len(text)) \X (0..Len(text) - 1)
      BY <3>1, <2>4, <1>3
    <3>4. SubSeq(text, o[1] + 1, o[2] + 1) \in Terminals
      BY <3>1, <3>2, <1>5
    <3> QED
      BY <3>1, <3>3, <3>4 DEF Occurrences
  <2>5. Due' = Occurrences
    BY <2>2, <2>3, <2>4
  <2> QED
    BY <2>1, <2>5, <1>1 DEF MatchInv, Searching
<1> QED
  BY <1>4, <1>6, <1>7

LEMMA FollowStep ==
  ASSUME AutomatonInv, Follow
  PROVE  AutomatonInv'
<1> USE DEF AutomatonInv
<1> DEFINE l == suffixLink[node]
<1>1. /\ pc = "follow" /\ pc' = "follow" /\ node # root /\ char \notin Children(node)
      /\ node' = l
      /\ UNCHANGED <<trie, links, queue, rest, char, fallback, match, found>>
  BY DEF Follow
<1>2. /\ nodes' = nodes /\ wordLength' = wordLength /\ Terminals' = Terminals
      /\ text' = text /\ matches' = matches
  BY <1>1 DEF trie, Terminals, found
<1>3. /\ char \in Codes /\ text # <<>> /\ text = Append(Before, char)
      /\ Tried(node, Before, Len(text), char) /\ Append(node, char) \notin nodes
  BY <1>1 DEF NodeInv, Children
<1>4. Before \in Seq(Codes) /\ Len(text) \in Nat /\ node \in nodes
  <2>1. text \in Seq(Codes) /\ Len(text) \in Nat
    BY DEF TypeInv
  <2>2. \A i \in 1..Len(text) - 1 : text[i] \in Codes
    BY <2>1
  <2> QED
    BY <2>1, <2>2, SubSeqProperties DEF Before, TypeInv
<1>5. l \in nodes /\ LongestProper(l, node, nodes)
  <2>1. /\ LongestProper(l, node, nodes)
    <3>1. queue = <<>> /\ pc \notin Building /\ pc \notin Linking /\ node \in nodes \ {root}
      BY <1>1, <1>4 DEF QueueInv, Searching, Building, Linking
    <3> QED
      BY <3>1, AllLinked
  <2> QED
    BY <2>1 DEF LongestProper
<1> HIDE DEF l
<1>6. /\ TrieInv' /\ LinksInv' /\ QueueInv' /\ PendingInv' /\ RestInv' /\ FallInv'
      /\ TypeInv'
  <2>1. pc \in Searching /\ pc' \in Searching
    BY <1>1 DEF Searching
  <2> QED
    BY <2>1, <1>1, <1>2, <1>5, KeepAutomaton DEF TypeInv
<1>7. NodeInv'
  <2>1. Tried(l, Before, Len(text), char)
    BY <1>3, <1>4, <1>5, GiveUp
  <2>2. Before' = Before
    BY <1>2 DEF Before
  <2> QED
    BY <2>1, <2>2, <1>1, <1>2, <1>3 DEF NodeInv, Tried
<1>8. MatchInv'
  <2>1. Due' = Due
    BY <1>1, <1>2 DEF Due, Occurrences
  <2> QED
    BY <2>1, <1>1, <1>2 DEF MatchInv, Searching
<1> QED
  BY <1>6, <1>7, <1>8

LEMMA ConsumeStep ==
  ASSUME AutomatonInv, Consume
  PROVE  AutomatonInv'
<1> USE DEF AutomatonInv
<1> DEFINE to == IF Append(node, char) \in nodes THEN Append(node, char) ELSE root
<1>1. /\ pc = "follow" /\ pc' = "report" /\ (node = root \/ char \in Children(node))
      /\ node' = IF char \in Children(node) THEN Append(node, char) ELSE node
      /\ match' = node'
      /\ UNCHANGED <<trie, links, queue, rest, char, fallback, found>>
  BY DEF Consume
<1>2. /\ nodes' = nodes /\ wordLength' = wordLength /\ Terminals' = Terminals
      /\ text' = text /\ matches' = matches
  BY <1>1 DEF trie, Terminals, found
<1>3. /\ char \in Codes /\ text # <<>> /\ text = Append(Before, char)
      /\ Tried(node, Before, Len(text), char)
      /\ node = root \/ Append(node, char) \in nodes
  BY <1>1 DEF NodeInv, Children
<1>4. /\ Before \in Seq(Codes) /\ text \in Seq(Codes) /\ Len(text) \in Nat /\ node \in nodes
      /\ root \in nodes
  <2>1. text \in Seq(Codes) /\ Len(text) \in Nat
    BY DEF TypeInv
  <2>2. \A i \in 1..Len(text) - 1 : text[i] \in Codes
    BY <2>1
  <2> QED
    BY <2>1, <2>2, SubSeqProperties DEF Before, TypeInv, TrieInv
<1>5. node' = to /\ to \in nodes
  BY <1>1, <1>3, <1>4 DEF Children
<1>6. /\ Suffix(to, text)
      /\ \A m \in nodes : Suffix(m, text) => Len(m) <= Len(to)
  <2>1. /\ Suffix(to, Append(Before, char))
        /\ \A m \in nodes :
             Suffix(m, Append(Before, char)) /\ Len(m) < Len(text) + 1 => Len(m) <= Len(to)
    BY <1>3, <1>4, <1>5, TakeOn
  <2>2. /\ Suffix(to, text)
        /\ \A m \in nodes : Suffix(m, text) /\ Len(m) < Len(text) + 1 => Len(m) <= Len(to)
    BY <2>1, <1>3
  <2>3. \A m \in nodes : Suffix(m, text) => Len(m) < Len(text) + 1
    BY <1>4 DEF Suffix, TypeInv
  <2> QED
    BY <2>2, <2>3
<1> HIDE DEF to
<1>7. /\ TrieInv' /\ LinksInv' /\ QueueInv' /\ PendingInv' /\ RestInv' /\ FallInv'
      /\ TypeInv'
  <2>1. pc \in Searching /\ pc' \in Searching
    BY <1>1 DEF Searching
  <2> QED
    BY <2>1, <1>1, <1>2, <1>5, KeepAutomaton DEF TypeInv
<1>8. NodeInv'
  BY <1>1, <1>2, <1>3, <1>5, <1>6 DEF NodeInv
<1>9. MatchInv'
  <2>1. Occurrences' = Occurrences
    BY <1>2 DEF Occurrences
  <2>2. match' # nullptr /\ match' = to
    BY <1>1, <1>5, NoNode
  <2>3. ASSUME NEW o \in Occurrences
        PROVE  o[2] < Len(text) - 1 <=> o[2] < Len(text) - 1 \/ Len(text) - o[1] > Len(to)
    <3>1. CASE o[2] = Len(text) - 1
      <4>1. PICK m \in Terminals :
              /\ Suffix(m, text) /\ m \in nodes /\ m \in Seq(Codes)
              /\ o = <<Len(text) - Len(m), Len(text) - 1>>
        BY <3>1, EndsHere
      <4>2. Len(text) - o[1] = Len(m) /\ Len(m) <= Len(to)
        BY <4>1, <1>4, <1>6
      <4>3. Len(m) \in Nat /\ Len(to) \in Nat
        BY <4>1, <1>5 DEF TypeInv
      <4> QED
        BY <4>2, <4>3, <3>1
    <3>2. CASE o[2] # Len(text) - 1
      BY <3>2, <1>4 DEF Occurrences
    <3> QED
      BY <3>1, <3>2
  <2>4. Due' = {o \in Occurrences : o[2] < Len(text) - 1 \/ Len(text) - o[1] > Len(to)}
    BY <2>1, <2>2, <1>1, <1>2 DEF Due
  <2>5. Due = {o \in Occurrences : o[2] < Len(text) - 1}
    BY <1>1 DEF Due
  <2>6. Due' = Due
    BY <2>3, <2>4, <2>5
  <2> QED
    BY <2>6, <1>1, <1>2 DEF MatchInv, Searching
<1> QED
  BY <1>7, <1>8, <1>9

\* A match is reported, which is the only one due now.
LEMMA ReportStep ==
  ASSUME AutomatonInv, Report
  PROVE  AutomatonInv'
<1> USE DEF AutomatonInv
<1> DEFINE t == terminalLink[match]
           L == Len(text)
           new == <<L - Len(match), L - 1>>
<1>1. /\ pc = "report" /\ pc' = "report" /\ match # nullptr /\ match' = t
      /\ matches' = IF match \in Terminals
                    THEN Append(matches, <<Len(text) - wordLength[match], Len(text) - 1>>)
                    ELSE matches
      /\ UNCHANGED <<trie, links, queue, rest, node, char, fallback, text>>
  BY DEF Report
<1>2. /\ nodes' = nodes /\ wordLength' = wordLength /\ Terminals' = Terminals
      /\ text' = text
  BY <1>1 DEF trie, Terminals
<1>3. /\ match \in nodes /\ text # <<>> /\ Suffix(match, text)
      /\ text \in Seq(Codes) /\ L \in Nat
      /\ \A m \in nodes : m \in Seq(Codes) /\ Len(m) \in Nat
  BY <1>1 DEF TypeInv, NodeInv
<1>4. LinkTo(t, match, Terminals)
  <2>1. CASE match = root
    <3>1. t = nullptr /\ Len(match) = 0
      BY <2>1, <1>3, SuffixBasics DEF LinksInv
    <3>2. \A m \in Terminals : ~Proper(m, match)
      BY <3>1, <1>3 DEF Proper, Terminals
    <3> QED
      BY <3>1, <3>2 DEF LinkTo
  <2>2. CASE match # root
    <3>1. queue = <<>> /\ pc \notin Building /\ pc \notin Linking /\ match \in nodes \ {root}
      BY <2>2, <1>1, <1>3 DEF QueueInv, Searching, Building, Linking
    <3> QED
      BY <3>1, AllLinked
  <2> QED
    BY <2>1, <2>2
<1> HIDE DEF t
<1>5. /\ t \in nodes \cup {nullptr}
      /\ t # nullptr => t \in Terminals /\ Suffix(t, match) /\ Len(t) < Len(match)
      /\ \A m \in Terminals : Proper(m, match) => t # nullptr /\ Len(m) <= Len(t)
  BY <1>4, NoNode DEF LinkTo, LongestProper, Proper, Terminals
<1>6. /\ matches \in Seq(Int \X Int) /\ new \in Int \X Int
      /\ match \in Terminals => matches' = Append(matches, new)
      /\ match \notin Terminals => matches' = matches
  <2>1. match \in Terminals => wordLength[match] = Len(match)
    BY <1>3 DEF Terminals, TrieInv
  <2>2. new \in Int \X Int
    BY <1>3
  <2>3. matches \in Seq(Int \X Int)
    BY DEF TypeInv
  <2>4. match \in Terminals => matches' = Append(matches, new)
    BY <2>1, <1>1
  <2> QED
    BY <2>2, <2>3, <2>4, <1>1
<1>7. /\ TrieInv' /\ LinksInv' /\ QueueInv' /\ PendingInv' /\ RestInv' /\ FallInv'
      /\ TypeInv'
  <2>1. pc \in Searching /\ pc' \in Searching
    BY <1>1 DEF Searching
  <2>2. matches' \in Seq(Int \X Int)
    <3> DEFINE Pairs == Int \X Int
    <3>1. matches \in Seq(Pairs) /\ new \in Pairs
      BY <1>6
    <3> HIDE DEF new, Pairs
    <3>2. Append(matches, new) \in Seq(Pairs)
      BY <3>1, AppendProperties
    <3>3. matches' \in Seq(Pairs)
      BY <3>1, <3>2, <1>6
    <3> QED
      BY <3>3 DEF Pairs
  <2> QED
    BY <2>1, <2>2, <1>1, <1>2, <1>5, KeepAutomaton DEF TypeInv
<1>8. NodeInv'
  <2>1. t # nullptr => Suffix(t, text)
    BY <1>3, <1>5, SuffixTransitive
  <2> QED
    BY <2>1, <1>1, <1>2, <1>3 DEF NodeInv
<1>9. /\ Due = {o \in Occurrences : o[2] < L - 1 \/ L - o[1] > Len(match)}
      /\ Due' = {o \in Occurrences : o[2] < L - 1 \/ t = nullptr \/ L - o[1] > Len(t)}
  <2>1. Occurrences' = Occurrences
    BY <1>2 DEF Occurrences
  <2> QED
    BY <2>1, <1>1, <1>2 DEF Due
<1>10. \A o \in Occurrences : o[1] \in 0..L /\ o[2] \in 0..L - 1 /\ o = <<o[1], o[2]>>
  BY DEF Occurrences
<1>11. Due \subseteq Due'
  <2>1. ASSUME NEW o \in Occurrences, L - o[1] > Len(match), t # nullptr
        PROVE  L - o[1] > Len(t)
    <3>1. Len(t) \in Nat /\ Len(match) \in Nat /\ Len(t) < Len(match)
      BY <2>1, <1>3, <1>5
    <3> QED
      BY <3>1, <2>1, <1>3, <1>10
  <2> QED
    BY <2>1, <1>9
<1>12. match \in Terminals => new \in Due'
  <2>1. SUFFICES ASSUME match \in Terminals PROVE new \in Due'
    OBVIOUS
  <2>2. new \in Occurrences
    BY <2>1, <1>3, OccursAtEnd
  <2>3. L - new[1] = Len(match)
    BY <1>3
  <2>4. t # nullptr => Len(match) > Len(t)
    BY <1>3, <1>5
  <2> QED
    BY <2>2, <2>3, <2>4, <1>9
<1>13. ASSUME NEW o \in Due', o \notin Due
       PROVE  match \in Terminals /\ o = new
  <2>1. o \in Occurrences /\ (t = nullptr \/ L - o[1] > Len(t))
    BY <1>9, <1>13
  <2>2. o[2] = L - 1 /\ L - o[1] <= Len(match)
    <3>1. ~(o[2] < L - 1) /\ ~(L - o[1] > Len(match))
      BY <2>1, <1>9, <1>13
    <3>2. o[1] \in 0..L /\ o[2] \in 0..L - 1 /\ Len(match) \in Nat
      BY <2>1, <1>3, <1>10
    <3> QED
      BY <3>1, <3>2, <1>3
  <2>3. PICK m \in Terminals : /\ Suffix(m, text) /\ m \in nodes /\ m \in Seq(Codes)
                               /\ o = <<L - Len(m), L - 1>>
    BY <2>1, <2>2, EndsHere
  <2>4. Len(m) = L - o[1] /\ Len(m) <= Len(match)
    BY <2>2, <2>3, <1>3
  <2>5. Suffix(m, match)
    BY <2>3, <2>4, <1>3, SuffixComparable
  <2>6. Len(m) = Len(match)
    <3>1. SUFFICES ASSUME Len(m) < Len(match) PROVE FALSE
      BY <2>3, <2>4, <1>3
    <3>2. t # nullptr /\ Len(m) <= Len(t)
      BY <3>1, <2>5, <1>5 DEF Proper
    <3>3. Len(m) > Len(t)
      BY <3>2, <2>1, <2>4
    <3> QED
      BY <3>2, <3>3, <2>3, <1>3, <1>5
  <2>7. m = match
    BY <2>3, <2>5, <2>6, <1>3, SuffixBasics
  <2> QED
    BY <2>3, <2>7
<1>14. Due' = Due \cup (IF match \in Terminals THEN {new} ELSE {})
  BY <1>11, <1>12, <1>13
<1>15. ToSet(matches) = Due /\ \A i, j \in DOMAIN matches : i < j => IsBefore(matches[i], matches[j])
  BY DEF MatchInv
<1>16. MatchInv'
  <2>1. CASE match \notin Terminals
    <3>1. matches' = matches /\ Due' = Due
      BY <2>1, <1>6, <1>14
    <3> QED
      BY <3>1, <1>1, <1>15 DEF MatchInv, Searching
  <2>2. CASE match \in Terminals
    <3>1. /\ DOMAIN matches = 1..Len(matches) /\ Len(matches) \in Nat
          /\ DOMAIN matches' = 1..Len(matches) + 1
          /\ \A i \in 1..Len(matches) : matches'[i] = matches[i]
          /\ matches'[Len(matches) + 1] = new
      <4> HIDE DEF new
      <4> QED
        BY <2>2, <1>6, AppendProperties
    <3>2. ToSet(matches') = ToSet(matches) \cup {new}
      <4> HIDE DEF new
      <4>1. \A i \in DOMAIN matches' : matches'[i] \in ToSet(matches) \cup {new}
        BY <3>1 DEF ToSet
      <4>2. \A i \in DOMAIN matches : i \in DOMAIN matches' /\ matches[i] = matches'[i]
        BY <3>1
      <4>3. Len(matches) + 1 \in DOMAIN matches'
        BY <3>1
      <4> QED
        BY <4>1, <4>2, <4>3, <3>1 DEF ToSet
    <3>3. ASSUME NEW i \in DOMAIN matches
          PROVE  IsBefore(matches[i], new)
      <4> DEFINE o == matches[i]
      <4>1. o \in Due
        BY <1>15 DEF ToSet
      <4> HIDE DEF o
      <4>2. o[2] < L - 1 \/ L - o[1] > Len(match)
        BY <4>1, <1>9
      <4>3. o[1] \in 0..L /\ o[2] \in 0..L - 1 /\ Len(match) \in Nat
        BY <4>1, <1>3, <1>9, <1>10
      <4>4. new[1] = L - Len(match) /\ new[2] = L - 1
        OBVIOUS
      <4>5. o[2] < new[2] \/ (o[2] = new[2] /\ o[1] < new[1])
        BY <4>2, <4>3, <4>4, <1>3
      <4> HIDE DEF new
      <4> QED
        BY <4>5 DEF IsBefore, o
    <3> HIDE DEF new
    <3>4. \A i, j \in DOMAIN matches' : i < j => IsBefore(matches'[i], matches'[j])
      <4>1. SUFFICES ASSUME NEW i \in DOMAIN matches', NEW j \in DOMAIN matches', i < j
                     PROVE  IsBefore(matches'[i], matches'[j])
        OBVIOUS
      <4>2. i \in DOMAIN matches /\ matches'[i] = matches[i]
        BY <4>1, <3>1
      <4>3. CASE j \in DOMAIN matches
        BY <4>1, <4>2, <4>3, <3>1, <1>15
      <4>4. CASE j \notin DOMAIN matches
        <5>1. matches'[j] = new
          BY <4>4, <3>1
        <5> QED
          BY <5>1, <4>2, <3>3
      <4> QED
        BY <4>3, <4>4
    <3>5. Due' = Due \cup {new}
      BY <2>2, <1>14
    <3> QED
      BY <3>2, <3>4, <3>5, <1>1, <1>15 DEF MatchInv, Searching
  <2> QED
    BY <2>1, <2>2
<1> QED
  BY <1>7, <1>8, <1>16

LEMMA ReportEndsStep ==
  ASSUME AutomatonInv, ReportEnds
  PROVE  AutomatonInv'
<1> USE DEF AutomatonInv
<1>1. /\ pc = "report" /\ pc' = "search" /\ match = nullptr
      /\ UNCHANGED <<trie, links, queue, rest, node, char, fallback, match, found>>
  BY DEF ReportEnds
<1>2. /\ nodes' = nodes /\ wordLength' = wordLength /\ Terminals' = Terminals
      /\ text' = text /\ matches' = matches
  BY <1>1 DEF trie, Terminals, found
<1>3. /\ TrieInv' /\ LinksInv' /\ QueueInv' /\ PendingInv' /\ RestInv' /\ FallInv'
      /\ TypeInv'
  <2>1. pc \in Searching /\ pc' \in Searching
    BY <1>1 DEF Searching
  <2> QED
    BY <2>1, <1>1, <1>2, KeepAutomaton DEF TypeInv
<1>4. NodeInv'
  BY <1>1, <1>2 DEF NodeInv
<1>5. MatchInv'
  <2>1. Due = Occurrences /\ Due' = Occurrences'
    BY <1>1 DEF Due
  <2>2. Occurrences' = Occurrences
    BY <1>2 DEF Occurrences
  <2> QED
    BY <2>1, <2>2, <1>1, <1>2 DEF MatchInv, Searching
<1> QED
  BY <1>3, <1>4, <1>5

-----------------------------------------------------------------------------
(* The theorems.                                                           *)

\* The automaton and the search keep what each other's steps rely on: the breadth-first
\* order, the links set so far, and what was found up to the node in hand.
THEOREM AutomatonInvariant == AutomatonSpec => []AutomatonInv
<1>1. AutomatonInit => AutomatonInv
  BY InitHolds
<1>2. AutomatonInv /\ [AutomatonNext]_automatonVars => AutomatonInv'
  <2> SUFFICES ASSUME AutomatonInv, [AutomatonNext]_automatonVars PROVE AutomatonInv'
    OBVIOUS
  <2>1. CASE CreateAutomaton
    BY <2>1, AddWordStep, WordsEndStep, LinkOfRootStep, RootEndsStep, LinkNodeStep,
       NextChildStep, FallBackStep, LinkChildStep, ChildrenEndStep DEF CreateAutomaton
  <2>2. CASE StartSearch
    BY <2>2, StartSearchStep
  <2>3. CASE SearchText
    BY <2>3, NextCharStep, FollowStep, ConsumeStep, ReportStep, ReportEndsStep
       DEF SearchText
  <2>4. CASE UNCHANGED automatonVars
    <3>1. /\ nodes' = nodes /\ wordLength' = wordLength /\ suffixLink' = suffixLink
          /\ terminalLink' = terminalLink /\ queue' = queue /\ rest' = rest /\ node' = node
          /\ char' = char /\ fallback' = fallback /\ match' = match /\ text' = text
          /\ matches' = matches /\ pc' = pc
      BY <2>4 DEF automatonVars, trie, links, found
    <3>2. TypeInv' /\ TrieInv' /\ LinksInv' /\ QueueInv' /\ PendingInv'
      BY <3>1 DEF AutomatonInv, TypeInv, TrieInv, LinksInv, QueueInv, PendingInv, Linked,
                  InQueue, LinkTo, LongestProper, Terminals
    <3>3. RestInv' /\ FallInv' /\ NodeInv'
      BY <3>1 DEF AutomatonInv, RestInv, FallInv, NodeInv, Tried, Before, Children
    <3>4. Due' = Due
      BY <3>1 DEF Due, Occurrences, Terminals
    <3>5. MatchInv'
      BY <3>1, <3>4 DEF AutomatonInv, MatchInv
    <3> QED
      BY <3>2, <3>3, <3>5 DEF AutomatonInv
  <2> QED
    BY <2>1, <2>2, <2>3, <2>4 DEF AutomatonNext
<1> QED
  BY <1>1, <1>2, PTL DEF AutomatonSpec

LEMMA ProperSuffixesAre ==
  ASSUME NEW n \in Seq(Codes)
  PROVE  \A u : u \in ProperSuffixes(n) <=> u \in Seq(Codes) /\ Proper(u, n)
<1>1. Len(n) \in Nat
  OBVIOUS
<1>2. ASSUME NEW k \in 2..Len(n) + 1
      PROVE  SubSeq(n, k, Len(n)) \in Seq(Codes) /\ Proper(SubSeq(n, k, Len(n)), n)
  <2> DEFINE u == SubSeq(n, k, Len(n))
  <2>1. u \in Seq(Codes) /\ Len(u) = Len(n) - k + 1 /\ Suffix(u, n)
    <3>1. k \in 1..Len(n) + 1
      BY <1>1
    <3> QED
      BY <3>1, TailIsSuffix
  <2> HIDE DEF u
  <2>2. u \in Seq(Codes) /\ Proper(u, n)
    BY <2>1, <1>1 DEF Proper
  <2> QED
    BY <2>2 DEF u
<1>3. ASSUME NEW u \in Seq(Codes), Proper(u, n)
      PROVE  u \in ProperSuffixes(n)
  <2> DEFINE k == Len(n) - Len(u) + 1
  <2>1. k \in 2..Len(n) + 1
    BY <1>1, <1>3 DEF Proper
  <2>2. u = SubSeq(n, k, Len(n))
    BY <1>3, SuffixIsTail DEF Proper
  <2> HIDE DEF k
  <2> QED
    BY <2>1, <2>2 DEF ProperSuffixes
<1> QED
  BY <1>2, <1>3 DEF ProperSuffixes

\* What a link of the invariant leads to, among the suffixes that the property lists.
LEMMA LinkLeads ==
  ASSUME NEW n \in Seq(Codes), NEW those \in SUBSET Seq(Codes), NEW link
  PROVE  /\ LinkTo(link, n, those) => LeadsTo(link, ProperSuffixes(n), those)
         /\ LongestProper(link, n, those) => LeadsTo(link, ProperSuffixes(n), those)
<1>1. \A u : u \in ProperSuffixes(n) \cap those <=> u \in those /\ Proper(u, n)
  BY ProperSuffixesAre
<1> DEFINE candidates == ProperSuffixes(n) \cap those
<1>2. LongestProper(link, n, those) => LeadsTo(link, ProperSuffixes(n), those)
  BY <1>1 DEF LongestProper, LeadsTo
<1>3. (~ \E m \in those : Proper(m, n)) => ProperSuffixes(n) \cap those = {}
  BY <1>1
<1>4. LinkTo(link, n, those) => LeadsTo(link, ProperSuffixes(n), those)
  BY <1>2, <1>3 DEF LinkTo, LeadsTo
<1> QED
  BY <1>2, <1>4

\* Every suffix link leads to the longest proper suffix in the trie and, when the search
\* begins, every terminal link to the longest that is a word, whatever the words.
THEOREM LinksRightHolds == AutomatonSpec => []LinksRight
<1>1. AutomatonInv => LinksRight
  <2> SUFFICES ASSUME AutomatonInv PROVE LinksRight
    OBVIOUS
  <2> USE DEF AutomatonInv
  <2>1. ASSUME NEW n \in nodes \ {root}, suffixLink[n] # nullptr
        PROVE  LeadsTo(suffixLink[n], ProperSuffixes(n), nodes)
    <3>1. LongestProper(suffixLink[n], n, nodes)
      BY <2>1 DEF LinksInv, Linked
    <3>2. n \in Seq(Codes) /\ nodes \in SUBSET Seq(Codes)
      BY DEF TypeInv
    <3> QED
      BY <3>1, <3>2, LinkLeads
  <2>2. ASSUME NEW n \in nodes \ {root}, pc \in {"search", "follow", "report"}
        PROVE  LeadsTo(terminalLink[n], ProperSuffixes(n), Terminals)
    <3>1. queue = <<>> /\ pc \notin Building /\ pc \notin Linking
      BY <2>2 DEF QueueInv, Searching, Building, Linking
    <3>2. LinkTo(terminalLink[n], n, Terminals)
      BY <3>1, AllLinked
    <3>3. n \in Seq(Codes) /\ Terminals \in SUBSET Seq(Codes)
      BY DEF TypeInv, Terminals
    <3> QED
      BY <3>2, <3>3, LinkLeads
  <2> QED
    BY <2>1, <2>2 DEF LinksRight
<1> QED
  BY <1>1, AutomatonInvariant, PTL

\* The search finds every occurrence of every word, each once and in order, in any text.
THEOREM MatchesRightHolds == AutomatonSpec => []MatchesRight
<1>1. AutomatonInv => MatchesRight
  <2> SUFFICES ASSUME AutomatonInv, pc = "search"
               PROVE  /\ ToSet(matches) = Occurrences
                      /\ \A i, j \in DOMAIN matches : i < j => IsBefore(matches[i], matches[j])
    BY DEF MatchesRight
  <2>1. Due = Occurrences
    BY DEF Due
  <2> QED
    BY <2>1 DEF AutomatonInv, MatchInv
<1> QED
  BY <1>1, AutomatonInvariant, PTL

=============================================================================
