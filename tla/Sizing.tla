------------------------------- MODULE Sizing -------------------------------
(***************************************************************************)
(* How large a dereference table is made for the capacity its owner asks   *)
(* for: the number of buckets, the load factor, the next prime or power of *)
(* two, and a capacity kept in 32 bits.  How many slots a bucket has       *)
(* follows from the type of the pointers.                                  *)
(***************************************************************************)
EXTENDS TinyPtr, Sequences

CONSTANTS
    Primes,         \* the values of the table of primes
    PowersOfTwo,    \* those up to WordMod
    WordMod,        \* 2^32 in the code
    MaxRequest      \* bound: no more than the capacity of a table can say

\* Smaller bins are rejected when the program is compiled.  One of the primes has
\* as many bits as a capacity.
ASSUME SizingAssumption ==
    /\ EntriesPerBin >= 7
    /\ WordMod \in PowersOfTwo /\ WordMod >= 16
    /\ MaxRequest \in 0..WordMod - 1
    /\ Primes \in Seq(Nat)
    /\ \A i, j \in DOMAIN Primes : i < j => Primes[i] < Primes[j]
    /\ \E i \in DOMAIN Primes : Primes[i] < WordMod /\ WordMod <= 2 * Primes[i]
    /\ PowersOfTwo \subseteq Nat \ {0}
    /\ \A p \in PowersOfTwo : p = 1 \/ (p % 2 = 0 /\ p \div 2 \in PowersOfTwo)

VARIABLES
    use_primes,     \* USE_PRIMES: prime sizes, or powers of two and a mask
    stage,          \* "idle", "search" in the table of primes, or "made"
    max_capacity,   \* what CreateTable is asked for
    lower, upper,   \* where pick searches
    num_buckets

sizingVars == <<use_primes, stage, max_capacity, lower, upper, num_buckets>>

\* In percent.
load_factor ==
    IF EntriesPerBin >= 255 THEN 100
    ELSE IF EntriesPerBin >= 127 THEN 95
    ELSE IF EntriesPerBin >= 63 THEN 90
    ELSE IF EntriesPerBin >= 31 THEN 82
    ELSE IF EntriesPerBin >= 15 THEN 70
    ELSE 45

min_bucket_count(n) == ((n + EntriesPerBin - 1) \div EntriesPerBin) % WordMod

requested_buckets(n) == ((min_bucket_count(n) * 100) \div load_factor) % WordMod

\* std::bit_ceil: the least power of two that is not less.
bit_ceil(x) ==
    CHOOSE p \in PowersOfTwo : p >= x /\ \A q \in PowersOfTwo : q >= x => p <= q

capacity == (num_buckets * EntriesPerBin) % WordMod

SizingInit ==
    /\ use_primes \in BOOLEAN
    /\ stage = "idle" /\ max_capacity = 0 /\ lower = 1 /\ upper = 1 /\ num_buckets = 0

MakeBuckets(buckets) == num_buckets' = buckets % WordMod /\ stage' = "made"

\* A prime is searched for, unless none is larger than the request.
pick(desired) ==
    IF desired >= Primes[Len(Primes)]
    THEN MakeBuckets(Primes[Len(Primes)]) /\ UNCHANGED <<lower, upper>>
    ELSE /\ stage' = "search" /\ lower' = 1 /\ upper' = Len(Primes)
         /\ UNCHANGED num_buckets

CreateTable(n) ==
    /\ stage = "idle"
    /\ max_capacity' = n
    /\ IF use_primes THEN pick(requested_buckets(n))
       ELSE MakeBuckets(bit_ceil(requested_buckets(n))) /\ UNCHANGED <<lower, upper>>
    /\ UNCHANGED use_primes

middle == lower + (upper - lower) \div 2

\* Faulty: a prime that is large enough is left out of the range.
SearchPrimePast ==
    /\ stage = "search" /\ lower # upper
    /\ \/ /\ Primes[middle] < requested_buckets(max_capacity)
          /\ lower' = middle + 1
          /\ UNCHANGED <<stage, upper, num_buckets>>
       \/ /\ Primes[middle] > requested_buckets(max_capacity)
          /\ upper' = IF middle > lower THEN middle - 1 ELSE middle
          /\ UNCHANGED <<stage, lower, num_buckets>>
       \/ /\ Primes[middle] = requested_buckets(max_capacity)
          /\ MakeBuckets(Primes[middle])
          /\ UNCHANGED <<lower, upper>>
    /\ UNCHANGED <<use_primes, max_capacity>>

\* One round of the binary search.
SearchPrime ==
    /\ stage = "search" /\ lower # upper
    /\ \/ /\ Primes[middle] < requested_buckets(max_capacity)
          /\ lower' = middle + 1
          /\ UNCHANGED <<stage, upper, num_buckets>>
       \/ /\ Primes[middle] > requested_buckets(max_capacity)
          /\ upper' = middle
          /\ UNCHANGED <<stage, lower, num_buckets>>
       \/ /\ Primes[middle] = requested_buckets(max_capacity)
          /\ MakeBuckets(Primes[middle])
          /\ UNCHANGED <<lower, upper>>
    /\ UNCHANGED <<use_primes, max_capacity>>

SearchPrimeEnds ==
    /\ stage = "search" /\ lower = upper
    /\ MakeBuckets(Primes[lower])
    /\ UNCHANGED <<use_primes, max_capacity, lower, upper>>

SizingNext == (\E n \in 0..MaxRequest : CreateTable(n)) \/ SearchPrime \/ SearchPrimeEnds

SizingSpec == SizingInit /\ [][SizingNext]_sizingVars
-----------------------------------------------------------------------------
\* A table has room for what its owner asked for, and says so, as long as the product
\* of buckets and slots fits in its 32 bits: rounding the buckets up, dividing by the
\* load factor, rounding that down and looking for a size never fall short, and of the
\* sizes on offer the least is taken.
EnoughRoom ==
    LET requested == (((max_capacity + EntriesPerBin - 1) \div EntriesPerBin) * 100)
                        \div load_factor
    IN  stage = "made" /\ num_buckets * EntriesPerBin < WordMod =>
            /\ capacity >= max_capacity
            /\ num_buckets >= requested
            /\ \A size \in IF use_primes THEN {Primes[i] : i \in DOMAIN Primes}
                           ELSE PowersOfTwo :
                  size < num_buckets => size < requested
=============================================================================
