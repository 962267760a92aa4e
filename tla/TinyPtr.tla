------------------------------ MODULE TinyPtr ------------------------------
(***************************************************************************)
(* The encoding of a tiny pointer (src/tiny_ptr/tiny_ptr.h): one machine   *)
(* word that holds the index of a slot plus one, some special bits, and    *)
(* the bit that tells which of a key's two hashes leads to the bucket.     *)
(* Two words, null and tagged, name no slot.  The module follows one field *)
(* of a data structure as pointers are stored into it, next to a history   *)
(* variable that remembers what the program meant.                         *)
(*                                                                         *)
(* A number of bits is given by the number of values they take, so that a  *)
(* shift is a product or a quotient and a mask a remainder.                *)
(*                                                                         *)
(* An operator whose comment begins with "Faulty:" is a variant of the     *)
(* definition after it, with a bug the properties have to notice.          *)
(***************************************************************************)
EXTENDS Integers

CONSTANTS
  SpecialCount,  (* 2^S: the values of the special bits                    *)
  IndexCount,    (* 2^(8 * sizeof(T) - 1 - S): the values of the rest      *)
  BitOr(_, _),   (* the operator | of the machine                          *)
  Buckets        (* buckets of the table the pointers lead into            *)

WordCount == 2 * SpecialCount * IndexCount

\* There is a bit left for the index, which the code asserts of S, and nothing
\* is asked of | but what it does with a number whose last bits are zero and
\* one that fits into them.
ASSUME WordAssumption ==
  /\ SpecialCount \in Nat \ {0}
  /\ IndexCount \in Nat \ {0, 1}
  /\ \A high \in 0 .. IndexCount - 1, low \in 0 .. 2 * SpecialCount - 1 :
       BitOr(high * (2 * SpecialCount), low) = high * (2 * SpecialCount) + low
  /\ \A high \in 0 .. SpecialCount * IndexCount - 1, low \in 0 .. 1 :
       BitOr(high * 2, low) = high * 2 + low

VARIABLES
  value,  (* the word in the field                                         *)
  meant   (* history: what was stored, as the program thinks of it         *)

pointerVars == <<value, meant>>

Words == 0 .. WordCount - 1
null == 0
tagged == 1

\* Faulty: counts a slot for the index that the reserved words take.
EntriesOfAllBits == IndexCount

\* ENTRIES_PER_BIN_COUNT: the bits left for an index, one value of them being
\* taken by null and tagged.
EntriesPerBin == IndexCount - 1

SlotIndices == 0 .. EntriesPerBin - 1
Specials == 0 .. SpecialCount - 1
Bits == {0, 1}
Hashes == [Bits -> Buckets]

\* An expression stored into the word loses the bits that do not fit.
Truncate(x) == x % WordCount

\* Faulty: the special bits overlap the hash bit.
PackUnshifted(index, special, h) ==
  Truncate(BitOr(BitOr((index + 1) * (2 * SpecialCount), special), h))

\* The constructor from an index, special bits and a hash bit.
Pack(index, special, h) ==
  Truncate(BitOr(BitOr((index + 1) * (2 * SpecialCount), special * 2), h))

hash_fn(v) == v % 2
index_of(v) == Truncate(v \div (2 * SpecialCount) - 1)
special_of(v) == (v \div 2) % SpecialCount

\* dereference(): no object, an exception, or the slot the word leads to from
\* the two buckets of the key.
Dereference(v, hashes) ==
  CASE v = null -> <<"nullptr">>
    [] v = tagged -> <<"throws">>
    [] OTHER -> <<hashes[hash_fn(v)], index_of(v)>>

Nothing == [kind |-> "null"]
Tag == [kind |-> "tagged"]
Pointer(index, special, h) ==
  [kind |-> "slot", index |-> index, special |-> special, h |-> h]

---------------------------------------------------------------------------
PointerInit == value = null /\ meant = Nothing

\* A pointer that allocate() returned is stored.
StorePointer(index, special, h) ==
  /\ value' = Pack(index, special, h)
  /\ meant' = Pointer(index, special, h)

Clear == value' = null /\ meant' = Nothing

StoreTag == value' = tagged /\ meant' = Tag

PointerNext ==
  \/ \E index \in SlotIndices, special \in Specials, h \in Bits :
       StorePointer(index, special, h)
  \/ Clear
  \/ StoreTag

PointerSpec == PointerInit /\ [][PointerNext]_pointerVars

---------------------------------------------------------------------------
\* What was stored can be read back, and the special bits, the index and the
\* hash bit do not disturb each other at any width.
ReadsBack ==
  /\ value \in Words
  /\ meant.kind = "slot" =>
       /\ special_of(value) = meant.special
       /\ \A hashes \in Hashes :
            Dereference(value, hashes) = <<hashes[meant.h], meant.index>>

\* A pointer to a slot is never taken for null or tagged, nor they for it.
ReservedWords ==
  /\ value = null <=> meant = Nothing
  /\ value = tagged <=> meant = Tag
===========================================================================
