------------------------------- MODULE Bitmap -------------------------------
(***************************************************************************)
(* The bitmap of lib/bitmap.cc, packed into words of BitsInWord bits.      *)
(* ProcessTable, SemaphoreTable and FileSystem use the set of marked bits. *)
(***************************************************************************)
EXTENDS Integers, FiniteSets, FiniteSetsExt

CONSTANTS
  BitsInWord,
  NumBits    \* numBits, at least one

ASSUME BitmapAssumption == BitsInWord \in Nat \ {0} /\ NumBits \in Nat \ {0}

NumWords == NumBits \div BitsInWord + (IF NumBits % BitsInWord > 0 THEN 1 ELSE 0)
Bit == 0 .. NumBits - 1

VARIABLES
  map,    \* the words
  marked, \* history: the bits that should be set
  found   \* what the last FindAndSet returned, and what it should have

bvars == <<map, marked, found>>

BInit ==
  /\ map = [w \in 0 .. NumWords - 1 |-> 0]
  /\ marked = {}
  /\ found = <<-1, -1>>

(* map[which / BitsInWord] & (1 << (which % BitsInWord)) *)
Test(which) == (map[which \div BitsInWord] \div 2^(which % BitsInWord)) % 2 = 1

(* Mutant: the shift forgets the remainder. *)
MarkInFirst(which) ==
  [map EXCEPT ![which \div BitsInWord] = IF Test(which) THEN @ ELSE @ + 2^(which \div BitsInWord)]

(* |= and &= with a mask of one bit: the bit is added or taken away if need be. *)
Mark(which) ==
  [map EXCEPT ![which \div BitsInWord] = IF Test(which) THEN @ ELSE @ + 2^(which % BitsInWord)]

Clear(which) ==
  [map EXCEPT ![which \div BitsInWord] = IF Test(which) THEN @ - 2^(which % BitsInWord) ELSE @]

ClearBits == {i \in Bit : ~Test(i)}
NumClear == Cardinality(ClearBits)
FirstOf(bits) == IF bits = {} THEN -1 ELSE Min(bits)

BitmapMark(which) ==
  /\ map' = Mark(which)
  /\ marked' = marked \cup {which}
  /\ UNCHANGED found

BitmapClear(which) ==
  /\ map' = Clear(which)
  /\ marked' = marked \ {which}
  /\ UNCHANGED found

(* Bitmap::FindAndSet *)
BitmapFindAndSet ==
  LET i == FirstOf(ClearBits)
  IN  /\ map' = IF i = -1 THEN map ELSE Mark(i)
      /\ found' = <<i, FirstOf(Bit \ marked)>>
      /\ marked' = marked \cup ({FirstOf(Bit \ marked)} \ {-1})

BNext == BitmapFindAndSet \/ \E i \in Bit : BitmapMark(i) \/ BitmapClear(i)

BSpec == BInit /\ [][BNext]_bvars

-----------------------------------------------------------------------------
(* The words are the set of marked bits, also at the borders of a word and in a last    *)
(* word that is only partly used: Test, NumClear and FindAndSet agree with the set, and *)
(* a word never leaves its width (bitmap.cc Mark, Clear, FindAndSet, NumClear).         *)
BitmapIsSet ==
  /\ {i \in Bit : Test(i)} = marked
  /\ NumClear = NumBits - Cardinality(marked)
  /\ found[1] = found[2]
  /\ \A w \in DOMAIN map : map[w] \in 0 .. 2^BitsInWord - 1
=============================================================================
