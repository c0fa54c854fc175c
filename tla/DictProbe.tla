------------------------------ MODULE DictProbe -----------------------------
(***************************************************************************)
(* The probe sequence of lookdict (Objects/dictobject.c): the increments   *)
(* cycle through GF(2^n)-{0}, by shifting and reducing with an irreducible *)
(* polynomial.                                                             *)
(***************************************************************************)
EXTENDS Integers, Sequences, Bitwise

CONSTANTS MaxLog   (* bound: tables of up to MINSIZE * 2^MaxLog slots *)

MINSIZE == 4

(* Mutant: x^8 + x^4 + x^3 + x + 1 for the tables of 256 slots, which is   *)
(* irreducible, but shifting does not generate all increments.             *)
polysNotPrimitive ==
  <<4 + 3, 8 + 3, 16 + 3, 32 + 5, 64 + 3, 128 + 3, 256 + 27, 512 + 17,
    1024 + 9, 2048 + 5, 4096 + 83, 8192 + 27, 16384 + 43>>

polys == <<4 + 3, 8 + 3, 16 + 3, 32 + 5, 64 + 3, 128 + 3, 256 + 29, 512 + 17,
           1024 + 9, 2048 + 5, 4096 + 83, 8192 + 27, 16384 + 43>>

(* dictresize: sizes are MINSIZE doubled, each with its polynomial. *)
SizeOf(i) == MINSIZE * 2 ^ i
ProbeSizes == {SizeOf(j) : j \in 0 .. MaxLog}
PolyOf(size) == polys[1 + CHOOSE j \in 0 .. Len(polys) - 1 : SizeOf(j) = size]

(* i = (~hash) & mask *)
FirstSlot(hash, size) == (size - 1) - (hash % size)

(* incr = (hash ^ (hash >> 3)) & mask, mask when that is 0 *)
FirstIncr(hash, size) ==
  LET incr == (hash ^^ (hash \div 8)) % size
  IN  IF incr = 0 THEN size - 1 ELSE incr

(* incr <<= 1; if (incr > mask) incr ^= poly *)
NextIncr(incr, size) ==
  IF 2 * incr > size - 1 THEN (2 * incr) ^^ PolyOf(size) ELSE 2 * incr

GFProbe(hash, size, n) ==
  LET incr[m \in 1 .. n] ==
        IF m = 1 THEN FirstIncr(hash, size) ELSE NextIncr(incr[m - 1], size)
  IN  IF n = 0 THEN FirstSlot(hash, size)
      ELSE (FirstSlot(hash, size) + incr[n]) % size

=============================================================================
