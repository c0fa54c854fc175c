----------------------------- MODULE ProbeCycle -----------------------------
(***************************************************************************)
(* The loop of lookdict (Objects/dictobject.c) over a table in which       *)
(* nothing stops it, one probe at a time: the walk of DictProbe for every  *)
(* size with a polynomial and every hash that makes a difference.          *)
(***************************************************************************)
EXTENDS DictProbe, FiniteSets

CONSTANTS
  AllHashes   (* bound: the largest size for which every hash is walked;    *)
              (* one hash is walked for the larger sizes                    *)

VARIABLES size, hash, incr, n, slot

vars == <<size, hash, incr, n, slot>>

(* The slot and the first increment depend on the low bits only: those of  *)
(* the mask, and the three above it that are shifted in.                   *)
Hashes(s) == IF s <= AllHashes THEN 0 .. 8 * s - 1 ELSE {5}

Init ==
  /\ size \in ProbeSizes /\ hash \in Hashes(size)
  /\ incr = FirstIncr(hash, size)
  /\ slot = FirstSlot(hash, size) /\ n = 0

(* ep = &ep0[(i + incr) & mask], and the increment of the next probe.      *)
NextProbe ==
  /\ n < size - 1
  /\ n' = n + 1
  /\ slot' = (FirstSlot(hash, size) + incr) % size
  /\ incr' = NextIncr(incr, size)
  /\ UNCHANGED <<size, hash>>

Next == NextProbe

Spec == Init /\ [][Next]_vars

-----------------------------------------------------------------------------
(* What was reduced is odd, as the polynomials are; what was not is even.  *)
PrevIncr(i) == IF i % 2 = 1 THEN (i ^^ PolyOf(size)) \div 2 ELSE i \div 2

(* The increments come back to the first one after size - 1 probes and not *)
(* before, none of them is 0, and each tells the one before it.  So the    *)
(* probes visit every other slot once, from whichever increment they       *)
(* start (CycleVisitsAll), and meet a free slot if there is one.           *)
FullCycle ==
  /\ incr \in 1 .. size - 1
  /\ n > 0 => (incr = FirstIncr(hash, size) <=> n = size - 1)
  /\ PrevIncr(NextIncr(incr, size)) = incr
=============================================================================
