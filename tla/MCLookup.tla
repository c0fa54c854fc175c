------------------------------ MODULE MCLookup ------------------------------
(* The table with its probe sequence at size 8, and beside it the walk of  *)
(* lookdict over tables of every size in which nothing stops it; a         *)
(* behaviour is one of the two.                                            *)
EXTENDS MCDict

CONSTANTS MaxLog, AllHashes

VARIABLES walkSize, walkHash, incr, steps, walkSlot

walkVars == <<walkSize, walkHash, incr, steps, walkSlot>>

Walk == INSTANCE ProbeCycle
          WITH size <- walkSize, hash <- walkHash, n <- steps, slot <- walkSlot

NoWalk == walkSize = 0

MCInit == /\ Init
          /\ \/ Walk!Init
             \/ walkSize = 0 /\ walkHash = 0 /\ incr = 0 /\ steps = 0 /\ walkSlot = 0

MCNext == \/ NoWalk /\ Next /\ UNCHANGED walkVars
          \/ ~NoWalk /\ Walk!Next /\ UNCHANGED vars

MCSpec == MCInit /\ [][MCNext]_<<vars, walkVars>>

(* After size - 1 probes, and not before, the increments of lookdict are   *)
(* at the first one again, for every size and hash: the probes have then   *)
(* visited every other slot once, and met a free one if there was one.     *)
FullCycle == NoWalk \/ Walk!FullCycle
=============================================================================
