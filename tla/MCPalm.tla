------------------------------- MODULE MCPalm -------------------------------
(* Two databases, two record objects on two records, and three buffers.    *)
EXTENDS PalmRecords, TLC

MCSymmetry == Permutations(Databases) \cup Permutations(RecObjects)
              \cup Permutations(Buffers) \cup Permutations(Handles)
=============================================================================
