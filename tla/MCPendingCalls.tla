--------------------------- MODULE MCPendingCalls ---------------------------
(* Small instances of PendingCalls for TLC. *)
EXTENDS PendingCalls, TLC

Symmetric == Permutations(Registrars) \cup Permutations(Calls)
=============================================================================
