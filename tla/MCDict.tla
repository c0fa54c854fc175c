-------------------------------- MODULE MCDict -------------------------------
(* Small instances of DictTable. *)
EXTENDS DictTable, MCKeys
=============================================================================
