------------------------------- MODULE DbMem --------------------------------
(***************************************************************************)
(* The scratch database of the Palm port (Palm/PalmGlue/dbmem.c): opened   *)
(* by python_init, emptied of what a session that ended in a reset left    *)
(* behind, and deleted by python_finalize.  The data manager of Palm OS is *)
(* external: a call of it that may fail fails at any time.                 *)
(*                                                                         *)
(* A reset of the device is possible at any time; the database outlives    *)
(* it, the variables of the program do not.                                *)
(***************************************************************************)
EXTENDS FiniteSets

CONSTANTS
  Records,   (* the unique ids of the records of a database                 *)
  NULL       (* no record, no pointer, 0 in the field db_index              *)

VARIABLES
  session,       (* what the program is at: "off", "creating" and "opening" *)
                 (* in dbmem_init, "running", "closing" and "deleting" in   *)
                 (* dbmem_fini                                              *)
  exists,        (* is there a database PyLb-InternedStrings?               *)
  stringdb_ref,  (* has the program opened it?                              *)
  records        (* the records in it                                       *)

dbVars == <<session, exists, stringdb_ref, records>>

DbInit == /\ session = "off" /\ exists = FALSE /\ stringdb_ref = FALSE
          /\ records = {}

-----------------------------------------------------------------------------
(* dbmem_init *)

Launch == /\ session = "off" /\ session' = "creating"
          /\ UNCHANGED <<exists, stringdb_ref, records>>

(* A database that is already there is deleted, and dbmem_init called anew.*)
CreateDatabase ==
  /\ session = "creating"
  /\ IF exists
     THEN exists' = FALSE /\ records' = {} /\ UNCHANGED session
     ELSE exists' = TRUE /\ session' = "opening" /\ UNCHANGED records
  /\ UNCHANGED stringdb_ref

OpenDatabase ==
  /\ session = "opening"
  /\ stringdb_ref' = TRUE /\ session' = "running"
  /\ UNCHANGED <<exists, records>>

(* python_init prints a message and goes on without a database.            *)
InitFails ==
  /\ session \in {"creating", "opening"} /\ session' = "running"
  /\ UNCHANGED <<exists, stringdb_ref, records>>

-----------------------------------------------------------------------------
(* dbmem_fini, after Py_Finalize *)

Finalize == /\ session = "running" /\ session' = "closing"
            /\ UNCHANGED <<exists, stringdb_ref, records>>

CloseDatabase ==
  /\ session = "closing"
  /\ session' = IF stringdb_ref THEN "deleting" ELSE "off"
  /\ stringdb_ref' = FALSE
  /\ UNCHANGED <<exists, records>>

(* The answer of DmDeleteDatabase is ignored. *)
DeleteDatabase ==
  /\ session = "deleting" /\ session' = "off"
  /\ \/ exists' = FALSE /\ records' = {}
     \/ UNCHANGED <<exists, records>>
  /\ UNCHANGED stringdb_ref

Reset == /\ session' = "off" /\ stringdb_ref' = FALSE
         /\ UNCHANGED <<exists, records>>

InitSteps == Launch \/ CreateDatabase \/ OpenDatabase \/ InitFails
FiniSteps == CloseDatabase \/ DeleteDatabase

-----------------------------------------------------------------------------
(* dbmem_createentry and dbmem_deleteentry, as steps of their callers *)

CanCreate(r) == stringdb_ref /\ r \in Records \ records

(* The database after dbmem_deleteentry(r, recP) on the database rs: when  *)
(* it has no record r, the index of the record to remove was never set.    *)
Without(rs, r) ==
  IF ~stringdb_ref THEN {rs}
  ELSE IF r \in rs THEN {rs \ {r}}
  ELSE {rs} \cup {rs \ {x} : x \in rs}
=============================================================================
