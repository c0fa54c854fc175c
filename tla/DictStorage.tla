---------------------------- MODULE DictStorage -----------------------------
(***************************************************************************)
(* Where the tables of dictionaries live in the Palm port                  *)
(* (Objects/dictobject.c with PALMDM_DICT_OBJECTS): a table of more than   *)
(* 16 slots is a record of the scratch database, a smaller one a block of  *)
(* the heap, and the field db_index is all that tells the two apart.       *)
(*                                                                         *)
(* PyDict_Clear and dict_dealloc release the entries first and the table   *)
(* after; the destructors that they run are arbitrary code, which uses,    *)
(* clears and deallocates dictionaries in turn.                            *)
(***************************************************************************)
EXTENDS DbMem, Integers, Sequences

CONSTANTS
  Dicts,         (* the dictionaries                                        *)
  Blocks,        (* the blocks of the heap that tables take                 *)
  MaxActive,     (* bound: how deep destructors nest                        *)
  MallocFails,   (* may the allocation of a table on the heap fail?         *)
  SelfReenters   (* may a destructor use a dictionary that is being cleared?*)

ASSUME StorageAssumption ==
  /\ NULL \notin Records \cup Blocks \cup Dicts /\ Records \cap Blocks = {}
  /\ MaxActive \in Nat
  /\ MallocFails \in BOOLEAN /\ SelfReenters \in BOOLEAN

VARIABLES
  alive,     (* the dictionaries in use                                     *)
  table,     (* ma_table of each dictionary                                 *)
  db_index,  (* its db_index, NULL for 0                                    *)
  active,    (* the calls of PyDict_Clear and dict_dealloc under way: the   *)
             (* dictionary, and the table that the call is to free          *)
  heap,      (* the blocks that are allocated                               *)
  fault,     (* has the program corrupted memory?                           *)
  misled     (* history: the dictionaries whose db_index was changed while  *)
             (* a table remained that only its old value told the place of  *)

dictVars == <<alive, table, db_index, active, heap, fault, misled>>
vars == <<dbVars, dictVars>>

NoDicts ==
  /\ alive = {} /\ active = <<>> /\ heap = {} /\ fault = FALSE /\ misled = {}
  /\ table = [d \in Dicts |-> NULL] /\ db_index = [d \in Dicts |-> NULL]

Init == DbInit /\ NoDicts

-----------------------------------------------------------------------------
(* Freeing a table *)

(* The table t is freed the way that the index i tells; rs and h are the   *)
(* records and blocks that exist at that point.                            *)
FreeTable(t, i, rs, h) ==
  \/ /\ t \in h /\ i = NULL            (* PyMem_XDEL(t) *)
     /\ heap' = h \ {t} /\ records' = rs
     /\ UNCHANGED fault
  \/ /\ t \in rs /\ i # NULL           (* dbmem_deleteentry(i, t) *)
     /\ records' \in Without(rs, i) /\ heap' = h
     /\ UNCHANGED fault
  \/ /\ t = NULL
     /\ heap' = h /\ records' = rs
     /\ UNCHANGED fault
  \/ /\ t # NULL /\ t \notin IF i = NULL THEN h ELSE rs
     /\ heap' = h /\ records' = rs
     /\ fault' = TRUE

-----------------------------------------------------------------------------
(* The operations of Python code *)

Cleared == {active[k].d : k \in DOMAIN active}
Running == session = "running" /\ ~fault
Mislead(d, event) == misled' = IF event THEN misled \cup {d} ELSE misled
May(d)  == Running /\ d \in alive /\ (d \in Cleared => SelfReenters)

PyDict_New(d) ==
  /\ Running /\ d \notin alive \cup Cleared
  /\ alive' = alive \cup {d}
  /\ table' = [table EXCEPT ![d] = NULL]
  /\ db_index' = [db_index EXCEPT ![d] = NULL]
  /\ UNCHANGED <<dbVars, active, heap, fault, misled>>

(* Mutant: db_index is read again when the old table is freed.             *)
ResizeToRecordRereads(d) ==
  /\ May(d)
  /\ \E r \in Records :
       /\ CanCreate(r)
       /\ table' = [table EXCEPT ![d] = r]
       /\ db_index' = [db_index EXCEPT ![d] = r]
       /\ FreeTable(table[d], r, records \cup {r}, heap)
  /\ Mislead(d, d \in Cleared)
  /\ UNCHANGED <<session, exists, stringdb_ref, alive, active>>

(* dictresize to a table of more than 16 slots.  For a dictionary that is  *)
(* being cleared db_index is now that of the new table, also when the call *)
(* that clears comes to free the old one.                                  *)
ResizeToRecord(d) ==
  /\ May(d)
  /\ \E r \in Records :
       /\ CanCreate(r)
       /\ table' = [table EXCEPT ![d] = r]
       /\ db_index' = [db_index EXCEPT ![d] = r]
       /\ FreeTable(table[d], db_index[d], records \cup {r}, heap)
  /\ Mislead(d, d \in Cleared)
  /\ UNCHANGED <<session, exists, stringdb_ref, alive, active>>

(* Mutant: db_index keeps the record of the old table.                     *)
ResizeToBlockKeepsIndex(d) ==
  /\ May(d)
  /\ \E b \in Blocks \ heap :
       /\ table' = [table EXCEPT ![d] = b]
       /\ FreeTable(table[d], db_index[d], records, heap \cup {b})
  /\ UNCHANGED <<session, exists, stringdb_ref, alive, db_index, active, misled>>

(* dictresize to a table of at most 16 slots. *)
ResizeToBlock(d) ==
  /\ May(d)
  /\ \E b \in Blocks \ heap :
       /\ table' = [table EXCEPT ![d] = b]
       /\ db_index' = [db_index EXCEPT ![d] = NULL]
       /\ FreeTable(table[d], db_index[d], records, heap \cup {b})
  /\ Mislead(d, d \in Cleared /\ db_index[d] # NULL)
  /\ UNCHANGED <<session, exists, stringdb_ref, alive, active>>

(* malloc answers NULL; db_index is 0 already, the old table remains, be   *)
(* it in the database, and so does one that a call is about to free.  A    *)
(* record that cannot be created leaves everything as it was.              *)
ResizeFails(d) ==
  /\ May(d) /\ MallocFails
  /\ db_index' = [db_index EXCEPT ![d] = NULL]
  /\ Mislead(d, db_index[d] # NULL /\ (table[d] # NULL \/ d \in Cleared))
  /\ UNCHANGED <<dbVars, alive, table, active, heap, fault>>

(* insertdict and PyDict_DelItem write an entry through dbmem_write or     *)
(* directly; either is fatal in the other kind of memory.                  *)
WriteEntry(d) ==
  /\ May(d) /\ table[d] # NULL
  /\ fault' = (table[d] \notin IF db_index[d] = NULL THEN heap ELSE records)
  /\ UNCHANGED <<dbVars, alive, table, db_index, active, heap, misled>>

(* PyDict_Clear up to the first of its Py_XDECREFs, which may run          *)
(* destructors: the dictionary is empty before any of them.                *)
ClearStarts(d) ==
  /\ May(d) /\ table[d] # NULL /\ Len(active) < MaxActive
  /\ active' = Append(active, [d |-> d, t |-> table[d]])
  /\ table' = [table EXCEPT ![d] = NULL]
  /\ UNCHANGED <<dbVars, alive, db_index, heap, fault, misled>>

(* dict_dealloc: nothing refers to the dictionary any more.  The caller of *)
(* PyDict_Clear does until that returns.                                   *)
DeallocStarts(d) ==
  /\ Running /\ d \in alive \ Cleared /\ Len(active) < MaxActive
  /\ alive' = alive \ {d}
  /\ active' = Append(active, [d |-> d, t |-> table[d]])
  /\ table' = [table EXCEPT ![d] = NULL]
  /\ UNCHANGED <<dbVars, db_index, heap, fault, misled>>

(* The last entry is released: the table is freed as mp->db_index tells    *)
(* now.                                                                    *)
FreeCleared ==
  /\ Running /\ active # <<>>
  /\ LET last == active[Len(active)]
     IN  FreeTable(last.t, db_index[last.d], records, heap)
  /\ active' = SubSeq(active, 1, Len(active) - 1)
  /\ UNCHANGED <<session, exists, stringdb_ref, alive, table, db_index, misled>>

-----------------------------------------------------------------------------
(* Sessions *)

(* The process ends, or no dictionary is used again in it. *)
Forget ==
  /\ alive' = {} /\ active' = <<>> /\ heap' = {} /\ fault' = FALSE /\ misled' = {}
  /\ table' = [d \in Dicts |-> NULL] /\ db_index' = [d \in Dicts |-> NULL]

Use(d) == \/ PyDict_New(d) \/ ResizeToRecord(d) \/ ResizeToBlock(d)
          \/ ResizeFails(d) \/ WriteEntry(d)
          \/ ClearStarts(d) \/ DeallocStarts(d)

Session == \/ (InitSteps \/ FiniSteps) /\ UNCHANGED dictVars
           \/ Running /\ active = <<>> /\ Finalize /\ Forget
           \/ Reset /\ Forget

Next == (\E d \in Dicts : Use(d)) \/ FreeCleared \/ Session

Spec == Init /\ [][Next]_vars
-----------------------------------------------------------------------------
(* Properties *)

Call == [d : Dicts, t : Records \cup Blocks \cup {NULL}]

TypeOK ==
  /\ session \in {"off", "creating", "opening", "running", "closing", "deleting"}
  /\ exists \in BOOLEAN /\ stringdb_ref \in BOOLEAN /\ records \subseteq Records
  /\ stringdb_ref => exists /\ session \in {"running", "closing"}
  /\ records # {} => exists
  /\ alive \subseteq Dicts /\ heap \subseteq Blocks /\ fault \in BOOLEAN
  /\ misled \subseteq Dicts
  /\ table \in [Dicts -> Records \cup Blocks \cup {NULL}]
  /\ db_index \in [Dicts -> Records \cup {NULL}]
  /\ active \in Seq(Call) /\ Len(active) <= MaxActive
  /\ \A k \in DOMAIN active : active[k].d \in alive => active[k].t # NULL

(* The tables that the program has a use for: those of the dictionaries,   *)
(* and those that calls under way are going to free.                       *)
InUse == ({table[d] : d \in Dicts} \cup {active[k].t : k \in DOMAIN active})
         \ {NULL}

(* A block or record that nobody uses has been freed; the records that a   *)
(* session which ended in a reset left in the database are gone before the *)
(* next session uses it.                                                   *)
Intact == Running /\ misled = {}
NothingLeaks ==
  Intact => heap \cup (IF stringdb_ref THEN records ELSE {}) \subseteq InUse

(* Until a dictionary is misled, every table in use is allocated and       *)
(* belongs to one dictionary or one call only: none is freed while it is   *)
(* used, none is freed twice and none is forgotten, whatever destructors   *)
(* use, resize, clear and deallocate, the dictionaries being cleared       *)
(* included.                                                               *)
OwnedOnce ==
  Intact =>
    /\ InUse \subseteq heap \cup records
    /\ \A d, e \in Dicts : d # e /\ table[d] = table[e] => table[d] = NULL
    /\ \A k \in DOMAIN active, d \in Dicts :
         active[k].t = table[d] => table[d] = NULL
    /\ \A j, k \in DOMAIN active :
         j # k /\ active[j].t = active[k].t => active[k].t = NULL
    /\ NothingLeaks

(* db_index is the record that a table is, and 0 for a table in the heap:  *)
(* for every dictionary and, because PyDict_Clear and dict_dealloc read it *)
(* after they have run the destructors, for every table that a call is     *)
(* about to free.  There are two exceptions and no third: malloc failed    *)
(* for the smaller table of a dictionary whose table is in the database;   *)
(* and a destructor gave a dictionary that was being cleared another       *)
(* table, or tried to, while one of the two is in the database.  No entry  *)
(* is written and no table freed the wrong way before one of them.         *)
Tells(i, t) == IF t \in Records THEN i = t ELSE i = NULL
IndexTellsTheTable ==
  /\ \A d \in Dicts \ misled : table[d] # NULL => Tells(db_index[d], table[d])
  /\ \A k \in DOMAIN active :
       active[k].d \notin misled /\ active[k].t # NULL
         => Tells(db_index[active[k].d], active[k].t)
  /\ fault => misled # {}

(* Every entry is written, and every table freed, by the functions for the *)
(* kind of memory that it is in.                                           *)
NeverFaults == ~fault
=============================================================================
