---------------------------- MODULE PalmRecords -----------------------------
(***************************************************************************)
(* Databases, records and buffers as a program sees them                   *)
(* (Modules/palmdmmodule.c, Objects/bufferobject.c,                        *)
(* Modules/palmappsmodule.c).  queryrecord locks the memory of a record    *)
(* and makes a record object with a buffer on that memory; buffers derived *)
(* from it refer to the same memory and to the buffer; release unlocks the *)
(* memory and makes all of them invalid.  Objects are reference counted;   *)
(* one whose count has come to 0 is doomed until _Py_Dealloc has run.      *)
(* The data and memory managers of Palm OS are external, and their calls   *)
(* may fail.                                                               *)
(***************************************************************************)
EXTENDS Naturals, FiniteSets

CONSTANTS
  Databases, RecObjects, Buffers,   (* the objects there is room for        *)
  Handles,                          (* the memory of the records            *)
  None,
  MaxLocks       (* bound: how often the memory of a record gets locked     *)

PyObjects == Databases \cup RecObjects \cup Buffers

ASSUME PalmAssumption ==
  /\ MaxLocks \in Nat /\ None \notin PyObjects \cup Handles
  /\ Databases \cap (RecObjects \cup Buffers) = {} /\ RecObjects \cap Buffers = {}
  /\ IsFiniteSet(RecObjects) /\ IsFiniteSet(Buffers)

VARIABLES
  refcnt,        (* ob_refcnt; 0 for a place where there is no object       *)
  mine,          (* the objects a variable of the program refers to         *)
  doomed,        (* the objects that are being deallocated                  *)
  db,            (* of each database object, has it a DmOpenRef?            *)
  writes,        (* does its mode include dmModeWrite?                      *)
  ob_dm, recbuf, (* of each record object, its database and its buffer      *)
  ptr, base,     (* of each buffer, its memory and the buffer it refers to  *)
  locks,         (* how often each handle is locked                         *)
  leaked,        (* history: locks that nobody can give back any more       *)
  unowned,       (* history: references to a buffer that nobody gives up    *)
  crashed        (* was a closed database given to the data manager?        *)

objVars  == <<refcnt, mine, doomed>>
dbFields == <<db, writes>>
recVars  == <<ob_dm, recbuf>>
bufVars  == <<ptr, base>>
palmVars == <<objVars, dbFields, recVars, bufVars, locks, leaked, unowned, crashed>>

PalmInit ==
  /\ refcnt = [o \in PyObjects |-> 0] /\ mine = {} /\ doomed = {}
  /\ db = [d \in Databases |-> FALSE] /\ writes = [d \in Databases |-> FALSE]
  /\ ob_dm = [r \in RecObjects |-> None] /\ recbuf = [r \in RecObjects |-> None]
  /\ ptr = [b \in Buffers |-> None] /\ base = [b \in Buffers |-> None]
  /\ locks = [h \in Handles |-> 0]
  /\ leaked = [h \in Handles |-> 0] /\ unowned = [b \in Buffers |-> 0]
  /\ crashed = FALSE

-----------------------------------------------------------------------------
(* Objects and references *)

Free(o)  == refcnt[o] = 0 /\ o \notin doomed
Ready    == doomed = {} /\ ~crashed
Calls(o) == Ready /\ o \in mine

(* PyObject_NEW for each of new, with the references to old it takes; the  *)
(* program gets those of got.                                              *)
Create(new, old, got) ==
  /\ refcnt' = [o \in PyObjects |-> IF o \in new THEN 1
                                    ELSE refcnt[o] + (IF o \in old THEN 1 ELSE 0)]
  /\ mine' = mine \cup got
  /\ UNCHANGED doomed

(* Py_DECREF of the objects of os, once each. *)
Decref(os) ==
  /\ refcnt' = [o \in PyObjects |-> IF o \in os THEN refcnt[o] - 1 ELSE refcnt[o]]
  /\ doomed' = (doomed \cup {o \in os : refcnt[o] = 1})

(* The program drops its reference. *)
Drop(o) ==
  /\ Calls(o)
  /\ mine' = mine \ {o}
  /\ Decref({o})
  /\ UNCHANGED <<dbFields, recVars, bufVars, locks, leaked, unowned, crashed>>

-----------------------------------------------------------------------------
(* Databases *)

(* mode_s is not initialised when open is called without a mode: any mode. *)
open(d) ==
  /\ Ready /\ Free(d)
  /\ Create({d}, {}, {d})
  /\ db' = [db EXCEPT ![d] = TRUE]
  /\ \E w \in BOOLEAN : writes' = [writes EXCEPT ![d] = w]
  /\ UNCHANGED <<recVars, bufVars, locks, leaked, unowned, crashed>>

(* An error of DmCloseDatabase is raised, and the database stays open.     *)
close(d) ==
  /\ Calls(d) /\ db[d]
  /\ db' = [db EXCEPT ![d] = FALSE]
  /\ UNCHANGED <<objVars, writes, recVars, bufVars, locks, leaked, unowned, crashed>>

palmdb_dealloc(d) ==
  /\ d \in doomed
  /\ doomed' = doomed \ {d}
  /\ db' = [db EXCEPT ![d] = FALSE] /\ writes' = [writes EXCEPT ![d] = FALSE]
  /\ UNCHANGED <<refcnt, mine, recVars, bufVars, locks, leaked, unowned, crashed>>

-----------------------------------------------------------------------------
(* Records *)

(* newrectype: the record object owns the buffer.                          *)
NewRecord(d, r, b) ==
  /\ Create({r, b}, {d}, {r})
  /\ ob_dm' = [ob_dm EXCEPT ![r] = d] /\ recbuf' = [recbuf EXCEPT ![r] = b]
  /\ UNCHANGED leaked

(* Without memory for the buffer or the record object queryrecord returns; *)
(* the record stays locked and the buffer, if there is one, unowned.       *)
NoRecord(b, h) ==
  /\ \/ UNCHANGED <<objVars, ptr, unowned>>
     \/ /\ Create({b}, {}, {})
        /\ ptr' = [ptr EXCEPT ![b] = h] /\ unowned' = [unowned EXCEPT ![b] = 1]
  /\ leaked' = [leaked EXCEPT ![h] = @ + 1]
  /\ UNCHANGED recVars

queryrecord(d, h, r, b) ==
  /\ Calls(d) /\ db[d] /\ Free(r) /\ Free(b) /\ locks[h] < MaxLocks
  /\ locks' = [locks EXCEPT ![h] = @ + 1]
  /\ \/ /\ NewRecord(d, r, b)
        /\ ptr' = [ptr EXCEPT ![b] = h] /\ UNCHANGED unowned
     \/ NoRecord(b, h)
  /\ UNCHANGED <<dbFields, base, crashed>>

(* queryrecord alone does not test whether the database is closed.         *)
QueryClosed(d) ==
  /\ Calls(d) /\ ~db[d]
  /\ crashed' = TRUE
  /\ UNCHANGED <<objVars, dbFields, recVars, bufVars, locks, leaked, unowned>>

IsBase(b)  == base[b] = None
IsValid(b) == \A c \in {b, base[b]} \ {None} : ptr[c] # None

(* Mutant: the buffer is made invalid before it is used to unlock.         *)
UnlockInvalid(r) ==
  /\ ptr' = [ptr EXCEPT ![recbuf[r]] = None]
  /\ UNCHANGED locks

(* MemPtrUnlock, whose failure leaves the buffer valid, and Invalidate.    *)
UnlockRecord(r) ==
  \/ /\ locks' = [locks EXCEPT ![ptr[recbuf[r]]] = @ - 1]
     /\ ptr' = [ptr EXCEPT ![recbuf[r]] = None]
  \/ UNCHANGED <<locks, ptr>>

(* A database opened for writing has the record released as well, which    *)
(* may fail, although queryrecord only looked at it.                       *)
release(r) ==
  /\ Calls(r) /\ IsValid(recbuf[r])
  /\ IF writes[ob_dm[r]] /\ ~db[ob_dm[r]]
     THEN crashed' = TRUE /\ UNCHANGED <<ptr, locks>>
     ELSE /\ UNCHANGED crashed
          /\ \/ UnlockRecord(r)
             \/ writes[ob_dm[r]] /\ UNCHANGED <<ptr, locks>>
  /\ UNCHANGED <<objVars, dbFields, recVars, base, leaked, unowned>>

(* A record object that was not released leaves its memory locked.         *)
palmrec_dealloc(r) ==
  /\ r \in doomed
  /\ LET gone == {ob_dm[r], recbuf[r]} IN
       /\ refcnt' = [o \in PyObjects |-> IF o \in gone THEN refcnt[o] - 1 ELSE refcnt[o]]
       /\ doomed' = (doomed \cup {o \in gone : refcnt[o] = 1}) \ {r}
  /\ leaked' = IF ptr[recbuf[r]] = None THEN leaked
               ELSE [leaked EXCEPT ![ptr[recbuf[r]]] = @ + 1]
  /\ ob_dm' = [ob_dm EXCEPT ![r] = None] /\ recbuf' = [recbuf EXCEPT ![r] = None]
  /\ UNCHANGED <<mine, dbFields, bufVars, locks, unowned, crashed>>

-----------------------------------------------------------------------------
(* Buffers *)

getbuffer(r) ==
  /\ Calls(r) /\ recbuf[r] \notin mine
  /\ Create({}, {recbuf[r]}, {recbuf[r]})
  /\ UNCHANGED <<dbFields, recVars, bufVars, locks, leaked, unowned, crashed>>

(* Mutant: a buffer on a derived buffer refers to that one.                *)
RootDirect(b) == b

(* A buffer on a buffer that is not a base refers to the base of that one. *)
Root(b) == IF IsBase(b) THEN b ELSE base[b]

(* PyBuffer_FromObject, for buffer() and for the parts of a memo, an       *)
(* address, an appointment or a task.  palmapps.datebook and todo give the *)
(* reference to a tuple that counts its own, and never give up theirs.     *)
Derive(b, new) ==
  /\ Calls(b) /\ IsValid(b) /\ Free(new)
  /\ ptr' = [ptr EXCEPT ![new] = ptr[b]] /\ base' = [base EXCEPT ![new] = Root(b)]
  /\ \E more \in {0, 1} :
       /\ refcnt' = [refcnt EXCEPT ![new] = 1 + more, ![Root(b)] = @ + 1]
       /\ unowned' = [unowned EXCEPT ![new] = more]
  /\ mine' = mine \cup {new} /\ UNCHANGED doomed

MakeBuffer(b, new) ==
  /\ Derive(b, new)
  /\ UNCHANGED <<dbFields, recVars, locks, leaked, crashed>>

buffer_dealloc(b) ==
  /\ b \in doomed
  /\ LET gone == {base[b]} \ {None} IN
       /\ refcnt' = [o \in PyObjects |-> IF o \in gone THEN refcnt[o] - 1 ELSE refcnt[o]]
       /\ doomed' = (doomed \cup {o \in gone : refcnt[o] = 1}) \ {b}
  /\ ptr' = [ptr EXCEPT ![b] = None] /\ base' = [base EXCEPT ![b] = None]
  /\ UNCHANGED <<mine, dbFields, recVars, locks, leaked, unowned, crashed>>

-----------------------------------------------------------------------------
PalmNext ==
  \/ \E o \in PyObjects : Drop(o)
  \/ \E d \in Databases : open(d) \/ close(d) \/ palmdb_dealloc(d) \/ QueryClosed(d)
  \/ \E d \in Databases, h \in Handles, r \in RecObjects, b \in Buffers :
       queryrecord(d, h, r, b)
  \/ \E r \in RecObjects : release(r) \/ palmrec_dealloc(r) \/ getbuffer(r)
  \/ \E b \in Buffers : buffer_dealloc(b) \/ \E new \in Buffers : MakeBuffer(b, new)

PalmSpec == PalmInit /\ [][PalmNext]_palmVars

-----------------------------------------------------------------------------
(* Properties *)

Exists(o) == refcnt[o] > 0
References(o) ==
  (IF o \in mine THEN 1 ELSE 0)
  + Cardinality({r \in RecObjects : ob_dm[r] = o}) + Cardinality({r \in RecObjects : recbuf[r] = o})
  + Cardinality({b \in Buffers : base[b] = o})
  + (IF o \in Buffers THEN unowned[o] ELSE 0)

PalmTypeOK ==
  /\ refcnt \in [PyObjects -> Nat] /\ mine \subseteq PyObjects /\ doomed \subseteq PyObjects
  /\ db \in [Databases -> BOOLEAN] /\ writes \in [Databases -> BOOLEAN]
  /\ ob_dm \in [RecObjects -> Databases \cup {None}]
  /\ recbuf \in [RecObjects -> Buffers \cup {None}]
  /\ ptr \in [Buffers -> Handles \cup {None}] /\ base \in [Buffers -> Buffers \cup {None}]
  /\ locks \in [Handles -> 0 .. MaxLocks] /\ leaked \in [Handles -> 0 .. MaxLocks]
  /\ unowned \in [Buffers -> 0 .. 1] /\ crashed \in BOOLEAN

(* Every object is counted as often as it is referred to, so none goes     *)
(* away under a record, a buffer or the program that still uses it, in     *)
(* whatever order they are dropped, and all is freed that is not leaked;   *)
(* all fields keep their types.                                            *)
ObjectsAreCounted ==
  /\ PalmTypeOK
  /\ \A o \in PyObjects : refcnt[o] = References(o)
  /\ \A o \in doomed : ~Exists(o)

(* A buffer that its methods take for valid, derived any number of times,  *)
(* is on memory that is locked: it has not moved and nobody else has it.   *)
ValidIsLocked == \A b \in Buffers : IsValid(b) => locks[ptr[b]] > 0

(* The memory of a record is locked once for every record object with a    *)
(* valid buffer, and by the objects that were dropped without a release or *)
(* could not be made; closing the database and failing calls change        *)
(* nothing about it.                                                       *)
LocksAreReturned ==
  \A h \in Handles :
    locks[h] = leaked[h] + Cardinality({r \in RecObjects : recbuf[r] # None /\ ptr[recbuf[r]] = h})

(* What a program takes, references to objects and locks of records, is    *)
(* given back once, in whatever order objects are dropped and closed.      *)
EverythingIsReturned == ObjectsAreCounted /\ LocksAreReturned
=============================================================================
