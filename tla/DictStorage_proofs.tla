------------------------- MODULE DictStorage_proofs -------------------------
(***************************************************************************)
(* Proofs about DictStorage, for any number of dictionaries and any nesting*)
(* of destructors: db_index tells what the table of a dictionary is, but   *)
(* for the two cases that mislead it, and until one of them every table    *)
(* has one owner and is written and freed the right way.                   *)
(***************************************************************************)
EXTENDS DictStorage, SequenceTheorems, TLAPS

Pointers == Records \cup Blocks \cup {NULL}
Sessions == {"off", "creating", "opening", "running", "closing", "deleting"}

-----------------------------------------------------------------------------
(* Types, and what a session leaves to the next *)

TypeInv ==
  /\ session \in Sessions
  /\ exists \in BOOLEAN /\ stringdb_ref \in BOOLEAN /\ records \subseteq Records
  /\ alive \subseteq Dicts /\ heap \subseteq Blocks /\ fault \in BOOLEAN
  /\ table \in [Dicts -> Pointers]
  /\ db_index \in [Dicts -> Records \cup {NULL}]
  /\ active \in Seq(Call) /\ misled \subseteq Dicts

SessionInv ==
  /\ stringdb_ref => exists /\ session \in {"running", "closing"}
  /\ records # {} => exists
  /\ session = "opening" => exists /\ records = {}
  /\ session # "running" => NoDicts

CallInv ==
  /\ Len(active) <= MaxActive
  /\ \A k \in 1 .. Len(active) : active[k].d \in alive => active[k].t # NULL
  /\ \A d \in Dicts \ alive : table[d] = NULL

LEMMA Pushing ==
  ASSUME active \in Seq(Call), NEW d \in Dicts, NEW t \in Pointers,
         active' = Append(active, [d |-> d, t |-> t])
  PROVE  /\ active' \in Seq(Call) /\ Len(active) \in Nat
         /\ Len(active') = Len(active) + 1
         /\ \A k \in 1 .. Len(active) : active'[k] = active[k]
         /\ active'[Len(active) + 1] = [d |-> d, t |-> t]
<1> DEFINE new == [d |-> d, t |-> t]
<1>1. new \in Call
  BY DEF Call, Pointers
<1> HIDE DEF new
<1>2. active' = Append(active, new)
  BY DEF new
<1>3. /\ active' \in Seq(Call) /\ Len(active') = Len(active) + 1
      /\ \A k \in 1 .. Len(active) : active'[k] = active[k]
      /\ active'[Len(active) + 1] = new
  BY <1>1, <1>2, AppendProperties
<1>4. QED BY <1>3, LenProperties DEF new

LEMMA Popping ==
  ASSUME active \in Seq(Call), active # <<>>,
         active' = SubSeq(active, 1, Len(active) - 1)
  PROVE  /\ active' \in Seq(Call) /\ Len(active) \in Nat /\ Len(active) > 0
         /\ Len(active') = Len(active) - 1
         /\ \A k \in 1 .. Len(active') : active'[k] = active[k]
         /\ active[Len(active)] \in Call
<1> DEFINE n == Len(active) - 1
<1>1. Len(active) \in Nat /\ Len(active) > 0 /\ active \in [1 .. Len(active) -> Call]
  BY EmptySeq, LenProperties
<1>2. n \in Nat /\ \A k \in 1 .. n : active[k] \in Call
  BY <1>1
<1>3. active' = SubSeq(active, 1, n)
  OBVIOUS
<1>4. active[Len(active)] \in Call
  BY <1>1
<1> HIDE DEF n
<1>5. /\ SubSeq(active, 1, n) \in Seq(Call)
      /\ Len(SubSeq(active, 1, n)) = IF 1 <= n THEN n - 1 + 1 ELSE 0
      /\ \A k \in 1 .. n - 1 + 1 : SubSeq(active, 1, n)[k] = active[1 + k - 1]
  BY <1>2, SubSeqProperties
<1>6. Len(active') = n /\ \A k \in 1 .. n : active'[k] = active[k]
  BY <1>2, <1>3, <1>5
<1>7. QED BY <1>1, <1>3, <1>4, <1>5, <1>6 DEF n

LEMMA FreeTypes ==
  ASSUME NEW t, NEW i, NEW rs, NEW h, rs \subseteq Records, h \subseteq Blocks,
         fault \in BOOLEAN, FreeTable(t, i, rs, h)
  PROVE  records' \subseteq rs /\ heap' \subseteq h /\ fault' \in BOOLEAN
BY DEF FreeTable, Without

(* An allocated table that the index tells for what it is is freed, and    *)
(* nothing else is.                                                        *)
LEMMA Freeing ==
  ASSUME NEW t, NEW i, NEW rs, NEW h, rs \subseteq Records, h \subseteq Blocks,
         t \in h \cup rs \cup {NULL}, t = NULL \/ Tells(i, t),
         ~fault, FreeTable(t, i, rs, h)
  PROVE  /\ ~fault' /\ heap' = h \ {t}
         /\ records' \subseteq rs /\ rs \ {t} \subseteq records'
         /\ stringdb_ref => records' = rs \ {t}
<1>1. NULL \notin Records \cup Blocks /\ Records \cap Blocks = {}
  BY StorageAssumption
<1>2. CASE t \in h /\ i = NULL /\ heap' = h \ {t} /\ records' = rs /\ UNCHANGED fault
  BY <1>1, <1>2
<1>3. CASE t \in rs /\ i # NULL /\ records' \in Without(rs, i) /\ heap' = h /\ UNCHANGED fault
  <2>1. i = t /\ t # NULL
    BY <1>1, <1>3 DEF Tells
  <2>2. records' = IF stringdb_ref THEN rs \ {t} ELSE rs
    BY <1>3, <2>1 DEF Without
  <2>3. QED BY <1>1, <1>3, <2>2
<1>4. CASE t = NULL /\ heap' = h /\ records' = rs /\ UNCHANGED fault
  BY <1>1, <1>4
<1>5. ~(t # NULL /\ t \notin IF i = NULL THEN h ELSE rs)
  BY <1>1 DEF Tells
<1>6. QED BY <1>2, <1>3, <1>4, <1>5 DEF FreeTable

(* The dictionaries that are misled remain so.                             *)
LEMMA Misleading ==
  ASSUME NEW d \in Dicts, NEW event, Mislead(d, event), misled \subseteq Dicts
  PROVE  misled' \subseteq Dicts /\ misled \subseteq misled' /\ (event => d \in misled')
BY DEF Mislead

-----------------------------------------------------------------------------
(* Type correctness *)

DictTypes ==
  /\ alive \subseteq Dicts /\ heap \subseteq Blocks /\ fault \in BOOLEAN
  /\ table \in [Dicts -> Pointers]
  /\ db_index \in [Dicts -> Records \cup {NULL}]
  /\ active \in Seq(Call) /\ misled \subseteq Dicts

LEMMA NoDictsTypes == NoDicts => DictTypes /\ CallInv
<1> SUFFICES ASSUME NoDicts PROVE DictTypes /\ CallInv
  OBVIOUS
<1>1. active \in Seq(Call) /\ Len(active) = 0
  BY EmptySeq DEF NoDicts
<1>2. MaxActive \in Nat
  BY StorageAssumption
<1>3. CallInv
  <2>1. \A d \in Dicts \ alive : table[d] = NULL
    BY DEF NoDicts
  <2>2. QED BY <1>1, <1>2, <2>1 DEF CallInv
<1>4. table \in [Dicts -> Pointers] /\ db_index \in [Dicts -> Records \cup {NULL}]
  BY DEF NoDicts, Pointers
<1>5. alive \subseteq Dicts /\ heap \subseteq Blocks /\ fault \in BOOLEAN
      /\ misled \subseteq Dicts
  BY DEF NoDicts
<1>6. QED BY <1>1, <1>3, <1>4, <1>5 DEF DictTypes

LEMMA TypeInit == Init => TypeInv /\ SessionInv /\ CallInv
<1> SUFFICES ASSUME Init PROVE TypeInv /\ SessionInv /\ CallInv
  OBVIOUS
<1>1. DbInit /\ NoDicts /\ DictTypes /\ CallInv
  BY NoDictsTypes DEF Init
<1>2. QED
  BY <1>1 DEF DbInit, DictTypes, TypeInv, SessionInv, Sessions

DbTypes ==
  /\ session \in Sessions
  /\ exists \in BOOLEAN /\ stringdb_ref \in BOOLEAN /\ records \subseteq Records

LEMMA DbSteps ==
  ASSUME TypeInv, SessionInv, InitSteps \/ FiniSteps, NoDicts' <=> NoDicts
  PROVE  DbTypes' /\ SessionInv'
<1>1. DbTypes
  BY DEF TypeInv, DbTypes
<1>2. CASE Launch
  <2>1. DbTypes'
    BY <1>1, <1>2 DEF Launch, Sessions, DbTypes
  <2>2. SessionInv'
    BY <1>1, <1>2 DEF Launch, Sessions, DbTypes, SessionInv
  <2>3. QED BY <2>1, <2>2
<1>3. CASE CreateDatabase
  <2>1. DbTypes'
    BY <1>1, <1>3 DEF CreateDatabase, Sessions, DbTypes
  <2>2. SessionInv'
    BY <1>1, <1>3 DEF CreateDatabase, Sessions, DbTypes, SessionInv
  <2>3. QED BY <2>1, <2>2
<1>4. CASE OpenDatabase
  <2>1. DbTypes'
    BY <1>1, <1>4 DEF OpenDatabase, Sessions, DbTypes
  <2>2. SessionInv'
    BY <1>1, <1>4 DEF OpenDatabase, Sessions, DbTypes, SessionInv
  <2>3. QED BY <2>1, <2>2
<1>5. CASE InitFails
  <2>1. DbTypes'
    BY <1>1, <1>5 DEF InitFails, Sessions, DbTypes
  <2>2. SessionInv'
    BY <1>1, <1>5 DEF InitFails, Sessions, DbTypes, SessionInv
  <2>3. QED BY <2>1, <2>2
<1>6. CASE CloseDatabase
  <2>1. DbTypes'
    BY <1>1, <1>6 DEF CloseDatabase, Sessions, DbTypes
  <2>2. SessionInv'
    BY <1>1, <1>6 DEF CloseDatabase, Sessions, DbTypes, SessionInv
  <2>3. QED BY <2>1, <2>2
<1>7. CASE DeleteDatabase
  <2>1. DbTypes'
    BY <1>1, <1>7 DEF DeleteDatabase, Sessions, DbTypes
  <2>2. SessionInv'
    BY <1>1, <1>7 DEF DeleteDatabase, Sessions, DbTypes, SessionInv
  <2>3. QED BY <2>1, <2>2
<1>8. QED
  BY <1>2, <1>3, <1>4, <1>5, <1>6, <1>7 DEF InitSteps, FiniSteps

LEMMA SessionTypes ==
  ASSUME TypeInv, SessionInv, CallInv, Session
  PROVE  TypeInv' /\ SessionInv' /\ CallInv'
<1>1. Forget => NoDicts' /\ DictTypes' /\ CallInv'
  <2>1. Forget => NoDicts'
    BY DEF Forget, NoDicts
  <2>2. (NoDicts => DictTypes /\ CallInv)'
    BY NoDictsTypes, PTL
  <2>3. QED BY <2>1, <2>2
<1>2. CASE Reset /\ Forget
  <2>1. DbTypes' /\ SessionInv'
    BY <1>1, <1>2 DEF Reset, TypeInv, DbTypes, SessionInv, Sessions
  <2>2. QED BY <1>1, <1>2, <2>1 DEF TypeInv, DictTypes, DbTypes
<1>3. CASE Running /\ active = <<>> /\ Finalize /\ Forget
  <2>1. DbTypes' /\ SessionInv'
    BY <1>1, <1>3 DEF Finalize, TypeInv, DbTypes, SessionInv, Sessions
  <2>2. QED BY <1>1, <1>3, <2>1 DEF TypeInv, DictTypes, DbTypes
<1>4. CASE (InitSteps \/ FiniSteps) /\ UNCHANGED dictVars
  <2>1. DictTypes' /\ CallInv'
    BY <1>4 DEF dictVars, DictTypes, CallInv, TypeInv
  <2>2. NoDicts' <=> NoDicts
    BY <1>4 DEF dictVars, NoDicts
  <2>3. DbTypes' /\ SessionInv'
    BY <1>4, <2>2, DbSteps
  <2>4. QED BY <2>1, <2>3 DEF TypeInv, DictTypes, DbTypes
<1>5. QED BY <1>2, <1>3, <1>4 DEF Session

(* The calls under way and the dictionaries that they concern when a call  *)
(* of d begins.                                                            *)
LEMMA PushTypes ==
  ASSUME TypeInv, SessionInv, CallInv, Running, NEW d \in Dicts,
         Len(active) < MaxActive,
         active' = Append(active, [d |-> d, t |-> table[d]]),
         table' = [table EXCEPT ![d] = NULL],
         UNCHANGED <<dbVars, db_index, heap, fault, misled>>,
         \/ alive' = alive /\ table[d] # NULL
         \/ alive' = alive \ {d}
  PROVE  TypeInv' /\ SessionInv' /\ CallInv'
<1>1. table[d] \in Pointers /\ active \in Seq(Call) /\ MaxActive \in Nat
  BY StorageAssumption DEF TypeInv
<1>2. /\ active' \in Seq(Call) /\ Len(active) \in Nat
      /\ Len(active') = Len(active) + 1
      /\ \A k \in 1 .. Len(active) : active'[k] = active[k]
      /\ active'[Len(active) + 1] = [d |-> d, t |-> table[d]]
  BY <1>1, Pushing
<1>3. TypeInv'
  BY <1>2 DEF TypeInv, dbVars, Pointers
<1>4. SessionInv'
  BY DEF SessionInv, Running, dbVars
<1>5. Len(active') <= MaxActive
  BY <1>1, <1>2
<1>6. ASSUME NEW k \in 1 .. Len(active'), active'[k].d \in alive'
      PROVE  active'[k].t # NULL
  <2>1. CASE k \in 1 .. Len(active)
    <3>1. active[k].d \in alive /\ active'[k] = active[k]
      BY <1>2, <1>6, <2>1
    <3>2. QED BY <2>1, <3>1 DEF CallInv
  <2>2. CASE k = Len(active) + 1
    BY <1>2, <1>6, <2>2
  <2>3. QED BY <1>2, <2>1, <2>2
<1>7. \A e \in Dicts \ alive' : table'[e] = NULL
  BY DEF CallInv, TypeInv
<1>8. QED BY <1>3, <1>4, <1>5, <1>6, <1>7 DEF CallInv

LEMMA UseTypes ==
  ASSUME TypeInv, SessionInv, CallInv, NEW d \in Dicts, Use(d)
  PROVE  TypeInv' /\ SessionInv' /\ CallInv'
<1>1. Running /\ session = "running" /\ ~fault
  BY DEF Use, PyDict_New, ResizeToRecord, ResizeToBlock, ResizeFails,
     WriteEntry, ClearStarts, DeallocStarts, May, Running
<1>2. CASE PyDict_New(d)
  <2>1. TypeInv' /\ SessionInv'
    BY <1>1, <1>2 DEF PyDict_New, TypeInv, SessionInv, dbVars, Pointers
  <2>2. ASSUME NEW k \in 1 .. Len(active), active[k].d \in alive'
        PROVE  active[k].d \in alive
    <3>1. active[k].d \in Cleared
      BY LenProperties DEF Cleared, TypeInv
    <3>2. QED BY <1>2, <2>2, <3>1 DEF PyDict_New
  <2>3. QED BY <1>2, <2>1, <2>2 DEF PyDict_New, CallInv
<1>3. CASE ResizeToRecord(d)
  <2>1. PICK r \in Records :
          /\ CanCreate(r)
          /\ table' = [table EXCEPT ![d] = r]
          /\ db_index' = [db_index EXCEPT ![d] = r]
          /\ FreeTable(table[d], db_index[d], records \cup {r}, heap)
    BY <1>3 DEF ResizeToRecord
  <2>2. /\ records' \subseteq records \cup {r} /\ heap' \subseteq heap
        /\ fault' \in BOOLEAN
    BY <2>1, FreeTypes DEF TypeInv
  <2>3. TypeInv'
    BY <1>3, <2>1, <2>2, Misleading DEF ResizeToRecord, TypeInv, Pointers
  <2>4. \A e \in Dicts \ alive' : table'[e] = NULL
    BY <1>3, <2>1 DEF ResizeToRecord, May, CallInv, TypeInv
  <2>5. SessionInv'
    BY <1>1, <1>3, <2>1, <2>2 DEF ResizeToRecord, CanCreate, SessionInv
  <2>6. QED BY <1>3, <2>3, <2>4, <2>5 DEF ResizeToRecord, CallInv
<1>4. CASE ResizeToBlock(d)
  <2>1. PICK b \in Blocks \ heap :
          /\ table' = [table EXCEPT ![d] = b]
          /\ db_index' = [db_index EXCEPT ![d] = NULL]
          /\ FreeTable(table[d], db_index[d], records, heap \cup {b})
    BY <1>4 DEF ResizeToBlock
  <2>2. /\ records' \subseteq records /\ heap' \subseteq heap \cup {b}
        /\ fault' \in BOOLEAN
    BY <2>1, FreeTypes DEF TypeInv
  <2>3. TypeInv'
    BY <1>4, <2>1, <2>2, Misleading DEF ResizeToBlock, TypeInv, Pointers
  <2>4. \A e \in Dicts \ alive' : table'[e] = NULL
    BY <1>4, <2>1 DEF ResizeToBlock, May, CallInv, TypeInv
  <2>5. SessionInv'
    BY <1>1, <1>4, <2>1, <2>2 DEF ResizeToBlock, CanCreate, SessionInv
  <2>6. QED BY <1>4, <2>3, <2>4, <2>5 DEF ResizeToBlock, CallInv
<1>5. CASE ResizeFails(d)
  BY <1>1, <1>5, Misleading DEF ResizeFails, TypeInv, SessionInv, CallInv, dbVars
<1>6. CASE WriteEntry(d)
  BY <1>1, <1>6 DEF WriteEntry, TypeInv, SessionInv, CallInv, dbVars
<1>7. CASE ClearStarts(d)
  BY <1>1, <1>7, PushTypes DEF ClearStarts
<1>8. CASE DeallocStarts(d)
  BY <1>1, <1>8, PushTypes DEF DeallocStarts
<1>9. QED BY <1>2, <1>3, <1>4, <1>5, <1>6, <1>7, <1>8 DEF Use

LEMMA FreeClearedTypes ==
  ASSUME TypeInv, SessionInv, CallInv, FreeCleared
  PROVE  TypeInv' /\ SessionInv' /\ CallInv'
<1> DEFINE last == active[Len(active)]
<1>1. /\ active \in Seq(Call) /\ active # <<>> /\ session = "running"
      /\ active' = SubSeq(active, 1, Len(active) - 1)
      /\ FreeTable(last.t, db_index[last.d], records, heap)
      /\ UNCHANGED <<session, exists, stringdb_ref, alive, table, db_index, misled>>
  BY DEF FreeCleared, Running, TypeInv
<1> HIDE DEF last
<1>2. /\ active' \in Seq(Call) /\ Len(active) \in Nat
      /\ Len(active') = Len(active) - 1
      /\ \A k \in 1 .. Len(active') : active'[k] = active[k]
  BY <1>1, Popping
<1>3. records' \subseteq records /\ heap' \subseteq heap /\ fault' \in BOOLEAN
  BY <1>1, FreeTypes DEF TypeInv
<1>4. TypeInv'
  BY <1>1, <1>2, <1>3 DEF TypeInv
<1>5. SessionInv'
  BY <1>1, <1>3 DEF SessionInv
<1>6. MaxActive \in Nat
  BY StorageAssumption
<1>7. CallInv'
  BY <1>1, <1>2, <1>6 DEF CallInv
<1>8. QED BY <1>4, <1>5, <1>7

LEMMA TypeNext ==
  TypeInv /\ SessionInv /\ CallInv /\ [Next]_vars
    => TypeInv' /\ SessionInv' /\ CallInv'
<1> SUFFICES ASSUME TypeInv, SessionInv, CallInv, [Next]_vars
             PROVE  TypeInv' /\ SessionInv' /\ CallInv'
  OBVIOUS
<1>1. CASE UNCHANGED vars
  BY <1>1 DEF vars, dbVars, dictVars, TypeInv, SessionInv, CallInv, NoDicts
<1>2. QED
  BY <1>1, UseTypes, FreeClearedTypes, SessionTypes DEF Next

LEMMA TypesMean == TypeInv /\ SessionInv /\ CallInv => TypeOK
<1> SUFFICES ASSUME TypeInv, SessionInv, CallInv PROVE TypeOK
  OBVIOUS
<1>1. DOMAIN active = 1 .. Len(active)
  BY LenProperties DEF TypeInv
<1>2. QED
  BY <1>1 DEF TypeInv, SessionInv, CallInv, TypeOK, Sessions, Pointers

(* Whatever is allocated or fails, whatever destructors do and whenever    *)
(* the device is reset, every variable keeps its type; the database is     *)
(* open only in a session that created it.                                 *)
THEOREM TypeCorrectness == Spec => []TypeOK
<1>1. QED BY TypeInit, TypeNext, TypesMean, PTL DEF Spec

-----------------------------------------------------------------------------
(* Who owns a table, and how it is told where the table is *)

Calls == 1 .. Len(active)
Used(x) == \/ \E d \in Dicts : table[d] = x
           \/ \E k \in Calls : active[k].t = x

OwnInv ==
  misled = {} =>
    /\ \A d \in Dicts : table[d] # NULL => table[d] \in heap \cup records
    /\ \A k \in Calls : active[k].t # NULL => active[k].t \in heap \cup records
    /\ \A d, e \in Dicts : d # e /\ table[d] = table[e] => table[d] = NULL
    /\ \A k \in Calls, d \in Dicts : active[k].t = table[d] => table[d] = NULL
    /\ \A j, k \in Calls : j # k /\ active[j].t = active[k].t => active[k].t = NULL

TellInv ==
  /\ \A d \in Dicts \ misled : table[d] # NULL => Tells(db_index[d], table[d])
  /\ \A k \in Calls : active[k].d \notin misled /\ active[k].t # NULL
                        => Tells(db_index[active[k].d], active[k].t)

LeakInv ==
  misled = {} /\ session = "running" =>
    /\ \A b \in heap : Used(b)
    /\ stringdb_ref => \A r \in records : Used(r)

FaultInv == misled = {} => ~fault

StorageInv == OwnInv /\ TellInv /\ LeakInv /\ FaultInv

LEMMA CallsTyped ==
  ASSUME TypeInv
  PROVE  /\ Calls = DOMAIN active
         /\ \A k \in Calls : active[k].d \in Dicts /\ active[k].t \in Pointers
<1>1. active \in [Calls -> Call]
  BY LenProperties DEF TypeInv, Calls
<1>2. QED BY <1>1 DEF Call, Pointers

(* dictresize, to a record or a block x that the index i tells: rs and h   *)
(* are the records and blocks with x among them.  A call under way that    *)
(* clears d, which is not misled, has a block to free.                     *)
LEMMA Resizing ==
  ASSUME TypeInv, StorageInv, NEW d \in Dicts, ~fault,
         misled \subseteq misled',
         NEW x \in Records \cup Blocks, x \notin heap \cup records,
         NEW i \in Records \cup {NULL}, Tells(i, x),
         d \notin misled' =>
           \A k \in Calls : active[k].d = d => i = NULL /\ db_index[d] = NULL,
         NEW rs, NEW h, rs \subseteq Records, h \subseteq Blocks,
         rs \cup h = heap \cup records \cup {x},
         heap \subseteq h, records \subseteq rs,
         table' = [table EXCEPT ![d] = x],
         db_index' = [db_index EXCEPT ![d] = i],
         FreeTable(table[d], db_index[d], rs, h),
         UNCHANGED <<session, stringdb_ref, active>>
  PROVE  StorageInv'
<1> DEFINE old == table[d]
<1>1. NULL \notin Records \cup Blocks /\ Records \cap Blocks = {} /\ x # NULL
  BY StorageAssumption
<1>2. /\ table \in [Dicts -> Pointers] /\ db_index \in [Dicts -> Records \cup {NULL}]
      /\ \A k \in Calls : active[k].d \in Dicts /\ active[k].t \in Pointers
      /\ Calls' = Calls /\ active' = active
  BY CallsTyped DEF TypeInv, Calls
<1>3. /\ table'[d] = x /\ db_index'[d] = i
      /\ \A e \in Dicts \ {d} : table'[e] = table[e] /\ db_index'[e] = db_index[e]
  BY <1>2
<1>4. TellInv'
  <2>1. ASSUME NEW e \in Dicts \ misled', table'[e] # NULL
        PROVE  Tells(db_index'[e], table'[e])
    <3>1. CASE e = d
      BY <1>3, <3>1
    <3>2. CASE e # d
      BY <1>3, <2>1, <3>2 DEF StorageInv, TellInv
    <3>3. QED BY <3>1, <3>2
  <2>2. ASSUME NEW k \in Calls, active[k].d \notin misled', active[k].t # NULL
        PROVE  Tells(db_index'[active[k].d], active[k].t)
    <3>1. Tells(db_index[active[k].d], active[k].t)
      BY <2>2 DEF StorageInv, TellInv
    <3>2. db_index'[active[k].d] = db_index[active[k].d]
      BY <1>2, <1>3, <2>2
    <3>3. QED BY <3>1, <3>2
  <2>3. QED BY <1>2, <2>1, <2>2 DEF TellInv, Tells
<1> SUFFICES ASSUME misled' = {} PROVE OwnInv' /\ LeakInv' /\ FaultInv'
  BY <1>4 DEF StorageInv, OwnInv, LeakInv, FaultInv
<1>5. misled = {} /\ old \in h \cup rs \cup {NULL} /\ (old = NULL \/ Tells(db_index[d], old))
  BY DEF StorageInv, OwnInv, TellInv
<1>6. /\ ~fault' /\ heap' = h \ {old} /\ records' \subseteq rs
      /\ rs \ {old} \subseteq records'
      /\ stringdb_ref => records' = rs \ {old}
  BY <1>5, Freeing
<1>7. \A y : y \in heap \cup records /\ y # old => y \in heap' \cup records'
  BY <1>6
<1>8. x # old => x \in heap' \cup records'
  BY <1>6
<1>9. x # old /\ \A e \in Dicts : table[e] # x
  BY <1>1, <1>2, <1>5 DEF StorageInv, OwnInv
<1>10. \A k \in Calls : active[k].t # x
  BY <1>1, <1>2, <1>5 DEF StorageInv, OwnInv
<1> HIDE DEF old
<1>11. OwnInv'
  <2>1. ASSUME NEW e \in Dicts, table'[e] # NULL
        PROVE  table'[e] \in heap' \cup records'
    <3>1. CASE e = d
      BY <1>3, <1>8, <1>9, <3>1
    <3>2. CASE e # d
      <4>1. table[e] \in heap \cup records /\ table[e] # old
        BY <1>3, <1>5, <2>1, <3>2 DEF StorageInv, OwnInv, old
      <4>2. QED BY <1>3, <1>7, <3>2, <4>1
    <3>3. QED BY <3>1, <3>2
  <2>2. ASSUME NEW k \in Calls, active[k].t # NULL
        PROVE  active[k].t \in heap' \cup records'
    <3>1. active[k].t \in heap \cup records /\ active[k].t # old
      BY <1>5, <2>2 DEF StorageInv, OwnInv, old
    <3>2. QED BY <1>7, <3>1
  <2>3. \A e, f \in Dicts : e # f /\ table'[e] = table'[f] => table'[e] = NULL
    BY <1>3, <1>5, <1>9 DEF StorageInv, OwnInv
  <2>4. \A k \in Calls, e \in Dicts : active[k].t = table'[e] => table'[e] = NULL
    BY <1>3, <1>5, <1>10 DEF StorageInv, OwnInv
  <2>5. \A j, k \in Calls : j # k /\ active[j].t = active[k].t => active[k].t = NULL
    BY <1>5 DEF StorageInv, OwnInv
  <2>6. QED BY <1>2, <2>1, <2>2, <2>3, <2>4, <2>5 DEF OwnInv
<1>12. LeakInv'
  <2>1. ASSUME NEW y, Used(y), y # old PROVE Used(y)'
    <3>1. CASE \E e \in Dicts : table[e] = y
      <4>1. PICK e \in Dicts : table[e] = y
        BY <3>1
      <4>2. table'[e] = y
        BY <1>3, <2>1, <4>1 DEF old
      <4>3. QED BY <4>2 DEF Used
    <3>2. CASE \E k \in Calls : active[k].t = y
      BY <1>2, <3>2 DEF Used
    <3>3. QED BY <2>1, <3>1, <3>2 DEF Used
  <2>2. Used(x)'
    BY <1>3 DEF Used
  <2>3. ASSUME session = "running"
        PROVE  \A b \in heap' : Used(b)'
    <3>1. \A b \in heap' : b # old /\ (b \in heap \/ b = x)
      BY <1>1, <1>6, <2>3 DEF TypeInv
    <3>2. \A b \in heap : Used(b)
      BY <1>5, <2>3 DEF StorageInv, LeakInv
    <3>3. QED BY <2>1, <2>2, <3>1, <3>2
  <2>4. ASSUME session = "running", stringdb_ref
        PROVE  \A r \in records' : Used(r)'
    <3>1. \A r \in records' : r # old /\ (r \in records \/ r = x)
      BY <1>1, <1>6, <2>4 DEF TypeInv
    <3>2. \A r \in records : Used(r)
      BY <1>5, <2>4 DEF StorageInv, LeakInv
    <3>3. QED BY <2>1, <2>2, <3>1, <3>2
  <2>5. QED BY <2>3, <2>4 DEF LeakInv
<1>13. QED BY <1>6, <1>11, <1>12 DEF FaultInv

(* A call that is going to free the table of d begins: the table changes   *)
(* its owner.                                                              *)
LEMMA CallStarts ==
  ASSUME TypeInv, StorageInv, NEW d \in Dicts, ~fault,
         active' = Append(active, [d |-> d, t |-> table[d]]),
         table' = [table EXCEPT ![d] = NULL],
         UNCHANGED <<dbVars, db_index, heap, fault, misled>>
  PROVE  StorageInv'
<1> DEFINE n == Len(active) + 1
<1>1. /\ table \in [Dicts -> Pointers] /\ Len(active) \in Nat
      /\ Calls' = Calls \cup {n} /\ n \notin Calls
      /\ \A k \in Calls : active'[k] = active[k]
      /\ active'[n].d = d /\ active'[n].t = table[d]
  <2>1. table[d] \in Pointers
    BY DEF TypeInv
  <2>2. /\ Len(active) \in Nat /\ Len(active') = Len(active) + 1
        /\ \A k \in 1 .. Len(active) : active'[k] = active[k]
        /\ active'[Len(active) + 1] = [d |-> d, t |-> table[d]]
    BY <2>1, Pushing DEF TypeInv
  <2>3. QED BY <2>2 DEF Calls, TypeInv
<1> HIDE DEF n
<1>2. table'[d] = NULL /\ \A e \in Dicts \ {d} : table'[e] = table[e]
  BY <1>1
<1>3. UNCHANGED <<heap, records, fault, session, stringdb_ref, db_index, misled>>
  BY DEF dbVars
<1>4. OwnInv'
  <2> SUFFICES ASSUME misled = {} PROVE OwnInv'
    BY <1>3 DEF OwnInv
  <2>1. ASSUME NEW e \in Dicts, table'[e] # NULL
        PROVE  /\ e # d /\ table'[e] = table[e] /\ table[e] # table[d]
               /\ table'[e] \in heap \cup records
    BY <1>2, <2>1 DEF StorageInv, OwnInv
  <2>2. ASSUME NEW k \in Calls', active'[k].t # NULL
        PROVE  active'[k].t \in heap \cup records
    BY <1>1, <2>2 DEF StorageInv, OwnInv
  <2>3. ASSUME NEW k \in Calls', NEW e \in Dicts, active'[k].t = table'[e]
        PROVE  table'[e] = NULL
    <3>1. CASE k = n
      BY <1>1, <2>1, <2>3, <3>1
    <3>2. CASE k # n
      <4>1. k \in Calls /\ active[k].t = table'[e]
        BY <1>1, <2>3, <3>2
      <4>2. table'[e] = NULL \/ table'[e] = table[e]
        BY <2>1
      <4>3. QED BY <4>1, <4>2 DEF StorageInv, OwnInv
    <3>3. QED BY <3>1, <3>2
  <2>4. ASSUME NEW j \in Calls', NEW k \in Calls', j # k, active'[j].t = active'[k].t
        PROVE  active'[k].t = NULL
    <3>1. CASE j # n /\ k # n
      <4>1. j \in Calls /\ k \in Calls /\ active[j].t = active[k].t /\ active'[k].t = active[k].t
        BY <1>1, <2>4, <3>1
      <4>2. QED BY <2>4, <4>1 DEF StorageInv, OwnInv
    <3>2. CASE j = n
      <4>1. k \in Calls /\ active[k].t = table[d] /\ active'[k].t = active[k].t
        BY <1>1, <2>4, <3>2
      <4>2. QED BY <4>1 DEF StorageInv, OwnInv
    <3>3. CASE k = n
      <4>1. j \in Calls /\ active[j].t = table[d] /\ active'[k].t = table[d]
        BY <1>1, <2>4, <3>3
      <4>2. QED BY <4>1 DEF StorageInv, OwnInv
    <3>4. QED BY <3>1, <3>2, <3>3
  <2>5. \A e, f \in Dicts : e # f /\ table'[e] = table'[f] => table'[e] = NULL
    BY <2>1 DEF StorageInv, OwnInv
  <2>6. QED BY <1>3, <2>1, <2>2, <2>3, <2>4, <2>5 DEF OwnInv
<1>5. TellInv'
  <2>1. ASSUME NEW e \in Dicts \ misled, table'[e] # NULL
        PROVE  Tells(db_index[e], table'[e])
    BY <1>2, <2>1 DEF StorageInv, TellInv
  <2>2. ASSUME NEW k \in Calls', active'[k].d \notin misled, active'[k].t # NULL
        PROVE  Tells(db_index[active'[k].d], active'[k].t)
    BY <1>1, <2>2 DEF StorageInv, TellInv
  <2>3. QED BY <1>3, <2>1, <2>2 DEF TellInv, Tells
<1>6. ASSUME NEW y, y # NULL, Used(y) PROVE Used(y)'
  <2>1. CASE \E e \in Dicts \ {d} : table[e] = y
    BY <1>2, <2>1 DEF Used
  <2>2. CASE table[d] = y
    BY <1>1, <2>2 DEF Used
  <2>3. CASE \E k \in Calls : active[k].t = y
    BY <1>1, <2>3 DEF Used
  <2>4. QED BY <1>6, <2>1, <2>2, <2>3 DEF Used
<1>7. LeakInv'
  <2>1. NULL \notin heap \cup records
    BY StorageAssumption DEF TypeInv
  <2>2. QED BY <1>3, <1>6, <2>1 DEF StorageInv, LeakInv
<1>8. QED BY <1>3, <1>4, <1>5, <1>7 DEF StorageInv, FaultInv

LEMMA CallEnds ==
  ASSUME TypeInv, StorageInv, FreeCleared
  PROVE  StorageInv'
<1> DEFINE n == Len(active)
           old == active[n].t
           i == db_index[active[n].d]
<1>1. /\ Running /\ ~fault /\ session = "running" /\ active # <<>>
      /\ FreeTable(old, i, records, heap)
      /\ active' = SubSeq(active, 1, Len(active) - 1)
      /\ UNCHANGED <<session, exists, stringdb_ref, alive, table, db_index, misled>>
  BY DEF FreeCleared, Running
<1>2. /\ Calls = Calls' \cup {n} /\ n \notin Calls'
      /\ \A k \in Calls' : active'[k] = active[k]
  <2>1. /\ Len(active) \in Nat /\ Len(active) > 0
        /\ Len(active') = Len(active) - 1
        /\ \A k \in 1 .. Len(active') : active'[k] = active[k]
    BY <1>1, Popping DEF TypeInv
  <2>2. QED BY <2>1 DEF Calls
<1>3. TellInv'
  BY <1>1, <1>2 DEF StorageInv, TellInv, Tells
<1> SUFFICES ASSUME misled = {} PROVE OwnInv' /\ LeakInv' /\ FaultInv'
  BY <1>1, <1>3 DEF StorageInv, OwnInv, LeakInv, FaultInv
<1>4. /\ NULL \notin Records \cup Blocks /\ Records \cap Blocks = {}
      /\ heap \subseteq Blocks /\ records \subseteq Records
  BY StorageAssumption DEF TypeInv
<1>5. /\ n \in Calls /\ old \in heap \cup records \cup {NULL}
      /\ old = NULL \/ Tells(i, old)
  BY <1>2 DEF StorageInv, OwnInv, TellInv
<1> HIDE DEF n, old, i
<1>6. /\ ~fault' /\ heap' = heap \ {old} /\ records' \subseteq records
      /\ records \ {old} \subseteq records'
      /\ stringdb_ref => records' = records \ {old}
  BY <1>1, <1>4, <1>5, Freeing
<1>7. \A y : y \in heap \cup records /\ y # old => y \in heap' \cup records'
  BY <1>6
<1>8. /\ \A d \in Dicts : table[d] # NULL => table[d] # old
      /\ \A k \in Calls' : active[k].t # NULL => active[k].t # old
  BY <1>2, <1>5 DEF StorageInv, OwnInv, old
<1>9. OwnInv'
  <2>1. ASSUME NEW d \in Dicts, table[d] # NULL
        PROVE  table[d] \in heap' \cup records'
    BY <1>7, <1>8, <2>1 DEF StorageInv, OwnInv
  <2>2. ASSUME NEW k \in Calls', active[k].t # NULL
        PROVE  active[k].t \in heap' \cup records'
    BY <1>2, <1>7, <1>8, <2>2 DEF StorageInv, OwnInv
  <2>3. /\ \A d, e \in Dicts : d # e /\ table[d] = table[e] => table[d] = NULL
        /\ \A k \in Calls', d \in Dicts : active[k].t = table[d] => table[d] = NULL
        /\ \A j, k \in Calls' : j # k /\ active[j].t = active[k].t => active[k].t = NULL
    BY <1>2 DEF StorageInv, OwnInv
  <2>4. table' = table
    BY <1>1
  <2>5. \A k \in Calls' : active'[k] = active[k]
    BY <1>2
  <2>6. QED BY <2>1, <2>2, <2>3, <2>4, <2>5 DEF OwnInv
<1>10. ASSUME NEW y, Used(y), y # old PROVE Used(y)'
  BY <1>1, <1>2, <1>10 DEF Used, old
<1>11. LeakInv'
  BY <1>1, <1>4, <1>6, <1>10 DEF StorageInv, LeakInv
<1>12. QED BY <1>6, <1>9, <1>11 DEF FaultInv

LEMMA UseKeeps ==
  ASSUME TypeInv, CallInv, StorageInv, NEW d \in Dicts, Use(d)
  PROVE  StorageInv'
<1>1. Running /\ session = "running" /\ ~fault
  BY DEF Use, PyDict_New, ResizeToRecord, ResizeToBlock, ResizeFails,
     WriteEntry, ClearStarts, DeallocStarts, May, Running
<1>2. Calls = DOMAIN active /\ NULL \notin Records \cup Blocks
      /\ Records \cap Blocks = {}
  BY CallsTyped, StorageAssumption
<1>3. d \in Cleared <=> \E k \in Calls : active[k].d = d
  BY <1>2 DEF Cleared
<1>4. /\ table \in [Dicts -> Pointers] /\ db_index \in [Dicts -> Records \cup {NULL}]
      /\ \A k \in Calls : active[k].d \in Dicts
      /\ heap \subseteq Blocks /\ records \subseteq Records /\ misled \subseteq Dicts
  BY CallsTyped DEF TypeInv
<1>5. CASE PyDict_New(d)
  <2>1. UNCHANGED <<session, stringdb_ref, records, active, heap, fault, misled, Calls>>
    BY <1>5 DEF PyDict_New, dbVars, Calls
  <2>2. /\ table' = [table EXCEPT ![d] = NULL]
        /\ db_index' = [db_index EXCEPT ![d] = NULL]
        /\ \A k \in Calls : active[k].d # d
    BY <1>3, <1>5 DEF PyDict_New
  <2>3. table' = table
    <3>1. table[d] = NULL
      BY <1>5 DEF PyDict_New, CallInv
    <3>2. QED BY <1>4, <2>2, <3>1
  <2>4. OwnInv' /\ LeakInv' /\ FaultInv'
    BY <2>1, <2>3 DEF StorageInv, OwnInv, LeakInv, FaultInv, Used
  <2>5. /\ table[d] = NULL
        /\ \A e \in Dicts \ {d} : db_index'[e] = db_index[e]
    BY <1>4, <1>5, <2>2 DEF PyDict_New, CallInv
  <2>6. TellInv'
    BY <1>4, <2>1, <2>2, <2>3, <2>5 DEF StorageInv, TellInv, Tells
  <2>7. QED BY <2>4, <2>6 DEF StorageInv
<1>6. CASE ResizeToRecord(d)
  <2>1. PICK r \in Records :
          /\ CanCreate(r)
          /\ table' = [table EXCEPT ![d] = r]
          /\ db_index' = [db_index EXCEPT ![d] = r]
          /\ FreeTable(table[d], db_index[d], records \cup {r}, heap)
    BY <1>6 DEF ResizeToRecord
  <2>2. /\ misled \subseteq misled' /\ (d \in Cleared => d \in misled')
        /\ UNCHANGED <<session, stringdb_ref, active>>
    BY <1>4, <1>6, Misleading DEF ResizeToRecord
  <2>3. r \notin heap \cup records /\ Tells(r, r)
    BY <1>2, <1>4, <2>1 DEF CanCreate, Tells
  <2> DEFINE rs == records \cup {r}
  <2>4. /\ rs \subseteq Records /\ rs \cup heap = heap \cup records \cup {r}
        /\ records \subseteq rs /\ FreeTable(table[d], db_index[d], rs, heap)
    BY <1>4, <2>1
  <2> HIDE DEF rs
  <2>5. d \notin misled' =>
          \A k \in Calls : active[k].d = d => r = NULL /\ db_index[d] = NULL
    BY <1>3, <2>2
  <2>6. QED BY <1>1, <1>4, <2>1, <2>2, <2>3, <2>4, <2>5, Resizing
<1>7. CASE ResizeToBlock(d)
  <2>1. PICK b \in Blocks \ heap :
          /\ table' = [table EXCEPT ![d] = b]
          /\ db_index' = [db_index EXCEPT ![d] = NULL]
          /\ FreeTable(table[d], db_index[d], records, heap \cup {b})
    BY <1>7 DEF ResizeToBlock
  <2>2. /\ misled \subseteq misled'
        /\ d \in Cleared /\ db_index[d] # NULL => d \in misled'
        /\ UNCHANGED <<session, stringdb_ref, active>>
    BY <1>4, <1>7, Misleading DEF ResizeToBlock
  <2>3. b \notin heap \cup records /\ Tells(NULL, b)
    BY <1>2, <1>4, <2>1 DEF Tells
  <2> DEFINE h == heap \cup {b}
  <2>4. /\ h \subseteq Blocks /\ records \cup h = heap \cup records \cup {b}
        /\ heap \subseteq h /\ FreeTable(table[d], db_index[d], records, h)
    BY <1>4, <2>1
  <2> HIDE DEF h
  <2>5. d \notin misled' =>
          \A k \in Calls : active[k].d = d => NULL = NULL /\ db_index[d] = NULL
    BY <1>3, <2>2
  <2>6. QED BY <1>1, <1>4, <2>1, <2>2, <2>3, <2>4, <2>5, Resizing
<1>8. CASE ResizeFails(d)
  <2>1. /\ UNCHANGED <<session, stringdb_ref, records, table, active, heap, fault, Calls>>
        /\ db_index' = [db_index EXCEPT ![d] = NULL]
    BY <1>8 DEF ResizeFails, dbVars, Calls
  <2>2. /\ misled \subseteq misled'
        /\ db_index[d] # NULL /\ (table[d] # NULL \/ d \in Cleared) => d \in misled'
    BY <1>4, <1>8, Misleading DEF ResizeFails
  <2>3. OwnInv' /\ LeakInv' /\ FaultInv'
    <3>1. misled' = {} => misled = {}
      BY <2>2
    <3>2. QED BY <2>1, <3>1 DEF StorageInv, OwnInv, LeakInv, FaultInv, Used
  <2>4. ASSUME NEW e \in Dicts, e # d \/ db_index[d] = NULL PROVE db_index'[e] = db_index[e]
    BY <1>4, <2>1, <2>4
  <2>5. ASSUME NEW e \in Dicts \ misled', table[e] # NULL PROVE Tells(db_index'[e], table[e])
    BY <2>2, <2>4, <2>5 DEF StorageInv, TellInv
  <2>6. ASSUME NEW k \in Calls, active[k].d \notin misled', active[k].t # NULL
        PROVE  Tells(db_index'[active[k].d], active[k].t)
    <3>1. db_index'[active[k].d] = db_index[active[k].d]
      BY <1>3, <1>4, <2>2, <2>4, <2>6
    <3>2. QED BY <2>2, <2>6, <3>1 DEF StorageInv, TellInv
  <2>7. TellInv'
    BY <2>1, <2>5, <2>6 DEF TellInv, Tells
  <2>8. QED BY <2>3, <2>7 DEF StorageInv
<1>9. CASE WriteEntry(d)
  <2>1. UNCHANGED <<session, stringdb_ref, records, table, active, heap, db_index, misled, Calls>>
    BY <1>9 DEF WriteEntry, dbVars, Calls
  <2>2. FaultInv'
    <3> SUFFICES ASSUME misled = {} PROVE ~fault'
      BY <2>1 DEF FaultInv
    <3>1. table[d] \in heap \cup records /\ Tells(db_index[d], table[d])
      BY <1>9 DEF WriteEntry, StorageInv, OwnInv, TellInv
    <3>2. table[d] \in IF db_index[d] = NULL THEN heap ELSE records
      BY <1>2, <1>4, <3>1 DEF Tells
    <3>3. QED BY <1>9, <3>2 DEF WriteEntry
  <2>3. OwnInv' /\ LeakInv' /\ TellInv'
    BY <2>1 DEF StorageInv, OwnInv, LeakInv, TellInv, Tells, Used
  <2>4. QED BY <2>2, <2>3 DEF StorageInv
<1>10. CASE ClearStarts(d)
  BY <1>1, <1>10, CallStarts DEF ClearStarts
<1>11. CASE DeallocStarts(d)
  BY <1>1, <1>11, CallStarts DEF DeallocStarts
<1>12. QED BY <1>5, <1>6, <1>7, <1>8, <1>9, <1>10, <1>11 DEF Use

LEMMA NoDictsOwn ==
  ASSUME NoDicts
  PROVE  OwnInv /\ TellInv /\ FaultInv /\ Calls = {} /\ heap = {}
<1>1. Calls = {}
  <2>1. Len(active) = 0
    BY EmptySeq DEF NoDicts
  <2>2. QED BY <2>1 DEF Calls
<1>2. \A d \in Dicts : table[d] = NULL
  BY DEF NoDicts
<1>3. QED BY <1>1, <1>2 DEF NoDicts, OwnInv, TellInv, FaultInv

LEMMA StorageInit == Init => StorageInv
<1>1. Init => NoDicts /\ session = "off"
  BY DEF Init, DbInit
<1>2. QED BY <1>1, NoDictsOwn DEF StorageInv, LeakInv

LEMMA SessionKeeps ==
  ASSUME TypeInv, SessionInv, StorageInv, Session
  PROVE  StorageInv'
<1>1. NoDicts' => OwnInv' /\ TellInv' /\ FaultInv' /\ heap' = {}
  <2>1. NoDicts => OwnInv /\ TellInv /\ FaultInv /\ heap = {}
    BY NoDictsOwn
  <2>2. (NoDicts => OwnInv /\ TellInv /\ FaultInv /\ heap = {})'
    BY NoDictsOwn, PTL
  <2>3. QED BY <2>2
<1>2. Forget => NoDicts'
  BY DEF Forget, NoDicts
<1>3. CASE Reset /\ Forget
  BY <1>1, <1>2, <1>3 DEF Reset, StorageInv, LeakInv
<1>4. CASE Running /\ active = <<>> /\ Finalize /\ Forget
  BY <1>1, <1>2, <1>4 DEF Finalize, StorageInv, LeakInv
<1>5. CASE (InitSteps \/ FiniSteps) /\ UNCHANGED dictVars
  <2>1. session # "running"
    BY <1>5 DEF InitSteps, FiniSteps, Launch, CreateDatabase, OpenDatabase,
       InitFails, CloseDatabase, DeleteDatabase
  <2>2. NoDicts'
    BY <1>5, <2>1 DEF SessionInv, NoDicts, dictVars
  <2>3. session' = "running" /\ stringdb_ref' => records' = {}
    BY <1>5 DEF InitSteps, FiniSteps, Launch, CreateDatabase, OpenDatabase,
       InitFails, CloseDatabase, DeleteDatabase, SessionInv
  <2>4. QED BY <1>1, <2>2, <2>3 DEF StorageInv, LeakInv
<1>6. QED BY <1>3, <1>4, <1>5 DEF Session

IInv == TypeInv /\ SessionInv /\ CallInv /\ StorageInv

LEMMA InvAlways == Spec => []IInv
<1>1. Init => IInv
  BY TypeInit, StorageInit DEF IInv
<1>2. IInv /\ [Next]_vars => IInv'
  <2> SUFFICES ASSUME IInv, [Next]_vars PROVE IInv'
    OBVIOUS
  <2>1. TypeInv' /\ SessionInv' /\ CallInv'
    BY TypeNext DEF IInv
  <2>2. ASSUME UNCHANGED vars PROVE StorageInv'
    <3>1. UNCHANGED <<session, stringdb_ref, records, table, db_index, active,
                      heap, fault, misled, Calls>>
      BY <2>2 DEF vars, dbVars, dictVars, Calls
    <3>2. QED
      BY <3>1 DEF IInv, StorageInv, OwnInv, TellInv, LeakInv, FaultInv, Used
  <2>3. ASSUME Next PROVE StorageInv'
    <3>1. ASSUME NEW d \in Dicts, Use(d) PROVE StorageInv'
      BY <3>1, UseKeeps DEF IInv
    <3>2. ASSUME FreeCleared PROVE StorageInv'
      BY <3>2, CallEnds DEF IInv
    <3>3. ASSUME Session PROVE StorageInv'
      BY <3>3, SessionKeeps DEF IInv
    <3>4. QED BY <2>3, <3>1, <3>2, <3>3 DEF Next
  <2>4. QED BY <2>1, <2>2, <2>3 DEF IInv
<1>3. QED BY <1>1, <1>2, PTL DEF Spec

(* What is allocated has a user, until a dictionary is misled.             *)
LEMMA NothingIsLeft == IInv => NothingLeaks
<1> SUFFICES ASSUME IInv, Intact PROVE NothingLeaks
  BY DEF NothingLeaks
<1>1. Calls = DOMAIN active /\ LeakInv /\ misled = {} /\ session = "running"
  BY CallsTyped DEF IInv, StorageInv, Intact, Running
<1>2. NULL \notin heap \cup records
  BY StorageAssumption DEF IInv, TypeInv
<1>3. \A x : Used(x) /\ x # NULL => x \in InUse
  BY <1>1 DEF Used, InUse
<1>4. QED BY <1>1, <1>2, <1>3 DEF NothingLeaks, LeakInv

(* Until a dictionary is misled every table in use is allocated and has    *)
(* one owner, also when malloc and the data manager fail, however deep the *)
(* calls nest and whatever destructors do with the dictionaries that are   *)
(* being cleared; nothing stays allocated that nobody uses, and a session  *)
(* never sees a record of an earlier one.                                  *)
THEOREM TablesHaveOneOwner == Spec => []OwnedOnce
<1>1. IInv => OwnedOnce
  <2> SUFFICES ASSUME IInv, Intact PROVE OwnedOnce
    BY DEF OwnedOnce
  <2>1. Calls = DOMAIN active /\ OwnInv /\ misled = {}
    BY CallsTyped DEF IInv, StorageInv, Intact
  <2>2. NothingLeaks
    BY NothingIsLeft
  <2>3. QED BY <2>1, <2>2 DEF OwnedOnce, OwnInv, InUse
<1>2. QED BY <1>1, InvAlways, PTL

(* db_index tells the kind of every table and names its record, but for    *)
(* the dictionaries that the failing malloc of dictresize or a destructor  *)
(* has misled; without those no entry is written and no table freed the    *)
(* wrong way.                                                              *)
THEOREM IndexIsRight == Spec => []IndexTellsTheTable
<1>1. IInv => IndexTellsTheTable
  <2> SUFFICES ASSUME IInv PROVE IndexTellsTheTable
    OBVIOUS
  <2>1. Calls = DOMAIN active /\ TellInv /\ FaultInv
    BY CallsTyped DEF IInv, StorageInv
  <2>2. QED BY <2>1 DEF IndexTellsTheTable, TellInv, FaultInv
<1>2. QED BY <1>1, InvAlways, PTL

NobodyMisled == misled = {}

(* Where malloc does not fail and no destructor uses a dictionary that is  *)
(* being cleared, no dictionary is misled: no entry is ever written and no *)
(* table freed the wrong way.                                              *)
THEOREM MemoryStaysIntact ==
  ASSUME ~SelfReenters, ~MallocFails PROVE Spec => []NeverFaults
<1>1. Init => NobodyMisled
  BY DEF Init, NoDicts, NobodyMisled
<1>2. NobodyMisled /\ [Next]_vars => NobodyMisled'
  <2> SUFFICES ASSUME NobodyMisled, [Next]_vars PROVE misled' = {}
    BY DEF NobodyMisled
  <2>1. ASSUME NEW d \in Dicts, Use(d) PROVE misled' = {}
    <3>1. May(d) => d \notin Cleared
      BY DEF May
    <3>2. QED
      BY <2>1, <3>1 DEF Use, PyDict_New, ResizeToRecord, ResizeToBlock, ResizeFails,
         WriteEntry, ClearStarts, DeallocStarts, Mislead, NobodyMisled
  <2>2. FreeCleared \/ Session \/ UNCHANGED vars => misled' = {}
    BY DEF FreeCleared, Session, Forget, vars, dictVars, NobodyMisled
  <2>3. QED BY <2>1, <2>2 DEF Next
<1>3. IInv /\ NobodyMisled => NeverFaults
  BY DEF IInv, StorageInv, FaultInv, NeverFaults, NobodyMisled
<1>4. QED BY <1>1, <1>2, <1>3, InvAlways, PTL DEF Spec
=============================================================================
