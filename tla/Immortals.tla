----------------------------- MODULE Immortals ------------------------------
(***************************************************************************)
(* Objects that are kept in records of the scratch database: interned      *)
(* strings (PyString_InternInPlace), and the code objects and tuples of    *)
(* modules (TYPE_CODE of Python/marshal.c, Palm/PalmGlue/dbmem.c).  An     *)
(* object is made on the heap and copied, with the count PALMDM_REFCNT     *)
(* that Py_INCREF and Py_DECREF leave alone; what the copy refers to must  *)
(* stay alive with it.  An object whose count has come to 0 is doomed      *)
(* until _Py_Dealloc has run.                                              *)
(***************************************************************************)
EXTENDS DbMem, Naturals

CONSTANTS
  Objects,          (* the places on the heap                               *)
  Texts,            (* what strings contain                                 *)
  PALMDM_REFCNT,
  MaxRefs           (* bound: references of the program to an object        *)

VARIABLES
  ob_refcnt,        (* of objects on the heap and in records                *)
  contents,         (* what an object consists of, NULL if it is none       *)
  refs,             (* the references of the program to each of them        *)
  dying,            (* the objects that are being deallocated               *)
  interned,         (* the records in the dictionary of interned strings    *)
  load,             (* the code object that marshal is reading              *)
  surplus           (* history: counts that stand for no reference          *)

heapVars == <<ob_refcnt, contents, refs, dying, surplus>>
immVars  == <<dbVars, heapVars, interned, load>>

All    == Objects \cup Records
String(x)   == [kind |-> "string", text |-> x]
Tuple(i)    == [kind |-> "tuple", item |-> i]
Code(t, n)  == [kind |-> "code", consts |-> t, name |-> n]
Things == [kind : {"string"}, text : Texts] \cup [kind : {"tuple"}, item : All]
          \cup [kind : {"code"}, consts : All \cup {NULL}, name : All]

(* The objects of tuples have a count of 2 from the start. *)
ASSUME ImmortalsAssumption ==
  /\ PALMDM_REFCNT \in Nat \ {0, 1} /\ MaxRefs \in Nat \ {0}
  /\ IsFiniteSet(Objects) /\ IsFiniteSet(Records)
  /\ Objects \cap Records = {} /\ NULL \notin All \cup Texts \cup Things

Holds(c) == CASE c = NULL -> {}
              [] c # NULL -> CASE c.kind = "string" -> {}
                               [] c.kind = "tuple"  -> {c.item}
                               [] c.kind = "code"   -> {c.consts, c.name} \ {NULL}

NoLoad == [step |-> "none"]

Empty ==
  /\ ob_refcnt' = [o \in All |-> 0] /\ contents' = [o \in All |-> NULL]
  /\ refs' = [o \in All |-> 0] /\ dying' = {}
  /\ surplus' = [o \in All |-> 0]
  /\ interned' = {} /\ load' = NoLoad

ImmInit ==
  /\ DbInit
  /\ ob_refcnt = [o \in All |-> 0] /\ contents = [o \in All |-> NULL]
  /\ refs = [o \in All |-> 0] /\ dying = {}
  /\ surplus = [o \in All |-> 0]
  /\ interned = {} /\ load = NoLoad

-----------------------------------------------------------------------------
(* Counting *)

Alive(o)  == ob_refcnt[o] > 0
Unused(o) == ob_refcnt[o] = 0 /\ o \notin dying
MayRun    == session = "running" /\ dying = {} /\ load = NoLoad

(* Py_INCREF and Py_DECREF leave PALMDM_REFCNT alone; an ordinary object   *)
(* whose count gets there keeps it as well.                                *)
Counts(o) == ob_refcnt[o] # PALMDM_REFCNT

(* The objects of up gain a reference, those of down lose one, and those   *)
(* of new are made; what comes to 0 is deallocated.                        *)
Count(new, up, down) ==
  LET count == [o \in All |->
                  IF o \in DOMAIN new THEN new[o]
                  ELSE IF ~Counts(o) THEN ob_refcnt[o]
                  ELSE ob_refcnt[o] + Cardinality(up \cap {o}) - Cardinality(down \cap {o})]
  IN /\ ob_refcnt' = count
     /\ dying' = dying \cup {o \in down : count[o] = 0}

Nothing == [o \in {} |-> 0]
Immortal(r) == [o \in {r} |-> PALMDM_REFCNT]

_Py_Dealloc(o) ==
  /\ o \in dying /\ session = "running"
  /\ LET down == Holds(contents[o]) IN
       /\ ob_refcnt' = [x \in All |-> IF x \in down /\ Counts(x) THEN ob_refcnt[x] - 1 ELSE ob_refcnt[x]]
       /\ dying' = (dying \ {o}) \cup {x \in down : ob_refcnt[x] = 1}
  /\ contents' = [contents EXCEPT ![o] = NULL]
  /\ UNCHANGED <<dbVars, refs, interned, load, surplus>>

-----------------------------------------------------------------------------
(* What a program does with references *)

NewString(o, x) ==
  /\ MayRun /\ Unused(o)
  /\ Count([y \in {o} |-> 1], {}, {})
  /\ contents' = [contents EXCEPT ![o] = String(x)]
  /\ refs' = [refs EXCEPT ![o] = 1]
  /\ UNCHANGED <<dbVars, interned, load, surplus>>

Duplicate(o) ==
  /\ MayRun /\ refs[o] \in 1 .. MaxRefs - 1
  /\ Count(Nothing, {o}, {})
  /\ refs' = [refs EXCEPT ![o] = @ + 1]
  /\ UNCHANGED <<dbVars, contents, interned, load, surplus>>

Release(o) ==
  /\ MayRun /\ refs[o] > 0
  /\ Count(Nothing, {}, {o})
  /\ refs' = [refs EXCEPT ![o] = @ - 1]
  /\ UNCHANGED <<dbVars, contents, interned, load, surplus>>

-----------------------------------------------------------------------------
(* dbmem_addPyObject *)

Copies(r) ==
  /\ CanCreate(r)
  /\ records' = records \cup {r} /\ UNCHANGED <<session, exists, stringdb_ref>>

(* There is no room for a record, or DmWrite fails and leaves it there.    *)
CopyFails ==
  /\ \/ UNCHANGED records
     \/ \E r \in Records : CanCreate(r) /\ records' = records \cup {r}
  /\ UNCHANGED <<session, exists, stringdb_ref>>

-----------------------------------------------------------------------------
(* PyString_InternInPlace, for a reference of the program to a string *)

Twin(o) == {t \in interned : contents[t] = contents[o]}
Replace(o, t) == refs' = [refs EXCEPT ![o] = @ - 1, ![t] = @ + 1]

AlreadyInterned(o) ==
  \E t \in Twin(o) :
    /\ refs[t] < MaxRefs
    /\ Count(Nothing, {t}, {o}) /\ Replace(o, t)
    /\ UNCHANGED <<dbVars, contents, interned>>

InternCopy(o) ==
  \E r \in Records :
    /\ Copies(r)
    /\ contents' = [contents EXCEPT ![r] = contents[o]]
    /\ \/ /\ interned' = interned \cup {r}
          /\ Count(Immortal(r), {}, {o}) /\ Replace(o, r)
       \/ /\ Count(Immortal(r), {}, {}) /\ UNCHANGED <<refs, interned>>
                                             (* the dictionary has no room *)

InternFails == CopyFails /\ UNCHANGED <<ob_refcnt, dying, contents, refs, interned>>

PyString_InternInPlace(o) ==
  /\ MayRun /\ o \in Objects /\ refs[o] > 0 /\ contents[o].kind = "string"
  /\ \/ AlreadyInterned(o)
     \/ Twin(o) = {} /\ (InternCopy(o) \/ InternFails)
  /\ UNCHANGED <<load, surplus>>

-----------------------------------------------------------------------------
(* TYPE_CODE of r_object, then dbmem_addPyCodeObject: one tuple stands for *)
(* the three, the name for all that a code object refers to directly.      *)

(* PyCode_New: a tuple t around i and a code object v, called n.           *)
ReadCode(t, v, i, n) ==
  /\ MayRun /\ Unused(t) /\ Unused(v) /\ t # v
  /\ refs[i] > 0 /\ refs[n] > 0 /\ i # n
  /\ contents[i].kind \in {"string", "code"} /\ contents[n].kind = "string"
  /\ Count([o \in {t, v} |-> IF o = t THEN 2 ELSE 1], {n}, {})
  /\ contents' = [contents EXCEPT ![t] = Tuple(i), ![v] = Code(t, n)]
  /\ refs' = [refs EXCEPT ![i] = @ - 1, ![n] = @ - 1]
  /\ load' = [step |-> "tuple", tuple |-> t, code |-> v, name |-> n, result |-> NULL]
  /\ UNCHANGED <<dbVars, interned, surplus>>

(* Mutant: the items of the tuple are not counted for its copy. *)
CopyTupleOnly ==
  /\ load.step = "tuple"
  /\ \/ \E r \in Records :
          /\ Copies(r)
          /\ contents' = [contents EXCEPT ![r] = contents[load.tuple], ![load.code] = Code(r, load.name)]
          /\ Count(Immortal(r), {}, {load.tuple})
          /\ UNCHANGED surplus
     \/ /\ CopyFails
        /\ contents' = [contents EXCEPT ![load.code] = Code(NULL, load.name)]
        /\ surplus' = [surplus EXCEPT ![load.tuple] = @ + 1]
        /\ UNCHANGED <<ob_refcnt, dying>>
  /\ load' = [load EXCEPT !.step = "code"]
  /\ UNCHANGED <<refs, interned>>

(* dbmem_addPyTupleObject.  When it fails the code object has NULL for the *)
(* tuple, and nobody gives up the reference it had.                        *)
CopyTuple ==
  /\ load.step = "tuple"
  /\ \/ \E r \in Records :
          /\ Copies(r)
          /\ contents' = [contents EXCEPT ![r] = contents[load.tuple], ![load.code] = Code(r, load.name)]
          /\ Count(Immortal(r), Holds(contents[load.tuple]), {load.tuple})
          /\ UNCHANGED surplus
     \/ /\ CopyFails
        /\ contents' = [contents EXCEPT ![load.code] = Code(NULL, load.name)]
        /\ surplus' = [surplus EXCEPT ![load.tuple] = @ + 1]
        /\ UNCHANGED <<ob_refcnt, dying>>
  /\ load' = [load EXCEPT !.step = "code"]
  /\ UNCHANGED <<refs, interned>>

(* The name is counted for the copy beforehand.  When the copy fails NULL  *)
(* is returned, and the code object is forgotten.                          *)
CopyCode ==
  /\ load.step = "code"
  /\ \/ \E r \in Records :
          /\ Copies(r)
          /\ contents' = [contents EXCEPT ![r] = contents[load.code]]
          /\ Count(Immortal(r), {load.name}, {load.code})
          /\ load' = [load EXCEPT !.step = "end", !.result = r]
          /\ UNCHANGED surplus
     \/ /\ CopyFails
        /\ Count(Nothing, {load.name}, {})
        /\ load' = [load EXCEPT !.step = "end"]
        /\ surplus' = [surplus EXCEPT ![load.name] = @ + 1, ![load.code] = @ + 1]
        /\ UNCHANGED contents
  /\ UNCHANGED <<refs, interned>>

(* marshal gives up its references. *)
EndLoad ==
  /\ load.step = "end" /\ dying = {}
  /\ Count(Nothing, {}, {load.tuple, load.name})
  /\ refs' = IF load.result = NULL THEN refs ELSE [refs EXCEPT ![load.result] = 1]
  /\ load' = NoLoad
  /\ UNCHANGED <<dbVars, contents, interned, surplus>>

-----------------------------------------------------------------------------
Forget == Empty /\ ((Finalize /\ MayRun) \/ Reset)
Session == (InitSteps \/ FiniSteps) /\ UNCHANGED <<heapVars, interned, load>>
Load == session = "running" /\ (CopyTuple \/ CopyCode \/ EndLoad)

ImmNext ==
  \/ Forget \/ Session \/ Load
  \/ \E o \in All : _Py_Dealloc(o) \/ Duplicate(o) \/ Release(o) \/ PyString_InternInPlace(o)
  \/ \E o \in Objects, x \in Texts : NewString(o, x)
  \/ \E t, v \in Objects, i, n \in All : ReadCode(t, v, i, n)

ImmSpec == ImmInit /\ [][ImmNext]_immVars

-----------------------------------------------------------------------------
(* Properties *)

OfMarshal(o) ==
  IF load = NoLoad THEN 0
  ELSE Cardinality({load.tuple, load.name} \cap {o})
       + (IF o = load.code /\ load.step # "end" THEN 1 ELSE 0)
ReferencesOf(o) ==
  refs[o] + Cardinality({x \in All : o \in Holds(contents[x])}) + OfMarshal(o)

ImmTypeOK ==
  /\ session \in {"off", "creating", "opening", "running", "closing", "deleting"}
  /\ ob_refcnt \in [All -> 0 .. PALMDM_REFCNT] /\ refs \in [All -> 0 .. MaxRefs]
  /\ dying \subseteq All /\ interned \subseteq Records
  /\ load.step \in {"none", "tuple", "code", "end"}
  /\ \A o \in All : Holds(contents[o]) \subseteq All

(* An object on the heap is counted as often as it is referred to, copies  *)
(* in records included, and by the references that a failure has left      *)
(* behind; from PALMDM_REFCNT on it just stays.  So nothing goes away that *)
(* is referred to, and nothing in a record is ever deallocated: what is    *)
(* referred to is there, in the database of this session, and strings that *)
(* were interned are one object if they are equal.                         *)
ReferencesAreCounted ==
  /\ ImmTypeOK
  /\ \A o \in Objects : Counts(o) => ob_refcnt[o] = ReferencesOf(o) + surplus[o]
  /\ \A o \in All : ReferencesOf(o) > 0 => Alive(o)
  /\ \A r \in Records : Alive(r) => r \in records /\ contents[r] # NULL
  /\ dying \cap Records = {}
  /\ \A r, t \in interned : contents[r] = contents[t] => r = t
=============================================================================
