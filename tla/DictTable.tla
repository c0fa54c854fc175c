------------------------------ MODULE DictTable -----------------------------
(***************************************************************************)
(* The hash table of a dictionary object (Objects/dictobject.c): slots,    *)
(* dummies, the counters ma_fill and ma_used, the lookup along a probe     *)
(* sequence, the resize with its reinsertion loop, and the operations on   *)
(* top of them.  The loops of dictresize and of dict_update are taken one  *)
(* iteration at a time; everything else is one step.                       *)
(*                                                                         *)
(* Keys stand for classes of equal objects, so that the identity test and  *)
(* PyObject_Compare of the code are one comparison; Hash gives their       *)
(* (cached) hashes, which may collide.  The probe sequence of a hash is a  *)
(* parameter: DictProbe gives the one of the code.                         *)
(***************************************************************************)
EXTENDS Integers, FiniteSets

CONSTANTS
  Keys, Values,
  Others,             (* the dictionaries that dict_update is given         *)
  Hash,               (* the hash of every key                              *)
  Probe(_, _, _),     (* Probe(hash, size, n): the slot of the n-th probe   *)
  NULL, Dummy,        (* the NULL pointer; the key of a deleted entry       *)
  Sizes,              (* table sizes: MINSIZE doubled, one per polynomial   *)
  AllocFails,         (* may the allocation of a table fail?                *)
  Reenters            (* may a value that is dropped run code on this dict? *)

ASSUME DictAssumption ==
  /\ IsFiniteSet(Keys)
  /\ NULL \notin Keys \cup Values /\ Dummy \notin Keys \cup {NULL}
  /\ \A other \in Others : DOMAIN other \subseteq Keys
                           /\ other \in [DOMAIN other -> Values]
  /\ Sizes \subseteq Nat /\ \A s \in Sizes : s >= 4
  /\ \E s \in Sizes : s > 3 * Cardinality(Keys)
  /\ AllocFails \in BOOLEAN /\ Reenters \in BOOLEAN

(* The probes of a hash stay in the table and, all together, visit it all. *)
ASSUME ProbeAssumption ==
  \A k \in Keys, s \in Sizes :
    /\ \A n \in 0 .. s - 1 : Probe(Hash[k], s, n) \in 0 .. s - 1
    /\ \A j \in 0 .. s - 1 : \E n \in 0 .. s - 1 : Probe(Hash[k], s, n) = j

VARIABLES
  ma_table, ma_size, ma_fill, ma_used,
  phase,      (* "idle", "resize" (pass 1 of dictresize), "insert" (after   *)
              (* the resize of a SetItem), "update", "crash"                *)
  old, pos,   (* the table being replaced and the i of pass 1               *)
  item,       (* the key and value of the SetItem that waits for the resize *)
  updating,   (* is a dict_update under way?                                *)
  todo,       (* the entries of "other" that it has not inserted            *)
  hook        (* has it just dropped a value, whose destructor may run?     *)

tableVars == <<ma_table, ma_size, ma_fill, ma_used>>
loopVars  == <<old, pos, item>>
vars      == <<tableVars, phase, loopVars, updating, todo, hook>>

Slots(size) == 0 .. size - 1
Free == [key |-> NULL, value |-> NULL]
EmptyTable(size) == [s \in Slots(size) |-> Free]
NoItem == [key |-> NULL, value |-> NULL]
NoUpdate == [k \in {} |-> NULL]
Active(table) == {s \in DOMAIN table : table[s].value # NULL}
InUse(table)  == {s \in DOMAIN table : table[s].key # NULL}

Init ==
  /\ ma_table = EmptyTable(0) /\ ma_size = 0 /\ ma_fill = 0 /\ ma_used = 0
  /\ phase = "idle"
  /\ old = EmptyTable(0) /\ pos = 0 /\ item = NoItem
  /\ updating = FALSE /\ todo = NoUpdate /\ hook = FALSE

-----------------------------------------------------------------------------
(* lookdict *)

SlotOf(k, n)  == Probe(Hash[k], ma_size, n)
KeyAt(k, n)   == ma_table[SlotOf(k, n)].key
(* Mutant: a deleted entry ends the search. *)
StopsAtDummy(k, n) == KeyAt(k, n) \in {NULL, Dummy, k}
Stops(k, n)   == KeyAt(k, n) \in {NULL, k}

(* The lookup returns only if some probe meets the key or a NULL key; it   *)
(* would go round for ever on a table without them.                        *)
Returns(k) == \E n \in Slots(ma_size) : Stops(k, n)
StopAt(k)  == CHOOSE n \in Slots(ma_size) :
                Stops(k, n) /\ \A m \in 0 .. n - 1 : ~Stops(k, m)

(* The slot of the key or, if it is absent, the first dummy on the way to  *)
(* the NULL key, or the slot of the NULL key.                              *)
lookdict(k) ==
  LET n == StopAt(k)
      dummies == {m \in 0 .. n - 1 : KeyAt(k, m) = Dummy}
  IN  IF KeyAt(k, n) = k \/ dummies = {}
      THEN SlotOf(k, n)
      ELSE SlotOf(k, CHOOSE m \in dummies : \A j \in dummies : m <= j)

(* PyDict_GetItem, has_key, get, subscript: NULL when the key is absent.   *)
GetItem(k) == IF ma_size = 0 THEN NULL ELSE ma_table[lookdict(k)].value

(* insertdict *)
insertdict(k, v) ==
  /\ Returns(k)
  /\ LET s == lookdict(k) IN
     /\ ma_table' = [ma_table EXCEPT ![s] = [key |-> k, value |-> v]]
     /\ ma_fill' = IF ma_table[s].key = NULL THEN ma_fill + 1 ELSE ma_fill
     /\ ma_used' = IF ma_table[s].value = NULL THEN ma_used + 1 ELSE ma_used
  /\ UNCHANGED ma_size

-----------------------------------------------------------------------------
(* dictresize: the new table, then pass 1 over the old one *)

Fits(size, minused) ==
  /\ size \in Sizes /\ size > minused
  /\ \A s \in Sizes : s > minused => size <= s

StartResize(minused) ==
  \E newsize \in Sizes :
    /\ Fits(newsize, minused)
    /\ ma_table' = EmptyTable(newsize) /\ ma_size' = newsize
    /\ ma_fill' = 0 /\ ma_used' = 0
    /\ old' = ma_table /\ pos' = 0
    /\ phase' = "resize"

(* No memory, or no polynomial for a table of that size. *)
ResizeFails(minused) == AllocFails \/ ~\E s \in Sizes : s > minused

Reinsert ==
  /\ phase = "resize" /\ pos \in DOMAIN old
  /\ pos' = pos + 1
  /\ IF old[pos].value # NULL
     THEN insertdict(old[pos].key, old[pos].value)
     ELSE UNCHANGED tableVars
  /\ UNCHANGED <<phase, old, item, updating, todo, hook>>

(* Mutant: pass 1 ends one entry too early. *)
FinishResizeEarly ==
  /\ phase = "resize" /\ pos + 1 \notin DOMAIN old
  /\ phase' = IF item # NoItem THEN "insert" ELSE "update"
  /\ old' = EmptyTable(0) /\ pos' = 0
  /\ UNCHANGED <<tableVars, item, updating, todo, hook>>

(* The old table is given back, and the operation that resized goes on. *)
FinishResize ==
  /\ phase = "resize" /\ pos \notin DOMAIN old
  /\ phase' = IF item # NoItem THEN "insert" ELSE "update"
  /\ old' = EmptyTable(0) /\ pos' = 0
  /\ UNCHANGED <<tableVars, item, updating, todo, hook>>

-----------------------------------------------------------------------------
(* The operations.  Code that a dropped value runs may call any of them in *)
(* the middle of a dict_update.                                            *)

MayStart == phase = "idle" \/ (phase = "update" /\ Reenters /\ hook)
Resume   == phase' = IF updating THEN "update" ELSE "idle"

(* Mutant: the table is resized only when it is full. *)
SetItemUntilFull(k, v) ==
  /\ MayStart
  /\ ma_fill + 1 <= ma_size
  /\ insertdict(k, v)
  /\ UNCHANGED <<phase, loopVars, updating, todo, hook>>

(* PyDict_SetItem on a table that has room for one more key, or that could *)
(* not be resized and is not yet full.                                     *)
SetItem(k, v) ==
  /\ MayStart
  /\ \/ ma_fill * 3 < ma_size * 2
     \/ ResizeFails(ma_used * 2) /\ ma_fill + 1 <= ma_size
  /\ insertdict(k, v)
  /\ UNCHANGED <<phase, loopVars, updating, todo, hook>>

(* PyDict_SetItem on a table that is two thirds full. *)
SetItemResizes(k, v) ==
  /\ MayStart
  /\ ma_fill * 3 >= ma_size * 2
  /\ StartResize(ma_used * 2)
  /\ item' = [key |-> k, value |-> v]
  /\ UNCHANGED <<updating, todo, hook>>

Insert ==
  /\ phase = "insert"
  /\ insertdict(item.key, item.value)
  /\ item' = NoItem
  /\ Resume
  /\ UNCHANGED <<old, pos, updating, todo, hook>>

(* Mutants of DelItem: the deleted entry no longer counts in ma_fill; the  *)
(* key becomes NULL and not dummy.                                         *)
Deletes(k, entry, fill) ==
  /\ MayStart /\ ma_size # 0 /\ Returns(k)
  /\ ma_table[lookdict(k)].value # NULL
  /\ ma_table' = [ma_table EXCEPT ![lookdict(k)] = entry]
  /\ ma_used' = ma_used - 1 /\ ma_fill' = fill
  /\ UNCHANGED <<ma_size, phase, loopVars, updating, todo, hook>>
DelItemLeavesNull(k) == Deletes(k, Free, ma_fill - 1)

(* PyDict_DelItem of a key that is present. *)
DelItem(k) ==
  /\ MayStart /\ ma_size # 0 /\ Returns(k)
  /\ ma_table[lookdict(k)].value # NULL
  /\ ma_table' = [ma_table EXCEPT ![lookdict(k)] =
                    [key |-> Dummy, value |-> NULL]]
  /\ ma_used' = ma_used - 1
  /\ UNCHANGED <<ma_size, ma_fill, phase, loopVars, updating, todo, hook>>

(* PyDict_Clear *)
Clear ==
  /\ MayStart /\ ma_size # 0
  /\ ma_table' = EmptyTable(0) /\ ma_size' = 0 /\ ma_fill' = 0 /\ ma_used' = 0
  /\ UNCHANGED <<phase, loopVars, updating, todo, hook>>

(* dict_update(other): one resize at the start for all the entries of      *)
(* other, none afterwards; nothing happens if that resize fails.           *)
StartUpdate(other) ==
  LET n == Cardinality(DOMAIN other) IN
  /\ phase = "idle"
  /\ todo' = other /\ updating' = TRUE /\ hook' = FALSE
  /\ IF (ma_fill + n) * 3 >= ma_size * 2
     THEN StartResize(((ma_used + n) * 3) \div 2)
     ELSE phase' = "update" /\ UNCHANGED <<tableVars, old, pos>>
  /\ UNCHANGED item

Without(f, k) == [j \in DOMAIN f \ {k} |-> f[j]]

(* One entry of other.  On a table that was cleared meanwhile, lookdict    *)
(* indexes the NULL pointer with a mask of all ones.                       *)
UpdateEntry(k) ==
  /\ phase = "update" /\ k \in DOMAIN todo
  /\ todo' = Without(todo, k)
  /\ IF ma_size = 0
     THEN phase' = "crash" /\ UNCHANGED <<tableVars, hook>>
     ELSE /\ insertdict(k, todo[k])
          /\ hook' = (ma_table[lookdict(k)].value # NULL)
          /\ UNCHANGED phase
  /\ UNCHANGED <<loopVars, updating>>

FinishUpdate ==
  /\ phase = "update" /\ todo = NoUpdate
  /\ phase' = "idle" /\ updating' = FALSE /\ hook' = FALSE
  /\ UNCHANGED <<tableVars, loopVars, todo>>

Next == \/ \E k \in Keys, v \in Values : SetItem(k, v) \/ SetItemResizes(k, v)
        \/ \E k \in Keys : DelItem(k) \/ UpdateEntry(k)
        \/ \E other \in Others : StartUpdate(other)
        \/ Clear \/ Reinsert \/ FinishResize \/ Insert \/ FinishUpdate

Spec == Init /\ [][Next]_vars

-----------------------------------------------------------------------------
(* Properties *)

Entries == [key : Keys \cup {NULL, Dummy}, value : Values \cup {NULL}]

(* The table is an array of ma_size entries, each in use with a key and a  *)
(* value or not in use with neither; the counters count its slots.         *)
TableOK(table) ==
  \A s \in DOMAIN table : table[s] \in Entries
                          /\ (table[s].value # NULL <=> table[s].key \in Keys)

TypeOK ==
  /\ ma_size \in Sizes \cup {0}
  /\ ma_table \in [Slots(ma_size) -> Entries] /\ TableOK(ma_table)
  /\ phase \in {"idle", "resize", "insert", "update", "crash"}
  /\ pos \in Nat /\ \E s \in Sizes \cup {0} : DOMAIN old = Slots(s)
  /\ TableOK(old)
  /\ item \in [key : Keys, value : Values] \cup {NoItem}
  /\ DOMAIN todo \subseteq Keys /\ todo \in [DOMAIN todo -> Values]
  /\ updating \in BOOLEAN /\ hook \in BOOLEAN

(* ma_fill is the number of non-NULL keys, ma_used that of the entries in  *)
(* use.                                                                    *)
CountersCount ==
  /\ ma_fill = Cardinality(InUse(ma_table))
  /\ ma_used = Cardinality(Active(ma_table))

(* "There must be at least one NULL key in the table": whatever sequence   *)
(* of sets, deletions, resizes and updates came before.                    *)
OneNullKey == ma_size # 0 => \E s \in Slots(ma_size) : ma_table[s].key = NULL

(* Every key in the table is met by the probes of its own hash before any  *)
(* NULL key and before any copy of itself: deletions lose no other key,    *)
(* and no key is in the table twice.                                       *)
NoKeyIsLost ==
  \A s \in Active(ma_table) :
    \E n \in Slots(ma_size) :
      /\ SlotOf(ma_table[s].key, n) = s
      /\ \A m \in 0 .. n - 1 : ~Stops(ma_table[s].key, m)

(* The table and, during a resize, what is left of the old one, are one    *)
(* map, which changes as the abstract dictionary does, and not at all from *)
(* the start of a resize to its end.                                       *)
Holds(k, v) ==
  \/ \E s \in DOMAIN ma_table : ma_table[s] = [key |-> k, value |-> v]
  \/ \E s \in DOMAIN old : s >= pos /\ old[s] = [key |-> k, value |-> v]
Contents == [k \in {j \in Keys : \E v \in Values : Holds(j, v)} |->
               CHOOSE v \in Values : Holds(k, v)]
Abstract == INSTANCE DictSpec WITH contents <- Contents,
                                resizing <- (phase = "resize")
ImplementsMap == Abstract!Spec

(* A lookup of any key, present or not, returns, and gives its value.      *)
LookupIsRight ==
  phase \in {"idle", "update"} /\ ma_size # 0 =>
    \A k \in Keys :
      /\ Returns(k)
      /\ \A v \in Values : Holds(k, v) <=> GetItem(k) = v
=============================================================================
