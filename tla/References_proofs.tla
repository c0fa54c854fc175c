-------------------------- MODULE References_proofs -------------------------
(***************************************************************************)
(* Proofs about the parts of the port that count references and locks by   *)
(* hand, for any number of objects, records and calls: the record objects  *)
(* and buffers of palmdm (PalmRecords), the callbacks of forms and their   *)
(* events (FormHandlers), the objects that are copied into the scratch     *)
(* database (Immortals), and the code that stays locked where it was found *)
(* (FrozenModules).                                                        *)
(***************************************************************************)
EXTENDS PalmRecords, FormHandlers, Immortals, FrozenModules, FiniteSetTheorems, SequenceTheorems,
        WellFoundedInduction, TLAPS

-----------------------------------------------------------------------------
(* Counting *)

One(p) == IF p THEN 1 ELSE 0

(* Two sets that differ at most in x. *)
LEMMA OneMember ==
  ASSUME NEW A, NEW B, NEW x, IsFiniteSet(A), A \ {x} = B \ {x}
  PROVE  /\ IsFiniteSet(B) /\ Cardinality(A) \in Nat /\ Cardinality(B) \in Nat
         /\ Cardinality(B) + One(x \in A) = Cardinality(A) + One(x \in B)
<1> DEFINE C == A \ {x}
<1>1. IsFiniteSet(C) /\ Cardinality(C) \in Nat /\ Cardinality(A) = Cardinality(C) + One(x \in A)
  <2>1. IsFiniteSet(C) /\ Cardinality(C) = IF x \in A THEN Cardinality(A) - 1 ELSE Cardinality(A)
    BY FS_RemoveElement
  <2>2. Cardinality(C) \in Nat /\ Cardinality(A) \in Nat
    BY <2>1, FS_CardinalityType
  <2>3. QED BY <2>1, <2>2 DEF One
<1>2. IsFiniteSet(B) /\ Cardinality(B) \in Nat /\ Cardinality(B) = Cardinality(C) + One(x \in B)
  <2>1. CASE x \in B
    <3>1. B = C \cup {x} /\ x \notin C
      BY <2>1
    <3>2. IsFiniteSet(C \cup {x}) /\ Cardinality(C \cup {x}) = Cardinality(C) + 1
      BY <1>1, <3>1, FS_AddElement
    <3>3. QED BY <1>1, <2>1, <3>1, <3>2 DEF One
  <2>2. CASE x \notin B
    <3>1. B = C
      BY <2>2
    <3>2. QED BY <1>1, <2>2, <3>1 DEF One
  <2>3. QED BY <2>1, <2>2
<1>3. Cardinality(A) \in Nat
  BY FS_CardinalityType
<1>4. One(x \in A) \in Nat /\ One(x \in B) \in Nat
  BY DEF One
<1>5. QED BY <1>1, <1>2, <1>3, <1>4

(* A function that changes at x, and how often it has the value o. *)
Times(S, f, o) == Cardinality({y \in S : f[y] = o})
OnlyAt(x, S, f, g) == \A y \in S \ {x} : g[y] = f[y]

LEMMA OneValue ==
  ASSUME NEW S, IsFiniteSet(S), NEW f, NEW g, NEW x \in S, OnlyAt(x, S, f, g), NEW o
  PROVE  /\ Times(S, f, o) \in Nat /\ Times(S, g, o) \in Nat
         /\ Times(S, g, o) + One(f[x] = o) = Times(S, f, o) + One(g[x] = o)
<1> DEFINE A == {y \in S : f[y] = o}  B == {y \in S : g[y] = o}
<1>1. IsFiniteSet(A)
  BY FS_Subset
<1>2. A \ {x} = B \ {x}
  BY DEF OnlyAt
<1>3. (x \in A <=> f[x] = o) /\ (x \in B <=> g[x] = o)
  OBVIOUS
<1>4. Cardinality(A) \in Nat /\ Cardinality(B) \in Nat
      /\ Cardinality(B) + One(x \in A) = Cardinality(A) + One(x \in B)
  BY <1>1, <1>2, OneMember
<1>5. QED BY <1>3, <1>4 DEF Times, One

LEMMA TimesFound ==
  ASSUME NEW S, IsFiniteSet(S), NEW f, NEW o
  PROVE  Times(S, f, o) \in Nat /\ \A x \in S : f[x] = o => Times(S, f, o) > 0
<1> DEFINE A == {y \in S : f[y] = o}
<1>1. IsFiniteSet(A)
  BY FS_Subset
<1>2. Cardinality(A) \in Nat /\ (Cardinality(A) = 0 <=> A = {})
  BY <1>1, FS_CardinalityType, FS_EmptySet
<1>3. QED BY <1>2 DEF Times

-----------------------------------------------------------------------------
(* PalmRecords *)

(* A record object has its buffer for its own and has it, with its         *)
(* database, from when it is made until it is deallocated.                 *)
RecordsOwnBuffers ==
  /\ \A r \in RecObjects :
       /\ recbuf[r] = None <=> ob_dm[r] = None
       /\ recbuf[r] # None <=> Exists(r) \/ r \in doomed
       /\ recbuf[r] # None => base[recbuf[r]] = None
  /\ \A r, s \in RecObjects : recbuf[r] = recbuf[s] /\ recbuf[r] # None => r = s

(* A buffer refers to a base or is one; while its base is valid it is on   *)
(* the same memory.  A base is valid because a record object has it or     *)
(* because its lock was left behind.                                       *)
HasRoot(b) ==
  /\ Free(b) => ptr[b] = None /\ base[b] = None
  /\ base[b] # None => /\ base[base[b]] = None
                       /\ ptr[base[b]] # None => ptr[b] = ptr[base[b]]
  /\ base[b] = None /\ ptr[b] # None =>
       leaked[ptr[b]] > 0 \/ \E r \in RecObjects : recbuf[r] = b
BuffersHaveRoots == \A b \in Buffers : HasRoot(b)

PalmInv == EverythingIsReturned /\ RecordsOwnBuffers /\ BuffersHaveRoots

(* References that are in no field of an object. *)
Loose(o) == One(o \in mine) + (IF o \in Buffers THEN unowned[o] ELSE 0)
InFields(o) == Times(RecObjects, ob_dm, o) + Times(RecObjects, recbuf, o) + Times(Buffers, base, o)

LEMMA ReferencesAre ==
  ASSUME PalmTypeOK, NEW o \in PyObjects
  PROVE  /\ References(o) = Loose(o) + InFields(o)
         /\ Loose(o) \in Nat /\ InFields(o) \in Nat
<1>1. Times(RecObjects, ob_dm, o) \in Nat /\ Times(RecObjects, recbuf, o) \in Nat /\ Times(Buffers, base, o) \in Nat
  BY TimesFound, PalmAssumption
<1>2. One(o \in mine) \in Nat /\ (IF o \in Buffers THEN unowned[o] ELSE 0) \in Nat
  BY DEF One, PalmTypeOK
<1>3. QED BY <1>1, <1>2 DEF References, Loose, InFields, Times, One

(* What is referred to exists. *)
LEMMA ReferredExists ==
  ASSUME PalmInv, NEW o \in PyObjects
  PROVE  /\ o \in mine => refcnt[o] > 0
         /\ \A r \in RecObjects : ob_dm[r] = o \/ recbuf[r] = o => refcnt[o] > 0
         /\ \A b \in Buffers : base[b] = o => refcnt[o] > 0
         /\ o \in Buffers /\ refcnt[o] = 0 => unowned[o] = 0
         /\ refcnt[o] > 0 => o \notin doomed
<1> USE DEF PalmInv, EverythingIsReturned, ObjectsAreCounted
<1>1. refcnt[o] = Loose(o) + InFields(o) /\ Loose(o) \in Nat /\ InFields(o) \in Nat
  BY ReferencesAre
<1>2. /\ Times(RecObjects, ob_dm, o) \in Nat /\ Times(RecObjects, recbuf, o) \in Nat /\ Times(Buffers, base, o) \in Nat
      /\ \A r \in RecObjects : /\ ob_dm[r] = o => Times(RecObjects, ob_dm, o) > 0
                               /\ recbuf[r] = o => Times(RecObjects, recbuf, o) > 0
      /\ \A b \in Buffers : base[b] = o => Times(Buffers, base, o) > 0
  BY TimesFound, PalmAssumption
<1>3. (o \in mine => Loose(o) > 0) /\ (o \in Buffers /\ unowned[o] # 0 => Loose(o) > 0)
  BY DEF Loose, One, PalmTypeOK
<1>4. \A r \in RecObjects : ob_dm[r] = o \/ recbuf[r] = o => InFields(o) > 0
  BY <1>2 DEF InFields
<1>5. \A b \in Buffers : base[b] = o => InFields(o) > 0
  BY <1>2 DEF InFields
<1>6. refcnt[o] > 0 => o \notin doomed
  BY DEF Exists
<1>7. QED BY <1>1, <1>3, <1>4, <1>5, <1>6

(* How the references to an object change when the fields of one record    *)
(* object or one buffer do.                                                *)
LEMMA FieldsOfRecord ==
  ASSUME PalmTypeOK, NEW r \in RecObjects, UNCHANGED base,
         OnlyAt(r, RecObjects, ob_dm, ob_dm'), OnlyAt(r, RecObjects, recbuf, recbuf'),
         NEW o \in PyObjects
  PROVE  InFields(o)' + One(ob_dm[r] = o) + One(recbuf[r] = o)
           = InFields(o) + One(ob_dm'[r] = o) + One(recbuf'[r] = o)
<1>1. /\ Times(RecObjects, ob_dm, o) \in Nat /\ Times(RecObjects, ob_dm', o) \in Nat
      /\ Times(RecObjects, ob_dm', o) + One(ob_dm[r] = o) = Times(RecObjects, ob_dm, o) + One(ob_dm'[r] = o)
  BY OneValue, PalmAssumption
<1>2. /\ Times(RecObjects, recbuf, o) \in Nat /\ Times(RecObjects, recbuf', o) \in Nat
      /\ Times(RecObjects, recbuf', o) + One(recbuf[r] = o) = Times(RecObjects, recbuf, o) + One(recbuf'[r] = o)
  BY OneValue, PalmAssumption
<1>3. Times(Buffers, base, o) \in Nat
  BY TimesFound, PalmAssumption
<1>4. InFields(o)' = Times(RecObjects, ob_dm', o) + Times(RecObjects, recbuf', o) + Times(Buffers, base, o)
  BY DEF InFields, Times
<1>5. /\ One(ob_dm[r] = o) \in Nat /\ One(recbuf[r] = o) \in Nat
      /\ One(ob_dm'[r] = o) \in Nat /\ One(recbuf'[r] = o) \in Nat
  BY DEF One
<1>6. QED BY <1>1, <1>2, <1>3, <1>4, <1>5 DEF InFields

LEMMA FieldsOfBuffer ==
  ASSUME PalmTypeOK, NEW b \in Buffers, UNCHANGED recVars,
         OnlyAt(b, Buffers, base, base'),
         NEW o \in PyObjects
  PROVE  InFields(o)' + One(base[b] = o) = InFields(o) + One(base'[b] = o)
<1>1. /\ Times(Buffers, base, o) \in Nat /\ Times(Buffers, base', o) \in Nat
      /\ Times(Buffers, base', o) + One(base[b] = o) = Times(Buffers, base, o) + One(base'[b] = o)
  BY OneValue, PalmAssumption
<1>2. Times(RecObjects, ob_dm, o) \in Nat /\ Times(RecObjects, recbuf, o) \in Nat
  BY TimesFound, PalmAssumption
<1>3. One(base[b] = o) \in Nat /\ One(base'[b] = o) \in Nat
  BY DEF One
<1>4. InFields(o)' = Times(RecObjects, ob_dm, o) + Times(RecObjects, recbuf, o) + Times(Buffers, base', o)
  BY DEF InFields, Times, recVars
<1>5. QED BY <1>1, <1>2, <1>3, <1>4 DEF InFields

LEMMA ReferencesAfter ==
  ASSUME PalmTypeOK', NEW o \in PyObjects
  PROVE  References(o)' = Loose(o)' + InFields(o)' /\ Loose(o)' \in Nat /\ InFields(o)' \in Nat
<1>1. Times(RecObjects, ob_dm', o) \in Nat /\ Times(RecObjects, recbuf', o) \in Nat /\ Times(Buffers, base', o) \in Nat
  BY TimesFound, PalmAssumption
<1>2. InFields(o)' = Times(RecObjects, ob_dm', o) + Times(RecObjects, recbuf', o) + Times(Buffers, base', o)
  BY DEF InFields, Times
<1>3. References(o)' = One(o \in mine') + Times(RecObjects, ob_dm', o) + Times(RecObjects, recbuf', o)
                       + Times(Buffers, base', o) + (IF o \in Buffers THEN unowned'[o] ELSE 0)
  BY DEF References, Times, One
<1>4. One(o \in mine') \in Nat /\ (IF o \in Buffers THEN unowned'[o] ELSE 0) \in Nat
  BY DEF One, PalmTypeOK
<1>5. Loose(o)' = One(o \in mine') + (IF o \in Buffers THEN unowned'[o] ELSE 0)
  BY DEF Loose
<1>6. QED BY <1>1, <1>2, <1>3, <1>4, <1>5

(* What a step has to do to the count of an object. *)
LEMMA Counted ==
  ASSUME PalmInv, PalmTypeOK', NEW o \in PyObjects,
         refcnt'[o] + Loose(o) + InFields(o) = refcnt[o] + Loose(o)' + InFields(o)'
  PROVE  refcnt'[o] = References(o)'
<1>1. refcnt[o] = Loose(o) + InFields(o) /\ Loose(o) \in Nat /\ InFields(o) \in Nat
  BY ReferencesAre DEF PalmInv, EverythingIsReturned, ObjectsAreCounted
<1>2. References(o)' = Loose(o)' + InFields(o)' /\ Loose(o)' \in Nat /\ InFields(o)' \in Nat
  BY ReferencesAfter
<1>3. refcnt[o] \in Nat /\ refcnt'[o] \in Nat
  BY DEF PalmInv, EverythingIsReturned, ObjectsAreCounted, PalmTypeOK
<1>4. QED BY <1>1, <1>2, <1>3

LEMMA SameFields ==
  ASSUME UNCHANGED <<recVars, base>>, NEW o PROVE InFields(o)' = InFields(o)
  BY DEF InFields, Times, recVars

(* The record object r can give back a lock of the memory h. *)
CanUnlock(r, h) == recbuf[r] # None /\ ptr[recbuf[r]] = h
Unlockers(h) == Cardinality({r \in RecObjects : CanUnlock(r, h)})

LEMMA UnlockersAre ==
  ASSUME PalmInv, NEW h \in Handles
  PROVE  /\ locks[h] = leaked[h] + Unlockers(h) /\ Unlockers(h) \in Nat
         /\ \A r \in RecObjects : CanUnlock(r, h) => Unlockers(h) > 0
<1> DEFINE A == {r \in RecObjects : CanUnlock(r, h)}
<1>1. IsFiniteSet(A)
  BY FS_Subset, PalmAssumption
<1>2. Cardinality(A) \in Nat /\ (Cardinality(A) = 0 <=> A = {})
  BY <1>1, FS_CardinalityType, FS_EmptySet
<1>3. locks[h] = leaked[h] + Unlockers(h)
  BY DEF PalmInv, EverythingIsReturned, LocksAreReturned, Unlockers, CanUnlock
<1>4. QED BY <1>2, <1>3 DEF Unlockers

LEMMA UnlockersChange ==
  ASSUME NEW h \in Handles, NEW r \in RecObjects,
         \A s \in RecObjects \ {r} : CanUnlock(s, h)' <=> CanUnlock(s, h)
  PROVE  /\ Unlockers(h) \in Nat /\ Unlockers(h)' \in Nat
         /\ Unlockers(h)' + One(CanUnlock(r, h)) = Unlockers(h) + One(CanUnlock(r, h)')
<1> DEFINE A == {s \in RecObjects : CanUnlock(s, h)}  B == {s \in RecObjects : CanUnlock(s, h)'}
<1>1. IsFiniteSet(A)
  BY FS_Subset, PalmAssumption
<1>2. A \ {r} = B \ {r} /\ (r \in A <=> CanUnlock(r, h)) /\ (r \in B <=> CanUnlock(r, h)')
  OBVIOUS
<1>3. /\ Cardinality(A) \in Nat /\ Cardinality(B) \in Nat
      /\ Cardinality(B) + One(r \in A) = Cardinality(A) + One(r \in B)
  BY <1>1, <1>2, OneMember
<1>4. One(r \in A) = One(CanUnlock(r, h)) /\ One(r \in B) = One(CanUnlock(r, h)')
  BY <1>2 DEF One
<1>5. QED BY <1>3, <1>4 DEF Unlockers

LEMMA SameLocks ==
  ASSUME PalmInv, UNCHANGED <<locks, leaked>>,
         \A r \in RecObjects, h \in Handles : CanUnlock(r, h)' <=> CanUnlock(r, h)
  PROVE  LocksAreReturned'
<1>1. SUFFICES ASSUME NEW h \in Handles PROVE locks'[h] = leaked'[h] + Unlockers(h)'
  BY DEF LocksAreReturned, Unlockers, CanUnlock
<1>2. Unlockers(h)' = Unlockers(h)
  BY DEF Unlockers
<1>3. QED BY <1>2, UnlockersAre

-----------------------------------------------------------------------------
(* Steps that change no record object and no buffer *)

LEMMA DropStep ==
  ASSUME PalmInv, NEW p \in PyObjects, Drop(p) PROVE PalmInv'
<1> USE DEF Drop, Calls, Ready, Decref
<1>1. refcnt \in [PyObjects -> Nat] /\ refcnt[p] > 0
  BY ReferredExists DEF PalmInv, EverythingIsReturned, ObjectsAreCounted, PalmTypeOK
<1>2. PalmTypeOK'
  BY <1>1 DEF PalmInv, EverythingIsReturned, ObjectsAreCounted, PalmTypeOK, dbFields, recVars, bufVars
<1>3. ASSUME NEW o \in PyObjects PROVE refcnt'[o] = References(o)'
  <2>1. InFields(o)' = InFields(o) /\ InFields(o) \in Nat /\ Loose(o) \in Nat
    BY SameFields, ReferencesAre DEF bufVars, PalmInv, EverythingIsReturned, ObjectsAreCounted
  <2>2. Loose(o)' \in Nat /\ Loose(o)' = Loose(o) - One(o = p)
    BY <1>2, ReferencesAfter DEF Loose, One, PalmTypeOK
  <2>3. refcnt'[o] = refcnt[o] - One(o = p)
    BY <1>1 DEF One
  <2>4. One(o = p) \in Nat /\ refcnt[o] \in Nat
    BY <1>1 DEF One
  <2>5. QED BY <1>2, <2>1, <2>2, <2>3, <2>4, Counted
<1>4. \A o \in doomed' : ~Exists(o)'
  BY <1>1 DEF Exists
<1>5. LocksAreReturned'
  BY SameLocks DEF CanUnlock, recVars, bufVars
<1>6. RecordsOwnBuffers'
  BY <1>1 DEF RecordsOwnBuffers, Exists, PalmInv, recVars, bufVars, PyObjects
<1>7. BuffersHaveRoots'
  BY <1>1 DEF BuffersHaveRoots, HasRoot, Free, PalmInv, recVars, bufVars, PyObjects
<1>8. QED BY <1>2, <1>3, <1>4, <1>5, <1>6, <1>7 DEF PalmInv, EverythingIsReturned, ObjectsAreCounted

LEMMA DatabaseStep ==
  ASSUME PalmInv, NEW d \in Databases, close(d) \/ palmdb_dealloc(d) \/ QueryClosed(d) PROVE PalmInv'
<1> USE DEF Calls, Ready, objVars, dbFields, recVars, bufVars
<1>1. UNCHANGED <<refcnt, mine, recVars, bufVars, locks, leaked, unowned>> /\ doomed' \subseteq doomed
      /\ doomed \ doomed' \subseteq Databases
  BY DEF close, palmdb_dealloc, QueryClosed
<1>2. PalmTypeOK'
  <2>1. db' \in [Databases -> BOOLEAN] /\ writes' \in [Databases -> BOOLEAN] /\ crashed' \in BOOLEAN
    BY DEF close, palmdb_dealloc, QueryClosed, PalmInv, EverythingIsReturned, ObjectsAreCounted, PalmTypeOK
  <2>2. QED BY <1>1, <2>1 DEF PalmInv, EverythingIsReturned, ObjectsAreCounted, PalmTypeOK
<1>3. \A o \in PyObjects : refcnt'[o] = References(o)'
  BY <1>1 DEF References, PalmInv, EverythingIsReturned, ObjectsAreCounted
<1>4. \A o \in doomed' : ~Exists(o)'
  BY <1>1 DEF Exists, PalmInv, EverythingIsReturned, ObjectsAreCounted
<1>5. LocksAreReturned'
  BY <1>1, SameLocks DEF CanUnlock
<1>6. RecordsOwnBuffers'
  BY <1>1, PalmAssumption DEF RecordsOwnBuffers, Exists, PalmInv
<1>7. BuffersHaveRoots'
  BY <1>1, PalmAssumption DEF BuffersHaveRoots, HasRoot, Free, PalmInv
<1>8. QED BY <1>2, <1>3, <1>4, <1>5, <1>6, <1>7 DEF PalmInv, EverythingIsReturned, ObjectsAreCounted

(* Create in other words. *)
LEMMA Creating ==
  ASSUME PalmTypeOK, NEW new, NEW old, NEW taken, taken \subseteq PyObjects, Create(new, old, taken)
  PROVE  /\ refcnt' \in [PyObjects -> Nat] /\ mine' \subseteq PyObjects /\ doomed' = doomed
         /\ mine' = mine \cup taken
         /\ \A o \in new \cap PyObjects : refcnt'[o] = 1
         /\ \A o \in PyObjects \ new : refcnt'[o] = refcnt[o] + One(o \in old)
<1>1. \A o \in PyObjects : refcnt[o] \in Nat
  BY DEF PalmTypeOK
<1>2. \A o \in PyObjects : (IF o \in old THEN 1 ELSE 0) = One(o \in old) /\ One(o \in old) \in Nat
  BY DEF One
<1>3. refcnt' = [o \in PyObjects |-> IF o \in new THEN 1 ELSE refcnt[o] + One(o \in old)]
  BY <1>2 DEF Create
<1>4. \A o \in PyObjects : (IF o \in new THEN 1 ELSE refcnt[o] + One(o \in old)) \in Nat
  BY <1>1, <1>2
<1>5. QED BY <1>3, <1>4 DEF Create, PalmTypeOK

LEMMA OpenStep ==
  ASSUME PalmInv, NEW d \in Databases, open(d) PROVE PalmInv'
<1>0. PalmTypeOK /\ d \in PyObjects /\ d \notin Buffers /\ d \notin RecObjects
  BY PalmAssumption DEF PalmInv, EverythingIsReturned, ObjectsAreCounted, PyObjects
<1>1. /\ doomed = {} /\ refcnt[d] = 0 /\ d \notin mine
      /\ UNCHANGED <<recVars, bufVars, locks, leaked, unowned, crashed>>
      /\ db' \in [Databases -> BOOLEAN] /\ writes' \in [Databases -> BOOLEAN]
  BY <1>0, ReferredExists DEF open, Ready, Free, PalmTypeOK
<1>2. /\ refcnt' \in [PyObjects -> Nat] /\ mine' \subseteq PyObjects /\ doomed' = doomed
      /\ mine' = mine \cup {d}
      /\ \A o \in PyObjects : refcnt'[o] = refcnt[o] + One(o = d)
  <2>1. Create({d}, {}, {d})
    BY DEF open
  <2>2. \A o \in PyObjects : o # d => One(o \in {}) = 0 /\ One(o = d) = 0 /\ refcnt[o] \in Nat
    BY <1>0 DEF One, PalmTypeOK
  <2>3. One(d = d) = 1
    BY DEF One
  <2>4. QED BY <1>0, <1>1, <2>1, <2>2, <2>3, Creating
<1>3. PalmTypeOK'
  BY <1>0, <1>1, <1>2 DEF PalmTypeOK, recVars, bufVars
<1>4. ASSUME NEW o \in PyObjects PROVE refcnt'[o] = References(o)'
  <2>1. InFields(o)' = InFields(o) /\ InFields(o) \in Nat /\ Loose(o) \in Nat
    BY <1>0, <1>1, SameFields, ReferencesAre DEF bufVars
  <2>2. Loose(o)' \in Nat /\ Loose(o)' = Loose(o) + One(o = d)
    BY <1>0, <1>1, <1>2, <1>3, ReferencesAfter DEF Loose, One, PalmTypeOK
  <2>3. refcnt'[o] = refcnt[o] + One(o = d) /\ One(o = d) \in Nat /\ refcnt[o] \in Nat
    BY <1>0, <1>2 DEF One, PalmTypeOK
  <2>4. QED BY <1>3, <2>1, <2>2, <2>3, Counted
<1>5. LocksAreReturned'
  BY <1>1, SameLocks DEF CanUnlock, recVars, bufVars
<1>6. \A o \in RecObjects \cup Buffers : o \in PyObjects /\ refcnt'[o] = refcnt[o]
  BY <1>0, <1>2 DEF One, PyObjects, PalmTypeOK
<1>7. RecordsOwnBuffers'
  BY <1>1, <1>2, <1>6 DEF RecordsOwnBuffers, Exists, PalmInv, recVars, bufVars
<1>8. BuffersHaveRoots'
  BY <1>1, <1>2, <1>6 DEF BuffersHaveRoots, HasRoot, Free, PalmInv, recVars, bufVars
<1>9. QED BY <1>1, <1>2, <1>3, <1>4, <1>5, <1>7, <1>8 DEF PalmInv, EverythingIsReturned, ObjectsAreCounted

LEMMA GetbufferStep ==
  ASSUME PalmInv, NEW r \in RecObjects, getbuffer(r) PROVE PalmInv'
<1>0. PalmTypeOK /\ r \in PyObjects
  BY DEF PalmInv, EverythingIsReturned, ObjectsAreCounted, PyObjects
<1>1. PICK b \in Buffers : b = recbuf[r] /\ refcnt[b] > 0
  <2>1. refcnt[r] > 0
    BY <1>0, ReferredExists DEF getbuffer, Calls
  <2>2. recbuf[r] \in Buffers
    BY <1>0, <2>1 DEF PalmInv, RecordsOwnBuffers, Exists, PalmTypeOK
  <2>3. QED BY <2>2, ReferredExists DEF PyObjects
<1>2. /\ doomed = {} /\ b \notin mine /\ b \in PyObjects
      /\ UNCHANGED <<dbFields, recVars, bufVars, locks, leaked, unowned, crashed>>
  BY <1>1 DEF getbuffer, Calls, Ready, PyObjects
<1>3. /\ refcnt' \in [PyObjects -> Nat] /\ mine' \subseteq PyObjects /\ doomed' = doomed
      /\ mine' = mine \cup {b}
      /\ \A o \in PyObjects : refcnt'[o] = refcnt[o] + One(o = b)
  <2>1. Create({}, {b}, {b})
    BY <1>1 DEF getbuffer
  <2>2. \A o : One(o \in {b}) = One(o = b)
    BY DEF One
  <2>3. QED BY <1>0, <1>2, <2>1, <2>2, Creating
<1>4. PalmTypeOK'
  BY <1>0, <1>2, <1>3 DEF PalmTypeOK, dbFields, recVars, bufVars
<1>5. ASSUME NEW o \in PyObjects PROVE refcnt'[o] = References(o)'
  <2>1. InFields(o)' = InFields(o) /\ InFields(o) \in Nat /\ Loose(o) \in Nat
    BY <1>0, <1>2, SameFields, ReferencesAre DEF bufVars
  <2>2. Loose(o)' \in Nat /\ Loose(o)' = Loose(o) + One(o = b)
    BY <1>0, <1>2, <1>3, <1>4, ReferencesAfter DEF Loose, One, PalmTypeOK
  <2>3. refcnt'[o] = refcnt[o] + One(o = b) /\ One(o = b) \in Nat /\ refcnt[o] \in Nat
    BY <1>0, <1>3 DEF One, PalmTypeOK
  <2>4. QED BY <1>4, <2>1, <2>2, <2>3, Counted
<1>6. LocksAreReturned'
  BY <1>2, SameLocks DEF CanUnlock, recVars, bufVars
<1>7. \A o \in PyObjects : (refcnt'[o] > 0 <=> refcnt[o] > 0) /\ (refcnt'[o] = 0 <=> refcnt[o] = 0)
  BY <1>0, <1>1, <1>3 DEF One, PalmTypeOK
<1>8. RecordsOwnBuffers'
  BY <1>2, <1>3, <1>7 DEF RecordsOwnBuffers, Exists, PalmInv, recVars, bufVars, PyObjects
<1>9. BuffersHaveRoots'
  BY <1>2, <1>3, <1>7 DEF BuffersHaveRoots, HasRoot, Free, PalmInv, recVars, bufVars, PyObjects
<1>10. QED BY <1>2, <1>3, <1>4, <1>5, <1>6, <1>8, <1>9 DEF PalmInv, EverythingIsReturned, ObjectsAreCounted

-----------------------------------------------------------------------------
(* Steps of records *)

(* Nothing refers to a place that is free, and its fields are empty. *)
LEMMA FreePlaces ==
  ASSUME PalmInv
  PROVE  /\ \A r \in RecObjects : Free(r) => /\ refcnt[r] = 0 /\ r \notin mine
                                             /\ ob_dm[r] = None /\ recbuf[r] = None
         /\ \A b \in Buffers : refcnt[b] = 0 => /\ b \notin mine /\ unowned[b] = 0
                                                /\ \A r \in RecObjects : recbuf[r] # b
                                                /\ \A c \in Buffers : base[c] # b
<1> USE DEF PyObjects
<1>1. ASSUME NEW r \in RecObjects, Free(r)
      PROVE  refcnt[r] = 0 /\ r \notin mine /\ ob_dm[r] = None /\ recbuf[r] = None
  BY <1>1, ReferredExists DEF Free, PalmInv, RecordsOwnBuffers, Exists
<1>2. ASSUME NEW b \in Buffers, refcnt[b] = 0
      PROVE  /\ b \notin mine /\ unowned[b] = 0
             /\ \A r \in RecObjects : recbuf[r] # b
             /\ \A c \in Buffers : base[c] # b
  BY <1>2, ReferredExists
<1>3. QED BY <1>1, <1>2

LEMMA NewRecordStep ==
  ASSUME PalmInv, NEW d \in Databases, NEW h \in Handles, NEW r \in RecObjects, NEW b \in Buffers,
         queryrecord(d, h, r, b), NewRecord(d, r, b), ptr' = [ptr EXCEPT ![b] = h], UNCHANGED unowned
  PROVE  PalmInv'
<1>0. PalmTypeOK /\ {d, r, b} \subseteq PyObjects /\ d \notin {r, b} /\ r # b /\ None \notin PyObjects /\ h # None
      /\ r \notin Buffers
  BY PalmAssumption DEF PalmInv, EverythingIsReturned, ObjectsAreCounted, PyObjects
<1>1. /\ doomed = {} /\ refcnt[r] = 0 /\ r \notin mine /\ ob_dm[r] = None /\ recbuf[r] = None
      /\ refcnt[b] = 0 /\ b \notin mine /\ ptr[b] = None /\ base[b] = None
      /\ \A s \in RecObjects : recbuf[s] # b
      /\ \A c \in Buffers : base[c] # b
  BY FreePlaces DEF queryrecord, Calls, Ready, Free, PalmInv, BuffersHaveRoots, HasRoot
<1>2. /\ locks[h] < MaxLocks /\ locks' = [locks EXCEPT ![h] = @ + 1]
      /\ ob_dm' = [ob_dm EXCEPT ![r] = d] /\ recbuf' = [recbuf EXCEPT ![r] = b]
      /\ UNCHANGED <<dbFields, base, crashed, leaked>>
  BY DEF queryrecord, NewRecord
<1>3. /\ refcnt' \in [PyObjects -> Nat] /\ mine' \subseteq PyObjects /\ doomed' = doomed
      /\ mine' = mine \cup {r}
      /\ \A o \in PyObjects : refcnt'[o] = refcnt[o] + One(o \in {r, b, d})
  <2>1. Create({r, b}, {d}, {r})
    BY DEF NewRecord
  <2>2. /\ \A o \in PyObjects \ {r, b} : One(o \in {r, b, d}) = One(o \in {d})
        /\ One(r \in {r, b, d}) = 1 /\ One(b \in {r, b, d}) = 1
    BY <1>0 DEF One
  <2>3. QED BY <1>0, <1>1, <2>1, <2>2, Creating
<1>4. PalmTypeOK'
  BY <1>0, <1>2, <1>3, PalmAssumption DEF PalmTypeOK, dbFields
<1>5. ASSUME NEW o \in PyObjects PROVE refcnt'[o] = References(o)'
  <2>1. InFields(o)' + One(ob_dm[r] = o) + One(recbuf[r] = o)
          = InFields(o) + One(ob_dm'[r] = o) + One(recbuf'[r] = o)
    BY <1>0, <1>2, FieldsOfRecord DEF OnlyAt, PalmTypeOK
  <2>2. InFields(o) \in Nat /\ Loose(o) \in Nat /\ InFields(o)' \in Nat /\ Loose(o)' \in Nat
    BY <1>0, <1>4, ReferencesAre, ReferencesAfter
  <2>3. /\ One(ob_dm[r] = o) = 0 /\ One(recbuf[r] = o) = 0
        /\ One(ob_dm'[r] = o) = One(o = d) /\ One(recbuf'[r] = o) = One(o = b)
    BY <1>0, <1>1, <1>2 DEF One, PalmTypeOK
  <2>4. Loose(o)' = Loose(o) + One(o = r)
    BY <1>0, <1>1, <1>2, <1>3 DEF Loose, One, PalmTypeOK
  <2>5. One(o \in {r, b, d}) = One(o = r) + One(o = b) + One(o = d)
    BY <1>0 DEF One
  <2>6. One(o = r) \in Nat /\ One(o = b) \in Nat /\ One(o = d) \in Nat /\ refcnt[o] \in Nat
    BY <1>0 DEF One, PalmTypeOK
  <2>7. refcnt'[o] + Loose(o) + InFields(o) = refcnt[o] + Loose(o)' + InFields(o)'
    BY <1>3, <2>1, <2>2, <2>3, <2>4, <2>5, <2>6
  <2>8. QED BY <1>4, <2>7, Counted
<1>6. LocksAreReturned'
  <2>1. SUFFICES ASSUME NEW g \in Handles PROVE locks'[g] = leaked'[g] + Unlockers(g)'
    BY DEF LocksAreReturned, Unlockers, CanUnlock
  <2>2. \A s \in RecObjects \ {r} : CanUnlock(s, g)' <=> CanUnlock(s, g)
    BY <1>0, <1>1, <1>2 DEF CanUnlock, PalmTypeOK
  <2>3. ~CanUnlock(r, g) /\ (CanUnlock(r, g)' <=> g = h)
    BY <1>0, <1>1, <1>2 DEF CanUnlock, PalmTypeOK
  <2>4. /\ Unlockers(g) \in Nat /\ Unlockers(g)' \in Nat
        /\ Unlockers(g)' + One(CanUnlock(r, g)) = Unlockers(g) + One(CanUnlock(r, g)')
    BY <2>2, UnlockersChange
  <2>5. Unlockers(g)' = Unlockers(g) + One(g = h) /\ One(g = h) \in Nat
    BY <2>3, <2>4 DEF One
  <2>6. locks'[g] = locks[g] + One(g = h)
    BY <1>0, <1>2 DEF One, PalmTypeOK
  <2>7. leaked[g] \in Nat
    BY <1>0, PalmAssumption DEF PalmTypeOK
  <2>8. QED BY <1>2, <2>4, <2>5, <2>6, <2>7, UnlockersAre
<1>7. \A o \in PyObjects : refcnt'[o] > 0 <=> refcnt[o] > 0 \/ o \in {r, b}
  <2>1. refcnt[d] > 0
    BY <1>0, ReferredExists DEF queryrecord, Calls
  <2>2. QED BY <1>0, <1>1, <1>3, <2>1 DEF One, PalmTypeOK
<1>8. RecordsOwnBuffers'
  <2>1. \A s \in RecObjects : /\ ob_dm'[s] = IF s = r THEN d ELSE ob_dm[s]
                              /\ recbuf'[s] = IF s = r THEN b ELSE recbuf[s]
    BY <1>0, <1>2 DEF PalmTypeOK
  <2>2. \A s \in RecObjects : Exists(s)' <=> Exists(s) \/ s = r
    BY <1>0, <1>7, PalmAssumption DEF Exists, PyObjects
  <2>3. b # None /\ d # None
    BY <1>0
  <2>4. QED BY <1>1, <1>2, <1>3, <2>1, <2>2, <2>3 DEF RecordsOwnBuffers, PalmInv
<1>9. BuffersHaveRoots'
  <2>1. SUFFICES ASSUME NEW c \in Buffers PROVE HasRoot(c)'
    BY DEF BuffersHaveRoots
  <2>2. HasRoot(c)
    BY DEF PalmInv, BuffersHaveRoots
  <2>3. CASE c = b
    BY <1>0, <1>1, <1>2, <1>3, <1>7, <2>3 DEF HasRoot, Free, PalmTypeOK
  <2>4. CASE c # b
    <3>1. ptr'[c] = ptr[c] /\ base' = base /\ base[c] # b /\ (base[c] # None => ptr'[base[c]] = ptr[base[c]])
      BY <1>0, <1>1, <1>2, <2>4 DEF PalmTypeOK
    <3>2. Free(c)' => Free(c)
      BY <1>0, <1>1, <1>3, <1>7, <2>4 DEF Free, PyObjects, PalmTypeOK
    <3>3. \A s \in RecObjects : recbuf[s] = c => recbuf'[s] = c
      BY <1>0, <1>1, <1>2 DEF PalmTypeOK, PyObjects
    <3>4. QED BY <1>2, <2>2, <3>1, <3>2, <3>3 DEF HasRoot
  <2>5. QED BY <2>3, <2>4
<1>10. QED BY <1>1, <1>3, <1>4, <1>5, <1>6, <1>8, <1>9 DEF PalmInv, EverythingIsReturned, ObjectsAreCounted

LEMMA NoRecordStep ==
  ASSUME PalmInv, NEW d \in Databases, NEW h \in Handles, NEW r \in RecObjects, NEW b \in Buffers,
         queryrecord(d, h, r, b), NoRecord(b, h)
  PROVE  PalmInv'
<1>0. PalmTypeOK /\ b \in PyObjects /\ None \notin PyObjects /\ h # None /\ b # None
  BY PalmAssumption DEF PalmInv, EverythingIsReturned, ObjectsAreCounted, PyObjects
<1>1. /\ doomed = {} /\ refcnt[b] = 0 /\ b \notin mine /\ ptr[b] = None /\ base[b] = None /\ unowned[b] = 0
      /\ \A s \in RecObjects : recbuf[s] # b
      /\ \A c \in Buffers : base[c] # b
  BY FreePlaces DEF queryrecord, Calls, Ready, Free, PalmInv, BuffersHaveRoots, HasRoot
<1>2. /\ locks[h] < MaxLocks /\ locks' = [locks EXCEPT ![h] = @ + 1]
      /\ leaked' = [leaked EXCEPT ![h] = @ + 1]
      /\ UNCHANGED <<recVars, dbFields, base, crashed>>
  BY DEF queryrecord, NoRecord
<1>3. \E n \in {0, 1} :
      /\ refcnt' \in [PyObjects -> Nat] /\ doomed' = doomed /\ mine' = mine
      /\ refcnt'[b] = n /\ unowned' = [unowned EXCEPT ![b] = n]
      /\ ptr' = [ptr EXCEPT ![b] = IF n = 0 THEN None ELSE h]
      /\ \A o \in PyObjects \ {b} : refcnt'[o] = refcnt[o]
  <2>1. CASE UNCHANGED <<objVars, ptr, unowned>>
    BY <1>0, <1>1, <2>1 DEF objVars, PalmTypeOK
  <2>2. CASE /\ Create({b}, {}, {})
             /\ ptr' = [ptr EXCEPT ![b] = h] /\ unowned' = [unowned EXCEPT ![b] = 1]
    <3>1. \A o \in PyObjects : One(o \in {}) = 0 /\ refcnt[o] \in Nat
      BY <1>0 DEF One, PalmTypeOK
    <3>2. /\ refcnt' \in [PyObjects -> Nat] /\ doomed' = doomed /\ mine' = mine /\ refcnt'[b] = 1
          /\ \A o \in PyObjects \ {b} : refcnt'[o] = refcnt[o]
      <4>1. mine \cup {} = mine /\ {} \subseteq PyObjects /\ b \in {b} \cap PyObjects /\ Create({b}, {}, {})
        BY <1>0, <2>2
      <4>2. QED BY <1>0, <3>1, <4>1, Creating
    <3>3. ptr' = [ptr EXCEPT ![b] = IF 1 = 0 THEN None ELSE h]
      BY <2>2
    <3>4. QED BY <2>2, <3>2, <3>3
  <2>3. QED BY <2>1, <2>2 DEF NoRecord
<1>4. PICK n \in {0, 1} :
      /\ refcnt' \in [PyObjects -> Nat] /\ doomed' = doomed /\ mine' = mine
      /\ refcnt'[b] = n /\ unowned' = [unowned EXCEPT ![b] = n]
      /\ ptr' = [ptr EXCEPT ![b] = IF n = 0 THEN None ELSE h]
      /\ \A o \in PyObjects \ {b} : refcnt'[o] = refcnt[o]
  BY <1>3
<1>5. leaked[h] \in Nat /\ leaked[h] <= locks[h]
  BY <1>0, UnlockersAre DEF PalmTypeOK
<1>6. PalmTypeOK'
  BY <1>0, <1>2, <1>4, <1>5, PalmAssumption DEF PalmTypeOK, dbFields, recVars
<1>7. ASSUME NEW o \in PyObjects PROVE refcnt'[o] = References(o)'
  <2>1. InFields(o)' = InFields(o) /\ InFields(o) \in Nat /\ Loose(o) \in Nat /\ Loose(o)' \in Nat
    BY <1>0, <1>2, <1>6, SameFields, ReferencesAre, ReferencesAfter
  <2>2. CASE o = b
    <3>1. Loose(o)' = n /\ Loose(o) = 0
      BY <1>0, <1>1, <1>4, <2>2 DEF Loose, One, PalmTypeOK
    <3>2. QED BY <1>1, <1>4, <1>6, <2>1, <2>2, <3>1, Counted
  <2>3. CASE o # b
    <3>1. Loose(o)' = Loose(o) /\ refcnt[o] \in Nat
      BY <1>0, <1>4, <2>3 DEF Loose, One, PalmTypeOK
    <3>2. QED BY <1>4, <1>6, <2>1, <2>3, <3>1, Counted
  <2>4. QED BY <2>2, <2>3
<1>8. LocksAreReturned'
  <2>1. SUFFICES ASSUME NEW g \in Handles PROVE locks'[g] = leaked'[g] + Unlockers(g)'
    BY DEF LocksAreReturned, Unlockers, CanUnlock
  <2>2. \A s \in RecObjects : CanUnlock(s, g)' <=> CanUnlock(s, g)
    BY <1>0, <1>1, <1>2, <1>4 DEF CanUnlock, PalmTypeOK, recVars
  <2>3. Unlockers(g)' = Unlockers(g)
    BY <2>2 DEF Unlockers
  <2>4. locks'[g] = locks[g] + One(g = h) /\ leaked'[g] = leaked[g] + One(g = h)
        /\ One(g = h) \in Nat /\ leaked[g] \in Nat
    BY <1>0, <1>2, PalmAssumption DEF One, PalmTypeOK
  <2>5. QED BY <2>3, <2>4, UnlockersAre
<1>9. \A o \in PyObjects \ {b} : Exists(o)' <=> Exists(o)
  BY <1>4 DEF Exists
<1>10. RecordsOwnBuffers'
  <2>1. \A s \in RecObjects : s # b /\ s \in PyObjects
    BY PalmAssumption DEF PyObjects
  <2>2. QED BY <1>2, <1>4, <1>9, <2>1 DEF RecordsOwnBuffers, PalmInv, recVars
<1>11. BuffersHaveRoots'
  <2>1. SUFFICES ASSUME NEW c \in Buffers PROVE HasRoot(c)'
    BY DEF BuffersHaveRoots
  <2>2. HasRoot(c)
    BY DEF PalmInv, BuffersHaveRoots
  <2>3. CASE c = b
    <3>1. ptr'[b] = IF n = 0 THEN None ELSE h
      BY <1>0, <1>4 DEF PalmTypeOK
    <3>2. base'[b] = None /\ leaked'[h] > 0
      BY <1>0, <1>1, <1>2, <1>5 DEF PalmTypeOK
    <3>3. refcnt'[b] = 0 => n = 0
      BY <1>4
    <3>4. QED BY <1>0, <2>3, <3>1, <3>2, <3>3 DEF HasRoot, Free
  <2>4. CASE c # b
    <3>1. ptr'[c] = ptr[c] /\ base' = base /\ base[c] # b /\ (base[c] # None => ptr'[base[c]] = ptr[base[c]])
      BY <1>0, <1>1, <1>2, <1>4, <2>4 DEF PalmTypeOK
    <3>2. Free(c)' => Free(c)
      BY <1>1, <1>4, <2>4 DEF Free, PyObjects
    <3>3. \A g \in Handles : leaked[g] > 0 => leaked'[g] > 0
      BY <1>0, <1>2, <1>5 DEF PalmTypeOK
    <3>4. ptr[c] # None => ptr[c] \in Handles
      BY <1>0 DEF PalmTypeOK
    <3>5. recbuf' = recbuf
      BY <1>2 DEF recVars
    <3>6. QED BY <2>2, <3>1, <3>2, <3>3, <3>4, <3>5 DEF HasRoot
  <2>5. QED BY <2>3, <2>4
<1>12. QED BY <1>1, <1>4, <1>6, <1>7, <1>8, <1>10, <1>11 DEF PalmInv, EverythingIsReturned, ObjectsAreCounted

LEMMA PalmReleaseStep ==
  ASSUME PalmInv, NEW r \in RecObjects, release(r) PROVE PalmInv'
<1>0. PalmTypeOK /\ r \in PyObjects /\ None \notin PyObjects /\ None \notin Handles
  BY PalmAssumption DEF PalmInv, EverythingIsReturned, ObjectsAreCounted, PyObjects
<1>1. PICK b \in Buffers : b = recbuf[r] /\ base[b] = None /\ ptr[b] # None
  <2>1. refcnt[r] > 0
    BY <1>0, ReferredExists DEF release, Calls
  <2>2. recbuf[r] \in Buffers /\ base[recbuf[r]] = None
    BY <1>0, <2>1 DEF PalmInv, RecordsOwnBuffers, Exists, PalmTypeOK
  <2>3. ptr[recbuf[r]] # None
    BY <1>0, <2>2 DEF release, IsValid, PyObjects
  <2>4. QED BY <2>2, <2>3
<1>2. PICK h \in Handles : h = ptr[b]
  BY <1>0, <1>1 DEF PalmTypeOK
<1>3. UNCHANGED <<objVars, dbFields, recVars, base, leaked, unowned>> /\ crashed' \in BOOLEAN
  BY <1>0 DEF release, PalmTypeOK
<1>4. CASE UNCHANGED <<locks, ptr>>
  <2>1. PalmTypeOK'
    BY <1>0, <1>3, <1>4 DEF PalmTypeOK, objVars, dbFields, recVars
  <2>2. \A o \in PyObjects : refcnt'[o] = References(o)'
    BY <1>3 DEF References, PalmInv, EverythingIsReturned, ObjectsAreCounted, objVars, recVars
  <2>3. \A o \in doomed' : ~Exists(o)'
    BY <1>3 DEF Exists, PalmInv, EverythingIsReturned, ObjectsAreCounted, objVars
  <2>4. LocksAreReturned'
    BY <1>3, <1>4, SameLocks DEF CanUnlock, recVars
  <2>5. RecordsOwnBuffers' /\ BuffersHaveRoots'
    BY <1>3, <1>4 DEF RecordsOwnBuffers, BuffersHaveRoots, HasRoot, Free, Exists, PalmInv, objVars, recVars
  <2>6. QED BY <2>1, <2>2, <2>3, <2>4, <2>5 DEF PalmInv, EverythingIsReturned, ObjectsAreCounted
<1>5. CASE locks' = [locks EXCEPT ![h] = @ - 1] /\ ptr' = [ptr EXCEPT ![b] = None]
  <2>1. Unlockers(h) > 0 /\ Unlockers(h) \in Nat /\ locks[h] \in 0 .. MaxLocks /\ leaked[h] \in Nat
        /\ locks[h] = leaked[h] + Unlockers(h)
    BY <1>0, <1>1, <1>2, UnlockersAre, PalmAssumption DEF CanUnlock, PalmTypeOK, PyObjects
  <2>2. PalmTypeOK'
    <3>1. locks[h] - 1 \in 0 .. MaxLocks
      BY <2>1, PalmAssumption
    <3>2. QED BY <1>0, <1>3, <1>5, <3>1 DEF PalmTypeOK, objVars, dbFields, recVars
  <2>3. \A o \in PyObjects : refcnt'[o] = References(o)'
    BY <1>3 DEF References, PalmInv, EverythingIsReturned, ObjectsAreCounted, objVars, recVars
  <2>4. \A o \in doomed' : ~Exists(o)'
    BY <1>3 DEF Exists, PalmInv, EverythingIsReturned, ObjectsAreCounted, objVars
  <2>5. \A s \in RecObjects \ {r} : recbuf[s] # b
    BY <1>0, <1>1 DEF PalmInv, RecordsOwnBuffers, PyObjects
  <2>6. LocksAreReturned'
    <3>1. SUFFICES ASSUME NEW g \in Handles PROVE locks'[g] = leaked'[g] + Unlockers(g)'
      BY DEF LocksAreReturned, Unlockers, CanUnlock
    <3>2. \A s \in RecObjects \ {r} : CanUnlock(s, g)' <=> CanUnlock(s, g)
      BY <1>0, <1>3, <1>5, <2>5 DEF CanUnlock, PalmTypeOK, recVars
    <3>3. ~CanUnlock(r, g)' /\ (CanUnlock(r, g) <=> g = h)
      BY <1>0, <1>1, <1>2, <1>3, <1>5 DEF CanUnlock, PalmTypeOK, PyObjects, recVars
    <3>4. /\ Unlockers(g) \in Nat /\ Unlockers(g)' \in Nat
          /\ Unlockers(g)' + One(CanUnlock(r, g)) = Unlockers(g) + One(CanUnlock(r, g)')
      BY <3>2, UnlockersChange
    <3>5. Unlockers(g)' + One(g = h) = Unlockers(g) /\ One(g = h) \in Nat
      BY <3>3, <3>4 DEF One
    <3>6. locks'[g] + One(g = h) = locks[g] /\ leaked'[g] = leaked[g] /\ leaked[g] \in Nat /\ locks'[g] \in Int
      BY <1>0, <1>3, <1>5, PalmAssumption DEF One, PalmTypeOK
    <3>7. QED BY <3>4, <3>5, <3>6, UnlockersAre
  <2>7. RecordsOwnBuffers'
    BY <1>3 DEF RecordsOwnBuffers, Exists, PalmInv, objVars, recVars
  <2>8. BuffersHaveRoots'
    <3>1. SUFFICES ASSUME NEW c \in Buffers PROVE HasRoot(c)'
      BY DEF BuffersHaveRoots
    <3>2. HasRoot(c)
      BY DEF PalmInv, BuffersHaveRoots
    <3>3. \A x \in Buffers : ptr'[x] = IF x = b THEN None ELSE ptr[x]
      BY <1>0, <1>5 DEF PalmTypeOK
    <3>4. base[c] # None => base[c] \in Buffers /\ c # b
      BY <1>0, <1>1 DEF PalmTypeOK
    <3>5. Free(c)' <=> Free(c)
      BY <1>3 DEF Free, objVars
    <3>6. QED BY <1>3, <3>2, <3>3, <3>4, <3>5 DEF HasRoot, recVars
  <2>9. QED BY <2>2, <2>3, <2>4, <2>6, <2>7, <2>8 DEF PalmInv, EverythingIsReturned, ObjectsAreCounted
<1>6. QED BY <1>1, <1>2, <1>4, <1>5 DEF release, UnlockRecord

LEMMA RecordDeallocStep ==
  ASSUME PalmInv, NEW r \in RecObjects, palmrec_dealloc(r) PROVE PalmInv'
<1>0. PalmTypeOK /\ r \in PyObjects /\ None \notin PyObjects /\ None \notin Handles /\ r \notin Buffers
  BY PalmAssumption DEF PalmInv, EverythingIsReturned, ObjectsAreCounted, PyObjects
<1>1. refcnt[r] = 0 /\ r \in doomed /\ r \notin mine
  <2>1. r \in doomed /\ ~Exists(r) /\ refcnt[r] \in Nat
    BY <1>0 DEF palmrec_dealloc, PalmInv, EverythingIsReturned, ObjectsAreCounted, PalmTypeOK
  <2>2. QED BY <1>0, <2>1, ReferredExists DEF Exists
<1>2. PICK d \in Databases, b \in Buffers : d = ob_dm[r] /\ b = recbuf[r] /\ base[b] = None
  BY <1>0, <1>1 DEF PalmInv, RecordsOwnBuffers, PalmTypeOK
<1>3. d \in PyObjects /\ b \in PyObjects /\ d # b /\ d # r /\ b # r /\ refcnt[d] > 0 /\ refcnt[b] > 0
      /\ d \notin Buffers /\ d \notin RecObjects /\ b \notin RecObjects
  BY <1>0, <1>2, ReferredExists, PalmAssumption DEF PyObjects
<1>4. /\ refcnt' = [o \in PyObjects |-> IF o \in {d, b} THEN refcnt[o] - 1 ELSE refcnt[o]]
      /\ doomed' = (doomed \cup {o \in {d, b} : refcnt[o] = 1}) \ {r}
      /\ ob_dm' = [ob_dm EXCEPT ![r] = None] /\ recbuf' = [recbuf EXCEPT ![r] = None]
      /\ leaked' = IF ptr[b] = None THEN leaked ELSE [leaked EXCEPT ![ptr[b]] = @ + 1]
      /\ UNCHANGED <<mine, dbFields, bufVars, locks, unowned, crashed>>
  BY <1>2 DEF palmrec_dealloc
<1>5. \A o \in PyObjects : refcnt'[o] \in Nat /\ refcnt'[o] + One(o \in {d, b}) = refcnt[o] /\ One(o \in {d, b}) \in Nat
  BY <1>0, <1>3, <1>4 DEF One, PalmTypeOK
<1>6. \A h \in Handles : leaked'[h] = leaked[h] + One(h = ptr[b]) /\ leaked[h] \in Nat
  BY <1>0, <1>4, PalmAssumption DEF One, PalmTypeOK
<1>7. \A s \in RecObjects : recbuf'[s] = (IF s = r THEN None ELSE recbuf[s]) /\ ob_dm'[s] = (IF s = r THEN None ELSE ob_dm[s])
  BY <1>0, <1>4 DEF PalmTypeOK
<1>8. ASSUME NEW h \in Handles PROVE locks'[h] = leaked'[h] + Unlockers(h)' /\ Unlockers(h)' \in Nat
  <2>1. \A s \in RecObjects \ {r} : CanUnlock(s, h)' <=> CanUnlock(s, h)
    BY <1>4, <1>7 DEF CanUnlock, bufVars
  <2>2. ~CanUnlock(r, h)' /\ (CanUnlock(r, h) <=> h = ptr[b])
    BY <1>0, <1>2, <1>7 DEF CanUnlock, PyObjects
  <2>3. /\ Unlockers(h) \in Nat /\ Unlockers(h)' \in Nat
        /\ Unlockers(h)' + One(CanUnlock(r, h)) = Unlockers(h) + One(CanUnlock(r, h)')
    BY <2>1, UnlockersChange
  <2>4. Unlockers(h)' + One(h = ptr[b]) = Unlockers(h) /\ One(h = ptr[b]) \in Nat
    BY <2>2, <2>3 DEF One
  <2>5. QED BY <1>4, <1>6, <2>3, <2>4, UnlockersAre
<1>9. PalmTypeOK'
  <2>1. refcnt' \in [PyObjects -> Nat] /\ doomed' \subseteq PyObjects
    BY <1>0, <1>3, <1>4, <1>5 DEF PalmTypeOK
  <2>2. leaked' \in [Handles -> 0 .. MaxLocks]
    <3>1. \A h \in Handles : leaked'[h] \in 0 .. MaxLocks
      <4>1. TAKE h \in Handles
      <4>2. locks'[h] \in 0 .. MaxLocks
        BY <1>0, <1>4 DEF PalmTypeOK
      <4>3. leaked'[h] \in Nat
        BY <1>6 DEF One
      <4>4. QED BY <1>8, <4>2, <4>3, PalmAssumption
    <3>2. DOMAIN leaked' = Handles /\ leaked' = [h \in DOMAIN leaked' |-> leaked'[h]]
      BY <1>0, <1>4 DEF PalmTypeOK
    <3>3. QED BY <3>1, <3>2
  <2>3. QED BY <1>0, <1>4, <2>1, <2>2 DEF PalmTypeOK, dbFields, bufVars
<1>10. ASSUME NEW o \in PyObjects PROVE refcnt'[o] = References(o)'
  <2>1. InFields(o)' + One(ob_dm[r] = o) + One(recbuf[r] = o)
          = InFields(o) + One(ob_dm'[r] = o) + One(recbuf'[r] = o)
    BY <1>0, <1>4, <1>7, FieldsOfRecord DEF OnlyAt, bufVars
  <2>2. InFields(o) \in Nat /\ Loose(o) \in Nat /\ InFields(o)' \in Nat /\ Loose(o)' \in Nat
    BY <1>0, <1>9, ReferencesAre, ReferencesAfter
  <2>3. /\ One(ob_dm'[r] = o) = 0 /\ One(recbuf'[r] = o) = 0
        /\ One(ob_dm[r] = o) = One(o = d) /\ One(recbuf[r] = o) = One(o = b)
    BY <1>0, <1>2, <1>7 DEF One
  <2>4. Loose(o)' = Loose(o)
    BY <1>4 DEF Loose, One
  <2>5. One(o \in {d, b}) = One(o = d) + One(o = b) /\ One(o = d) \in Nat /\ One(o = b) \in Nat
    BY <1>3 DEF One
  <2>6. refcnt'[o] + Loose(o) + InFields(o) = refcnt[o] + Loose(o)' + InFields(o)'
    <3>1. refcnt[o] \in Nat /\ refcnt'[o] \in Nat /\ refcnt'[o] + One(o \in {d, b}) = refcnt[o]
      BY <1>0, <1>5 DEF PalmTypeOK
    <3>2. InFields(o)' + One(o = d) + One(o = b) = InFields(o)
      BY <2>1, <2>2, <2>3, <2>5
    <3>3. QED BY <2>2, <2>4, <2>5, <3>1, <3>2
  <2>7. QED BY <1>9, <2>6, Counted
<1>11. \A o \in doomed' : ~Exists(o)'
  <2>1. \A o \in doomed : ~Exists(o) /\ o \in PyObjects
    BY <1>0 DEF PalmInv, EverythingIsReturned, ObjectsAreCounted, PalmTypeOK
  <2>2. \A o \in {d, b} : refcnt[o] = 1 => refcnt'[o] = 0
    BY <1>3, <1>4
  <2>3. QED BY <1>3, <1>4, <2>1, <2>2 DEF Exists
<1>12. LocksAreReturned'
  BY <1>8 DEF LocksAreReturned, Unlockers, CanUnlock
<1>13. RecordsOwnBuffers'
  <2>1. \A s \in RecObjects : s # d /\ s # b /\ s \in PyObjects
    BY <1>3 DEF PyObjects
  <2>2. \A s \in RecObjects : refcnt'[s] = refcnt[s] /\ (s \in doomed' <=> s \in doomed /\ s # r)
    BY <1>4, <2>1
  <2>3. QED BY <1>1, <1>4, <1>7, <2>2 DEF RecordsOwnBuffers, PalmInv, Exists, bufVars
<1>14. BuffersHaveRoots'
  <2>1. SUFFICES ASSUME NEW c \in Buffers PROVE HasRoot(c)'
    BY DEF BuffersHaveRoots
  <2>2. HasRoot(c)
    BY DEF PalmInv, BuffersHaveRoots
  <2>3. Free(c)' => Free(c)
    <3>1. c \in PyObjects /\ c # r /\ refcnt[c] \in Nat
      BY <1>0 DEF PyObjects, PalmTypeOK
    <3>2. CASE c = b
      BY <1>3, <1>4, <3>1, <3>2 DEF Free
    <3>3. CASE c # b
      BY <1>3, <1>4, <3>1, <3>3 DEF Free
    <3>4. QED BY <3>2, <3>3
  <2>4. \A h \in Handles : /\ leaked[h] > 0 => leaked'[h] > 0
                           /\ h = ptr[b] => leaked'[h] > 0
    BY <1>6 DEF One
  <2>5. ptr[c] # None => ptr[c] \in Handles
    BY <1>0 DEF PalmTypeOK
  <2>6. \A s \in RecObjects : recbuf[s] = c => recbuf'[s] = c \/ c = b
    BY <1>2, <1>7
  <2>7. QED BY <1>4, <2>2, <2>3, <2>4, <2>5, <2>6 DEF HasRoot, bufVars
<1>15. QED BY <1>9, <1>10, <1>11, <1>12, <1>13, <1>14 DEF PalmInv, EverythingIsReturned, ObjectsAreCounted

-----------------------------------------------------------------------------
(* Steps of buffers *)

LEMMA DeriveStep ==
  ASSUME PalmInv, NEW b \in Buffers, NEW new \in Buffers, MakeBuffer(b, new) PROVE PalmInv'
<1> DEFINE root == Root(b)
<1>0. PalmTypeOK /\ {b, new} \subseteq PyObjects /\ None \notin PyObjects /\ None \notin Handles
      /\ new \notin RecObjects
  BY PalmAssumption DEF PalmInv, EverythingIsReturned, ObjectsAreCounted, PyObjects
<1>1. /\ doomed = {} /\ refcnt[new] = 0 /\ new \notin mine /\ unowned[new] = 0
      /\ ptr[new] = None /\ base[new] = None
      /\ \A s \in RecObjects : recbuf[s] # new
      /\ \A c \in Buffers : base[c] # new
  BY FreePlaces DEF MakeBuffer, Derive, Calls, Ready, Free, PalmInv, BuffersHaveRoots, HasRoot
<1>2. /\ root \in Buffers /\ root \in PyObjects /\ base[root] = None /\ refcnt[root] > 0 /\ root # new
      /\ ptr[b] # None /\ ptr[b] = ptr[root] /\ b # new
  <2>1. refcnt[b] > 0 /\ b # new /\ ptr[b] # None /\ (base[b] # None => ptr[base[b]] # None)
    BY <1>0, <1>1, ReferredExists DEF MakeBuffer, Derive, Calls, IsValid, PyObjects
  <2>2. CASE base[b] = None
    BY <1>0, <2>1, <2>2 DEF Root, IsBase
  <2>3. CASE base[b] # None
    <3>1. root = base[b] /\ base[b] \in Buffers
      BY <1>0, <2>3 DEF Root, IsBase, PalmTypeOK
    <3>2. refcnt[root] > 0
      BY <3>1, ReferredExists DEF PyObjects
    <3>3. QED BY <1>0, <1>1, <2>1, <2>3, <3>1, <3>2 DEF PalmInv, BuffersHaveRoots, HasRoot, PyObjects
  <2>4. QED BY <2>2, <2>3
<1>3. PICK more \in {0, 1} :
      /\ refcnt' = [refcnt EXCEPT ![new] = 1 + more, ![root] = @ + 1]
      /\ unowned' = [unowned EXCEPT ![new] = more]
  BY DEF MakeBuffer, Derive
<1>4. /\ ptr' = [ptr EXCEPT ![new] = ptr[b]] /\ base' = [base EXCEPT ![new] = root]
      /\ mine' = mine \cup {new} /\ doomed' = doomed
      /\ UNCHANGED <<dbFields, recVars, locks, leaked, crashed>>
  BY DEF MakeBuffer, Derive
<1> HIDE DEF root
<1>5. PalmTypeOK'
  BY <1>0, <1>2, <1>3, <1>4 DEF PalmTypeOK, dbFields, recVars
<1>6. \A o \in PyObjects : refcnt'[o] = IF o = new THEN 1 + more ELSE refcnt[o] + One(o = root)
  BY <1>0, <1>2, <1>3 DEF One, PalmTypeOK
<1>7. ASSUME NEW o \in PyObjects PROVE refcnt'[o] = References(o)'
  <2>1. InFields(o)' + One(base[new] = o) = InFields(o) + One(base'[new] = o)
    BY <1>0, <1>4, FieldsOfBuffer DEF OnlyAt, PalmTypeOK
  <2>2. InFields(o) \in Nat /\ Loose(o) \in Nat /\ InFields(o)' \in Nat /\ Loose(o)' \in Nat /\ refcnt[o] \in Nat
    BY <1>0, <1>5, ReferencesAre, ReferencesAfter DEF PalmTypeOK
  <2>3. One(base[new] = o) = 0 /\ One(base'[new] = o) = One(o = root) /\ One(o = root) \in Nat
    BY <1>0, <1>1, <1>4 DEF One, PalmTypeOK
  <2>4. CASE o = new
    <3>1. Loose(o)' = 1 + more /\ Loose(o) = 0
      BY <1>0, <1>1, <1>3, <1>4, <2>4 DEF Loose, One, PalmTypeOK
    <3>2. One(o = root) = 0
      BY <1>2, <2>4 DEF One
    <3>3. refcnt'[o] + Loose(o) + InFields(o) = refcnt[o] + Loose(o)' + InFields(o)'
      BY <1>1, <1>6, <2>1, <2>2, <2>3, <2>4, <3>1, <3>2
    <3>4. QED BY <1>5, <3>3, Counted
  <2>5. CASE o # new
    <3>1. Loose(o)' = Loose(o)
      BY <1>0, <1>3, <1>4, <2>5 DEF Loose, One, PalmTypeOK
    <3>2. refcnt'[o] + Loose(o) + InFields(o) = refcnt[o] + Loose(o)' + InFields(o)'
      BY <1>6, <2>1, <2>2, <2>3, <2>5, <3>1
    <3>3. QED BY <1>5, <3>2, Counted
  <2>6. QED BY <2>4, <2>5
<1>8. LocksAreReturned'
  <2>1. \A s \in RecObjects, h \in Handles : CanUnlock(s, h)' <=> CanUnlock(s, h)
    BY <1>0, <1>1, <1>4 DEF CanUnlock, PalmTypeOK, recVars
  <2>2. QED BY <1>4, <2>1, SameLocks
<1>9. \A o \in PyObjects : refcnt'[o] > 0 <=> refcnt[o] > 0 \/ o = new
  BY <1>0, <1>2, <1>6 DEF One, PalmTypeOK
<1>10. RecordsOwnBuffers'
  <2>1. \A s \in RecObjects : Exists(s)' <=> Exists(s)
    BY <1>0, <1>9 DEF Exists, PyObjects
  <2>2. \A s \in RecObjects : recbuf[s] # None => base'[recbuf[s]] = base[recbuf[s]]
    BY <1>0, <1>1, <1>4 DEF PalmTypeOK
  <2>3. QED BY <1>4, <2>1, <2>2 DEF RecordsOwnBuffers, PalmInv, recVars
<1>11. BuffersHaveRoots'
  <2>1. SUFFICES ASSUME NEW c \in Buffers PROVE HasRoot(c)'
    BY DEF BuffersHaveRoots
  <2>2. HasRoot(c)
    BY DEF PalmInv, BuffersHaveRoots
  <2>3. \A x \in Buffers : /\ ptr'[x] = IF x = new THEN ptr[b] ELSE ptr[x]
                           /\ base'[x] = IF x = new THEN root ELSE base[x]
    BY <1>0, <1>4 DEF PalmTypeOK
  <2>4. root # None /\ ptr[b] # None
    BY <1>0, <1>2
  <2>5. refcnt'[new] # 0
    BY <1>0, <1>6
  <2>6. CASE c = new
    BY <1>2, <2>3, <2>4, <2>5, <2>6 DEF HasRoot, Free
  <2>7. CASE c # new
    <3>1. Free(c)' => Free(c)
      BY <1>0, <1>4, <1>9, <2>7 DEF Free, PyObjects, PalmTypeOK
    <3>2. base[c] # None => base[c] \in Buffers /\ base[c] # new
      BY <1>0, <1>1 DEF PalmTypeOK
    <3>3. QED BY <1>4, <2>2, <2>3, <2>7, <3>1, <3>2 DEF HasRoot, recVars
  <2>8. QED BY <2>6, <2>7
<1>12. \A o \in doomed' : ~Exists(o)'
  BY <1>1, <1>4
<1>13. QED BY <1>5, <1>7, <1>8, <1>10, <1>11, <1>12 DEF PalmInv, EverythingIsReturned, ObjectsAreCounted

LEMMA BufferDeallocStep ==
  ASSUME PalmInv, NEW b \in Buffers, buffer_dealloc(b) PROVE PalmInv'
<1> DEFINE gone == {base[b]} \ {None}
<1>0. PalmTypeOK /\ b \in PyObjects /\ None \notin PyObjects /\ None \notin Handles /\ b \notin RecObjects
  BY PalmAssumption DEF PalmInv, EverythingIsReturned, ObjectsAreCounted, PyObjects
<1>1. /\ refcnt[b] = 0 /\ b \notin mine
      /\ \A s \in RecObjects : recbuf[s] # b
      /\ \A c \in Buffers : base[c] # b
  <2>1. b \in doomed /\ ~Exists(b) /\ refcnt[b] \in Nat
    BY <1>0 DEF buffer_dealloc, PalmInv, EverythingIsReturned, ObjectsAreCounted, PalmTypeOK
  <2>2. QED BY <2>1, FreePlaces DEF Exists
<1>2. \A o \in gone : o \in Buffers /\ o \in PyObjects /\ o # b /\ refcnt[o] > 0 /\ o = base[b]
  BY <1>0, <1>1, ReferredExists DEF PalmTypeOK, PyObjects
<1>3. /\ refcnt' = [o \in PyObjects |-> IF o \in gone THEN refcnt[o] - 1 ELSE refcnt[o]]
      /\ doomed' = (doomed \cup {o \in gone : refcnt[o] = 1}) \ {b}
      /\ ptr' = [ptr EXCEPT ![b] = None] /\ base' = [base EXCEPT ![b] = None]
      /\ UNCHANGED <<mine, dbFields, recVars, locks, leaked, unowned, crashed>>
  BY DEF buffer_dealloc
<1>4. \A o \in PyObjects : o \in gone <=> o = base[b]
  BY <1>0
<1> HIDE DEF gone
<1>5. \A o \in PyObjects : refcnt'[o] \in Nat /\ refcnt'[o] + One(o = base[b]) = refcnt[o] /\ One(o = base[b]) \in Nat
  BY <1>0, <1>2, <1>3, <1>4 DEF One, PalmTypeOK
<1>6. PalmTypeOK'
  <2>1. refcnt' \in [PyObjects -> Nat] /\ doomed' \subseteq PyObjects
    BY <1>0, <1>2, <1>3, <1>5 DEF PalmTypeOK
  <2>2. QED BY <1>0, <1>3, <2>1 DEF PalmTypeOK, dbFields, recVars
<1>7. ASSUME NEW o \in PyObjects PROVE refcnt'[o] = References(o)'
  <2>1. InFields(o)' + One(base[b] = o) = InFields(o) + One(base'[b] = o)
    BY <1>0, <1>3, FieldsOfBuffer DEF OnlyAt, PalmTypeOK
  <2>2. InFields(o) \in Nat /\ Loose(o) \in Nat /\ InFields(o)' \in Nat /\ Loose(o)' \in Nat /\ refcnt[o] \in Nat
    BY <1>0, <1>6, ReferencesAre, ReferencesAfter DEF PalmTypeOK
  <2>3. One(base'[b] = o) = 0 /\ One(base[b] = o) = One(o = base[b])
    BY <1>0, <1>3 DEF One, PalmTypeOK
  <2>4. Loose(o)' = Loose(o)
    BY <1>3 DEF Loose, One
  <2>5. refcnt'[o] + Loose(o) + InFields(o) = refcnt[o] + Loose(o)' + InFields(o)'
    BY <1>5, <2>1, <2>2, <2>3, <2>4
  <2>6. QED BY <1>6, <2>5, Counted
<1>8. \A o \in doomed' : ~Exists(o)'
  <2>1. \A o \in doomed : ~Exists(o) /\ o \in PyObjects
    BY <1>0 DEF PalmInv, EverythingIsReturned, ObjectsAreCounted, PalmTypeOK
  <2>2. \A o \in gone : refcnt[o] = 1 => refcnt'[o] = 0
    BY <1>2, <1>3
  <2>3. \A o \in doomed : o \notin gone
    BY <1>2, <2>1 DEF Exists
  <2>4. QED BY <1>3, <2>1, <2>2, <2>3 DEF Exists
<1>9. LocksAreReturned'
  <2>1. \A s \in RecObjects, h \in Handles : CanUnlock(s, h)' <=> CanUnlock(s, h)
    BY <1>0, <1>1, <1>3 DEF CanUnlock, PalmTypeOK, recVars
  <2>2. QED BY <1>3, <2>1, SameLocks
<1>10. RecordsOwnBuffers'
  <2>1. \A s \in RecObjects : s \in PyObjects /\ s \notin gone /\ s # b
    BY <1>0, <1>2, PalmAssumption DEF PyObjects
  <2>2. \A s \in RecObjects : refcnt'[s] = refcnt[s] /\ (s \in doomed' <=> s \in doomed)
    BY <1>3, <2>1
  <2>3. \A s \in RecObjects : recbuf[s] # None => base'[recbuf[s]] = base[recbuf[s]]
    BY <1>0, <1>1, <1>3 DEF PalmTypeOK
  <2>4. QED BY <1>3, <2>2, <2>3 DEF RecordsOwnBuffers, PalmInv, Exists, recVars
<1>11. BuffersHaveRoots'
  <2>1. SUFFICES ASSUME NEW c \in Buffers PROVE HasRoot(c)'
    BY DEF BuffersHaveRoots
  <2>2. HasRoot(c)
    BY DEF PalmInv, BuffersHaveRoots
  <2>3. \A x \in Buffers : /\ ptr'[x] = IF x = b THEN None ELSE ptr[x]
                           /\ base'[x] = IF x = b THEN None ELSE base[x]
    BY <1>0, <1>3 DEF PalmTypeOK
  <2>4. CASE c = b
    BY <2>3, <2>4 DEF HasRoot
  <2>5. CASE c # b
    <3>1. Free(c)' => Free(c)
      <4>1. c \in PyObjects /\ refcnt[c] \in Nat
        BY <1>0 DEF PyObjects, PalmTypeOK
      <4>2. CASE c \in gone
        BY <1>2, <1>3, <2>5, <4>1, <4>2 DEF Free
      <4>3. CASE c \notin gone
        BY <1>3, <2>5, <4>1, <4>3 DEF Free
      <4>4. QED BY <4>2, <4>3
    <3>2. base[c] # None => base[c] \in Buffers /\ base[c] # b
      BY <1>0, <1>1 DEF PalmTypeOK
    <3>3. QED BY <1>3, <2>2, <2>3, <2>5, <3>1, <3>2 DEF HasRoot, recVars
  <2>6. QED BY <2>4, <2>5
<1>12. QED BY <1>6, <1>7, <1>8, <1>9, <1>10, <1>11 DEF PalmInv, EverythingIsReturned, ObjectsAreCounted

-----------------------------------------------------------------------------
LEMMA PalmStart == PalmInit => PalmInv
<1> SUFFICES ASSUME PalmInit PROVE PalmInv
  OBVIOUS
<1>1. None \notin PyObjects /\ None \notin Handles /\ MaxLocks \in Nat /\ 0 \in 0 .. MaxLocks
  BY PalmAssumption
<1>2. PalmTypeOK
  <2>1. refcnt \in [PyObjects -> Nat] /\ mine \subseteq PyObjects /\ doomed \subseteq PyObjects
    BY DEF PalmInit
  <2>2. db \in [Databases -> BOOLEAN] /\ writes \in [Databases -> BOOLEAN] /\ crashed \in BOOLEAN
    BY DEF PalmInit
  <2>3. /\ ob_dm \in [RecObjects -> Databases \cup {None}] /\ recbuf \in [RecObjects -> Buffers \cup {None}]
        /\ ptr \in [Buffers -> Handles \cup {None}] /\ base \in [Buffers -> Buffers \cup {None}]
    BY DEF PalmInit
  <2>4. locks \in [Handles -> 0 .. MaxLocks] /\ leaked \in [Handles -> 0 .. MaxLocks]
        /\ unowned \in [Buffers -> 0 .. 1]
    BY <1>1 DEF PalmInit
  <2>5. QED BY <2>1, <2>2, <2>3, <2>4 DEF PalmTypeOK
<1>3. /\ mine = {} /\ doomed = {} /\ \A o \in PyObjects : refcnt[o] = 0
      /\ \A r \in RecObjects : ob_dm[r] = None /\ recbuf[r] = None
      /\ \A b \in Buffers : ptr[b] = None /\ base[b] = None /\ unowned[b] = 0
      /\ \A h \in Handles : locks[h] = 0 /\ leaked[h] = 0
  BY DEF PalmInit
<1>4. ASSUME NEW o \in PyObjects PROVE refcnt[o] = References(o)
  <2>1. {r \in RecObjects : ob_dm[r] = o} = {} /\ {r \in RecObjects : recbuf[r] = o} = {}
        /\ {b \in Buffers : base[b] = o} = {}
    BY <1>1, <1>3
  <2>2. References(o) = 0
    BY <1>3, <2>1, FS_EmptySet DEF References
  <2>3. QED BY <1>3, <2>2
<1>5. LocksAreReturned
  <2>1. \A h \in Handles : {r \in RecObjects : recbuf[r] # None /\ ptr[recbuf[r]] = h} = {}
    BY <1>3
  <2>2. QED BY <1>3, <2>1, FS_EmptySet DEF LocksAreReturned
<1>6. RecordsOwnBuffers /\ BuffersHaveRoots
  BY <1>3 DEF RecordsOwnBuffers, BuffersHaveRoots, HasRoot, Exists, PyObjects
<1>7. QED BY <1>3, <1>2, <1>4, <1>5, <1>6 DEF PalmInv, EverythingIsReturned, ObjectsAreCounted

LEMMA PalmStep == PalmInv /\ [PalmNext]_palmVars => PalmInv'
<1> SUFFICES ASSUME PalmInv, [PalmNext]_palmVars PROVE PalmInv'
  OBVIOUS
<1>1. CASE UNCHANGED palmVars
  <2>1. UNCHANGED <<refcnt, mine, doomed, db, writes, ob_dm, recbuf, ptr, base, locks, leaked, unowned, crashed>>
    BY <1>1 DEF palmVars, objVars, dbFields, recVars, bufVars
  <2>2. EverythingIsReturned'
    BY <2>1 DEF PalmInv, EverythingIsReturned, ObjectsAreCounted, LocksAreReturned, PalmTypeOK, References, Exists
  <2>3. QED BY <2>1, <2>2 DEF PalmInv, RecordsOwnBuffers, BuffersHaveRoots, HasRoot, Exists, Free
<1>2. ASSUME NEW d \in Databases, NEW h \in Handles, NEW r \in RecObjects, NEW b \in Buffers,
             queryrecord(d, h, r, b)
      PROVE  PalmInv'
  BY <1>2, NewRecordStep, NoRecordStep DEF queryrecord
<1>3. QED
  BY <1>1, <1>2, DropStep, DatabaseStep, OpenStep, GetbufferStep, PalmReleaseStep, RecordDeallocStep, DeriveStep,
     BufferDeallocStep DEF PalmNext

LEMMA PalmAlways == PalmSpec => []PalmInv
  BY PalmStart, PalmStep, PTL DEF PalmSpec

(* Every reference to an object of palmdm is counted and every lock of a   *)
(* record is given back by what still refers to it, but for the locks that *)
(* a failed queryrecord or a drop without release leaves to nobody.        *)
THEOREM WhatIsTakenIsReturned == PalmSpec => []EverythingIsReturned
<1>1. PalmInv => EverythingIsReturned
  BY DEF PalmInv
<1>2. QED BY <1>1, PalmAlways, PTL

(* The memory of a buffer that says it is valid is locked: release takes   *)
(* it from the buffer of the record, which those made of it look at.       *)
THEOREM ValidBuffersAreLocked == PalmSpec => []ValidIsLocked
<1>1. ASSUME PalmInv, NEW b \in Buffers, IsValid(b) PROVE locks[ptr[b]] > 0
  <2>0. PalmTypeOK /\ None \notin PyObjects
    BY <1>1, PalmAssumption DEF PalmInv, EverythingIsReturned, ObjectsAreCounted
  <2>1. PICK c \in Buffers : base[c] = None /\ ptr[c] # None /\ ptr[b] = ptr[c]
    <3>1. CASE base[b] = None
      BY <1>1, <2>0, <3>1 DEF IsValid, PyObjects
    <3>2. CASE base[b] # None
      BY <1>1, <2>0, <3>2 DEF IsValid, PalmInv, BuffersHaveRoots, HasRoot, PalmTypeOK
    <3>3. QED BY <3>1, <3>2
  <2>2. PICK h \in Handles : h = ptr[c]
    BY <2>0, <2>1 DEF PalmTypeOK
  <2>3. locks[h] = leaked[h] + Unlockers(h) /\ Unlockers(h) \in Nat /\ leaked[h] \in Nat
        /\ \A r \in RecObjects : CanUnlock(r, h) => Unlockers(h) > 0
    BY <1>1, <2>0, UnlockersAre, PalmAssumption DEF PalmTypeOK
  <2>4. leaked[h] > 0 \/ \E r \in RecObjects : CanUnlock(r, h)
    BY <1>1, <2>0, <2>1, <2>2 DEF PalmInv, BuffersHaveRoots, HasRoot, CanUnlock, PyObjects
  <2>5. QED BY <2>1, <2>2, <2>3, <2>4
<1>2. PalmInv => ValidIsLocked
  BY <1>1 DEF ValidIsLocked
<1>3. QED BY <1>2, PalmAlways, PTL

-----------------------------------------------------------------------------
(* FormHandlers *)

(* The calls in progress, and those that refer to a callback or a wrapper  *)
(* or replace the handler of a form.                                       *)
Frame == [kind : {"call"}, callback : Callbacks, wrapper : Wrappers \cup {NoWrapper}]
         \cup [kind : {"replace"}, callback : Callbacks, form : Forms]
         \cup [kind : {"del"}, callback : Callbacks]
FramesIn(r, c)   == {k \in DOMAIN r : r[k].callback = c}
CallsIn(r, w)    == {k \in DOMAIN r : r[k].kind = "call" /\ r[k].wrapper = w}
ReplacedIn(r, f) == \E k \in DOMAIN r : r[k].kind = "replace" /\ r[k].form = f
OnceIn(r) == \A k, l \in DOMAIN r : r[k].kind = "replace" /\ r[l].kind = "replace" /\ r[k].form = r[l].form => k = l

LEMMA FinitePlaces ==
  ASSUME NEW S, NEW r \in Seq(S), NEW T, T \subseteq DOMAIN r
  PROVE  IsFiniteSet(T) /\ Cardinality(T) \in Nat
<1>1. Len(r) \in Nat /\ DOMAIN r = 1 .. Len(r)
  BY LenProperties
<1>2. IsFiniteSet(1 .. Len(r))
  BY <1>1, FS_Interval
<1>3. IsFiniteSet(T)
  BY <1>1, <1>2, FS_Subset
<1>4. QED BY <1>3, FS_CardinalityType

(* A call is entered. *)
LEMMA Pushing ==
  ASSUME NEW r \in Seq(Frame), NEW x \in Frame
  PROVE  /\ Append(r, x) \in Seq(Frame) /\ Append(r, x) # <<>>
         /\ \A c : /\ Cardinality(FramesIn(r, c)) \in Nat /\ Cardinality(FramesIn(Append(r, x), c)) \in Nat
                   /\ Cardinality(FramesIn(Append(r, x), c)) = Cardinality(FramesIn(r, c)) + One(x.callback = c)
         /\ \A w : /\ Cardinality(CallsIn(r, w)) \in Nat /\ Cardinality(CallsIn(Append(r, x), w)) \in Nat
                   /\ Cardinality(CallsIn(Append(r, x), w))
                        = Cardinality(CallsIn(r, w)) + One(x.kind = "call" /\ x.wrapper = w)
         /\ \A f : ReplacedIn(Append(r, x), f) <=> ReplacedIn(r, f) \/ (x.kind = "replace" /\ x.form = f)
         /\ OnceIn(Append(r, x)) <=> OnceIn(r) /\ (x.kind = "replace" => ~ReplacedIn(r, x.form))
<1> DEFINE s == Append(r, x)  n == Len(r) + 1
<1>1. /\ s \in Seq(Frame) /\ Len(r) \in Nat /\ DOMAIN r = 1 .. Len(r) /\ DOMAIN s = 1 .. n /\ s[n] = x
      /\ \A k \in 1 .. Len(r) : s[k] = r[k]
      /\ s # <<>>
  BY AppendProperties, LenProperties
<1> HIDE DEF s
<1>2. DOMAIN s = DOMAIN r \cup {n} /\ n \notin DOMAIN r
  BY <1>1
<1>3. ASSUME NEW c
      PROVE  /\ Cardinality(FramesIn(r, c)) \in Nat /\ Cardinality(FramesIn(s, c)) \in Nat
             /\ Cardinality(FramesIn(s, c)) = Cardinality(FramesIn(r, c)) + One(x.callback = c)
  <2>1. IsFiniteSet(FramesIn(r, c))
    BY FinitePlaces DEF FramesIn
  <2>2. FramesIn(r, c) \ {n} = FramesIn(s, c) \ {n} /\ n \notin FramesIn(r, c) /\ (n \in FramesIn(s, c) <=> x.callback = c)
    BY <1>1, <1>2 DEF FramesIn
  <2>3. /\ Cardinality(FramesIn(r, c)) \in Nat /\ Cardinality(FramesIn(s, c)) \in Nat
        /\ Cardinality(FramesIn(s, c)) + One(n \in FramesIn(r, c)) = Cardinality(FramesIn(r, c)) + One(n \in FramesIn(s, c))
    BY <2>1, <2>2, OneMember
  <2>4. QED BY <2>2, <2>3 DEF One
<1>4. ASSUME NEW w
      PROVE  /\ Cardinality(CallsIn(r, w)) \in Nat /\ Cardinality(CallsIn(s, w)) \in Nat
             /\ Cardinality(CallsIn(s, w)) = Cardinality(CallsIn(r, w)) + One(x.kind = "call" /\ x.wrapper = w)
  <2>1. IsFiniteSet(CallsIn(r, w))
    BY FinitePlaces DEF CallsIn
  <2>2. /\ CallsIn(r, w) \ {n} = CallsIn(s, w) \ {n} /\ n \notin CallsIn(r, w)
        /\ n \in CallsIn(s, w) <=> x.kind = "call" /\ x.wrapper = w
    BY <1>1, <1>2 DEF CallsIn
  <2>3. /\ Cardinality(CallsIn(r, w)) \in Nat /\ Cardinality(CallsIn(s, w)) \in Nat
        /\ Cardinality(CallsIn(s, w)) + One(n \in CallsIn(r, w)) = Cardinality(CallsIn(r, w)) + One(n \in CallsIn(s, w))
    BY <2>1, <2>2, OneMember
  <2>4. QED BY <2>2, <2>3 DEF One
<1>5. \A f : ReplacedIn(s, f) <=> ReplacedIn(r, f) \/ (x.kind = "replace" /\ x.form = f)
  BY <1>1, <1>2 DEF ReplacedIn
<1>6. OnceIn(s) <=> OnceIn(r) /\ (x.kind = "replace" => ~ReplacedIn(r, x.form))
  BY <1>1, <1>2 DEF OnceIn, ReplacedIn
<1>7. QED BY <1>1, <1>3, <1>4, <1>5, <1>6 DEF s

(* The innermost call returns. *)
LEMMA Popping ==
  ASSUME NEW r \in Seq(Frame), r # <<>>
  PROVE  Front(r) \in Seq(Frame) /\ Last(r) \in Frame /\ r = Append(Front(r), Last(r))
<1>1. PICK s \in Seq(Frame), x \in Frame : r = Append(s, x)
  BY SequenceEmptyOrAppend
<1>2. Len(r) = Len(s) + 1 /\ Len(s) \in Nat /\ r[Len(r)] = x
  BY <1>1, AppendProperties, LenProperties
<1>3. SubSeq(r, 1, Len(r) - 1) = s
  <2>1. SubSeq(r, 1, Len(s)) = SubSeq(s, 1, Len(s))
    <3>1. r = s \o <<x>>
      BY <1>1, AppendIsConcat
    <3>2. QED
      BY <1>2, <3>1
  <2>2. SubSeq(s, 1, Len(s)) = s
    BY SubSeqFull
  <2>3. QED BY <1>2, <2>1, <2>2
<1>4. QED BY <1>1, <1>2, <1>3 DEF Front, Last

(* The list of handlers. *)
Handler == [form : Forms, callback : Callbacks]
EnteredIn(r, hs, c) == {i \in DOMAIN hs : hs[i].callback = c /\ ~ReplacedIn(r, hs[i].form)}
Refs(held, r, hs, c) == One(c \in held) + Cardinality(FramesIn(r, c)) + Cardinality(EnteredIn(r, hs, c))

LEMMA RefsType ==
  ASSUME NEW held, NEW r \in Seq(Frame), NEW hs \in Seq(Handler), NEW c
  PROVE  /\ Cardinality(FramesIn(r, c)) \in Nat /\ Cardinality(EnteredIn(r, hs, c)) \in Nat
         /\ IsFiniteSet(FramesIn(r, c)) /\ IsFiniteSet(EnteredIn(r, hs, c))
         /\ Refs(held, r, hs, c) \in Nat
<1>1. IsFiniteSet(FramesIn(r, c)) /\ Cardinality(FramesIn(r, c)) \in Nat
  BY FinitePlaces DEF FramesIn
<1>2. IsFiniteSet(EnteredIn(r, hs, c)) /\ Cardinality(EnteredIn(r, hs, c)) \in Nat
  BY FinitePlaces DEF EnteredIn
<1>3. One(c \in held) \in Nat
  BY DEF One
<1>4. QED BY <1>1, <1>2, <1>3 DEF Refs

LEMMA RefsFound ==
  ASSUME NEW held, NEW r \in Seq(Frame), NEW hs \in Seq(Handler), NEW c
  PROVE  /\ Refs(held, r, hs, c) \in Nat
         /\ c \in held => Refs(held, r, hs, c) > 0
         /\ FramesIn(r, c) # {} => Refs(held, r, hs, c) > 0
         /\ EnteredIn(r, hs, c) # {} => Refs(held, r, hs, c) > 0
<1>1. /\ Cardinality(FramesIn(r, c)) \in Nat /\ Cardinality(EnteredIn(r, hs, c)) \in Nat
      /\ IsFiniteSet(FramesIn(r, c)) /\ IsFiniteSet(EnteredIn(r, hs, c))
  BY RefsType
<1>2. /\ FramesIn(r, c) # {} => Cardinality(FramesIn(r, c)) > 0
      /\ EnteredIn(r, hs, c) # {} => Cardinality(EnteredIn(r, hs, c)) > 0
  BY <1>1, FS_EmptySet
<1>3. One(c \in held) \in Nat /\ (c \in held => One(c \in held) > 0)
  BY DEF One
<1>4. QED BY <1>1, <1>2, <1>3 DEF Refs

LEMMA ReferencesToAre ==
  ASSUME running \in Seq(Frame), NEW c \in Callbacks
  PROVE  ReferencesTo(c) = Refs(cbHeld, running, handlers, c)
<1>1. Frames({"call", "replace", "del"}, c) = FramesIn(running, c)
  <2>1. \A k \in DOMAIN running : running[k] \in Frame
    BY ElementOfSeq, LenProperties
  <2>2. QED BY <2>1 DEF Frames, FramesIn, Frame
<1>2. {i \in DOMAIN handlers : handlers[i].callback = c /\ ~BeingReplaced(handlers[i].form)}
        = EnteredIn(running, handlers, c)
  BY DEF EnteredIn, BeingReplaced, ReplacedIn
<1>3. QED BY <1>1, <1>2 DEF ReferencesTo, Refs, One

LEMMA ReferencesToAfter ==
  ASSUME running' \in Seq(Frame), NEW c \in Callbacks
  PROVE  ReferencesTo(c)' = Refs(cbHeld', running', handlers', c)
<1>1. Frames({"call", "replace", "del"}, c)' = FramesIn(running', c)
  <2>1. \A k \in DOMAIN running' : running'[k] \in Frame
    BY ElementOfSeq, LenProperties
  <2>2. QED BY <2>1 DEF Frames, FramesIn, Frame
<1>2. {i \in DOMAIN handlers' : handlers'[i].callback = c /\ ~BeingReplaced(handlers[i].form)'}
        = EnteredIn(running', handlers', c)
  BY DEF EnteredIn, BeingReplaced, ReplacedIn
<1>3. QED BY <1>1, <1>2 DEF ReferencesTo, Refs, One

(* A call that replaces no handler, and one that does. *)
LEMMA RefsPushing ==
  ASSUME NEW held, NEW r \in Seq(Frame), NEW hs \in Seq(Handler), NEW x \in Frame, x.kind # "replace", NEW c
  PROVE  Refs(held, Append(r, x), hs, c) = Refs(held, r, hs, c) + One(x.callback = c)
<1>1. \A f : ReplacedIn(Append(r, x), f) <=> ReplacedIn(r, f)
  BY Pushing
<1>2. EnteredIn(Append(r, x), hs, c) = EnteredIn(r, hs, c)
  BY <1>1 DEF EnteredIn
<1>3. /\ Cardinality(FramesIn(r, c)) \in Nat
      /\ Cardinality(FramesIn(Append(r, x), c)) = Cardinality(FramesIn(r, c)) + One(x.callback = c)
  BY Pushing
<1>4. Cardinality(EnteredIn(r, hs, c)) \in Nat
  BY RefsType
<1>5. One(x.callback = c) \in Nat /\ One(c \in held) \in Nat
  BY DEF One
<1>6. QED BY <1>2, <1>3, <1>4, <1>5 DEF Refs

LEMMA RefsReplacing ==
  ASSUME NEW held, NEW r \in Seq(Frame), NEW hs \in Seq(Handler), NEW x \in Frame, x.kind = "replace",
         ~ReplacedIn(r, x.form), NEW i \in DOMAIN hs, \A j \in DOMAIN hs : hs[j].form = x.form <=> j = i, NEW c
  PROVE  Refs(held, Append(r, x), hs, c) + One(hs[i].callback = c) = Refs(held, r, hs, c) + One(x.callback = c)
<1> DEFINE A == EnteredIn(r, hs, c)  B == EnteredIn(Append(r, x), hs, c)
<1>1. \A f : ReplacedIn(Append(r, x), f) <=> ReplacedIn(r, f) \/ x.form = f
  BY Pushing
<1>2. A \ {i} = B \ {i} /\ i \notin B /\ (i \in A <=> hs[i].callback = c)
  BY <1>1 DEF EnteredIn
<1>3. IsFiniteSet(A)
  BY RefsType
<1>4. Cardinality(A) \in Nat /\ Cardinality(B) \in Nat /\ Cardinality(B) + One(i \in A) = Cardinality(A) + One(i \in B)
  BY <1>2, <1>3, OneMember
<1>5. One(i \in A) = One(hs[i].callback = c) /\ One(i \in B) = 0
  BY <1>2 DEF One
<1>6. /\ Cardinality(FramesIn(r, c)) \in Nat
      /\ Cardinality(FramesIn(Append(r, x), c)) = Cardinality(FramesIn(r, c)) + One(x.callback = c)
  BY Pushing
<1>7. One(x.callback = c) \in Nat /\ One(c \in held) \in Nat /\ One(hs[i].callback = c) \in Nat
  BY DEF One
<1>8. QED BY <1>4, <1>5, <1>6, <1>7 DEF Refs

IsEntryOf(hs, f, i)   == i \in DOMAIN hs /\ \A j \in DOMAIN hs : hs[j].form = f <=> j = i
IsPutAt(new, hs, i, h) == DOMAIN new = DOMAIN hs /\ new[i] = h /\ \A j \in DOMAIN hs \ {i} : new[j] = hs[j]

(* The other way: the call returns and its callback is put in the list. *)
LEMMA RefsReplaced ==
  ASSUME NEW held, NEW r \in Seq(Frame), NEW hs \in Seq(Handler), NEW new \in Seq(Handler), NEW x \in Frame,
         x.kind = "replace", ~ReplacedIn(r, x.form),
         NEW i, IsEntryOf(hs, x.form, i), IsPutAt(new, hs, i, [form |-> x.form, callback |-> x.callback]), NEW c
  PROVE  Refs(held, r, new, c) = Refs(held, Append(r, x), hs, c)
<1>0. /\ i \in DOMAIN hs /\ DOMAIN new = DOMAIN hs /\ new[i] = [form |-> x.form, callback |-> x.callback]
      /\ \A j \in DOMAIN hs : hs[j].form = x.form <=> j = i
      /\ \A j \in DOMAIN hs \ {i} : new[j] = hs[j]
  BY DEF IsEntryOf, IsPutAt
<1>1. \A j \in DOMAIN new : new[j].form = x.form <=> j = i
  BY <1>0
<1>2. Refs(held, Append(r, x), new, c) + One(new[i].callback = c) = Refs(held, r, new, c) + One(x.callback = c)
  BY <1>0, <1>1, RefsReplacing
<1>3. EnteredIn(Append(r, x), new, c) = EnteredIn(Append(r, x), hs, c)
  <2>1. \A f : ReplacedIn(Append(r, x), f) <=> ReplacedIn(r, f) \/ x.form = f
    BY Pushing
  <2>2. hs[i].form = x.form /\ new[i].form = x.form
    BY <1>0
  <2>3. QED BY <1>0, <2>1, <2>2 DEF EnteredIn
<1>4. Refs(held, Append(r, x), new, c) = Refs(held, Append(r, x), hs, c)
  BY <1>3 DEF Refs
<1>5. new[i].callback = x.callback
  BY <1>0
<1>6. Refs(held, Append(r, x), hs, c) \in Nat /\ Refs(held, r, new, c) \in Nat /\ One(x.callback = c) \in Nat
  BY RefsType, Pushing DEF One
<1>7. QED BY <1>2, <1>4, <1>5, <1>6

(* A new item comes before the others. *)
LEMMA RefsInserting ==
  ASSUME NEW held, NEW r \in Seq(Frame), NEW hs \in Seq(Handler), NEW x \in Handler, ~ReplacedIn(r, x.form), NEW c
  PROVE  /\ <<x>> \o hs \in Seq(Handler)
         /\ Refs(held, r, <<x>> \o hs, c) = Refs(held, r, hs, c) + One(x.callback = c)
<1> DEFINE new == <<x>> \o hs  A == EnteredIn(r, hs, c)  B == EnteredIn(r, new, c)  n == Len(hs)
           C == B \ {1}
           f == [i \in A |-> i + 1]
<1>1. /\ new \in Seq(Handler) /\ n \in Nat /\ DOMAIN hs = 1 .. n /\ DOMAIN new = 1 .. n + 1
      /\ new[1] = x /\ \A i \in 1 .. n : new[i + 1] = hs[i]
  <2>1. <<x>> \in Seq(Handler) /\ Len(<<x>>) = 1 /\ <<x>>[1] = x
    OBVIOUS
  <2>2. /\ new \in Seq(Handler) /\ n \in Nat /\ Len(new) = 1 + n
        /\ \A i \in 1 .. 1 + n : new[i] = IF i <= 1 THEN <<x>>[i] ELSE hs[i - 1]
    BY <2>1, ConcatProperties, LenProperties
  <2>3. DOMAIN hs = 1 .. n /\ DOMAIN new = 1 .. n + 1
    BY <2>2, LenProperties
  <2>4. new[1] = x
    BY <2>1, <2>2
  <2>5. \A i \in 1 .. n : new[i + 1] = hs[i]
    BY <2>2
  <2>6. QED BY <2>2, <2>3, <2>4, <2>5
<1> HIDE DEF new
<1>2. IsFiniteSet(A) /\ IsFiniteSet(B) /\ Cardinality(A) \in Nat /\ Cardinality(B) \in Nat
  BY <1>1, RefsType
<1>3. A \subseteq 1 .. n /\ \A i \in 1 .. n : i \in A <=> i + 1 \in C
  BY <1>1 DEF EnteredIn
<1>4. C \subseteq 2 .. n + 1
  BY <1>1 DEF EnteredIn
<1>5. f \in Bijection(A, C)
  <2>1. f \in [A -> C]
    BY <1>3
  <2>2. IsInjective(f)
    BY <1>3 DEF IsInjective
  <2>3. \A k \in C : \E i \in A : f[i] = k
    <3>1. TAKE k \in C
    <3>2. k - 1 \in 1 .. n /\ (k - 1) + 1 = k
      BY <1>1, <1>4
    <3>3. k - 1 \in A
      BY <1>3, <3>2
    <3>4. f[k - 1] = k
      BY <3>2, <3>3
    <3>5. QED BY <3>3, <3>4
  <2>4. QED BY <2>1, <2>2, <2>3 DEF Bijection, Injection, Surjection
<1>6. Cardinality(C) = Cardinality(A)
  <2>1. ExistsBijection(A, C)
    BY <1>5 DEF ExistsBijection
  <2>2. QED BY <1>2, <2>1, FS_Bijection
<1>7. 1 \in B <=> x.callback = c
  BY <1>1 DEF EnteredIn
<1>8. Cardinality(C) = IF 1 \in B THEN Cardinality(B) - 1 ELSE Cardinality(B)
  BY <1>2, FS_RemoveElement
<1>9. Cardinality(B) = Cardinality(A) + One(x.callback = c)
  BY <1>2, <1>6, <1>7, <1>8 DEF One
<1>10. Cardinality(FramesIn(r, c)) \in Nat /\ One(c \in held) \in Nat /\ One(x.callback = c) \in Nat
  BY RefsType DEF One
<1>11. Refs(held, r, new, c) = Refs(held, r, hs, c) + One(x.callback = c)
  BY <1>2, <1>9, <1>10 DEF Refs
<1>12. QED BY <1>1, <1>11 DEF new

-----------------------------------------------------------------------------
(* The list has one handler of a form, and still has one of each form      *)
(* whose handler is being replaced.                                        *)
ListInv ==
  /\ activeForm \in Forms
  /\ running \in Seq(Frame) /\ OnceIn(running) /\ handlers \in Seq(Handler)
  /\ \A i, j \in DOMAIN handlers : handlers[i].form = handlers[j].form => i = j
  /\ \A f \in Forms : ReplacedIn(running, f) => IndexOf(f) # {}

(* A callback is counted by the program, the list and the calls.           *)
CountInv ==
  /\ cbHeld \subseteq Callbacks /\ cbCount \in [Callbacks -> Nat]
  /\ ended \in BOOLEAN /\ broken \in BOOLEAN
  /\ ~broken /\ ~ended => \A c \in Callbacks : cbCount[c] = Refs(cbHeld, running, handlers, c)
HandlerInv == ListInv /\ CountInv

LEMMA SameList == ASSUME ListInv, UNCHANGED <<handlers, activeForm, running>> PROVE ListInv'
  BY DEF ListInv, IndexOf

(* What Lose leaves: the callback c has lost a reference, or its           *)
(* destructor has one.                                                     *)
LEMMA Losing ==
  ASSUME NEW counts \in [Callbacks -> Nat], NEW c \in Callbacks, counts[c] > 0, NEW calls \in Seq(Frame),
         Lose(counts, c, calls)
  PROVE  /\ cbCount' \in [Callbacks -> Nat] /\ running' \in Seq(Frame)
         /\ OnceIn(calls) => OnceIn(running')
         /\ \A f : ReplacedIn(running', f) <=> ReplacedIn(calls, f)
         /\ \A held, d : \A hs \in Seq(Handler) :
              d \in Callbacks => cbCount'[d] + One(d = c) + Refs(held, calls, hs, d) = counts[d] + Refs(held, running', hs, d)
<1>1. CASE counts[c] = 1
  <2> DEFINE x == Del(c)
  <2>1. x \in Frame /\ x.kind = "del" /\ x.callback = c
    BY DEF Del, Frame
  <2>2. cbCount' = counts /\ running' = Append(calls, x)
    BY <1>1 DEF Lose
  <2> HIDE DEF x
  <2>3. /\ running' \in Seq(Frame) /\ (OnceIn(calls) => OnceIn(running'))
        /\ \A f : ReplacedIn(running', f) <=> ReplacedIn(calls, f)
    BY <2>1, <2>2, Pushing
  <2>4. ASSUME NEW held, NEW d \in Callbacks, NEW hs \in Seq(Handler)
        PROVE  cbCount'[d] + One(d = c) + Refs(held, calls, hs, d) = counts[d] + Refs(held, running', hs, d)
    <3>1. Refs(held, running', hs, d) = Refs(held, calls, hs, d) + One(x.callback = d)
      BY <2>1, <2>2, RefsPushing
    <3>2. One(x.callback = d) = One(d = c)
      BY <2>1 DEF One
    <3>3. Refs(held, calls, hs, d) \in Nat /\ One(d = c) \in Nat /\ counts[d] \in Nat
      BY RefsType DEF One
    <3>4. QED BY <2>2, <3>1, <3>2, <3>3
  <2>5. QED BY <2>2, <2>3, <2>4
<1>2. CASE counts[c] # 1
  <2>1. cbCount' = [counts EXCEPT ![c] = @ - 1] /\ running' = calls
    BY <1>2 DEF Lose
  <2>2. cbCount' \in [Callbacks -> Nat]
    BY <2>1
  <2>3. ASSUME NEW held, NEW d \in Callbacks, NEW hs \in Seq(Handler)
        PROVE  cbCount'[d] + One(d = c) + Refs(held, calls, hs, d) = counts[d] + Refs(held, running', hs, d)
    <3>1. cbCount'[d] + One(d = c) = counts[d] /\ cbCount'[d] \in Nat /\ One(d = c) \in Nat
      BY <2>1, <2>2 DEF One
    <3>2. Refs(held, calls, hs, d) \in Nat
      BY RefsType
    <3>3. QED BY <2>1, <3>1, <3>2
  <2>4. QED BY <2>1, <2>2, <2>3
<1>3. QED BY <1>1, <1>2

(* It is no call of a handler that this enters. *)
LEMMA LosingCalls ==
  ASSUME NEW counts, NEW c \in Callbacks, NEW calls \in Seq(Frame), Lose(counts, c, calls), NEW w
  PROVE  Cardinality(CallsIn(running', w)) = Cardinality(CallsIn(calls, w))
<1>1. CASE counts[c] = 1
  <2> DEFINE x == Del(c)
  <2>1. x \in Frame /\ x.kind = "del"
    BY DEF Del, Frame
  <2>2. running' = Append(calls, x)
    BY <1>1 DEF Lose
  <2> HIDE DEF x
  <2>3. Cardinality(CallsIn(calls, w)) \in Nat
        /\ Cardinality(CallsIn(running', w)) = Cardinality(CallsIn(calls, w)) + One(x.kind = "call" /\ x.wrapper = w)
    BY <2>1, <2>2, Pushing
  <2>4. One(x.kind = "call" /\ x.wrapper = w) = 0
    BY <2>1 DEF One
  <2>5. QED BY <2>3, <2>4
<1>2. CASE counts[c] # 1
  BY <1>2 DEF Lose
<1>3. QED BY <1>1, <1>2

(* The entry of a form. *)
LEMMA TheHandlerOf ==
  ASSUME HandlerInv, NEW f \in Forms, IndexOf(f) # {}
  PROVE  \E i \in DOMAIN handlers : /\ \A j \in DOMAIN handlers : handlers[j].form = f <=> j = i
                                    /\ IndexOf(f) = {i} /\ HandlerOf(f) = handlers[i].callback
                                    /\ handlers[i] \in Handler /\ HandlerOf(f) \in Callbacks
<1>1. PICK i \in DOMAIN handlers : handlers[i].form = f
  BY DEF IndexOf
<1>2. \A j \in DOMAIN handlers : handlers[j].form = f <=> j = i
  BY <1>1 DEF HandlerInv, CountInv, ListInv
<1>3. IndexOf(f) = {i}
  BY <1>2 DEF IndexOf
<1>4. (CHOOSE k \in IndexOf(f) : TRUE) = i
  BY <1>3
<1>5. HandlerOf(f) = handlers[i].callback
  BY <1>4 DEF HandlerOf
<1>6. handlers[i] \in Handler
  BY ElementOfSeq, LenProperties DEF HandlerInv, CountInv, ListInv
<1>7. QED BY <1>2, <1>3, <1>5, <1>6 DEF Handler

LEMMA CallbackStep ==
  ASSUME HandlerInv, NEW c \in Callbacks, NewCallback(c) \/ DropCallback(c) PROVE HandlerInv'
<1>0. ~ended /\ ~broken /\ UNCHANGED <<handlers, activeForm, ended, broken>>
  BY DEF NewCallback, DropCallback, Runs
<1>1. \A d \in Callbacks : cbCount[d] = Refs(cbHeld, running, handlers, d) /\ cbCount[d] \in Nat
  BY <1>0 DEF HandlerInv, CountInv, ListInv
<1>2. CASE NewCallback(c)
  <2>1. c \notin cbHeld
    <3>1. c \in cbHeld => Refs(cbHeld, running, handlers, c) > 0
      BY RefsFound DEF HandlerInv, ListInv
    <3>2. cbCount[c] = 0
      BY <1>2 DEF NewCallback
    <3>3. QED BY <1>1, <3>1, <3>2
  <2>2. ASSUME NEW d \in Callbacks PROVE cbCount'[d] = Refs(cbHeld', running', handlers', d)
    <3>1. Refs(cbHeld', running', handlers', d) = Refs(cbHeld, running, handlers, d) + One(d = c)
      <4>1. One(d \in cbHeld') = One(d \in cbHeld) + One(d = c)
        BY <1>2, <2>1 DEF NewCallback, One
      <4>2. /\ Cardinality(FramesIn(running, d)) \in Nat /\ Cardinality(EnteredIn(running, handlers, d)) \in Nat
            /\ One(d \in cbHeld) \in Nat /\ One(d = c) \in Nat
        BY RefsType DEF One, HandlerInv, CountInv, ListInv
      <4>3. running' = running
        BY <1>2 DEF NewCallback
      <4>4. QED BY <1>0, <4>1, <4>2, <4>3 DEF Refs
    <3>2. cbCount'[d] = cbCount[d] + One(d = c)
      BY <1>2 DEF NewCallback, One, HandlerInv, CountInv, ListInv
    <3>3. QED BY <1>1, <3>1, <3>2
  <2>3. ListInv'
    BY <1>0, <1>2, SameList DEF NewCallback, HandlerInv
  <2>4. cbCount' \in [Callbacks -> Nat] /\ cbHeld' \subseteq Callbacks
    BY <1>2 DEF NewCallback, HandlerInv, CountInv
  <2>5. QED BY <1>0, <2>2, <2>3, <2>4 DEF HandlerInv, CountInv
<1>3. CASE DropCallback(c)
  <2>1. c \in cbHeld /\ Lose(cbCount, c, running) /\ cbHeld' = cbHeld \ {c} /\ cbCount[c] > 0
    <3>1. c \in cbHeld => Refs(cbHeld, running, handlers, c) > 0
      BY RefsFound DEF HandlerInv, ListInv
    <3>2. c \in cbHeld /\ Lose(cbCount, c, running) /\ cbHeld' = cbHeld \ {c}
      BY <1>3 DEF DropCallback
    <3>3. QED BY <1>1, <3>1, <3>2
  <2>2. /\ cbCount' \in [Callbacks -> Nat] /\ running' \in Seq(Frame) /\ OnceIn(running')
        /\ \A f : ReplacedIn(running', f) <=> ReplacedIn(running, f)
        /\ \A held, d : \A hs \in Seq(Handler) :
             d \in Callbacks => cbCount'[d] + One(d = c) + Refs(held, running, hs, d) = cbCount[d] + Refs(held, running', hs, d)
    BY <2>1, Losing DEF HandlerInv, CountInv, ListInv
  <2>3. ASSUME NEW d \in Callbacks PROVE cbCount'[d] = Refs(cbHeld', running', handlers', d)
    <3>1. Refs(cbHeld, running, handlers, d) = Refs(cbHeld', running, handlers, d) + One(d = c)
      <4>1. One(d \in cbHeld) = One(d \in cbHeld') + One(d = c)
        BY <2>1 DEF One
      <4>2. /\ Cardinality(FramesIn(running, d)) \in Nat /\ Cardinality(EnteredIn(running, handlers, d)) \in Nat
            /\ One(d \in cbHeld') \in Nat /\ One(d = c) \in Nat
        BY RefsType DEF One, HandlerInv, CountInv, ListInv
      <4>3. QED BY <4>1, <4>2 DEF Refs
    <3>2. cbCount'[d] + One(d = c) + Refs(cbHeld', running, handlers, d) = cbCount[d] + Refs(cbHeld', running', handlers, d)
      BY <2>2 DEF HandlerInv, CountInv, ListInv
    <3>3. /\ Refs(cbHeld', running, handlers, d) \in Nat /\ Refs(cbHeld', running', handlers, d) \in Nat
          /\ One(d = c) \in Nat /\ cbCount'[d] \in Nat
      BY <2>2, RefsType DEF HandlerInv, CountInv, ListInv, One
    <3>4. QED BY <1>0, <1>1, <3>1, <3>2, <3>3
  <2>4. QED BY <1>0, <2>1, <2>2, <2>3 DEF HandlerInv, CountInv, ListInv, IndexOf
<1>4. QED BY <1>2, <1>3

LEMMA KeepSelfStep ==
  ASSUME HandlerInv, KeepSelf PROVE HandlerInv'
<1> DEFINE c == Top.callback
<1>1. /\ ~ended /\ ~broken /\ running # <<>> /\ c \notin cbHeld
      /\ cbCount' = [cbCount EXCEPT ![c] = @ + 1] /\ cbHeld' = cbHeld \cup {c}
      /\ UNCHANGED <<handlers, activeForm, running, ended, broken>>
  BY DEF KeepSelf, Runs
<1>2. c \in Callbacks
  BY <1>1, Popping DEF Top, HandlerInv, CountInv, ListInv, Frame
<1> HIDE DEF c
<1>3. ASSUME NEW d \in Callbacks PROVE cbCount'[d] = Refs(cbHeld', running', handlers', d)
  <2>1. One(d \in cbHeld') = One(d \in cbHeld) + One(d = c)
    BY <1>1 DEF One
  <2>2. /\ Cardinality(FramesIn(running, d)) \in Nat /\ Cardinality(EnteredIn(running, handlers, d)) \in Nat
        /\ One(d \in cbHeld) \in Nat /\ One(d = c) \in Nat
    BY RefsType DEF One, HandlerInv, CountInv, ListInv
  <2>3. Refs(cbHeld', running', handlers', d) = Refs(cbHeld, running, handlers, d) + One(d = c)
    BY <1>1, <2>1, <2>2 DEF Refs
  <2>4. cbCount'[d] = cbCount[d] + One(d = c)
    BY <1>1, <1>2 DEF One, HandlerInv, CountInv, ListInv
  <2>5. QED BY <1>1, <2>3, <2>4 DEF HandlerInv, CountInv, ListInv
<1>4. cbCount' \in [Callbacks -> Nat] /\ cbHeld' \subseteq Callbacks
  BY <1>1, <1>2 DEF HandlerInv, CountInv, ListInv
<1>5. ListInv'
  BY <1>1, SameList DEF HandlerInv
<1>6. QED BY <1>1, <1>3, <1>4, <1>5 DEF HandlerInv, CountInv

(* A call that returns takes its reference along. *)
LEMMA Returning ==
  ASSUME HandlerInv, running # <<>>
  PROVE  /\ Front(running) \in Seq(Frame) /\ Top \in Frame /\ Top.callback \in Callbacks
         /\ running = Append(Front(running), Top) /\ OnceIn(Front(running))
         /\ \A f : ReplacedIn(Front(running), f) => ReplacedIn(running, f)
         /\ Top.kind = "replace" => ~ReplacedIn(Front(running), Top.form)
<1> DEFINE r == Front(running)  x == Top
<1>1. r \in Seq(Frame) /\ x \in Frame /\ running = Append(r, x)
  BY Popping DEF HandlerInv, ListInv, Top
<1> HIDE DEF r, x
<1>2. /\ \A f : ReplacedIn(Append(r, x), f) <=> ReplacedIn(r, f) \/ (x.kind = "replace" /\ x.form = f)
      /\ OnceIn(Append(r, x)) <=> OnceIn(r) /\ (x.kind = "replace" => ~ReplacedIn(r, x.form))
  BY <1>1, Pushing
<1>3. OnceIn(running)
  BY DEF HandlerInv, ListInv
<1>4. x.callback \in Callbacks
  BY <1>1 DEF Frame
<1>5. /\ OnceIn(r) /\ (x.kind = "replace" => ~ReplacedIn(r, x.form))
      /\ \A f : ReplacedIn(r, f) => ReplacedIn(running, f)
  BY <1>1, <1>2, <1>3
<1>6. QED BY <1>1, <1>4, <1>5 DEF r, x

(* The Py_DECREF of a callback that is held. *)
LEMMA CountedIs ==
  ASSUME HandlerInv, ~broken, ~ended, NEW c \in Callbacks
  PROVE  cbCount[c] = Refs(cbHeld, running, handlers, c) /\ cbCount[c] \in Nat
BY DEF HandlerInv, CountInv

LEMMA DestructorStep ==
  ASSUME HandlerInv, DestructorReturns PROVE HandlerInv'
<1> DEFINE r == Front(running)  x == Top  c == x.callback
<1>1. /\ ~ended /\ ~broken /\ running # <<>> /\ x.kind = "del"
      /\ cbCount' = [cbCount EXCEPT ![c] = @ - 1] /\ running' = r
      /\ UNCHANGED <<handlers, activeForm, cbHeld, ended, broken>>
  BY DEF DestructorReturns, Runs, TopIs
<1>2. /\ r \in Seq(Frame) /\ x \in Frame /\ c \in Callbacks /\ running = Append(r, x)
      /\ OnceIn(r) /\ \A f : ReplacedIn(r, f) => ReplacedIn(running, f)
  BY <1>1, Returning
<1> HIDE DEF r, x
<1>3. ASSUME NEW d \in Callbacks
      PROVE  /\ cbCount[d] = Refs(cbHeld, r, handlers, d) + One(d = c)
             /\ cbCount[d] \in Nat /\ Refs(cbHeld, r, handlers, d) \in Nat /\ One(d = c) \in Nat
  <2>1. Refs(cbHeld, running, handlers, d) = Refs(cbHeld, r, handlers, d) + One(x.callback = d)
    <3>1. Refs(cbHeld, Append(r, x), handlers, d) = Refs(cbHeld, r, handlers, d) + One(x.callback = d)
      BY <1>1, <1>2, RefsPushing DEF HandlerInv, ListInv
    <3>2. QED BY <1>2, <3>1
  <2>2. cbCount[d] = Refs(cbHeld, running, handlers, d) /\ cbCount[d] \in Nat
    BY <1>1, CountedIs
  <2>3. Refs(cbHeld, r, handlers, d) \in Nat
    BY <1>2, RefsType DEF HandlerInv, ListInv
  <2>4. One(x.callback = d) = One(d = c) /\ One(d = c) \in Nat
    BY DEF One
  <2>5. QED BY <2>1, <2>2, <2>3, <2>4
<1>4. cbCount' \in [Callbacks -> Nat]
  <2>1. cbCount[c] - 1 \in Nat
    <3>1. One(c = c) = 1
      BY DEF One
    <3>2. QED BY <1>2, <1>3, <3>1
  <2>2. QED BY <1>1, <2>1 DEF HandlerInv, CountInv
<1>5. ASSUME NEW d \in Callbacks PROVE cbCount'[d] = Refs(cbHeld', running', handlers', d)
  <2>1. cbCount'[d] = cbCount[d] - One(d = c)
    BY <1>1, <1>3 DEF One, HandlerInv, CountInv
  <2>2. QED BY <1>1, <1>3, <2>1
<1>6. ListInv'
  BY <1>1, <1>2 DEF HandlerInv, ListInv, IndexOf
<1>7. QED BY <1>1, <1>4, <1>5, <1>6 DEF HandlerInv, CountInv

LEMMA InsertStep ==
  ASSUME HandlerInv, NEW f \in Forms, NEW c \in Callbacks, InsertHandler(f, c) PROVE HandlerInv'
<1> DEFINE x == [form |-> f, callback |-> c]
<1>1. /\ ~ended /\ ~broken /\ IndexOf(f) = {} /\ handlers' = <<x>> \o handlers
      /\ cbCount' = [cbCount EXCEPT ![c] = @ + 1]
      /\ UNCHANGED <<activeForm, cbHeld, running, ended, broken>>
  BY DEF InsertHandler, Runs
<1>2. x \in Handler /\ x.form = f /\ x.callback = c
  BY DEF Handler
<1> HIDE DEF x
<1>3. ~ReplacedIn(running, f)
  BY <1>1 DEF HandlerInv, ListInv
<1>4. ASSUME NEW d \in Callbacks PROVE cbCount'[d] = Refs(cbHeld', running', handlers', d)
  <2>1. Refs(cbHeld, running, handlers', d) = Refs(cbHeld, running, handlers, d) + One(x.callback = d)
    BY <1>1, <1>2, <1>3, RefsInserting DEF HandlerInv, ListInv
  <2>2. cbCount[d] = Refs(cbHeld, running, handlers, d) /\ cbCount[d] \in Nat
    BY <1>1, CountedIs
  <2>3. cbCount'[d] = cbCount[d] + One(x.callback = d)
    BY <1>1, <1>2 DEF One, HandlerInv, CountInv
  <2>4. QED BY <1>1, <2>1, <2>2, <2>3
<1>5. /\ handlers' \in Seq(Handler) /\ Len(handlers) \in Nat
      /\ DOMAIN handlers = 1 .. Len(handlers) /\ DOMAIN handlers' = 1 .. Len(handlers) + 1
      /\ handlers'[1] = x /\ \A i \in 2 .. Len(handlers) + 1 : handlers'[i] = handlers[i - 1]
  <2>1. <<x>> \in Seq(Handler) /\ Len(<<x>>) = 1 /\ <<x>>[1] = x
    BY <1>2
  <2>2. handlers \in Seq(Handler)
    BY DEF HandlerInv, ListInv
  <2>3. /\ handlers' \in Seq(Handler) /\ Len(handlers) \in Nat /\ Len(handlers') = 1 + Len(handlers)
        /\ \A i \in 1 .. 1 + Len(handlers) : handlers'[i] = IF i <= 1 THEN <<x>>[i] ELSE handlers[i - 1]
    BY <1>1, <2>1, <2>2, ConcatProperties, LenProperties
  <2>4. DOMAIN handlers = 1 .. Len(handlers) /\ DOMAIN handlers' = 1 .. Len(handlers) + 1
    BY <2>2, <2>3, LenProperties
  <2>5. handlers'[1] = x
    BY <2>1, <2>3
  <2>6. \A i \in 2 .. Len(handlers) + 1 : handlers'[i] = handlers[i - 1]
    BY <2>3
  <2>7. QED BY <2>2, <2>3, <2>4, <2>5, <2>6
<1>6. ListInv'
  <2>1. \A i, j \in DOMAIN handlers' : handlers'[i].form = handlers'[j].form => i = j
    <3>1. \A i \in DOMAIN handlers : handlers[i].form # f
      BY <1>1 DEF IndexOf
    <3>2. \A i \in 2 .. Len(handlers) + 1 : i - 1 \in DOMAIN handlers /\ handlers'[i] = handlers[i - 1]
      BY <1>5
    <3>3. \A i \in DOMAIN handlers' : i # 1 => i \in 2 .. Len(handlers) + 1
      BY <1>5
    <3>4. SUFFICES ASSUME NEW i \in DOMAIN handlers', NEW j \in DOMAIN handlers', handlers'[i].form = handlers'[j].form
                   PROVE  i = j
      OBVIOUS
    <3>5. CASE i # 1 /\ j # 1
      <4>1. handlers[i - 1].form = handlers[j - 1].form /\ i - 1 \in DOMAIN handlers /\ j - 1 \in DOMAIN handlers
        BY <3>2, <3>3, <3>4, <3>5
      <4>2. i - 1 = j - 1
        BY <4>1 DEF HandlerInv, ListInv
      <4>3. QED BY <1>5, <4>2
    <3>6. CASE i = 1 \/ j = 1
      BY <1>2, <1>5, <3>1, <3>2, <3>3, <3>4, <3>6
    <3>7. QED BY <3>5, <3>6
  <2>2. ASSUME NEW g \in Forms, ReplacedIn(running, g) PROVE IndexOf(g)' # {}
    <3>1. PICK i \in DOMAIN handlers : handlers[i].form = g
      BY <2>2 DEF HandlerInv, ListInv, IndexOf
    <3>2. i + 1 \in DOMAIN handlers' /\ handlers'[i + 1] = handlers[i]
      BY <1>5
    <3>3. QED BY <3>1, <3>2 DEF IndexOf
  <2>3. QED BY <1>1, <1>5, <2>1, <2>2 DEF HandlerInv, ListInv
<1>7. cbCount' \in [Callbacks -> Nat]
  BY <1>1 DEF HandlerInv, CountInv
<1>8. QED BY <1>1, <1>4, <1>6, <1>7 DEF HandlerInv, CountInv

LEMMA StartStep ==
  ASSUME HandlerInv, NEW f \in Forms, NEW c \in Callbacks, StartReplace(f, c) PROVE HandlerInv'
<1>1. /\ ~ended /\ ~broken /\ IndexOf(f) # {}
      /\ UNCHANGED <<handlers, activeForm, cbHeld, ended>>
  BY DEF StartReplace, Runs
<1>2. CASE BeingReplaced(f)
  <2>1. broken' = TRUE /\ UNCHANGED <<handlers, activeForm, cbCount, cbHeld, running, ended>>
    BY <1>1, <1>2 DEF StartReplace
  <2>2. ListInv'
    BY <2>1, SameList DEF HandlerInv
  <2>3. QED BY <2>1, <2>2 DEF HandlerInv, CountInv
<1>3. CASE ~BeingReplaced(f)
  <2> DEFINE x == Replacing(f, c)  calls == Append(running, x)  counts == [cbCount EXCEPT ![c] = @ + 1]
             h == HandlerOf(f)
  <2>1. Lose(counts, h, calls) /\ broken' = broken
    BY <1>1, <1>3 DEF StartReplace
  <2>2. x \in Frame /\ x.kind = "replace" /\ x.form = f /\ x.callback = c
    BY DEF Replacing, Frame
  <2>3. PICK i \in DOMAIN handlers : /\ \A j \in DOMAIN handlers : handlers[j].form = f <=> j = i
                                     /\ h = handlers[i].callback /\ h \in Callbacks
    BY <1>1, TheHandlerOf
  <2>4. counts \in [Callbacks -> Nat] /\ \A d \in Callbacks : counts[d] = cbCount[d] + One(d = c)
    BY DEF One, HandlerInv, CountInv
  <2>5. ~ReplacedIn(running, f)
    BY <1>3 DEF BeingReplaced, ReplacedIn
  <2>6. running \in Seq(Frame) /\ OnceIn(running) /\ handlers \in Seq(Handler)
    BY DEF HandlerInv, ListInv
  <2> HIDE DEF x, counts, h
  <2>7. /\ calls \in Seq(Frame) /\ OnceIn(calls)
        /\ \A g : ReplacedIn(calls, g) <=> ReplacedIn(running, g) \/ g = f
    BY <2>2, <2>5, <2>6, Pushing
  <2>8. ASSUME NEW d \in Callbacks
        PROVE  /\ counts[d] = Refs(cbHeld, calls, handlers, d) + One(d = h)
               /\ Refs(cbHeld, calls, handlers, d) \in Nat /\ One(d = h) \in Nat
    <3>1. Refs(cbHeld, calls, handlers, d) + One(handlers[i].callback = d)
            = Refs(cbHeld, running, handlers, d) + One(x.callback = d)
      BY <2>2, <2>3, <2>5, <2>6, RefsReplacing
    <3>2. cbCount[d] = Refs(cbHeld, running, handlers, d) /\ cbCount[d] \in Nat
      BY <1>1, CountedIs
    <3>3. One(handlers[i].callback = d) = One(d = h) /\ One(x.callback = d) = One(d = c)
      BY <2>2, <2>3 DEF One
    <3>4. Refs(cbHeld, calls, handlers, d) \in Nat /\ One(d = h) \in Nat
      BY <2>6, <2>7, RefsType DEF One
    <3>5. QED BY <2>4, <3>1, <3>2, <3>3, <3>4
  <2> HIDE DEF calls
  <2>9. counts[h] > 0
    <3>1. One(h = h) = 1
      BY DEF One
    <3>2. QED BY <2>3, <2>8, <3>1
  <2>10. /\ cbCount' \in [Callbacks -> Nat] /\ running' \in Seq(Frame) /\ OnceIn(running')
         /\ \A g : ReplacedIn(running', g) <=> ReplacedIn(calls, g)
         /\ \A held, d : \A hs \in Seq(Handler) :
              d \in Callbacks => cbCount'[d] + One(d = h) + Refs(held, calls, hs, d) = counts[d] + Refs(held, running', hs, d)
    BY <2>1, <2>3, <2>4, <2>7, <2>9, Losing
  <2>11. ASSUME NEW d \in Callbacks PROVE cbCount'[d] = Refs(cbHeld', running', handlers', d)
    <3>1. cbCount'[d] + One(d = h) + Refs(cbHeld, calls, handlers, d) = counts[d] + Refs(cbHeld, running', handlers, d)
      BY <2>6, <2>10
    <3>2. cbCount'[d] \in Nat /\ Refs(cbHeld, running', handlers, d) \in Nat
      BY <2>6, <2>10, RefsType
    <3>3. QED BY <1>1, <2>8, <3>1, <3>2
  <2>12. ListInv'
    BY <1>1, <2>6, <2>7, <2>10 DEF HandlerInv, ListInv, IndexOf
  <2>13. QED BY <1>1, <2>1, <2>10, <2>11, <2>12 DEF HandlerInv, CountInv
<1>4. QED BY <1>2, <1>3

LEMMA FinishStep ==
  ASSUME HandlerInv, FinishReplace PROVE HandlerInv'
<1> DEFINE r == Front(running)  x == Top
<1>1. /\ ~broken /\ running # <<>> /\ x.kind = "replace" /\ running' = r
      /\ handlers' = [i \in DOMAIN handlers |->
                        IF i \in IndexOf(x.form) THEN [form |-> x.form, callback |-> x.callback] ELSE handlers[i]]
      /\ UNCHANGED <<activeForm, cbCount, cbHeld, ended, broken>>
  BY DEF FinishReplace, TopIs, cbVars
<1>2. /\ r \in Seq(Frame) /\ x \in Frame /\ x.callback \in Callbacks /\ running = Append(r, x) /\ OnceIn(r)
      /\ \A f : ReplacedIn(r, f) => ReplacedIn(running, f)
      /\ ~ReplacedIn(r, x.form)
  BY <1>1, Returning
<1> HIDE DEF r, x
<1>3. x.form \in Forms
  BY <1>1, <1>2 DEF Frame
<1>4. ReplacedIn(running, x.form)
  BY <1>1, <1>2, Pushing
<1>5. PICK i \in DOMAIN handlers : (\A j \in DOMAIN handlers : handlers[j].form = x.form <=> j = i) /\ IndexOf(x.form) = {i}
  BY <1>3, <1>4, TheHandlerOf DEF HandlerInv, ListInv
<1>6. handlers \in Seq(Handler) /\ DOMAIN handlers = 1 .. Len(handlers) /\ Len(handlers) \in Nat
      /\ \A j \in DOMAIN handlers : handlers[j] \in Handler
  BY LenProperties, ElementOfSeq DEF HandlerInv, ListInv
<1>7. /\ DOMAIN handlers' = DOMAIN handlers /\ handlers'[i] = [form |-> x.form, callback |-> x.callback]
      /\ \A j \in DOMAIN handlers \ {i} : handlers'[j] = handlers[j]
  BY <1>1, <1>5
<1>8. handlers' \in Seq(Handler)
  <2>1. handlers'[i] \in Handler
    BY <1>2, <1>3, <1>7 DEF Handler
  <2>2. \A j \in 1 .. Len(handlers) : handlers'[j] \in Handler
    BY <1>6, <1>7, <2>1
  <2>3. handlers' = [j \in 1 .. Len(handlers) |-> handlers'[j]]
    BY <1>1, <1>6
  <2>4. handlers' \in [1 .. Len(handlers) -> Handler]
    BY <2>2, <2>3
  <2>5. QED BY <1>6, <2>4, SeqDef
<1>9. \A j \in DOMAIN handlers : handlers'[j].form = handlers[j].form
  BY <1>5, <1>7
<1>10. ASSUME ~ended, NEW d \in Callbacks PROVE cbCount'[d] = Refs(cbHeld', running', handlers', d)
  <2>1. Refs(cbHeld, r, handlers', d) = Refs(cbHeld, Append(r, x), handlers, d)
    <3>1. IsEntryOf(handlers, x.form, i)
      BY <1>5 DEF IsEntryOf
    <3>2. IsPutAt(handlers', handlers, i, [form |-> x.form, callback |-> x.callback])
      BY <1>7 DEF IsPutAt
    <3>3. r \in Seq(Frame) /\ x \in Frame /\ x.kind = "replace" /\ ~ReplacedIn(r, x.form) /\ handlers \in Seq(Handler)
      BY <1>1, <1>2, <1>6
    <3>4. QED BY <1>8, <3>1, <3>2, <3>3, RefsReplaced
  <2>2. cbCount[d] = Refs(cbHeld, running, handlers, d)
    BY <1>1, <1>10, CountedIs
  <2>3. QED BY <1>1, <1>2, <2>1, <2>2
<1>11. ListInv'
  <2>1. \A j, k \in DOMAIN handlers' : handlers'[j].form = handlers'[k].form => j = k
    BY <1>7, <1>9 DEF HandlerInv, ListInv
  <2>2. ASSUME NEW f \in Forms, ReplacedIn(r, f) PROVE IndexOf(f)' # {}
    BY <1>2, <1>7, <1>9, <2>2 DEF HandlerInv, ListInv, IndexOf
  <2>3. QED BY <1>1, <1>2, <1>8, <2>1, <2>2 DEF HandlerInv, ListInv
<1>12. QED BY <1>1, <1>10, <1>11 DEF HandlerInv, CountInv

(* A handler is called, from the loop of the application or from the       *)
(* program.                                                                *)
LEMMA CallStep ==
  ASSUME HandlerInv, NEW e, NEW of \in Wrappers \cup {NoWrapper}, ~broken, _genericEventHandler(e, of) PROVE HandlerInv'
<1> DEFINE h == HandlerOf(activeForm)  x == Calling(h, of)
<1>1. IndexOf(activeForm) # {} /\ UNCHANGED <<handlers, activeForm, cbHeld, ended>>
  BY DEF _genericEventHandler
<1>2. CASE ended
  <2>1. broken' = TRUE /\ UNCHANGED <<handlers, activeForm, cbCount, cbHeld, running, ended>>
    BY <1>1, <1>2 DEF _genericEventHandler
  <2>2. ListInv'
    BY <2>1, SameList DEF HandlerInv
  <2>3. QED BY <2>1, <2>2 DEF HandlerInv, CountInv
<1>3. CASE ~ended
  <2>1. cbCount' = [cbCount EXCEPT ![h] = @ + 1] /\ running' = Append(running, x) /\ broken' = broken
    BY <1>3 DEF _genericEventHandler
  <2>2. h \in Callbacks
    BY <1>1, TheHandlerOf DEF HandlerInv, ListInv
  <2>3. x \in Frame /\ x.kind = "call" /\ x.callback = h
    BY <2>2 DEF Calling, Frame
  <2> HIDE DEF x, h
  <2>4. running \in Seq(Frame) /\ OnceIn(running) /\ handlers \in Seq(Handler)
    BY DEF HandlerInv, ListInv
  <2>5. ASSUME NEW d \in Callbacks PROVE cbCount'[d] = Refs(cbHeld', running', handlers', d)
    <3>1. Refs(cbHeld, running', handlers, d) = Refs(cbHeld, running, handlers, d) + One(x.callback = d)
      BY <2>1, <2>3, <2>4, RefsPushing
    <3>2. cbCount[d] = Refs(cbHeld, running, handlers, d) /\ cbCount[d] \in Nat
      BY <1>3, CountedIs
    <3>3. cbCount'[d] = cbCount[d] + One(x.callback = d)
      BY <2>1, <2>2, <2>3 DEF One, HandlerInv, CountInv
    <3>4. QED BY <1>1, <3>1, <3>2, <3>3
  <2>6. running' \in Seq(Frame) /\ OnceIn(running') /\ \A f : ReplacedIn(running', f) <=> ReplacedIn(running, f)
    BY <2>1, <2>3, <2>4, Pushing
  <2>7. ListInv'
    BY <1>1, <2>6 DEF HandlerInv, ListInv, IndexOf
  <2>8. cbCount' \in [Callbacks -> Nat]
    BY <2>1, <2>2 DEF HandlerInv, CountInv
  <2>9. QED BY <1>1, <2>1, <2>5, <2>7, <2>8 DEF HandlerInv, CountInv
<1>4. QED BY <1>2, <1>3

LEMMA CallbackReturnsStep ==
  ASSUME HandlerInv, CallbackReturns PROVE HandlerInv'
<1> DEFINE r == Front(running)  x == Top  c == x.callback
<1>1. /\ ~ended /\ ~broken /\ running # <<>> /\ x.kind = "call" /\ Lose(cbCount, c, r)
      /\ UNCHANGED <<handlers, activeForm, cbHeld, ended, broken>>
  BY DEF CallbackReturns, Runs, TopIs
<1>2. /\ r \in Seq(Frame) /\ x \in Frame /\ c \in Callbacks /\ running = Append(r, x)
      /\ OnceIn(r) /\ \A f : ReplacedIn(r, f) => ReplacedIn(running, f)
  BY <1>1, Returning
<1> HIDE DEF r, x
<1>3. ASSUME NEW d \in Callbacks
      PROVE  /\ cbCount[d] = Refs(cbHeld, r, handlers, d) + One(d = c)
             /\ cbCount[d] \in Nat /\ Refs(cbHeld, r, handlers, d) \in Nat /\ One(d = c) \in Nat
  <2>1. Refs(cbHeld, Append(r, x), handlers, d) = Refs(cbHeld, r, handlers, d) + One(x.callback = d)
    BY <1>1, <1>2, RefsPushing DEF HandlerInv, ListInv
  <2>2. cbCount[d] = Refs(cbHeld, running, handlers, d) /\ cbCount[d] \in Nat
    BY <1>1, CountedIs
  <2>3. Refs(cbHeld, r, handlers, d) \in Nat
    BY <1>2, RefsType DEF HandlerInv, ListInv
  <2>4. One(x.callback = d) = One(d = c) /\ One(d = c) \in Nat
    BY DEF One
  <2>5. QED BY <1>2, <2>1, <2>2, <2>3, <2>4
<1>4. cbCount[c] > 0
  <2>1. One(c = c) = 1
    BY DEF One
  <2>2. QED BY <1>2, <1>3, <2>1
<1>5. /\ cbCount' \in [Callbacks -> Nat] /\ running' \in Seq(Frame) /\ OnceIn(running')
      /\ \A g : ReplacedIn(running', g) <=> ReplacedIn(r, g)
      /\ \A held, d : \A hs \in Seq(Handler) :
           d \in Callbacks => cbCount'[d] + One(d = c) + Refs(held, r, hs, d) = cbCount[d] + Refs(held, running', hs, d)
  <2>1. cbCount \in [Callbacks -> Nat]
    BY DEF HandlerInv, CountInv
  <2>2. QED BY <1>1, <1>2, <1>4, <2>1, Losing
<1>6. handlers \in Seq(Handler)
  BY DEF HandlerInv, ListInv
<1>7. ASSUME NEW d \in Callbacks PROVE cbCount'[d] = Refs(cbHeld', running', handlers', d)
  <2>1. cbCount'[d] + One(d = c) + Refs(cbHeld, r, handlers, d) = cbCount[d] + Refs(cbHeld, running', handlers, d)
    BY <1>5, <1>6
  <2>2. cbCount'[d] \in Nat /\ Refs(cbHeld, running', handlers, d) \in Nat
    BY <1>5, <1>6, RefsType
  <2>3. QED BY <1>1, <1>3, <2>1, <2>2
<1>8. ListInv'
  BY <1>1, <1>2, <1>5 DEF HandlerInv, ListInv, IndexOf
<1>9. QED BY <1>1, <1>5, <1>7, <1>8 DEF HandlerInv, CountInv

LEMMA CleanupStep ==
  ASSUME HandlerInv, _cleanup PROVE HandlerInv'
<1>1. /\ running = <<>> /\ ~broken /\ ~ended /\ ended' = TRUE
      /\ cbCount' = [c \in Callbacks |->
           cbCount[c] - Cardinality({i \in 1 .. Len(handlers) - 1 : handlers[i].callback = c})]
      /\ UNCHANGED <<handlers, activeForm, cbHeld, running, broken>>
  BY DEF _cleanup, Runs
<1>2. ASSUME NEW c \in Callbacks
      PROVE  cbCount[c] - Cardinality({i \in 1 .. Len(handlers) - 1 : handlers[i].callback = c}) \in Nat
  <2> DEFINE E == EnteredIn(running, handlers, c)
             A == {i \in 1 .. Len(handlers) - 1 : handlers[i].callback = c}
  <2>1. running \in Seq(Frame) /\ handlers \in Seq(Handler)
    BY DEF HandlerInv, ListInv
  <2>2. /\ Cardinality(FramesIn(running, c)) \in Nat /\ Cardinality(E) \in Nat /\ IsFiniteSet(E)
        /\ One(c \in cbHeld) \in Nat
    BY <2>1, RefsType DEF One
  <2>3. DOMAIN handlers = 1 .. Len(handlers) /\ Len(handlers) \in Nat
    BY <2>1, LenProperties
  <2>4. \A f : ~ReplacedIn(running, f)
    BY <1>1 DEF ReplacedIn
  <2>5. A \subseteq E
    BY <2>3, <2>4 DEF EnteredIn
  <2> HIDE DEF A, E
  <2>6. Cardinality(A) <= Cardinality(E) /\ IsFiniteSet(A)
    BY <2>2, <2>5, FS_Subset
  <2>7. Cardinality(A) \in Nat
    BY <2>6, FS_CardinalityType
  <2>8. cbCount[c] = One(c \in cbHeld) + Cardinality(FramesIn(running, c)) + Cardinality(E)
    BY <1>1, CountedIs DEF Refs, E
  <2>9. cbCount[c] - Cardinality(A) \in Nat
    BY <2>2, <2>6, <2>7, <2>8
  <2>10. QED BY <2>9 DEF A
<1>3. cbCount' \in [Callbacks -> Nat]
  BY <1>1, <1>2
<1>4. ListInv'
  BY <1>1, SameList DEF HandlerInv
<1>5. QED BY <1>1, <1>3, <1>4 DEF HandlerInv, CountInv

(* The steps that leave the list and the counts alone. *)
LEMMA OtherStep ==
  ASSUME HandlerInv,
         UNCHANGED <<handlers, cbVars, running, ended, broken>>, activeForm' \in Forms
  PROVE  HandlerInv'
BY DEF HandlerInv, CountInv, ListInv, IndexOf, cbVars

LEMMA HandlerStep ==
  ASSUME HandlerInv, [FormNext]_formVars PROVE HandlerInv'
<1>1. CASE UNCHANGED formVars
  BY <1>1, OtherStep DEF formVars, cbVars, HandlerInv, ListInv
<1>2. CASE KeepSelf
  BY <1>2, KeepSelfStep
<1>3. CASE DestructorReturns
  BY <1>3, DestructorStep
<1>4. CASE FinishReplace
  BY <1>4, FinishStep
<1>5. CASE AppDispatch
  BY <1>5, CallStep DEF AppDispatch
<1>6. CASE CallbackReturns
  BY <1>6, CallbackReturnsStep
<1>7. CASE _cleanup
  BY <1>7, CleanupStep
<1>8. CASE \E c \in Callbacks : NewCallback(c) \/ DropCallback(c)
  BY <1>8, CallbackStep
<1>9. CASE \E f \in Forms, c \in Callbacks : InsertHandler(f, c) \/ StartReplace(f, c)
  BY <1>9, InsertStep, StartStep
<1>10. CASE \E f \in Forms : SetActive(f)
  BY <1>10, OtherStep DEF SetActive
<1>11. ASSUME NEW w \in Wrappers, dispatchEvent(w) PROVE HandlerInv'
  <2>1. CASE UseFreedEvent
    <3>1. ListInv'
      BY <2>1, SameList DEF UseFreedEvent, HandlerInv
    <3>2. QED BY <2>1, <3>1 DEF UseFreedEvent, cbVars, HandlerInv, CountInv
  <2>2. CASE ~broken /\ _genericEventHandler(evOf[w], w)
    BY <2>2, CallStep
  <2>3. QED BY <1>11, <2>1, <2>2 DEF dispatchEvent, Runs
<1>12. ASSUME NEW w \in Wrappers, DropWrapper(w) PROVE HandlerInv'
  BY <1>12, OtherStep DEF DropWrapper, HandlerInv, ListInv
<1>13. ASSUME NEW w \in Wrappers, NEW e \in Events, getevent(w, e) PROVE HandlerInv'
  BY <1>13, OtherStep DEF getevent, HandlerInv, ListInv
<1>14. QED BY <1>1, <1>2, <1>3, <1>4, <1>5, <1>6, <1>7, <1>8, <1>9, <1>10, <1>11, <1>12, <1>13 DEF FormNext

-----------------------------------------------------------------------------
(* The wrappers of events *)

Holders(held, r, w) == One(w \in held) + Cardinality(CallsIn(r, w))
CountsOf(r, held) ==
  \A w \in Wrappers : IF w \in owners THEN wCount[w] = Holders(held, r, w)
                      ELSE wCount[w] = Holders(held, r, w) + 2 \/ (wCount[w] = 0 /\ Holders(held, r, w) = 0)

(* Who owns its event is counted exactly, the wrapper of a dispatch keeps  *)
(* two references more for ever; an event has one owner that is alive.     *)
WrapperInv ==
  /\ wHeld \subseteq Wrappers /\ wCount \in [Wrappers -> Nat] /\ evOf \in [Wrappers -> AllEvents]
  /\ got \subseteq Events /\ frees \in [AllEvents -> Nat] /\ owners \subseteq Wrappers
  /\ CountsOf(running, wHeld)
  /\ \A e \in AllEvents : e \notin got => frees[e] = 0
  /\ \A w \in owners : wCount[w] > 0 => evOf[w] \in got
  /\ \A v, w \in owners : wCount[v] > 0 /\ wCount[w] > 0 /\ evOf[v] = evOf[w] => v = w
  /\ EventsAreFreedOnce

LEMMA HoldersType ==
  ASSUME NEW held, NEW r \in Seq(Frame), NEW w
  PROVE  Holders(held, r, w) \in Nat /\ (w \in held => Holders(held, r, w) > 0)
<1>1. Cardinality(CallsIn(r, w)) \in Nat
  BY FinitePlaces DEF CallsIn
<1>2. QED BY <1>1 DEF Holders, One

LEMMA SameWrappers ==
  ASSUME WrapperInv, UNCHANGED eventVars,
         \A w \in Wrappers : Cardinality(CallsIn(running', w)) = Cardinality(CallsIn(running, w))
  PROVE  WrapperInv'
<1>1. UNCHANGED <<evOf, wCount, wHeld, owners, got, frees>>
  BY DEF eventVars
<1>2. \A w \in Wrappers : Holders(wHeld', running', w) = Holders(wHeld, running, w)
  BY <1>1 DEF Holders
<1>3. CountsOf(running, wHeld)'
  BY <1>1, <1>2 DEF WrapperInv, CountsOf
<1>4. QED BY <1>1, <1>3 DEF WrapperInv, EventsAreFreedOnce

(* A reference to w is given up, that of the program or that of a call. *)
LEMMA LosingWrapper ==
  ASSUME WrapperInv, NEW w \in Wrappers, LoseWrapper(w), running \in Seq(Frame), running' \in Seq(Frame),
         wHeld' \subseteq Wrappers, UNCHANGED <<evOf, owners, got>>,
         \A v \in Wrappers : Holders(wHeld', running', v) + One(v = w) = Holders(wHeld, running, v)
  PROVE  WrapperInv'
<1>1. \A v \in Wrappers : /\ Holders(wHeld', running', v) \in Nat
                          /\ Holders(wHeld, running, v) = IF v = w THEN Holders(wHeld', running', v) + 1
                                                          ELSE Holders(wHeld', running', v)
  <2>1. \A v \in Wrappers : Holders(wHeld', running', v) \in Nat
    BY HoldersType
  <2>2. QED BY <2>1 DEF One
<1>2. wCount[w] > 0 /\ (w \notin owners => wCount[w] > 1)
  <2>1. Holders(wHeld', running', w) \in Nat /\ Holders(wHeld, running, w) = Holders(wHeld', running', w) + 1
    BY <1>1
  <2>2. IF w \in owners THEN wCount[w] = Holders(wHeld, running, w)
        ELSE wCount[w] = Holders(wHeld, running, w) + 2 \/ (wCount[w] = 0 /\ Holders(wHeld, running, w) = 0)
    BY DEF WrapperInv, CountsOf
  <2>3. QED BY <2>1, <2>2
<1>3. /\ wCount' = [wCount EXCEPT ![w] = @ - 1]
      /\ frees' = IF wCount[w] = 1 THEN [frees EXCEPT ![evOf[w]] = @ + 1] ELSE frees
  BY DEF LoseWrapper
<1>4. /\ wCount' \in [Wrappers -> Nat] /\ wCount'[w] = wCount[w] - 1
      /\ \A v \in Wrappers : v # w => wCount'[v] = wCount[v]
  BY <1>2, <1>3 DEF WrapperInv
<1>5. CountsOf(running, wHeld)'
  <2>1. SUFFICES ASSUME NEW v \in Wrappers
                 PROVE  IF v \in owners THEN wCount'[v] = Holders(wHeld', running', v)
                        ELSE wCount'[v] = Holders(wHeld', running', v) + 2
                             \/ (wCount'[v] = 0 /\ Holders(wHeld', running', v) = 0)
    BY DEF CountsOf
  <2>2. /\ wCount[v] \in Nat /\ Holders(wHeld', running', v) \in Nat
        /\ IF v \in owners THEN wCount[v] = Holders(wHeld, running, v)
           ELSE wCount[v] = Holders(wHeld, running, v) + 2 \/ (wCount[v] = 0 /\ Holders(wHeld, running, v) = 0)
    BY <1>1 DEF WrapperInv, CountsOf
  <2>3. CASE v = w
    BY <1>1, <1>4, <2>2, <2>3
  <2>4. CASE v # w
    BY <1>1, <1>4, <2>2, <2>4
  <2>5. QED BY <2>3, <2>4
<1>6. CASE wCount[w] = 1
  <2>1. w \in owners /\ evOf[w] \in got /\ evOf[w] \in Events /\ evOf[w] \in AllEvents /\ evOf[w] # AppEvent
    BY <1>2, <1>6, FormsAssumption DEF WrapperInv, AllEvents
  <2>2. frees' = [frees EXCEPT ![evOf[w]] = @ + 1] /\ frees[evOf[w]] = 0
    BY <1>2, <1>3, <1>6, <2>1 DEF WrapperInv, EventsAreFreedOnce
  <2>3. /\ frees' \in [AllEvents -> Nat] /\ frees'[evOf[w]] = 1
        /\ \A e \in AllEvents : e # evOf[w] => frees'[e] = frees[e]
    BY <2>1, <2>2 DEF WrapperInv
  <2>4. \A v \in owners : wCount'[v] > 0 => v # w /\ wCount[v] > 0 /\ evOf[v] # evOf[w]
    <3>1. TAKE v \in owners
    <3>2. w \in owners /\ w \in Wrappers /\ v \in Wrappers /\ (v # w => wCount'[v] = wCount[v]) /\ wCount'[w] = wCount[w] - 1
      BY <1>4, <2>1 DEF WrapperInv
    <3>3. wCount[v] > 0 /\ wCount[w] > 0 /\ evOf[v] = evOf[w] => v = w
      BY <2>1 DEF WrapperInv
    <3>4. QED BY <1>6, <3>2, <3>3
  <2>5. AppEvent \in AllEvents /\ Events \subseteq AllEvents
    BY DEF AllEvents
  <2>6. EventsAreFreedOnce'
    <3>1. frees'[AppEvent] = 0
      BY <2>1, <2>3, <2>5 DEF WrapperInv, EventsAreFreedOnce
    <3>2. \A e \in Events : frees'[e] <= 1
      <4>1. \A e \in Events : e \in AllEvents /\ frees[e] <= 1
        BY <2>5 DEF WrapperInv, EventsAreFreedOnce
      <4>2. QED BY <2>3, <4>1
    <3>3. \A v \in owners : wCount'[v] > 0 => frees'[evOf[v]] = 0
      BY <2>3, <2>4 DEF WrapperInv, EventsAreFreedOnce
    <3>4. QED BY <3>1, <3>2, <3>3 DEF EventsAreFreedOnce
  <2>7. \A e \in AllEvents : e \notin got => frees'[e] = 0
    BY <2>1, <2>3 DEF WrapperInv
  <2>8. QED BY <1>4, <1>5, <2>3, <2>4, <2>6, <2>7 DEF WrapperInv
<1>7. CASE wCount[w] # 1
  <2>1. frees' = frees
    BY <1>3, <1>7
  <2>2. \A v \in owners : wCount'[v] > 0 => wCount[v] > 0
    BY <1>2, <1>4 DEF WrapperInv
  <2>3. EventsAreFreedOnce'
    BY <2>1, <2>2 DEF WrapperInv, EventsAreFreedOnce
  <2>4. QED BY <1>4, <1>5, <2>1, <2>2, <2>3 DEF WrapperInv
<1>8. QED BY <1>6, <1>7

LEMMA DropWrapperStep ==
  ASSUME HandlerInv, WrapperInv, NEW w \in Wrappers, DropWrapper(w) PROVE WrapperInv'
<1>1. /\ w \in wHeld /\ LoseWrapper(w) /\ wHeld' = wHeld \ {w} /\ UNCHANGED <<running, evOf, owners, got>>
  BY DEF DropWrapper
<1>2. running \in Seq(Frame) /\ wHeld' \subseteq Wrappers
  BY <1>1 DEF HandlerInv, ListInv, WrapperInv
<1>3. ASSUME NEW v \in Wrappers PROVE Holders(wHeld', running', v) + One(v = w) = Holders(wHeld, running, v)
  <2>1. One(v \in wHeld) = One(v \in wHeld') + One(v = w)
    BY <1>1 DEF One
  <2>2. Cardinality(CallsIn(running, v)) \in Nat /\ One(v \in wHeld') \in Nat /\ One(v = w) \in Nat
    BY <1>2, FinitePlaces DEF CallsIn, One
  <2>3. QED BY <1>1, <2>1, <2>2 DEF Holders
<1>4. QED BY <1>1, <1>2, <1>3, LosingWrapper

(* A wrapper that is used again owes nothing. *)
LEMMA Unheld ==
  ASSUME HandlerInv, WrapperInv, NEW w \in Wrappers, wCount[w] = 0
  PROVE  Holders(wHeld, running, w) = 0 /\ w \notin wHeld /\ Cardinality(CallsIn(running, w)) = 0
<1>1. running \in Seq(Frame)
  BY DEF HandlerInv, ListInv
<1>2. Holders(wHeld, running, w) \in Nat /\ (w \in wHeld => Holders(wHeld, running, w) > 0)
  BY <1>1, HoldersType
<1>3. Holders(wHeld, running, w) = 0
  BY <1>2 DEF WrapperInv, CountsOf
<1>4. Cardinality(CallsIn(running, w)) \in Nat
  BY <1>1, FinitePlaces DEF CallsIn
<1>5. QED BY <1>2, <1>3, <1>4 DEF Holders, One

LEMMA GeteventStep ==
  ASSUME HandlerInv, WrapperInv, NEW w \in Wrappers, NEW e \in Events, getevent(w, e) PROVE WrapperInv'
<1>1. wCount[w] = 0 /\ e \notin got /\ got' = got \cup {e} /\ UNCHANGED <<running, frees>>
  BY DEF getevent
<1>2. CASE UNCHANGED <<wCount, wHeld, evOf, owners>>
  <2>1. CountsOf(running, wHeld)'
    BY <1>1, <1>2 DEF WrapperInv, CountsOf
  <2>2. QED BY <1>1, <1>2, <2>1 DEF WrapperInv, EventsAreFreedOnce
<1>3. CASE /\ wCount' = [wCount EXCEPT ![w] = 1] /\ wHeld' = wHeld \cup {w}
           /\ evOf' = [evOf EXCEPT ![w] = e] /\ owners' = owners \cup {w}
  <2>1. Holders(wHeld, running, w) = 0 /\ w \notin wHeld /\ Cardinality(CallsIn(running, w)) = 0
    BY <1>1, Unheld
  <2>2. Holders(wHeld', running', w) = 1
    BY <1>1, <1>3, <2>1 DEF Holders, One
  <2>3. \A v \in Wrappers : v # w => Holders(wHeld', running', v) = Holders(wHeld, running, v)
    BY <1>1, <1>3 DEF Holders, One
  <2>4. /\ wCount' \in [Wrappers -> Nat] /\ wCount'[w] = 1 /\ \A v \in Wrappers : v # w => wCount'[v] = wCount[v]
        /\ evOf' \in [Wrappers -> AllEvents] /\ evOf'[w] = e /\ \A v \in Wrappers : v # w => evOf'[v] = evOf[v]
        /\ e \in AllEvents
    BY <1>3 DEF WrapperInv, AllEvents
  <2>5. CountsOf(running, wHeld)'
    <3>1. SUFFICES ASSUME NEW v \in Wrappers
                   PROVE  IF v \in owners' THEN wCount'[v] = Holders(wHeld', running', v)
                          ELSE wCount'[v] = Holders(wHeld', running', v) + 2
                               \/ (wCount'[v] = 0 /\ Holders(wHeld', running', v) = 0)
      BY DEF CountsOf
    <3>2. CASE v = w
      BY <1>3, <2>2, <2>4, <3>2
    <3>3. CASE v # w
      BY <1>3, <2>3, <2>4, <3>3 DEF WrapperInv, CountsOf
    <3>4. QED BY <3>2, <3>3
  <2>6. frees[e] = 0
    BY <1>1, <2>4 DEF WrapperInv
  <2>7. \A v \in owners' : wCount'[v] > 0 => evOf'[v] \in got' /\ frees'[evOf'[v]] = 0
    BY <1>1, <1>3, <2>4, <2>6 DEF WrapperInv, EventsAreFreedOnce
  <2>8. \A u, v \in owners' : wCount'[u] > 0 /\ wCount'[v] > 0 /\ evOf'[u] = evOf'[v] => u = v
    BY <1>1, <1>3, <2>4 DEF WrapperInv
  <2>9. EventsAreFreedOnce'
    BY <1>1, <2>7 DEF WrapperInv, EventsAreFreedOnce
  <2>10. wHeld' \subseteq Wrappers /\ owners' \subseteq Wrappers /\ got' \subseteq Events
    BY <1>1, <1>3 DEF WrapperInv
  <2>11. frees' \in [AllEvents -> Nat] /\ \A a \in AllEvents : a \notin got' => frees'[a] = 0
    BY <1>1 DEF WrapperInv
  <2>12. QED BY <2>4, <2>5, <2>7, <2>8, <2>9, <2>10, <2>11 DEF WrapperInv
<1>4. QED BY <1>2, <1>3 DEF getevent

(* The handler is called with a wrapper of its own. *)
LEMMA WrapStep ==
  ASSUME HandlerInv, WrapperInv, NEW e \in AllEvents, NEW of \in Wrappers \cup {NoWrapper}, ~broken,
         of \in wHeld \/ of = NoWrapper, _genericEventHandler(e, of)
  PROVE  WrapperInv'
<1>1. CASE ended
  BY <1>1, SameWrappers DEF _genericEventHandler, eventVars
<1>2. CASE ~ended
  <2> DEFINE h == HandlerOf(activeForm)  x == Calling(h, of)
  <2>1. PICK w \in Wrappers : wCount[w] = 0 /\ WrapForCall(w, e, of)
    BY <1>2 DEF _genericEventHandler
  <2>2. running' = Append(running, x) /\ IndexOf(activeForm) # {} /\ UNCHANGED <<got, frees>>
    BY <1>2 DEF _genericEventHandler
  <2>3. h \in Callbacks
    BY <2>2, TheHandlerOf DEF HandlerInv, ListInv
  <2>4. x \in Frame /\ x.kind = "call" /\ x.wrapper = of
    BY <2>3 DEF Calling, Frame
  <2> HIDE DEF x
  <2>5. running \in Seq(Frame)
    BY DEF HandlerInv, ListInv
  <2>6. Holders(wHeld, running, w) = 0 /\ w \notin wHeld /\ Cardinality(CallsIn(running, w)) = 0
    BY <2>1, Unheld
  <2>7. w # of
    BY <2>6, FormsAssumption
  <2>8. /\ wCount' = [u \in Wrappers |-> IF u = w THEN 3 ELSE wCount[u] + (IF u = of THEN 1 ELSE 0)]
        /\ evOf' = [evOf EXCEPT ![w] = e] /\ owners' = owners \ {w} /\ wHeld' = wHeld \cup {w}
    BY <2>1 DEF WrapForCall
  <2>9. /\ wCount' \in [Wrappers -> Nat] /\ wCount'[w] = 3
        /\ \A v \in Wrappers : v # w => wCount'[v] = wCount[v] + One(v = of)
        /\ evOf' \in [Wrappers -> AllEvents] /\ \A v \in Wrappers : v # w => evOf'[v] = evOf[v]
    BY <2>8 DEF WrapperInv, One
  <2>10. ASSUME NEW v \in Wrappers
         PROVE  Cardinality(CallsIn(running, v)) \in Nat
                /\ Cardinality(CallsIn(running', v)) = Cardinality(CallsIn(running, v)) + One(v = of)
    <3>1. Cardinality(CallsIn(running, v)) \in Nat
          /\ Cardinality(CallsIn(running', v)) = Cardinality(CallsIn(running, v)) + One(x.kind = "call" /\ x.wrapper = v)
      BY <2>2, <2>4, <2>5, Pushing
    <3>2. One(x.kind = "call" /\ x.wrapper = v) = One(v = of)
      BY <2>4 DEF One
    <3>3. QED BY <3>1, <3>2
  <2>11. Holders(wHeld', running', w) = 1
    BY <2>6, <2>7, <2>8, <2>10 DEF Holders, One
  <2>12. ASSUME NEW v \in Wrappers, v # w
         PROVE  Holders(wHeld', running', v) = Holders(wHeld, running, v) + One(v = of)
    <3>1. One(v \in wHeld') = One(v \in wHeld) /\ One(v \in wHeld) \in Nat /\ One(v = of) \in Nat
      BY <2>8, <2>12 DEF One
    <3>2. QED BY <2>10, <3>1 DEF Holders
  <2>13. \A v \in Wrappers : wCount[v] = 0 => v # of
    BY Unheld, FormsAssumption
  <2>14. CountsOf(running, wHeld)'
    <3>1. SUFFICES ASSUME NEW v \in Wrappers
                   PROVE  IF v \in owners' THEN wCount'[v] = Holders(wHeld', running', v)
                          ELSE wCount'[v] = Holders(wHeld', running', v) + 2
                               \/ (wCount'[v] = 0 /\ Holders(wHeld', running', v) = 0)
      BY DEF CountsOf
    <3>2. CASE v = w
      BY <2>8, <2>9, <2>11, <3>2
    <3>3. CASE v # w
      <4>1. /\ wCount'[v] = wCount[v] + One(v = of) /\ (v \in owners' <=> v \in owners)
            /\ Holders(wHeld', running', v) = Holders(wHeld, running, v) + One(v = of)
            /\ wCount[v] = 0 => One(v = of) = 0
            /\ wCount[v] \in Nat /\ One(v = of) \in Nat /\ Holders(wHeld, running, v) \in Nat
        BY <2>5, <2>8, <2>9, <2>12, <2>13, <3>3, HoldersType DEF WrapperInv, One
      <4>2. IF v \in owners THEN wCount[v] = Holders(wHeld, running, v)
            ELSE wCount[v] = Holders(wHeld, running, v) + 2 \/ (wCount[v] = 0 /\ Holders(wHeld, running, v) = 0)
        BY DEF WrapperInv, CountsOf
      <4>3. QED BY <4>1, <4>2
    <3>4. QED BY <3>2, <3>3
  <2>15. \A v \in owners' : v \in owners /\ v # w /\ (wCount'[v] > 0 => wCount[v] > 0)
    <3>1. TAKE v \in owners'
    <3>2. v \in owners /\ v # w /\ v \in Wrappers
      BY <2>8 DEF WrapperInv
    <3>3. wCount'[v] = wCount[v] + One(v = of) /\ wCount[v] \in Nat /\ (wCount[v] = 0 => One(v = of) = 0)
      BY <2>9, <2>13, <3>2 DEF WrapperInv, One
    <3>4. QED BY <3>2, <3>3
  <2>16. EventsAreFreedOnce'
    BY <2>2, <2>9, <2>15 DEF WrapperInv, EventsAreFreedOnce
  <2>17. /\ \A v \in owners' : wCount'[v] > 0 => evOf'[v] \in got'
         /\ \A u, v \in owners' : wCount'[u] > 0 /\ wCount'[v] > 0 /\ evOf'[u] = evOf'[v] => u = v
    BY <2>2, <2>9, <2>15 DEF WrapperInv
  <2>18. QED BY <2>2, <2>8, <2>9, <2>14, <2>16, <2>17 DEF WrapperInv
<1>3. QED BY <1>1, <1>2

LEMMA ReturnOfCallStep ==
  ASSUME HandlerInv, WrapperInv, CallbackReturns, running' \in Seq(Frame) PROVE WrapperInv'
<1> DEFINE r == Front(running)  x == Top
<1>1. /\ running # <<>> /\ x.kind = "call" /\ Lose(cbCount, x.callback, r)
      /\ IF x.wrapper = NoWrapper THEN UNCHANGED <<wCount, frees>> ELSE LoseWrapper(x.wrapper)
      /\ UNCHANGED <<evOf, wHeld, owners, got>>
  BY DEF CallbackReturns, TopIs
<1>2. r \in Seq(Frame) /\ x \in Frame /\ x.callback \in Callbacks /\ running = Append(r, x)
  BY <1>1, Returning
<1> HIDE DEF r, x
<1>3. x.wrapper \in Wrappers \cup {NoWrapper}
  BY <1>1, <1>2 DEF Frame
<1>4. ASSUME NEW v \in Wrappers
      PROVE  /\ Cardinality(CallsIn(running', v)) \in Nat
             /\ Cardinality(CallsIn(running, v)) = Cardinality(CallsIn(running', v)) + One(v = x.wrapper)
  <2>1. Cardinality(CallsIn(running', v)) = Cardinality(CallsIn(r, v))
    BY <1>1, <1>2, LosingCalls
  <2>2. Cardinality(CallsIn(r, v)) \in Nat
        /\ Cardinality(CallsIn(Append(r, x), v)) = Cardinality(CallsIn(r, v)) + One(x.kind = "call" /\ x.wrapper = v)
    BY <1>2, Pushing
  <2>3. One(x.kind = "call" /\ x.wrapper = v) = One(v = x.wrapper)
    BY <1>1 DEF One
  <2>4. QED BY <1>2, <2>1, <2>2, <2>3
<1>5. CASE x.wrapper = NoWrapper
  <2>1. UNCHANGED eventVars
    BY <1>1, <1>5 DEF eventVars
  <2>2. ASSUME NEW v \in Wrappers PROVE Cardinality(CallsIn(running', v)) = Cardinality(CallsIn(running, v))
    <3>1. One(v = x.wrapper) = 0
      BY <1>5, FormsAssumption DEF One
    <3>2. QED BY <1>4, <3>1
  <2>3. QED BY <2>1, <2>2, SameWrappers
<1>6. CASE x.wrapper # NoWrapper
  <2>1. x.wrapper \in Wrappers /\ LoseWrapper(x.wrapper)
    BY <1>1, <1>3, <1>6
  <2>2. ASSUME NEW v \in Wrappers
        PROVE  Holders(wHeld', running', v) + One(v = x.wrapper) = Holders(wHeld, running, v)
    <3>1. One(v = x.wrapper) \in Nat /\ One(v \in wHeld) \in Nat
      BY DEF One
    <3>2. QED BY <1>1, <1>4, <3>1 DEF Holders
  <2>3. running \in Seq(Frame) /\ wHeld' \subseteq Wrappers
    BY <1>1 DEF HandlerInv, ListInv, WrapperInv
  <2>4. QED BY <1>1, <2>1, <2>2, <2>3, LosingWrapper
<1>7. QED BY <1>5, <1>6

(* The calls that a step of the list enters or leaves hold no wrapper. *)
LEMMA SameCalls ==
  ASSUME HandlerInv, NEW w \in Wrappers,
         \/ DestructorReturns \/ FinishReplace
         \/ \E c \in Callbacks : DropCallback(c)
         \/ \E f \in Forms, c \in Callbacks : StartReplace(f, c)
  PROVE  Cardinality(CallsIn(running', w)) = Cardinality(CallsIn(running, w))
<1>0. running \in Seq(Frame)
  BY DEF HandlerInv, ListInv
<1>1. CASE DestructorReturns \/ FinishReplace
  <2> DEFINE r == Front(running)  x == Top
  <2>1. running # <<>> /\ x.kind # "call" /\ running' = r
    BY <1>1 DEF DestructorReturns, FinishReplace, TopIs
  <2>2. r \in Seq(Frame) /\ x \in Frame /\ running = Append(r, x)
    BY <2>1, Returning
  <2> HIDE DEF r, x
  <2>3. Cardinality(CallsIn(r, w)) \in Nat
        /\ Cardinality(CallsIn(Append(r, x), w)) = Cardinality(CallsIn(r, w)) + One(x.kind = "call" /\ x.wrapper = w)
    BY <2>2, Pushing
  <2>4. One(x.kind = "call" /\ x.wrapper = w) = 0
    BY <2>1 DEF One
  <2>5. QED BY <2>1, <2>2, <2>3, <2>4
<1>2. ASSUME NEW c \in Callbacks, DropCallback(c)
      PROVE  Cardinality(CallsIn(running', w)) = Cardinality(CallsIn(running, w))
  BY <1>0, <1>2, LosingCalls DEF DropCallback
<1>3. ASSUME NEW f \in Forms, NEW c \in Callbacks, StartReplace(f, c)
      PROVE  Cardinality(CallsIn(running', w)) = Cardinality(CallsIn(running, w))
  <2>1. CASE BeingReplaced(f)
    BY <1>3, <2>1 DEF StartReplace
  <2>2. CASE ~BeingReplaced(f)
    <3> DEFINE x == Replacing(f, c)  calls == Append(running, x)  counts == [cbCount EXCEPT ![c] = @ + 1]
               h == HandlerOf(f)
    <3>1. Lose(counts, h, calls) /\ IndexOf(f) # {}
      BY <1>3, <2>2 DEF StartReplace
    <3>2. x \in Frame /\ x.kind # "call"
      BY DEF Replacing, Frame
    <3>3. h \in Callbacks
      BY <3>1, TheHandlerOf
    <3> HIDE DEF x, h, counts
    <3>4. /\ calls \in Seq(Frame) /\ Cardinality(CallsIn(running, w)) \in Nat
          /\ Cardinality(CallsIn(calls, w)) = Cardinality(CallsIn(running, w)) + One(x.kind = "call" /\ x.wrapper = w)
      BY <1>0, <3>2, Pushing
    <3>5. One(x.kind = "call" /\ x.wrapper = w) = 0
      BY <3>2 DEF One
    <3>6. Cardinality(CallsIn(running', w)) = Cardinality(CallsIn(calls, w))
      BY <3>1, <3>3, <3>4, LosingCalls
    <3>7. QED BY <3>4, <3>5, <3>6
  <2>3. QED BY <2>1, <2>2
<1>4. QED BY <1>1, <1>2, <1>3

FormInv == HandlerInv /\ WrapperInv

LEMMA FormStep ==
  ASSUME FormInv, [FormNext]_formVars PROVE FormInv'
<1>0. HandlerInv /\ WrapperInv /\ HandlerInv' /\ running' \in Seq(Frame)
  <2>1. HandlerInv'
    BY HandlerStep DEF FormInv
  <2>2. QED BY <2>1 DEF FormInv, HandlerInv, ListInv
<1> SUFFICES WrapperInv'
  BY <1>0 DEF FormInv
<1>1. ASSUME UNCHANGED <<running, eventVars>> PROVE WrapperInv'
  BY <1>0, <1>1, SameWrappers
<1>2. CASE UNCHANGED formVars
  BY <1>1, <1>2 DEF formVars
<1>3. CASE KeepSelf \/ _cleanup
  BY <1>1, <1>3 DEF KeepSelf, _cleanup
<1>4. CASE DestructorReturns \/ FinishReplace
  BY <1>0, <1>4, SameCalls, SameWrappers DEF DestructorReturns, FinishReplace
<1>5. CASE AppDispatch
  BY <1>0, <1>5, WrapStep DEF AppDispatch, AllEvents
<1>6. CASE CallbackReturns
  BY <1>0, <1>6, ReturnOfCallStep
<1>7. ASSUME NEW c \in Callbacks, NewCallback(c) \/ DropCallback(c) PROVE WrapperInv'
  <2>1. CASE NewCallback(c)
    BY <1>1, <2>1 DEF NewCallback
  <2>2. CASE DropCallback(c)
    BY <1>0, <2>2, SameCalls, SameWrappers DEF DropCallback
  <2>3. QED BY <1>7, <2>1, <2>2
<1>8. ASSUME NEW f \in Forms, NEW c \in Callbacks, InsertHandler(f, c) \/ StartReplace(f, c) PROVE WrapperInv'
  <2>1. CASE InsertHandler(f, c)
    BY <1>1, <2>1 DEF InsertHandler
  <2>2. CASE StartReplace(f, c)
    BY <1>0, <2>2, SameCalls, SameWrappers DEF StartReplace
  <2>3. QED BY <1>8, <2>1, <2>2
<1>9. ASSUME NEW f \in Forms, SetActive(f) PROVE WrapperInv'
  BY <1>1, <1>9 DEF SetActive
<1>10. ASSUME NEW w \in Wrappers, dispatchEvent(w) PROVE WrapperInv'
  <2>1. CASE UseFreedEvent
    BY <1>0, <2>1, SameWrappers DEF UseFreedEvent
  <2>2. CASE _genericEventHandler(evOf[w], w)
    <3>1. ~broken /\ w \in wHeld /\ evOf[w] \in AllEvents
      BY <1>0, <1>10 DEF dispatchEvent, Runs, WrapperInv
    <3>2. QED BY <1>0, <2>2, <3>1, WrapStep
  <2>3. QED BY <1>10, <2>1, <2>2 DEF dispatchEvent
<1>11. ASSUME NEW w \in Wrappers, DropWrapper(w) PROVE WrapperInv'
  BY <1>0, <1>11, DropWrapperStep
<1>12. ASSUME NEW w \in Wrappers, NEW e \in Events, getevent(w, e) PROVE WrapperInv'
  BY <1>0, <1>12, GeteventStep
<1>13. QED
  BY <1>2, <1>3, <1>4, <1>5, <1>6, <1>7, <1>8, <1>9, <1>10, <1>11, <1>12 DEF FormNext

LEMMA FormStart == FormInit => FormInv
<1> SUFFICES ASSUME FormInit PROVE FormInv
  OBVIOUS
<1>1. handlers = <<>> /\ running = <<>> /\ cbHeld = {} /\ wHeld = {} /\ owners = {} /\ got = {}
  BY DEF FormInit
<1>2. running \in Seq(Frame) /\ handlers \in Seq(Handler) /\ DOMAIN running = {} /\ DOMAIN handlers = {}
  BY <1>1, EmptySeq
<1>3. ASSUME NEW c \in Callbacks PROVE Refs(cbHeld, running, handlers, c) = 0
  <2>1. FramesIn(running, c) = {} /\ EnteredIn(running, handlers, c) = {}
    BY <1>2 DEF FramesIn, EnteredIn
  <2>2. Cardinality({}) = 0
    BY FS_EmptySet
  <2>3. One(c \in cbHeld) = 0
    BY <1>1 DEF One
  <2>4. Cardinality(FramesIn(running, c)) = 0 /\ Cardinality(EnteredIn(running, handlers, c)) = 0
    BY <2>1, <2>2, Zenon
  <2>5. QED BY <2>3, <2>4 DEF Refs
<1>4. ASSUME NEW w \in Wrappers PROVE Holders(wHeld, running, w) = 0
  <2>1. CallsIn(running, w) = {}
    BY <1>2 DEF CallsIn
  <2>2. Cardinality({}) = 0
    BY FS_EmptySet
  <2>3. One(w \in wHeld) = 0
    BY <1>1 DEF One
  <2>4. Cardinality(CallsIn(running, w)) = 0
    BY <2>1, <2>2, Zenon
  <2>5. QED BY <2>3, <2>4 DEF Holders
<1>5. ListInv
  BY <1>1, <1>2 DEF ListInv, OnceIn, ReplacedIn, FormInit
<1>6. CountInv
  BY <1>3 DEF CountInv, FormInit
<1>7. CountsOf(running, wHeld)
  BY <1>1, <1>4 DEF CountsOf, FormInit
<1>8. EventsAreFreedOnce
  BY DEF EventsAreFreedOnce, FormInit, AllEvents
<1>9. WrapperInv
  BY <1>1, <1>7, <1>8 DEF WrapperInv, FormInit, AllEvents
<1>10. QED BY <1>5, <1>6, <1>9 DEF FormInv, HandlerInv

LEMMA FormInvHolds == FormSpec => []FormInv
BY FormStart, FormStep, PTL DEF FormSpec

(* A form has one handler and every handler in the list is counted,        *)
(* however _addHandler, the calls of _genericEventHandler and the          *)
(* destructors interleave, for any number of forms and callbacks.          *)
THEOREM HandlersAreNeverStale == FormSpec => []HandlersAreThere
<1>1. FormInv => HandlersAreThere
  <2>1. ASSUME FormInv PROVE HandlersAreThere
    <3>1. running \in Seq(Frame)
      BY <2>1 DEF FormInv, HandlerInv, ListInv
    <3>2. \A c \in Callbacks : ReferencesTo(c) = Refs(cbHeld, running, handlers, c)
      BY <3>1, ReferencesToAre
    <3>3. FormTypeOK
      BY <2>1 DEF FormTypeOK, FormInv, HandlerInv, ListInv, CountInv, WrapperInv
    <3>4. QED BY <2>1, <3>2, <3>3 DEF HandlersAreThere, FormInv, HandlerInv, ListInv, CountInv
  <2>2. QED BY <2>1
<1>2. QED BY <1>1, FormInvHolds, PTL

(* eventobj_dealloc frees the memory of getevent once, after the last      *)
(* reference to its owner, and never the event of the application.         *)
THEOREM NoEventIsFreedTwice == FormSpec => []EventsAreFreedOnce
<1>1. FormInv => EventsAreFreedOnce
  BY DEF FormInv, WrapperInv
<1>2. QED BY <1>1, FormInvHolds, PTL

-----------------------------------------------------------------------------
(* Immortals *)

Held(cs, o) == {x \in All : o \in Holds(cs[x])}
Marshals(ld, o) ==
  IF ld = NoLoad THEN 0
  ELSE Cardinality({ld.tuple, ld.name} \cap {o}) + (IF o = ld.code /\ ld.step # "end" THEN 1 ELSE 0)
Refers(rf, cs, ld, o) == rf[o] + Cardinality(Held(cs, o)) + Marshals(ld, o)
Loads == [step : {"tuple", "code", "end"}, tuple : Objects, code : Objects, name : All, result : Records \cup {NULL}]

HeapTypeOK ==
  /\ session \in {"off", "creating", "opening", "running", "closing", "deleting"}
  /\ ob_refcnt \in [All -> 0 .. PALMDM_REFCNT] /\ refs \in [All -> 0 .. MaxRefs] /\ surplus \in [All -> Nat]
  /\ contents \in [All -> Things \cup {NULL}] /\ load \in Loads \cup {NoLoad}

(* An object is there until it is deallocated, and what it refers to with  *)
(* it.                                                                     *)
ObjectsAreThere ==
  /\ dying \subseteq Objects /\ \A o \in dying : ob_refcnt[o] = 0
  /\ \A o \in All : contents[o] # NULL <=> Alive(o) \/ o \in dying
  /\ \A o \in Objects : Counts(o) => ob_refcnt[o] = Refers(refs, contents, load, o) + surplus[o]
  /\ \A o \in All : Refers(refs, contents, load, o) > 0 => Alive(o)
  /\ \A r \in Records : Alive(r) => r \in records /\ ob_refcnt[r] = PALMDM_REFCNT

(* What marshal reads is a code object and its tuple, and the copy that it *)
(* has made at the end.                                                    *)
LoadIsOfCode ==
  load # NoLoad =>
    /\ load.tuple # load.name /\ (load.step # "end" => load.result = NULL)
    /\ load.step = "tuple" => /\ contents[load.tuple].kind = "tuple"
                              /\ contents[load.code] = Code(load.tuple, load.name)
    /\ load.step = "code" => \E t \in Records \cup {NULL} : contents[load.code] = Code(t, load.name)
    /\ load.step = "end" /\ load.result # NULL => Alive(load.result)

(* A text is interned once. *)
InternedAreOne ==
  /\ interned \subseteq Records /\ \A r \in interned : Alive(r)
  /\ \A r, t \in interned : contents[r] = contents[t] => r = t

(* No object is there unless Python runs. *)
NothingOutsideASession ==
  session # "running" => load = NoLoad /\ dying = {} /\ \A o \in All : ob_refcnt[o] = 0

ImmInv == HeapTypeOK /\ ObjectsAreThere /\ LoadIsOfCode /\ InternedAreOne /\ NothingOutsideASession

LEMMA AllIsFinite == IsFiniteSet(All)
BY ImmortalsAssumption, FS_Union DEF All

LEMMA WhatHolds ==
  /\ Holds(NULL) = {}
  /\ \A x \in Texts : String(x) \in Things /\ Holds(String(x)) = {}
  /\ \A i \in All : Tuple(i) \in Things /\ Holds(Tuple(i)) = {i} /\ Tuple(i).kind = "tuple"
  /\ \A t \in All \cup {NULL}, n \in All : Code(t, n) \in Things /\ Holds(Code(t, n)) = {t, n} \ {NULL}
  /\ NULL \notin Things /\ NULL \notin All
<1>1. NULL \notin Things /\ NULL \notin All
  BY ImmortalsAssumption
<1>2. Holds(NULL) = {}
  BY DEF Holds
<1>3. \A x \in Texts : String(x) \in Things /\ Holds(String(x)) = {}
  <2>1. TAKE x \in Texts
  <2>2. String(x) \in Things /\ String(x).kind = "string"
    BY DEF String, Things
  <2>3. QED BY <1>1, <2>2 DEF Holds
<1>4. \A i \in All : Tuple(i) \in Things /\ Holds(Tuple(i)) = {i} /\ Tuple(i).kind = "tuple"
  <2>1. TAKE i \in All
  <2>2. Tuple(i) \in Things /\ Tuple(i).kind = "tuple" /\ Tuple(i).item = i
    BY DEF Tuple, Things
  <2>3. QED BY <1>1, <2>2 DEF Holds
<1>5. \A t \in All \cup {NULL}, n \in All : Code(t, n) \in Things /\ Holds(Code(t, n)) = {t, n} \ {NULL}
  <2>1. TAKE t \in All \cup {NULL}, n \in All
  <2>2. Code(t, n) \in Things /\ Code(t, n).kind = "code" /\ Code(t, n).consts = t /\ Code(t, n).name = n
    BY DEF Code, Things
  <2>3. QED BY <1>1, <2>2 DEF Holds
<1>6. QED BY <1>1, <1>2, <1>3, <1>4, <1>5

LEMMA ThingsAre ==
  ASSUME NEW c \in Things
  PROVE  /\ Holds(c) \subseteq All
         /\ c.kind = "string" => Holds(c) = {}
         /\ c.kind = "tuple" => \E i \in All : c = Tuple(i)
<1>1. CASE c \in [kind : {"string"}, text : Texts]
  <2>1. c = String(c.text) /\ c.text \in Texts /\ c.kind = "string"
    BY <1>1 DEF String
  <2>2. QED BY <2>1, WhatHolds
<1>2. CASE c \in [kind : {"tuple"}, item : All]
  <2>1. c = Tuple(c.item) /\ c.item \in All /\ c.kind = "tuple"
    BY <1>2 DEF Tuple
  <2>2. Holds(c) = {c.item}
    BY <2>1, WhatHolds
  <2>3. QED BY <2>1, <2>2
<1>3. CASE c \in [kind : {"code"}, consts : All \cup {NULL}, name : All]
  <2>1. c = Code(c.consts, c.name) /\ c.consts \in All \cup {NULL} /\ c.name \in All /\ c.kind = "code"
    BY <1>3 DEF Code
  <2>2. Holds(c) = {c.consts, c.name} \ {NULL}
    BY <2>1, WhatHolds
  <2>3. QED BY <2>1, <2>2
<1>4. QED BY <1>1, <1>2, <1>3 DEF Things

LEMMA CountOf ==
  ASSUME NEW S, NEW o
  PROVE  Cardinality(S \cap {o}) = One(o \in S) /\ One(o \in S) \in Nat
<1>1. CASE o \in S
  <2>1. S \cap {o} = {o}
    BY <1>1
  <2>2. Cardinality({o}) = 1
    BY FS_Singleton
  <2>3. QED BY <1>1, <2>1, <2>2 DEF One
<1>2. CASE o \notin S
  <2>1. S \cap {o} = {}
    BY <1>2
  <2>2. Cardinality({}) = 0
    BY FS_EmptySet
  <2>3. QED BY <1>2, <2>1, <2>2 DEF One
<1>3. QED BY <1>1, <1>2

LEMMA MarshalsAre ==
  ASSUME NEW ld \in Loads \cup {NoLoad}, NEW o
  PROVE  /\ Marshals(ld, o) \in Nat
         /\ ld = NoLoad => Marshals(ld, o) = 0
         /\ ld \in Loads => ld # NoLoad /\ Marshals(ld, o) = One(o \in {ld.tuple, ld.name}) + One(o = ld.code /\ ld.step # "end")
<1>1. CASE ld = NoLoad
  <2>1. ld \notin Loads
    BY <1>1 DEF Loads, NoLoad
  <2>2. QED BY <1>1, <2>1 DEF Marshals
<1>2. CASE ld \in Loads
  <2>1. ld # NoLoad
    BY <1>2 DEF Loads, NoLoad
  <2>2. Cardinality({ld.tuple, ld.name} \cap {o}) = One(o \in {ld.tuple, ld.name}) /\ One(o \in {ld.tuple, ld.name}) \in Nat
    BY CountOf
  <2>3. QED BY <2>1, <2>2 DEF Marshals, One
<1>3. QED BY <1>1, <1>2

LEMMA RefersType ==
  ASSUME NEW rf, NEW cs, NEW ld \in Loads \cup {NoLoad}, NEW o, rf[o] \in Nat
  PROVE  /\ Refers(rf, cs, ld, o) \in Nat /\ IsFiniteSet(Held(cs, o)) /\ Cardinality(Held(cs, o)) \in Nat
         /\ rf[o] > 0 => Refers(rf, cs, ld, o) > 0
         /\ Held(cs, o) # {} => Refers(rf, cs, ld, o) > 0
         /\ Marshals(ld, o) > 0 => Refers(rf, cs, ld, o) > 0
         /\ Refers(rf, cs, ld, o) = 0 => rf[o] = 0 /\ Cardinality(Held(cs, o)) = 0 /\ Marshals(ld, o) = 0
<1>1. IsFiniteSet(Held(cs, o))
  BY AllIsFinite, FS_Subset DEF Held
<1>2. Cardinality(Held(cs, o)) \in Nat /\ (Held(cs, o) # {} => Cardinality(Held(cs, o)) > 0)
  BY <1>1, FS_EmptySet, FS_CardinalityType
<1>3. Marshals(ld, o) \in Nat
  BY MarshalsAre
<1>4. QED BY <1>1, <1>2, <1>3 DEF Refers

SetAt(new, cs, x) == \A y \in All \ {x} : new[y] = cs[y]

(* One object consists of something else. *)
LEMMA Setting ==
  ASSUME NEW cs, NEW new, NEW x \in All, SetAt(new, cs, x), NEW o
  PROVE  /\ Cardinality(Held(new, o)) \in Nat /\ Cardinality(Held(cs, o)) \in Nat
         /\ Cardinality(Held(new, o)) + One(o \in Holds(cs[x])) = Cardinality(Held(cs, o)) + One(o \in Holds(new[x]))
<1>1. Held(cs, o) \ {x} = Held(new, o) \ {x}
  BY DEF Held, SetAt
<1>2. IsFiniteSet(Held(cs, o))
  BY AllIsFinite, FS_Subset DEF Held
<1>3. /\ Cardinality(Held(cs, o)) \in Nat /\ Cardinality(Held(new, o)) \in Nat
      /\ Cardinality(Held(new, o)) + One(x \in Held(cs, o)) = Cardinality(Held(cs, o)) + One(x \in Held(new, o))
  BY <1>1, <1>2, OneMember
<1>4. (x \in Held(cs, o) <=> o \in Holds(cs[x])) /\ (x \in Held(new, o) <=> o \in Holds(new[x]))
  BY DEF Held
<1>5. QED BY <1>3, <1>4 DEF One

(* The equation of the counts: what up has gained and down has lost. *)
Balanced(up, down, new) ==
  \A o \in Objects \ new :
    Refers(refs', contents', load', o) + surplus'[o] + One(o \in down) = Refers(refs, contents, load, o) + surplus[o] + One(o \in up)

(* What a step of counting keeps. *)
LEMMA CountStep ==
  ASSUME HeapTypeOK, ObjectsAreThere, NEW new, NEW up, NEW down, Count(new, up, down),
         DOMAIN new \subseteq All,
         \A o \in DOMAIN new : Unused(o) /\ o \notin up \cup down /\ new[o] \in 1 .. PALMDM_REFCNT,
         \A o \in up \cup down : o \in All /\ Alive(o),
         Balanced(up, down, DOMAIN new),
         \A o \in Objects \cap DOMAIN new : new[o] = Refers(refs', contents', load', o) + surplus'[o],
         \A r \in Records \cap DOMAIN new : new[r] = PALMDM_REFCNT /\ r \in records',
         records \subseteq records',
         \A r \in Records : Refers(refs', contents', load', r) > 0 => Alive(r) \/ r \in DOMAIN new,
         \A o \in All : contents'[o] # NULL <=> contents[o] # NULL \/ o \in DOMAIN new,
         refs' \in [All -> Nat], load' \in Loads \cup {NoLoad}, surplus' \in [All -> Nat]
  PROVE  ob_refcnt' \in [All -> 0 .. PALMDM_REFCNT] /\ ObjectsAreThere'
<1>1. ASSUME NEW o \in All
      PROVE  /\ ob_refcnt[o] \in 0 .. PALMDM_REFCNT /\ PALMDM_REFCNT \in Nat /\ PALMDM_REFCNT > 1
             /\ One(o \in up) \in Nat /\ One(o \in down) \in Nat
             /\ o \in up => One(o \in up) = 1
             /\ o \notin up => One(o \in up) = 0
             /\ o \in down => One(o \in down) = 1
             /\ o \notin down => One(o \in down) = 0
  BY ImmortalsAssumption DEF HeapTypeOK, One
<1>2. ASSUME NEW o \in All
      PROVE  ob_refcnt'[o] = IF o \in DOMAIN new THEN new[o] ELSE IF ~Counts(o) THEN ob_refcnt[o]
                             ELSE ob_refcnt[o] + One(o \in up) - One(o \in down)
  BY CountOf DEF Count
<1>3. dying' = dying \cup {o \in down : ob_refcnt'[o] = 0} /\ DOMAIN ob_refcnt' = All
      /\ ob_refcnt' = [o \in All |-> ob_refcnt'[o]]
  BY DEF Count
<1>4. ASSUME NEW o \in All, o \in DOMAIN new
      PROVE  ob_refcnt'[o] = new[o] /\ ob_refcnt'[o] \in 1 .. PALMDM_REFCNT /\ ob_refcnt[o] = 0 /\ o \notin dying /\ o \notin down
  BY <1>2, <1>4 DEF Unused
<1>5. ASSUME NEW o \in All, o \notin DOMAIN new, ~Counts(o)
      PROVE  ob_refcnt'[o] = PALMDM_REFCNT /\ ob_refcnt[o] = PALMDM_REFCNT
  BY <1>2, <1>5 DEF Counts
<1>6. ASSUME NEW o \in All, o \notin DOMAIN new, Counts(o)
      PROVE  /\ ob_refcnt'[o] = ob_refcnt[o] + One(o \in up) - One(o \in down)
             /\ ob_refcnt'[o] \in 0 .. PALMDM_REFCNT
             /\ o \in up \cup down => ob_refcnt[o] > 0
  BY <1>1, <1>2, <1>6 DEF Counts, Alive
<1>7. ASSUME NEW o \in All PROVE ob_refcnt'[o] \in 0 .. PALMDM_REFCNT
  <2>1. CASE o \in DOMAIN new
    BY <1>1, <1>4, <2>1
  <2>2. CASE o \notin DOMAIN new /\ ~Counts(o)
    BY <1>1, <1>5, <2>2
  <2>3. CASE o \notin DOMAIN new /\ Counts(o)
    BY <1>6, <2>3
  <2>4. QED BY <2>1, <2>2, <2>3
<1>8. ob_refcnt' \in [All -> 0 .. PALMDM_REFCNT]
  BY <1>3, <1>7
<1>9. ASSUME NEW r \in Records, Alive(r) PROVE r \in records' /\ ob_refcnt'[r] = PALMDM_REFCNT
  BY <1>4, <1>5, <1>9 DEF ObjectsAreThere, Alive, Counts, All
<1>10. ASSUME NEW o \in dying' PROVE o \in Objects /\ ob_refcnt'[o] = 0
  <2>1. CASE o \in dying
    <3>1. o \in Objects /\ o \in All /\ ob_refcnt[o] = 0 /\ o \notin DOMAIN new
      BY <1>4, <2>1 DEF ObjectsAreThere, All
    <3>2. Counts(o) /\ o \notin up \cup down
      BY <1>1, <3>1 DEF Counts, Alive
    <3>3. QED BY <1>1, <1>6, <3>1, <3>2
  <2>2. CASE o \notin dying
    <3>1. o \in down /\ ob_refcnt'[o] = 0 /\ o \in All /\ Alive(o)
      BY <1>3, <1>10, <2>2
    <3>2. o \notin Records
      BY <1>1, <1>9, <3>1
    <3>3. QED BY <3>1, <3>2 DEF All
  <2>3. QED BY <2>1, <2>2
<1>11. ASSUME NEW o \in All PROVE contents'[o] # NULL <=> ob_refcnt'[o] > 0 \/ o \in dying'
  <2>1. CASE o \in DOMAIN new
    BY <1>4, <2>1
  <2>2. CASE o \notin DOMAIN new /\ ~Counts(o)
    BY <1>1, <1>5, <2>2 DEF ObjectsAreThere, Alive
  <2>3. CASE o \notin DOMAIN new /\ Counts(o)
    <3>1. contents'[o] # NULL <=> ob_refcnt[o] > 0 \/ o \in dying
      BY <2>3 DEF ObjectsAreThere, Alive
    <3>2. CASE o \in up \cup down
      <4>1. ob_refcnt[o] > 0
        BY <1>6, <2>3, <3>2
      <4>2. ob_refcnt'[o] > 0 \/ (ob_refcnt'[o] = 0 /\ o \in down)
        BY <1>1, <1>6, <2>3, <4>1
      <4>3. QED BY <1>3, <3>1, <4>1, <4>2
    <3>3. CASE o \notin up \cup down
      <4>1. ob_refcnt'[o] = ob_refcnt[o] /\ (o \in dying' <=> o \in dying)
        BY <1>1, <1>3, <1>6, <2>3, <3>3
      <4>2. QED BY <3>1, <4>1
    <3>4. QED BY <3>2, <3>3
  <2>4. QED BY <2>1, <2>2, <2>3
<1>12. ASSUME NEW o \in All PROVE Refers(refs', contents', load', o) \in Nat /\ surplus'[o] \in Nat /\ surplus[o] \in Nat
  BY RefersType DEF HeapTypeOK
<1>13. ASSUME NEW o \in Objects, ob_refcnt'[o] # PALMDM_REFCNT
       PROVE  ob_refcnt'[o] = Refers(refs', contents', load', o) + surplus'[o]
  <2>0. o \in All
    BY DEF All
  <2>1. CASE o \in DOMAIN new
    BY <1>4, <2>0, <2>1
  <2>2. CASE o \notin DOMAIN new
    <3>1. Counts(o)
      BY <1>5, <1>13, <2>0, <2>2
    <3>2. ob_refcnt[o] = Refers(refs, contents, load, o) + surplus[o]
      BY <3>1 DEF ObjectsAreThere
    <3>3. Refers(refs', contents', load', o) + surplus'[o] + One(o \in down)
            = Refers(refs, contents, load, o) + surplus[o] + One(o \in up)
      BY <2>2 DEF Balanced
    <3>4. ob_refcnt'[o] = ob_refcnt[o] + One(o \in up) - One(o \in down)
      BY <1>6, <2>0, <2>2, <3>1
    <3>5. QED BY <1>1, <1>12, <2>0, <3>2, <3>3, <3>4
  <2>3. QED BY <2>1, <2>2
<1>14. ASSUME NEW o \in All, Refers(refs', contents', load', o) > 0 PROVE ob_refcnt'[o] > 0
  <2>1. CASE o \in Objects
    BY <1>1, <1>12, <1>13, <1>14, <2>1
  <2>2. CASE o \in Records
    BY <1>1, <1>4, <1>9, <1>14, <2>2
  <2>3. QED BY <2>1, <2>2 DEF All
<1>15. ASSUME NEW r \in Records, ob_refcnt'[r] > 0 PROVE r \in records' /\ ob_refcnt'[r] = PALMDM_REFCNT
  <2>0. r \in All /\ r \notin Objects
    BY ImmortalsAssumption DEF All
  <2>1. CASE r \in DOMAIN new
    BY <1>4, <2>0, <2>1
  <2>2. CASE r \notin DOMAIN new
    <3>1. ob_refcnt[r] > 0
      BY <1>1, <1>5, <1>6, <1>15, <2>0, <2>2
    <3>2. QED BY <1>9, <3>1 DEF Alive
  <2>3. QED BY <2>1, <2>2
<1>16. dying' \subseteq Objects /\ \A o \in dying' : ob_refcnt'[o] = 0
  BY <1>10
<1>17. ObjectsAreThere'
  BY <1>11, <1>13, <1>14, <1>15, <1>16 DEF ObjectsAreThere, Alive, Counts
<1>18. QED BY <1>8, <1>17

(* What is not counted. *)
LEMMA OthersStay ==
  ASSUME ObjectsAreThere, ObjectsAreThere', InternedAreOne, interned' = interned,
         \A r \in interned : contents'[r] = contents[r]
  PROVE  InternedAreOne'
<1>1. \A r \in interned : r \in All /\ contents[r] # NULL /\ r \notin dying'
  BY ImmortalsAssumption DEF InternedAreOne, ObjectsAreThere, All
<1>2. \A r \in interned : Alive(r)'
  BY <1>1 DEF ObjectsAreThere
<1>3. QED BY <1>2 DEF InternedAreOne

(* A place that is not used is not referred to. *)
LEMMA UnusedIs ==
  ASSUME HeapTypeOK, ObjectsAreThere, NEW o \in All, Unused(o)
  PROVE  /\ contents[o] = NULL /\ Refers(refs, contents, load, o) = 0 /\ refs[o] = 0
         /\ Cardinality(Held(contents, o)) = 0 /\ Marshals(load, o) = 0
         /\ o \in Objects => surplus[o] = 0
<1>1. ~Alive(o) /\ contents[o] = NULL /\ ~(Refers(refs, contents, load, o) > 0)
  BY DEF ObjectsAreThere, Unused, Alive
<1>2. refs[o] \in Nat /\ surplus[o] \in Nat /\ load \in Loads \cup {NoLoad}
  BY ImmortalsAssumption DEF HeapTypeOK
<1>3. /\ Refers(refs, contents, load, o) \in Nat
      /\ Refers(refs, contents, load, o) = 0 => refs[o] = 0 /\ Cardinality(Held(contents, o)) = 0 /\ Marshals(load, o) = 0
  BY <1>2, RefersType
<1>4. Refers(refs, contents, load, o) = 0
  BY <1>1, <1>3
<1>5. ASSUME o \in Objects PROVE surplus[o] = 0
  <2>1. Counts(o)
    BY ImmortalsAssumption DEF Counts, Unused
  <2>2. ob_refcnt[o] = Refers(refs, contents, load, o) + surplus[o]
    BY <1>5, <2>1 DEF ObjectsAreThere
  <2>3. QED BY <1>2, <1>4, <2>2 DEF Unused
<1>6. QED BY <1>1, <1>3, <1>4, <1>5

LEMMA ReferredIsThere ==
  ASSUME HeapTypeOK, ObjectsAreThere, NEW o \in All, refs[o] > 0 \/ Marshals(load, o) > 0
  PROVE  Alive(o) /\ contents[o] \in Things /\ o \notin dying
<1>1. refs[o] \in Nat /\ load \in Loads \cup {NoLoad}
  BY ImmortalsAssumption DEF HeapTypeOK
<1>2. Refers(refs, contents, load, o) > 0
  BY <1>1, RefersType
<1>3. Alive(o) /\ contents[o] # NULL
  BY <1>2 DEF ObjectsAreThere
<1>4. QED BY <1>3 DEF ObjectsAreThere, HeapTypeOK, Alive

LEMMA NewStringStep ==
  ASSUME ImmInv, NEW o \in Objects, NEW x \in Texts, NewString(o, x) PROVE ImmInv'
<1> DEFINE new == [y \in {o} |-> 1]
<1>1. /\ session = "running" /\ load = NoLoad /\ Unused(o) /\ Count(new, {}, {})
      /\ contents' = [contents EXCEPT ![o] = String(x)] /\ refs' = [refs EXCEPT ![o] = 1]
      /\ UNCHANGED <<session, records, interned, load, surplus>>
  BY DEF NewString, MayRun, dbVars
<1>2. HeapTypeOK /\ ObjectsAreThere /\ o \in All /\ \A p \in Objects : p \in All
  BY DEF ImmInv, All
<1>3. /\ contents[o] = NULL /\ refs[o] = 0 /\ Cardinality(Held(contents, o)) = 0 /\ surplus[o] = 0
  BY <1>1, <1>2, UnusedIs
<1>4. /\ contents' \in [All -> Things \cup {NULL}] /\ refs' \in [All -> 0 .. MaxRefs] /\ refs' \in [All -> Nat]
      /\ contents'[o] = String(x) /\ contents'[o] # NULL /\ Holds(contents'[o]) = {} /\ Holds(contents[o]) = {}
      /\ \A p \in All \ {o} : contents'[p] = contents[p] /\ refs'[p] = refs[p]
      /\ refs'[o] = 1
  BY <1>1, <1>2, <1>3, WhatHolds, ImmortalsAssumption DEF HeapTypeOK
<1>5. \A p \in All : Cardinality(Held(contents', p)) = Cardinality(Held(contents, p)) /\ Cardinality(Held(contents, p)) \in Nat
  <2>1. TAKE p \in All
  <2>2. SetAt(contents', contents, o)
    BY <1>4 DEF SetAt
  <2>3. /\ Cardinality(Held(contents', p)) \in Nat /\ Cardinality(Held(contents, p)) \in Nat
        /\ Cardinality(Held(contents', p)) + One(p \in Holds(contents[o])) = Cardinality(Held(contents, p)) + One(p \in Holds(contents'[o]))
    BY <1>2, <2>2, Setting
  <2>4. QED BY <1>4, <2>3 DEF One
<1>6. \A p \in All \ {o} : Refers(refs', contents', load', p) = Refers(refs, contents, load, p)
  BY <1>1, <1>4, <1>5 DEF Refers
<1>7. Refers(refs', contents', load', o) = 1
  <2>1. Marshals(load', o) = 0
    BY <1>1 DEF Marshals
  <2>2. QED BY <1>2, <1>3, <1>4, <1>5, <2>1 DEF Refers
<1>8. ob_refcnt' \in [All -> 0 .. PALMDM_REFCNT] /\ ObjectsAreThere'
  <2>1. Balanced({}, {}, DOMAIN new)
    BY <1>1, <1>2, <1>6 DEF Balanced
  <2>2. \A p \in DOMAIN new : Unused(p) /\ p \notin {} \cup {} /\ new[p] \in 1 .. PALMDM_REFCNT
    BY <1>1, ImmortalsAssumption
  <2>3. \A r \in Records : Refers(refs', contents', load', r) > 0 => Alive(r) \/ r \in DOMAIN new
    BY <1>6 DEF ImmInv, ObjectsAreThere, All
  <2>4. \A p \in Objects \cap DOMAIN new : new[p] = Refers(refs', contents', load', p) + surplus'[p]
    BY <1>1, <1>3, <1>7
  <2>5. \A p \in All : contents'[p] # NULL <=> contents[p] # NULL \/ p \in DOMAIN new
    BY <1>4
  <2>6. \A r \in Records \cap DOMAIN new : new[r] = PALMDM_REFCNT /\ r \in records'
    BY ImmortalsAssumption
  <2>7. DOMAIN new \subseteq All /\ records \subseteq records' /\ load' \in Loads \cup {NoLoad} /\ surplus' \in [All -> Nat]
        /\ \A p \in {} \cup {} : p \in All /\ Alive(p)
    BY <1>1, <1>2 DEF HeapTypeOK
  <2> HIDE DEF new
  <2>8. QED BY <1>1, <1>2, <1>4, <2>1, <2>2, <2>3, <2>4, <2>5, <2>6, <2>7, CountStep
<1>9. InternedAreOne'
  <2>1. o \notin interned
    BY ImmortalsAssumption DEF ImmInv, InternedAreOne
  <2>2. \A r \in interned : contents'[r] = contents[r]
    BY <1>4, <2>1 DEF ImmInv, InternedAreOne, All
  <2>3. QED BY <1>1, <1>8, <2>2, OthersStay DEF ImmInv
<1>10. QED BY <1>1, <1>2, <1>4, <1>8, <1>9 DEF ImmInv, HeapTypeOK, LoadIsOfCode, NothingOutsideASession

(* The steps that only count: no place is taken, nothing is put in one. *)
LEMMA CountOnly ==
  ASSUME HeapTypeOK, ObjectsAreThere, NEW up, NEW down, Count(Nothing, up, down), contents' = contents, records \subseteq records',
         \A o \in up \cup down : o \in All /\ Alive(o), Balanced(up, down, {}),
         \A r \in Records : Refers(refs', contents', load', r) > 0 => Alive(r),
         refs' \in [All -> Nat], load' \in Loads \cup {NoLoad}, surplus' \in [All -> Nat]
  PROVE  ob_refcnt' \in [All -> 0 .. PALMDM_REFCNT] /\ ObjectsAreThere'
<1>1. DOMAIN Nothing = {}
  BY DEF Nothing
<1>2. Balanced(up, down, DOMAIN Nothing)
  BY <1>1
<1>3. /\ DOMAIN Nothing \subseteq All
      /\ \A o \in DOMAIN Nothing : Unused(o) /\ o \notin up \cup down /\ Nothing[o] \in 1 .. PALMDM_REFCNT
      /\ \A o \in Objects \cap DOMAIN Nothing : Nothing[o] = Refers(refs', contents', load', o) + surplus'[o]
      /\ \A r \in Records \cap DOMAIN Nothing : Nothing[r] = PALMDM_REFCNT /\ r \in records'
      /\ records \subseteq records'
      /\ \A r \in Records : Refers(refs', contents', load', r) > 0 => Alive(r) \/ r \in DOMAIN Nothing
      /\ \A o \in All : contents'[o] # NULL <=> contents[o] # NULL \/ o \in DOMAIN Nothing
  BY <1>1
<1>4. QED BY <1>2, <1>3, CountStep

LEMMA DuplicateStep ==
  ASSUME ImmInv, NEW o \in All, Duplicate(o) PROVE ImmInv'
<1>1. /\ session = "running" /\ load = NoLoad /\ refs[o] \in 1 .. MaxRefs - 1 /\ Count(Nothing, {o}, {})
      /\ refs' = [refs EXCEPT ![o] = @ + 1]
      /\ UNCHANGED <<session, records, contents, interned, load, surplus>>
  BY DEF Duplicate, MayRun, dbVars
<1>2. HeapTypeOK /\ ObjectsAreThere /\ \A p \in Objects \cup Records : p \in All
  BY DEF ImmInv, All
<1>3. Alive(o)
  BY <1>1, <1>2, ReferredIsThere
<1>4. refs' \in [All -> 0 .. MaxRefs] /\ refs' \in [All -> Nat] /\ \A p \in All : refs'[p] = refs[p] + One(p \in {o}) /\ refs[p] \in Nat
  BY <1>1, <1>2, ImmortalsAssumption DEF HeapTypeOK, One
<1>5. \A p \in All : /\ Refers(refs', contents', load', p) = Refers(refs, contents, load, p) + One(p \in {o})
                     /\ Refers(refs, contents, load, p) \in Nat /\ surplus[p] \in Nat /\ One(p \in {o}) \in Nat
  <2>1. TAKE p \in All
  <2>2. Refers(refs, contents, load, p) \in Nat /\ Cardinality(Held(contents, p)) \in Nat /\ Marshals(load, p) \in Nat
    BY <1>2, <1>4, RefersType, MarshalsAre DEF HeapTypeOK
  <2>3. One(p \in {o}) \in Nat /\ surplus[p] \in Nat
    BY <1>2 DEF One, HeapTypeOK
  <2>4. QED BY <1>1, <1>4, <2>2, <2>3 DEF Refers
<1>6. Balanced({o}, {}, {})
  <2>1. SUFFICES ASSUME NEW p \in Objects
                 PROVE  Refers(refs', contents', load', p) + surplus'[p] + One(p \in {})
                          = Refers(refs, contents, load, p) + surplus[p] + One(p \in {o})
    BY DEF Balanced
  <2>2. One(p \in {}) = 0
    BY DEF One
  <2>3. surplus'[p] = surplus[p] /\ p \in All
    BY <1>1, <1>2
  <2>4. QED BY <1>5, <2>2, <2>3
<1>7. \A r \in Records : Refers(refs', contents', load', r) > 0 => Alive(r)
  BY <1>2, <1>3, <1>5 DEF ObjectsAreThere, One
<1>8. ob_refcnt' \in [All -> 0 .. PALMDM_REFCNT] /\ ObjectsAreThere'
  BY <1>1, <1>2, <1>3, <1>4, <1>6, <1>7, CountOnly DEF HeapTypeOK
<1>9. InternedAreOne'
  BY <1>1, <1>8, OthersStay DEF ImmInv
<1>10. QED BY <1>1, <1>2, <1>4, <1>8, <1>9 DEF ImmInv, HeapTypeOK, LoadIsOfCode, NothingOutsideASession

LEMMA ReleaseStep ==
  ASSUME ImmInv, NEW o \in All, Release(o) PROVE ImmInv'
<1>1. /\ session = "running" /\ load = NoLoad /\ refs[o] > 0 /\ Count(Nothing, {}, {o})
      /\ refs' = [refs EXCEPT ![o] = @ - 1]
      /\ UNCHANGED <<session, records, contents, interned, load, surplus>>
  BY DEF Release, MayRun, dbVars
<1>2. HeapTypeOK /\ ObjectsAreThere /\ \A p \in Objects \cup Records : p \in All
  BY DEF ImmInv, All
<1>3. Alive(o)
  BY <1>1, <1>2, ReferredIsThere
<1>4. refs' \in [All -> 0 .. MaxRefs] /\ refs' \in [All -> Nat] /\ \A p \in All : refs[p] = refs'[p] + One(p \in {o}) /\ refs[p] \in Nat
  BY <1>1, <1>2, ImmortalsAssumption DEF HeapTypeOK, One
<1>5. \A p \in All : /\ Refers(refs', contents', load', p) + One(p \in {o}) = Refers(refs, contents, load, p)
                     /\ Refers(refs', contents', load', p) \in Nat /\ surplus[p] \in Nat /\ One(p \in {o}) \in Nat
  <2>1. TAKE p \in All
  <2>2. /\ Refers(refs', contents', load', p) \in Nat /\ Cardinality(Held(contents, p)) \in Nat /\ Marshals(load, p) \in Nat
        /\ refs'[p] \in Nat
    BY <1>1, <1>2, <1>4, RefersType, MarshalsAre DEF HeapTypeOK
  <2>3. One(p \in {o}) \in Nat /\ surplus[p] \in Nat
    BY <1>2 DEF One, HeapTypeOK
  <2>4. QED BY <1>1, <1>4, <2>2, <2>3 DEF Refers
<1>6. Balanced({}, {o}, {})
  <2>1. SUFFICES ASSUME NEW p \in Objects
                 PROVE  Refers(refs', contents', load', p) + surplus'[p] + One(p \in {o})
                          = Refers(refs, contents, load, p) + surplus[p] + One(p \in {})
    BY DEF Balanced
  <2>2. One(p \in {}) = 0
    BY DEF One
  <2>3. surplus'[p] = surplus[p] /\ p \in All
    BY <1>1, <1>2
  <2>4. QED BY <1>5, <2>2, <2>3
<1>7. \A r \in Records : Refers(refs', contents', load', r) > 0 => Alive(r)
  BY <1>2, <1>5 DEF ObjectsAreThere, One
<1>8. ob_refcnt' \in [All -> 0 .. PALMDM_REFCNT] /\ ObjectsAreThere'
  BY <1>1, <1>2, <1>3, <1>4, <1>6, <1>7, CountOnly DEF HeapTypeOK
<1>9. InternedAreOne'
  BY <1>1, <1>8, OthersStay DEF ImmInv
<1>10. QED BY <1>1, <1>2, <1>4, <1>8, <1>9 DEF ImmInv, HeapTypeOK, LoadIsOfCode, NothingOutsideASession

(* The steps that put a copy in a record. *)
LEMMA RecordIsNew ==
  ASSUME HeapTypeOK, ObjectsAreThere, NEW r \in Records \ records
  PROVE  /\ r \in All /\ r \notin Objects /\ Unused(r) /\ ~Alive(r) /\ contents[r] = NULL /\ refs[r] = 0
         /\ Refers(refs, contents, load, r) = 0
<1>1. r \in All /\ r \notin Objects
  BY ImmortalsAssumption DEF All
<1>2. ~Alive(r) /\ ob_refcnt[r] \in Nat /\ r \notin dying
  BY <1>1, ImmortalsAssumption DEF HeapTypeOK, ObjectsAreThere
<1>3. Unused(r)
  BY <1>2 DEF Unused, Alive
<1>4. QED BY <1>1, <1>2, <1>3, UnusedIs

LEMMA CopyCount ==
  ASSUME HeapTypeOK, ObjectsAreThere, NEW r \in Records \ records, NEW up, NEW down, Count(Immortal(r), up, down),
         records' = records \cup {r}, \A o \in up \cup down : o \in All /\ Alive(o), Balanced(up, down, {}),
         \A q \in Records \ {r} : Refers(refs', contents', load', q) > 0 => Alive(q),
         \A o \in All \ {r} : contents'[o] # NULL <=> contents[o] # NULL, contents'[r] # NULL,
         refs' \in [All -> Nat], load' \in Loads \cup {NoLoad}, surplus' \in [All -> Nat]
  PROVE  ob_refcnt' \in [All -> 0 .. PALMDM_REFCNT] /\ ObjectsAreThere' /\ Alive(r)'
<1>0. r \in All /\ r \notin Objects /\ Unused(r) /\ ~Alive(r) /\ contents[r] = NULL
  BY RecordIsNew
<1>1. DOMAIN Immortal(r) = {r} /\ Immortal(r)[r] = PALMDM_REFCNT
  BY DEF Immortal
<1>2. Balanced(up, down, DOMAIN Immortal(r))
  BY <1>1 DEF Balanced
<1>3. /\ DOMAIN Immortal(r) \subseteq All
      /\ \A o \in DOMAIN Immortal(r) : Unused(o) /\ o \notin up \cup down /\ Immortal(r)[o] \in 1 .. PALMDM_REFCNT
      /\ \A o \in Objects \cap DOMAIN Immortal(r) : Immortal(r)[o] = Refers(refs', contents', load', o) + surplus'[o]
      /\ \A q \in Records \cap DOMAIN Immortal(r) : Immortal(r)[q] = PALMDM_REFCNT /\ q \in records'
      /\ records \subseteq records'
      /\ \A q \in Records : Refers(refs', contents', load', q) > 0 => Alive(q) \/ q \in DOMAIN Immortal(r)
      /\ \A o \in All : contents'[o] # NULL <=> contents[o] # NULL \/ o \in DOMAIN Immortal(r)
  BY <1>0, <1>1, ImmortalsAssumption
<1>4. ob_refcnt' \in [All -> 0 .. PALMDM_REFCNT] /\ ObjectsAreThere'
  BY <1>2, <1>3, CountStep
<1>5. Alive(r)'
  <2>1. r \notin dying'
    BY <1>0, <1>4 DEF ObjectsAreThere
  <2>2. QED BY <1>0, <1>4, <2>1 DEF ObjectsAreThere
<1>6. QED BY <1>4, <1>5

LEMMA CopyFailed ==
  ASSUME HeapTypeOK, ObjectsAreThere, CopyFails PROVE records \subseteq records' /\ session' = session
BY DEF CopyFails

LEMMA InternStep ==
  ASSUME ImmInv, NEW o \in All, PyString_InternInPlace(o) PROVE ImmInv'
<1>1. /\ session = "running" /\ load = NoLoad /\ o \in Objects /\ refs[o] > 0 /\ contents[o].kind = "string"
      /\ AlreadyInterned(o) \/ (Twin(o) = {} /\ (InternCopy(o) \/ InternFails))
      /\ UNCHANGED <<load, surplus>>
  BY DEF PyString_InternInPlace, MayRun
<1>2. HeapTypeOK /\ ObjectsAreThere /\ InternedAreOne /\ \A p \in Objects \cup Records : p \in All
  BY DEF ImmInv, All
<1>3. Alive(o) /\ contents[o] \in Things /\ Holds(contents[o]) = {}
  <2>1. Alive(o) /\ contents[o] \in Things
    BY <1>1, <1>2, ReferredIsThere
  <2>2. QED BY <1>1, <2>1, ThingsAre
<1>4. load' = NoLoad /\ load' \in Loads \cup {NoLoad} /\ surplus' \in [All -> Nat] /\ surplus' = surplus
      /\ refs \in [All -> 0 .. MaxRefs] /\ \A p \in All : refs[p] \in Nat /\ surplus[p] \in Nat
  BY <1>1, <1>2, ImmortalsAssumption DEF HeapTypeOK
<1>5. \A p \in All : /\ Refers(refs, contents, load, p) \in Nat /\ Cardinality(Held(contents, p)) \in Nat
                     /\ Marshals(load, p) = 0 /\ Marshals(load', p) = 0
  BY <1>1, <1>4, RefersType, MarshalsAre
(* The reference of the program moves from o to t. *)
<1>6. ASSUME NEW t \in Records, refs[t] < MaxRefs, Replace(o, t),
             \A p \in All : Cardinality(Held(contents', p)) = Cardinality(Held(contents, p))
      PROVE  /\ refs' \in [All -> 0 .. MaxRefs] /\ refs' \in [All -> Nat]
             /\ \A p \in All : Refers(refs', contents', load', p) + One(p = o) = Refers(refs, contents, load, p) + One(p = t)
  <2>1. refs' = [refs EXCEPT ![o] = @ - 1, ![t] = @ + 1] /\ o # t /\ t \in All
    BY <1>1, <1>2, <1>6, ImmortalsAssumption DEF Replace
  <2>2. /\ refs' \in [All -> 0 .. MaxRefs] /\ refs' \in [All -> Nat]
        /\ \A p \in All : refs'[p] + One(p = o) = refs[p] + One(p = t)
    BY <1>1, <1>4, <1>6, <2>1, ImmortalsAssumption DEF One
  <2>3. ASSUME NEW p \in All
        PROVE  Refers(refs', contents', load', p) + One(p = o) = Refers(refs, contents, load, p) + One(p = t)
    <3>1. refs'[p] + One(p = o) = refs[p] + One(p = t) /\ refs'[p] \in Nat /\ refs[p] \in Nat
          /\ One(p = o) \in Nat /\ One(p = t) \in Nat
      BY <1>4, <2>2 DEF One
    <3>2. QED BY <1>5, <1>6, <3>1 DEF Refers
  <2>4. QED BY <2>2, <2>3
<1>7. ASSUME NEW t \in Twin(o), refs[t] < MaxRefs, Count(Nothing, {t}, {o}), Replace(o, t), UNCHANGED <<dbVars, contents, interned>>
      PROVE  ImmInv'
  <2>1. t \in Records /\ t \in All /\ Alive(t)
    BY <1>2 DEF Twin, InternedAreOne
  <2>2. /\ refs' \in [All -> 0 .. MaxRefs] /\ refs' \in [All -> Nat]
        /\ \A p \in All : Refers(refs', contents', load', p) + One(p = o) = Refers(refs, contents, load, p) + One(p = t)
    BY <1>6, <1>7, <2>1
  <2>3. Balanced({t}, {o}, {})
    <3>1. SUFFICES ASSUME NEW p \in Objects
                   PROVE  Refers(refs', contents', load', p) + surplus'[p] + One(p \in {o})
                            = Refers(refs, contents, load, p) + surplus[p] + One(p \in {t})
      BY DEF Balanced
    <3>2. One(p \in {o}) = One(p = o) /\ One(p \in {t}) = One(p = t) /\ One(p = o) \in Nat /\ One(p = t) \in Nat
      BY DEF One
    <3>3. Refers(refs', contents', load', p) \in Nat /\ p \in All
      BY <1>2, <1>4, <2>2, RefersType
    <3>4. QED BY <1>4, <1>5, <2>2, <3>2, <3>3
  <2>4. \A r \in Records : Refers(refs', contents', load', r) > 0 => Alive(r)
    <3>1. TAKE r \in Records
    <3>2. One(r = o) = 0 /\ (r # t => One(r = t) = 0)
      BY <1>1, ImmortalsAssumption DEF One
    <3>3. Refers(refs', contents', load', r) \in Nat /\ r \in All
      BY <1>2, <1>4, <2>2, RefersType
    <3>4. QED BY <1>2, <1>5, <2>1, <2>2, <3>2, <3>3 DEF ObjectsAreThere
  <2>5. ob_refcnt' \in [All -> 0 .. PALMDM_REFCNT] /\ ObjectsAreThere'
    BY <1>2, <1>3, <1>4, <1>7, <2>1, <2>2, <2>3, <2>4, CountOnly DEF dbVars
  <2>6. InternedAreOne'
    BY <1>2, <1>7, <2>5, OthersStay
  <2>7. QED BY <1>1, <1>2, <1>4, <1>7, <2>2, <2>5, <2>6 DEF ImmInv, HeapTypeOK, LoadIsOfCode, NothingOutsideASession, dbVars
<1>8. ASSUME Twin(o) = {}, NEW r \in Records, Copies(r), contents' = [contents EXCEPT ![r] = contents[o]],
             \/ interned' = interned \cup {r} /\ Count(Immortal(r), {}, {o}) /\ Replace(o, r)
             \/ Count(Immortal(r), {}, {}) /\ UNCHANGED <<refs, interned>>
      PROVE  ImmInv'
  <2>1. r \in Records \ records /\ records' = records \cup {r} /\ session' = session
    BY <1>8 DEF Copies, CanCreate
  <2>2. r \in All /\ r \notin Objects /\ contents[r] = NULL /\ refs[r] = 0 /\ ~Alive(r)
    BY <1>2, <2>1, RecordIsNew
  <2>3. /\ contents' \in [All -> Things \cup {NULL}] /\ contents'[r] = contents[o] /\ contents'[r] # NULL
        /\ \A p \in All \ {r} : contents'[p] = contents[p]
    BY <1>2, <1>3, <1>8, <2>2, WhatHolds DEF HeapTypeOK
  <2>4. \A p \in All : Cardinality(Held(contents', p)) = Cardinality(Held(contents, p))
    <3>1. TAKE p \in All
    <3>2. SetAt(contents', contents, r)
      BY <2>3 DEF SetAt
    <3>3. /\ Cardinality(Held(contents', p)) \in Nat /\ Cardinality(Held(contents, p)) \in Nat
          /\ Cardinality(Held(contents', p)) + One(p \in Holds(contents[r])) = Cardinality(Held(contents, p)) + One(p \in Holds(contents'[r]))
      BY <2>2, <3>2, Setting
    <3>4. One(p \in Holds(contents[r])) = 0 /\ One(p \in Holds(contents'[r])) = 0
      BY <1>3, <2>2, <2>3, WhatHolds DEF One
    <3>5. QED BY <3>3, <3>4
  <2>5. CASE interned' = interned \cup {r} /\ Count(Immortal(r), {}, {o}) /\ Replace(o, r)
    <3>1. /\ refs' \in [All -> 0 .. MaxRefs] /\ refs' \in [All -> Nat]
          /\ \A p \in All : Refers(refs', contents', load', p) + One(p = o) = Refers(refs, contents, load, p) + One(p = r)
      BY <1>6, <2>2, <2>4, <2>5, ImmortalsAssumption
    <3>2. Balanced({}, {o}, {})
      <4>1. SUFFICES ASSUME NEW p \in Objects
                     PROVE  Refers(refs', contents', load', p) + surplus'[p] + One(p \in {o})
                              = Refers(refs, contents, load, p) + surplus[p] + One(p \in {})
        BY DEF Balanced
      <4>2. One(p \in {o}) = One(p = o) /\ One(p \in {}) = 0 /\ One(p = o) \in Nat /\ One(p = r) = 0
        BY <2>2 DEF One
      <4>3. Refers(refs', contents', load', p) \in Nat /\ p \in All
        BY <1>2, <1>4, <3>1, RefersType
      <4>4. QED BY <1>4, <1>5, <3>1, <4>2, <4>3
    <3>3. \A q \in Records \ {r} : Refers(refs', contents', load', q) > 0 => Alive(q)
      <4>1. TAKE q \in Records \ {r}
      <4>2. One(q = o) = 0 /\ One(q = r) = 0
        BY <1>1, ImmortalsAssumption DEF One
      <4>3. Refers(refs', contents', load', q) \in Nat /\ q \in All
        BY <1>2, <1>4, <3>1, RefersType
      <4>4. QED BY <1>2, <1>5, <3>1, <4>2, <4>3 DEF ObjectsAreThere
    <3>4. ob_refcnt' \in [All -> 0 .. PALMDM_REFCNT] /\ ObjectsAreThere' /\ Alive(r)'
      BY <1>2, <1>3, <1>4, <2>1, <2>3, <2>5, <3>1, <3>2, <3>3, CopyCount
    <3>5. InternedAreOne'
      <4>1. \A t \in interned : t \in Records /\ t \in All /\ t # r /\ Alive(t) /\ contents'[t] = contents[t]
        BY <1>2, <2>2, <2>3 DEF InternedAreOne
      <4>2. \A t \in interned : Alive(t)'
        <5>1. \A t \in interned : contents'[t] # NULL /\ t \notin Objects
          BY <1>2, <4>1, ImmortalsAssumption DEF ObjectsAreThere
        <5>2. QED BY <3>4, <4>1, <5>1 DEF ObjectsAreThere
      <4>3. \A t \in interned : contents'[t] # contents'[r]
        BY <1>8, <2>3, <4>1 DEF Twin
      <4>4. QED BY <1>2, <2>5, <3>4, <4>1, <4>2, <4>3 DEF InternedAreOne
    <3>6. QED BY <1>1, <1>2, <1>4, <2>1, <2>3, <3>1, <3>4, <3>5 DEF ImmInv, HeapTypeOK, LoadIsOfCode, NothingOutsideASession
  <2>6. CASE Count(Immortal(r), {}, {}) /\ UNCHANGED <<refs, interned>>
    <3>1. \A p \in All : Refers(refs', contents', load', p) = Refers(refs, contents, load, p)
      BY <1>5, <2>4, <2>6 DEF Refers
    <3>2. Balanced({}, {}, {})
      BY <1>2, <1>4, <3>1 DEF Balanced
    <3>3. \A q \in Records \ {r} : Refers(refs', contents', load', q) > 0 => Alive(q)
      BY <1>2, <3>1 DEF ObjectsAreThere
    <3>4. refs' \in [All -> Nat]
      BY <1>4, <2>6
    <3>5. ob_refcnt' \in [All -> 0 .. PALMDM_REFCNT] /\ ObjectsAreThere'
      BY <1>2, <1>4, <2>1, <2>3, <2>6, <3>2, <3>3, <3>4, CopyCount
    <3>6. InternedAreOne'
      <4>1. \A t \in interned : contents'[t] = contents[t]
        BY <1>2, <2>2, <2>3 DEF InternedAreOne
      <4>2. QED BY <1>2, <2>6, <3>5, <4>1, OthersStay
    <3>7. QED BY <1>1, <1>2, <1>4, <2>1, <2>3, <2>6, <3>5, <3>6 DEF ImmInv, HeapTypeOK, LoadIsOfCode, NothingOutsideASession
  <2>7. QED BY <1>8, <2>5, <2>6
<1>9. ASSUME InternFails PROVE ImmInv'
  <2>1. records \subseteq records' /\ session' = session /\ UNCHANGED <<ob_refcnt, dying, contents, refs, interned>>
    BY <1>2, <1>9, CopyFailed DEF InternFails
  <2>2. ObjectsAreThere'
    BY <1>1, <1>2, <2>1 DEF ObjectsAreThere, Alive, Counts
  <2>3. InternedAreOne'
    BY <1>2, <2>1, <2>2, OthersStay
  <2>4. QED BY <1>1, <1>2, <1>4, <2>1, <2>2, <2>3 DEF ImmInv, HeapTypeOK, LoadIsOfCode, NothingOutsideASession
<1>10. QED
  <2>1. CASE AlreadyInterned(o)
    BY <1>7, <2>1 DEF AlreadyInterned
  <2>2. CASE Twin(o) = {} /\ InternCopy(o)
    BY <1>8, <2>2 DEF InternCopy
  <2>3. QED BY <1>1, <1>9, <2>1, <2>2

(* Reading code *)

(* No count changes, and what has gone in one place has come in another.   *)
LEMMA NoCount ==
  ASSUME ObjectsAreThere, UNCHANGED <<ob_refcnt, dying>>, records \subseteq records',
         \A o \in Objects : Refers(refs', contents', load', o) + surplus'[o] = Refers(refs, contents, load, o) + surplus[o],
         \A o \in All : Refers(refs', contents', load', o) > 0 => Refers(refs, contents, load, o) > 0,
         \A o \in All : contents'[o] # NULL <=> contents[o] # NULL
  PROVE  ObjectsAreThere'
<1>1. \A o \in All : Alive(o)' <=> Alive(o)
  BY DEF Alive
<1>2. \A o \in All : Counts(o)' <=> Counts(o)
  BY DEF Counts
<1>3. \A o \in Objects : Counts(o)' => ob_refcnt'[o] = Refers(refs', contents', load', o) + surplus'[o]
  BY <1>2 DEF ObjectsAreThere, All
<1>4. \A o \in All : Refers(refs', contents', load', o) > 0 => Alive(o)'
  BY <1>1 DEF ObjectsAreThere
<1>5. \A o \in All : contents'[o] # NULL <=> Alive(o)' \/ o \in dying'
  BY <1>1 DEF ObjectsAreThere
<1>6. \A r \in Records : Alive(r)' => r \in records' /\ ob_refcnt'[r] = PALMDM_REFCNT
  BY <1>1 DEF ObjectsAreThere, All
<1>7. QED BY <1>3, <1>4, <1>5, <1>6 DEF ObjectsAreThere

LEMMA ReadStep ==
  ASSUME ImmInv, NEW t \in Objects, NEW v \in Objects, NEW i \in All, NEW n \in All, ReadCode(t, v, i, n) PROVE ImmInv'
<1> DEFINE new == [o \in {t, v} |-> IF o = t THEN 2 ELSE 1]
           mid == [contents EXCEPT ![t] = Tuple(i)]
<1>1. /\ session = "running" /\ load = NoLoad /\ Unused(t) /\ Unused(v) /\ t # v /\ refs[i] > 0 /\ refs[n] > 0 /\ i # n
      /\ Count(new, {n}, {})
      /\ contents' = [contents EXCEPT ![t] = Tuple(i), ![v] = Code(t, n)]
      /\ refs' = [refs EXCEPT ![i] = @ - 1, ![n] = @ - 1]
      /\ load' = [step |-> "tuple", tuple |-> t, code |-> v, name |-> n, result |-> NULL]
      /\ UNCHANGED <<session, records, interned, surplus>>
  BY DEF ReadCode, MayRun, dbVars
<1>2. HeapTypeOK /\ ObjectsAreThere /\ InternedAreOne /\ \A p \in Objects \cup Records : p \in All
  BY DEF ImmInv, All
<1>3. /\ \A o \in {t, v} : contents[o] = NULL /\ Refers(refs, contents, load, o) = 0 /\ surplus[o] = 0
      /\ Alive(i) /\ Alive(n) /\ i \notin {t, v} /\ n \notin {t, v}
  <2>1. \A o \in {t, v} : contents[o] = NULL /\ Refers(refs, contents, load, o) = 0 /\ surplus[o] = 0 /\ ~Alive(o)
    BY <1>1, <1>2, UnusedIs DEF Unused, Alive
  <2>2. Alive(i) /\ Alive(n)
    BY <1>1, <1>2, ReferredIsThere
  <2>3. QED BY <2>1, <2>2
<1>4. /\ load' \in Loads /\ load' \in Loads \cup {NoLoad}
      /\ load'.tuple = t /\ load'.code = v /\ load'.name = n /\ load'.step = "tuple" /\ load'.result = NULL
  BY <1>1 DEF Loads
<1>5. refs' \in [All -> 0 .. MaxRefs] /\ refs' \in [All -> Nat]
      /\ \A p \in All : refs'[p] + One(p = i) + One(p = n) = refs[p] /\ refs[p] \in Nat /\ surplus[p] \in Nat
  BY <1>1, <1>2, ImmortalsAssumption DEF HeapTypeOK, One
<1>6. /\ contents' \in [All -> Things \cup {NULL}] /\ contents'[t] = Tuple(i) /\ contents'[v] = Code(t, n)
      /\ contents'[t] # NULL /\ contents'[v] # NULL /\ contents'[t].kind = "tuple"
      /\ \A p \in All \ {t, v} : contents'[p] = contents[p]
  BY <1>1, <1>2, WhatHolds DEF HeapTypeOK
<1>7. ASSUME NEW p \in All
      PROVE  /\ Cardinality(Held(contents', p)) \in Nat /\ Cardinality(Held(contents, p)) \in Nat
             /\ Cardinality(Held(contents', p)) = Cardinality(Held(contents, p)) + One(p = i) + One(p = t) + One(p = n)
  <2>1. SetAt(mid, contents, t) /\ mid[t] = Tuple(i) /\ mid[v] = NULL
    BY <1>1, <1>2, <1>3 DEF SetAt, HeapTypeOK
  <2>2. SetAt(contents', mid, v)
    BY <1>2, <1>6 DEF SetAt, HeapTypeOK
  <2> HIDE DEF mid
  <2>3. /\ Cardinality(Held(mid, p)) \in Nat /\ Cardinality(Held(contents, p)) \in Nat
        /\ Cardinality(Held(mid, p)) + One(p \in Holds(contents[t])) = Cardinality(Held(contents, p)) + One(p \in Holds(mid[t]))
    BY <1>2, <2>1, Setting
  <2>4. /\ Cardinality(Held(contents', p)) \in Nat
        /\ Cardinality(Held(contents', p)) + One(p \in Holds(mid[v])) = Cardinality(Held(mid, p)) + One(p \in Holds(contents'[v]))
    BY <1>2, <2>2, Setting
  <2>5. Holds(contents[t]) = {} /\ Holds(mid[t]) = {i} /\ Holds(mid[v]) = {} /\ Holds(contents'[v]) = {t, n}
    BY <1>2, <1>3, <1>6, <2>1, WhatHolds
  <2>6. /\ One(p \in Holds(contents[t])) = 0 /\ One(p \in Holds(mid[t])) = One(p = i)
        /\ One(p \in Holds(mid[v])) = 0 /\ One(p \in Holds(contents'[v])) = One(p = t) + One(p = n)
        /\ One(p = i) \in Nat /\ One(p = t) \in Nat /\ One(p = n) \in Nat
    BY <1>3, <2>5 DEF One
  <2>7. QED BY <2>3, <2>4, <2>6
<1>8. ASSUME NEW p \in All
      PROVE  /\ Refers(refs', contents', load', p)
                  = Refers(refs, contents, load, p) + One(p = n) + One(p = t) + One(p = t) + One(p = v)
             /\ Refers(refs, contents, load, p) \in Nat
  <2>1. Marshals(load, p) = 0 /\ Marshals(load', p) = One(p = t) + One(p = n) + One(p = v)
    <3>1. Marshals(load', p) = One(p \in {t, n}) + One(p = v /\ "tuple" # "end")
      BY <1>4, MarshalsAre
    <3>2. One(p \in {t, n}) = One(p = t) + One(p = n) /\ One(p = v /\ "tuple" # "end") = One(p = v)
      BY <1>3 DEF One
    <3>3. QED BY <1>1, <3>1, <3>2 DEF Marshals
  <2>2. /\ refs'[p] + One(p = i) + One(p = n) = refs[p] /\ refs[p] \in Nat /\ refs'[p] \in Nat
        /\ One(p = i) \in Nat /\ One(p = t) \in Nat /\ One(p = n) \in Nat /\ One(p = v) \in Nat
    BY <1>5 DEF One
  <2>3. QED BY <1>7, <2>1, <2>2 DEF Refers
<1>9. Balanced({n}, {}, DOMAIN new)
  <2>1. SUFFICES ASSUME NEW p \in Objects \ {t, v}
                 PROVE  Refers(refs', contents', load', p) + surplus'[p] + One(p \in {})
                          = Refers(refs, contents, load, p) + surplus[p] + One(p \in {n})
    BY DEF Balanced
  <2>2. One(p \in {}) = 0 /\ One(p \in {n}) = One(p = n) /\ One(p = t) = 0 /\ One(p = v) = 0 /\ One(p = n) \in Nat
    BY DEF One
  <2>3. p \in All /\ surplus'[p] = surplus[p] /\ surplus[p] \in Nat
    BY <1>1, <1>2, <1>5
  <2>4. QED BY <1>8, <2>2, <2>3
<1>10. ob_refcnt' \in [All -> 0 .. PALMDM_REFCNT] /\ ObjectsAreThere'
  <2>1. DOMAIN new = {t, v} /\ new[t] = 2 /\ new[v] = 1
    BY <1>1
  <2>2. \A o \in DOMAIN new : Unused(o) /\ o \notin {n} \cup {} /\ new[o] \in 1 .. PALMDM_REFCNT
    BY <1>1, <1>3, <2>1, ImmortalsAssumption
  <2>3. \A o \in Objects \cap DOMAIN new : new[o] = Refers(refs', contents', load', o) + surplus'[o]
    <3>1. One(t = n) = 0 /\ One(v = n) = 0 /\ One(t = t) = 1 /\ One(v = v) = 1 /\ One(t = v) = 0 /\ One(v = t) = 0
      BY <1>1, <1>3 DEF One
    <3>2. Refers(refs', contents', load', t) = 2 /\ Refers(refs', contents', load', v) = 1
      BY <1>2, <1>3, <1>8, <3>1
    <3>3. QED BY <1>1, <1>3, <2>1, <3>2
  <2>4. \A r \in Records : Refers(refs', contents', load', r) > 0 => Alive(r) \/ r \in DOMAIN new
    <3>1. TAKE r \in Records
    <3>2. One(r = t) = 0 /\ One(r = v) = 0 /\ (r # n => One(r = n) = 0)
      BY ImmortalsAssumption DEF One
    <3>3. QED BY <1>2, <1>3, <1>8, <3>2 DEF ObjectsAreThere
  <2>5. \A o \in All : contents'[o] # NULL <=> contents[o] # NULL \/ o \in DOMAIN new
    BY <1>6, <2>1
  <2>6. \A r \in Records \cap DOMAIN new : new[r] = PALMDM_REFCNT /\ r \in records'
    BY <2>1, ImmortalsAssumption
  <2>7. /\ DOMAIN new \subseteq All /\ records \subseteq records' /\ surplus' \in [All -> Nat]
        /\ \A o \in {n} \cup {} : o \in All /\ Alive(o)
    BY <1>1, <1>2, <1>3, <2>1 DEF HeapTypeOK
  <2> HIDE DEF new
  <2>8. QED BY <1>1, <1>2, <1>4, <1>5, <1>9, <2>2, <2>3, <2>4, <2>5, <2>6, <2>7, CountStep
<1>11. InternedAreOne'
  <2>1. \A r \in interned : contents'[r] = contents[r]
    <3>1. \A r \in interned : r \in All \ {t, v}
      BY <1>2, ImmortalsAssumption DEF InternedAreOne
    <3>2. QED BY <1>6, <3>1
  <2>2. QED BY <1>1, <1>2, <1>10, <2>1, OthersStay
<1>12. LoadIsOfCode'
  <2>1. t # n
    BY <1>3
  <2>2. QED BY <1>4, <1>6, <2>1 DEF LoadIsOfCode
<1>13. HeapTypeOK'
  BY <1>1, <1>2, <1>4, <1>5, <1>6, <1>10 DEF HeapTypeOK
<1>14. QED BY <1>1, <1>10, <1>11, <1>12, <1>13 DEF ImmInv, NothingOutsideASession

(* What is being read. *)
LEMMA Reading ==
  ASSUME ImmInv, load.step \in {"tuple", "code", "end"}
  PROVE  /\ load \in Loads /\ load # NoLoad /\ session = "running"
         /\ load.tuple \in Objects /\ load.code \in Objects /\ load.name \in All /\ load.tuple # load.name
         /\ load.tuple \in All /\ load.code \in All /\ load.result \in Records \cup {NULL}
         /\ Alive(load.tuple) /\ Alive(load.name) /\ (load.step # "end" => Alive(load.code) /\ load.result = NULL)
         /\ \A p : Marshals(load, p) = One(p = load.tuple) + One(p = load.name) + One(p = load.code /\ load.step # "end")
         /\ \A p : One(p = load.tuple) \in Nat /\ One(p = load.name) \in Nat /\ One(p = load.code) \in Nat
<1>1. load \in Loads
  BY DEF ImmInv, HeapTypeOK, NoLoad
<1>2. load # NoLoad /\ session = "running"
  BY DEF ImmInv, NoLoad, NothingOutsideASession
<1>3. /\ load.tuple \in Objects /\ load.code \in Objects /\ load.name \in All /\ load.tuple # load.name
      /\ load.tuple \in All /\ load.code \in All /\ load.result \in Records \cup {NULL}
      /\ load.step # "end" => load.result = NULL
  BY <1>1, <1>2 DEF Loads, ImmInv, LoadIsOfCode, All
<1>4. ASSUME NEW p
      PROVE  /\ Marshals(load, p) = One(p = load.tuple) + One(p = load.name) + One(p = load.code /\ load.step # "end")
             /\ One(p = load.tuple) \in Nat /\ One(p = load.name) \in Nat /\ One(p = load.code) \in Nat
  <2>1. Marshals(load, p) = One(p \in {load.tuple, load.name}) + One(p = load.code /\ load.step # "end")
    BY <1>1, MarshalsAre
  <2>2. One(p \in {load.tuple, load.name}) = One(p = load.tuple) + One(p = load.name)
    BY <1>3 DEF One
  <2>3. QED BY <2>1, <2>2 DEF One
<1>5. ASSUME NEW p \in All, Marshals(load, p) > 0 PROVE Alive(p)
  BY <1>5, ReferredIsThere DEF ImmInv
<1>6. Alive(load.tuple) /\ Alive(load.name) /\ (load.step # "end" => Alive(load.code))
  <2>1. Marshals(load, load.tuple) > 0 /\ Marshals(load, load.name) > 0
        /\ (load.step # "end" => Marshals(load, load.code) > 0)
    BY <1>4 DEF One
  <2>2. QED BY <1>3, <1>5, <2>1
<1>7. QED BY <1>1, <1>2, <1>3, <1>4, <1>6

LEMMA CopyTupleStep ==
  ASSUME ImmInv, session = "running", CopyTuple PROVE ImmInv'
<1> DEFINE t == load.tuple  v == load.code  n == load.name
<1>1. load.step = "tuple" /\ load' = [load EXCEPT !.step = "code"] /\ UNCHANGED <<refs, interned>>
  BY DEF CopyTuple
<1>2. HeapTypeOK /\ ObjectsAreThere /\ InternedAreOne /\ \A p \in Objects \cup Records : p \in All
  BY DEF ImmInv, All
<1>3. /\ load \in Loads /\ load # NoLoad /\ t \in Objects /\ v \in Objects /\ n \in All /\ t # n /\ t \in All /\ v \in All
      /\ Alive(t) /\ Alive(n) /\ Alive(v) /\ load.result = NULL
      /\ \A p : Marshals(load, p) = One(p = t) + One(p = n) + One(p = v)
      /\ \A p : One(p = t) \in Nat /\ One(p = n) \in Nat /\ One(p = v) \in Nat
  <2>1. \A p : One(p = v /\ load.step # "end") = One(p = v)
    BY <1>1 DEF One
  <2>2. QED BY <1>1, <2>1, Reading
<1>4. /\ load' \in Loads /\ load' \in Loads \cup {NoLoad} /\ load'.tuple = t /\ load'.code = v /\ load'.name = n
      /\ load'.step = "code" /\ load'.result = NULL
  BY <1>1, <1>3 DEF Loads
<1>5. \A p : Marshals(load', p) = Marshals(load, p) /\ Marshals(load, p) \in Nat
  <2>1. TAKE p
  <2>2. Marshals(load', p) = One(p \in {t, n}) + One(p = v /\ load'.step # "end")
    BY <1>4, MarshalsAre
  <2>3. One(p \in {t, n}) = One(p = t) + One(p = n) /\ One(p = v /\ load'.step # "end") = One(p = v)
    BY <1>3, <1>4 DEF One
  <2>4. One(p = t) \in Nat /\ One(p = n) \in Nat /\ One(p = v) \in Nat
    BY DEF One
  <2>5. Marshals(load, p) = One(p = t) + One(p = n) + One(p = v)
    BY <1>3
  <2>6. QED BY <2>2, <2>3, <2>4, <2>5
<1>6. PICK i \in All : contents[t] = Tuple(i)
  BY <1>1, <1>2, <1>3, ThingsAre DEF ImmInv, LoadIsOfCode, ObjectsAreThere, HeapTypeOK
<1>7. contents[v] = Code(t, n) /\ Holds(contents[v]) = {t, n} /\ Holds(contents[t]) = {i} /\ contents[t] \in Things /\ contents[t] # NULL
  BY <1>1, <1>3, <1>6, WhatHolds DEF ImmInv, LoadIsOfCode
<1>8. Alive(i)
  <2>1. t \in Held(contents, i)
    BY <1>3, <1>7 DEF Held
  <2>2. Refers(refs, contents, load, i) > 0
    BY <1>2, <2>1, RefersType, ImmortalsAssumption DEF HeapTypeOK
  <2>3. QED BY <1>2, <2>2 DEF ObjectsAreThere
<1>9. \A p \in All : /\ refs[p] \in Nat /\ surplus[p] \in Nat /\ Refers(refs, contents, load, p) \in Nat
                     /\ Cardinality(Held(contents, p)) \in Nat
  <2>1. TAKE p \in All
  <2>2. refs[p] \in Nat /\ surplus[p] \in Nat /\ load \in Loads \cup {NoLoad}
    BY <1>2, <1>3, ImmortalsAssumption DEF HeapTypeOK
  <2>3. QED BY <2>2, RefersType
<1> HIDE DEF t, v, n
<1>10. ASSUME NEW r \in Records, Copies(r),
              contents' = [contents EXCEPT ![r] = contents[t], ![v] = Code(r, n)],
              Count(Immortal(r), Holds(contents[t]), {t}), surplus' = surplus
       PROVE  ImmInv'
  <2> DEFINE mid == [contents EXCEPT ![r] = contents[t]]
  <2>1. r \in Records \ records /\ records' = records \cup {r} /\ session' = session
    BY <1>10 DEF Copies, CanCreate
  <2>2. r \in All /\ r \notin Objects /\ contents[r] = NULL /\ ~Alive(r) /\ r # v /\ r # t /\ r # n
    BY <1>2, <1>3, <2>1, RecordIsNew
  <2>3. /\ contents' \in [All -> Things \cup {NULL}] /\ contents'[r] = contents[t] /\ contents'[r] # NULL
        /\ contents'[v] = Code(r, n) /\ contents'[v] # NULL /\ Holds(contents'[v]) = {r, n}
        /\ \A p \in All \ {r, v} : contents'[p] = contents[p]
    BY <1>2, <1>3, <1>7, <1>10, <2>2, WhatHolds DEF HeapTypeOK
  <2>4. ASSUME NEW p \in All \ {r}
        PROVE  /\ Cardinality(Held(contents', p)) \in Nat
               /\ Cardinality(Held(contents', p)) + One(p = t) = Cardinality(Held(contents, p)) + One(p = i)
    <3>1. SetAt(mid, contents, r) /\ mid[r] = contents[t] /\ mid[v] = contents[v]
      BY <1>2, <1>3, <2>2 DEF SetAt, HeapTypeOK
    <3>2. SetAt(contents', mid, v)
      BY <1>2, <2>2, <2>3 DEF SetAt, HeapTypeOK
    <3> HIDE DEF mid
    <3>3. /\ Cardinality(Held(mid, p)) \in Nat /\ Cardinality(Held(contents, p)) \in Nat
          /\ Cardinality(Held(mid, p)) + One(p \in Holds(contents[r])) = Cardinality(Held(contents, p)) + One(p \in Holds(mid[r]))
      BY <2>2, <3>1, Setting
    <3>4. /\ Cardinality(Held(contents', p)) \in Nat
          /\ Cardinality(Held(contents', p)) + One(p \in Holds(mid[v])) = Cardinality(Held(mid, p)) + One(p \in Holds(contents'[v]))
      BY <1>3, <3>2, Setting
    <3>5. Holds(contents[r]) = {} /\ Holds(mid[r]) = {i} /\ Holds(mid[v]) = {t, n} /\ Holds(contents'[v]) = {r, n}
      BY <1>7, <2>2, <2>3, <3>1, WhatHolds
    <3>6. /\ One(p \in Holds(contents[r])) = 0 /\ One(p \in Holds(mid[r])) = One(p = i)
          /\ One(p \in Holds(mid[v])) = One(p = t) + One(p = n) /\ One(p \in Holds(contents'[v])) = One(p = n)
          /\ One(p = i) \in Nat /\ One(p = t) \in Nat /\ One(p = n) \in Nat
      BY <1>3, <3>5 DEF One
    <3>7. QED BY <3>3, <3>4, <3>6
  <2>5. ASSUME NEW p \in All \ {r}
        PROVE  /\ Refers(refs', contents', load', p) + One(p = t) = Refers(refs, contents, load, p) + One(p = i)
               /\ Refers(refs', contents', load', p) \in Nat /\ One(p = i) \in Nat
    <3>1. One(p = i) \in Nat /\ One(p = t) \in Nat
      BY DEF One
    <3>2. /\ Marshals(load', p) = Marshals(load, p) /\ Marshals(load, p) \in Nat /\ refs'[p] = refs[p] /\ refs[p] \in Nat
          /\ Cardinality(Held(contents, p)) \in Nat
      BY <1>1, <1>5, <1>9
    <3>3. QED BY <2>4, <3>1, <3>2 DEF Refers
  <2>6. Balanced({i}, {t}, {})
    <3>1. SUFFICES ASSUME NEW p \in Objects
                   PROVE  Refers(refs', contents', load', p) + surplus'[p] + One(p \in {t})
                            = Refers(refs, contents, load, p) + surplus[p] + One(p \in {i})
      BY DEF Balanced
    <3>2. One(p \in {t}) = One(p = t) /\ One(p \in {i}) = One(p = i) /\ p \in All \ {r}
      BY <1>2, <2>2 DEF One
    <3>3. surplus'[p] = surplus[p] /\ surplus[p] \in Nat /\ One(p = t) \in Nat /\ Refers(refs, contents, load, p) \in Nat
      BY <1>9, <1>10, <3>2 DEF One
    <3>4. QED BY <2>5, <3>2, <3>3
  <2>7. \A q \in Records \ {r} : Refers(refs', contents', load', q) > 0 => Alive(q)
    <3>1. TAKE q \in Records \ {r}
    <3>2. (q # i => One(q = i) = 0) /\ One(q = t) \in Nat
      BY DEF One
    <3>3. q \in All \ {r}
      BY <1>2
    <3>4. QED BY <1>2, <1>8, <1>9, <2>5, <3>2, <3>3 DEF ObjectsAreThere
  <2>8. refs' \in [All -> Nat] /\ surplus' \in [All -> Nat]
    BY <1>1, <1>2, <1>9, <1>10 DEF HeapTypeOK
  <2>9. \A o \in All \ {r} : contents'[o] # NULL <=> contents[o] # NULL
    BY <1>3, <1>7, <2>3, WhatHolds
  <2>10. ob_refcnt' \in [All -> 0 .. PALMDM_REFCNT] /\ ObjectsAreThere'
    <3>1. Count(Immortal(r), {i}, {t})
      BY <1>7, <1>10
    <3>2. \A o \in {i} \cup {t} : o \in All /\ Alive(o)
      BY <1>3, <1>8
    <3>3. records' = records \cup {r} /\ contents'[r] # NULL /\ load' \in Loads \cup {NoLoad}
      BY <1>4, <2>1, <2>3
    <3>4. QED BY <1>2, <2>1, <2>6, <2>7, <2>8, <2>9, <3>1, <3>2, <3>3, CopyCount
  <2>11. InternedAreOne'
    <3>1. \A q \in interned : q \in All \ {r, v}
      BY <1>2, <1>3, <2>2, ImmortalsAssumption DEF InternedAreOne
    <3>2. QED BY <1>1, <1>2, <2>3, <2>10, <3>1, OthersStay
  <2>12. LoadIsOfCode'
    BY <1>3, <1>4, <2>3 DEF LoadIsOfCode
  <2>13. HeapTypeOK'
    BY <1>1, <1>2, <1>4, <2>1, <2>3, <2>8, <2>10 DEF HeapTypeOK
  <2>14. QED BY <2>1, <2>10, <2>11, <2>12, <2>13 DEF ImmInv, NothingOutsideASession
<1>11. ASSUME CopyFails, contents' = [contents EXCEPT ![v] = Code(NULL, n)],
              surplus' = [surplus EXCEPT ![t] = @ + 1], UNCHANGED <<ob_refcnt, dying>>
       PROVE  ImmInv'
  <2>1. records \subseteq records' /\ session' = session
    BY <1>2, <1>11, CopyFailed
  <2>2. /\ contents' \in [All -> Things \cup {NULL}] /\ contents'[v] = Code(NULL, n) /\ contents'[v] # NULL
        /\ Holds(contents'[v]) = {n} /\ \A p \in All \ {v} : contents'[p] = contents[p]
    BY <1>2, <1>3, <1>11, WhatHolds DEF HeapTypeOK
  <2>3. ASSUME NEW p \in All
        PROVE  Cardinality(Held(contents', p)) \in Nat
               /\ Cardinality(Held(contents', p)) + One(p = t) = Cardinality(Held(contents, p))
    <3>1. SetAt(contents', contents, v)
      BY <2>2 DEF SetAt
    <3>2. /\ Cardinality(Held(contents', p)) \in Nat
          /\ Cardinality(Held(contents', p)) + One(p \in Holds(contents[v])) = Cardinality(Held(contents, p)) + One(p \in Holds(contents'[v]))
      BY <1>3, <3>1, Setting
    <3>3. /\ One(p \in Holds(contents[v])) = One(p = t) + One(p = n) /\ One(p \in Holds(contents'[v])) = One(p = n)
          /\ One(p = t) \in Nat /\ One(p = n) \in Nat
      BY <1>3, <1>7, <2>2 DEF One
    <3>4. QED BY <1>9, <3>2, <3>3
  <2>4. surplus' \in [All -> Nat] /\ \A p \in All : surplus'[p] = surplus[p] + One(p = t)
    BY <1>2, <1>3, <1>11 DEF HeapTypeOK, One
  <2>5. ASSUME NEW p \in All
        PROVE  /\ Refers(refs', contents', load', p) + One(p = t) = Refers(refs, contents, load, p)
               /\ Refers(refs', contents', load', p) \in Nat /\ Refers(refs, contents, load, p) \in Nat
               /\ surplus[p] \in Nat /\ One(p = t) \in Nat
    <3>1. One(p = t) \in Nat
      BY DEF One
    <3>2. /\ Marshals(load', p) = Marshals(load, p) /\ Marshals(load, p) \in Nat /\ refs'[p] = refs[p] /\ refs[p] \in Nat
          /\ Cardinality(Held(contents, p)) \in Nat /\ Refers(refs, contents, load, p) \in Nat /\ surplus[p] \in Nat
      BY <1>1, <1>5, <1>9
    <3>3. QED BY <2>3, <3>1, <3>2 DEF Refers
  <2>6. ObjectsAreThere'
    <3>1. \A o \in Objects : Refers(refs', contents', load', o) + surplus'[o] = Refers(refs, contents, load, o) + surplus[o]
      BY <1>2, <2>4, <2>5
    <3>2. \A o \in All : Refers(refs', contents', load', o) > 0 => Refers(refs, contents, load, o) > 0
      BY <2>5
    <3>3. \A o \in All : contents'[o] # NULL <=> contents[o] # NULL
      BY <1>3, <1>7, <2>2, WhatHolds
    <3>4. QED BY <1>2, <1>11, <2>1, <3>1, <3>2, <3>3, NoCount
  <2>7. InternedAreOne'
    <3>1. \A q \in interned : q \in All \ {v}
      BY <1>2, <1>3, ImmortalsAssumption DEF InternedAreOne
    <3>2. QED BY <1>1, <1>2, <2>2, <2>6, <3>1, OthersStay
  <2>8. LoadIsOfCode'
    BY <1>3, <1>4, <2>2 DEF LoadIsOfCode
  <2>9. HeapTypeOK'
    BY <1>1, <1>2, <1>4, <1>11, <2>1, <2>2, <2>4 DEF HeapTypeOK
  <2>10. QED BY <2>1, <2>6, <2>7, <2>8, <2>9 DEF ImmInv, NothingOutsideASession
<1>12. QED BY <1>10, <1>11 DEF CopyTuple, t, v, n

LEMMA CopyCodeStep ==
  ASSUME ImmInv, session = "running", CopyCode PROVE ImmInv'
<1> DEFINE t == load.tuple  v == load.code  n == load.name
<1>1. load.step = "code" /\ UNCHANGED <<refs, interned>>
  BY DEF CopyCode
<1>2. HeapTypeOK /\ ObjectsAreThere /\ InternedAreOne /\ \A p \in Objects \cup Records : p \in All
  BY DEF ImmInv, All
<1>3. /\ load \in Loads /\ load # NoLoad /\ t \in Objects /\ v \in Objects /\ n \in All /\ t # n /\ t \in All /\ v \in All
      /\ Alive(n) /\ Alive(v) /\ load.result = NULL
      /\ \A p : Marshals(load, p) = One(p = t) + One(p = n) + One(p = v)
  <2>1. \A p : One(p = v /\ load.step # "end") = One(p = v)
    BY <1>1 DEF One
  <2>2. QED BY <1>1, <2>1, Reading
<1>4. PICK c \in Records \cup {NULL} : contents[v] = Code(c, n)
  BY <1>1, <1>3 DEF ImmInv, LoadIsOfCode
<1>5. Holds(contents[v]) = {c, n} \ {NULL} /\ contents[v] \in Things /\ contents[v] # NULL
  BY <1>2, <1>3, <1>4, WhatHolds
<1>6. \A p \in All : /\ refs[p] \in Nat /\ surplus[p] \in Nat /\ Refers(refs, contents, load, p) \in Nat
                     /\ Cardinality(Held(contents, p)) \in Nat /\ Marshals(load, p) \in Nat
                     /\ p \in Holds(contents[v]) => Refers(refs, contents, load, p) > 0
  <2>1. TAKE p \in All
  <2>2. refs[p] \in Nat /\ surplus[p] \in Nat /\ load \in Loads \cup {NoLoad}
    BY <1>2, <1>3, ImmortalsAssumption DEF HeapTypeOK
  <2>3. p \in Holds(contents[v]) => Held(contents, p) # {}
    BY <1>3 DEF Held
  <2>4. QED BY <2>2, <2>3, RefersType, MarshalsAre
<1>7. ASSUME load' \in Loads, load'.step = "end", load'.tuple = t, load'.code = v, load'.name = n, NEW p
      PROVE  Marshals(load', p) + One(p = v) = Marshals(load, p) /\ Marshals(load', p) \in Nat /\ One(p = v) \in Nat
  <2>1. Marshals(load', p) = One(p \in {t, n}) + One(p = v /\ load'.step # "end")
    BY <1>7, MarshalsAre
  <2>2. One(p \in {t, n}) = One(p = t) + One(p = n) /\ One(p = v /\ load'.step # "end") = 0
    BY <1>3, <1>7 DEF One
  <2>3. One(p = t) \in Nat /\ One(p = n) \in Nat /\ One(p = v) \in Nat
    BY DEF One
  <2>4. Marshals(load, p) = One(p = t) + One(p = n) + One(p = v)
    BY <1>3
  <2>5. QED BY <2>1, <2>2, <2>3, <2>4
<1> HIDE DEF t, v, n
<1>8. ASSUME NEW r \in Records, Copies(r), contents' = [contents EXCEPT ![r] = contents[v]],
             Count(Immortal(r), {n}, {v}), load' = [load EXCEPT !.step = "end", !.result = r], surplus' = surplus
      PROVE  ImmInv'
  <2>1. r \in Records \ records /\ records' = records \cup {r} /\ session' = session
    BY <1>8 DEF Copies, CanCreate
  <2>2. r \in All /\ r \notin Objects /\ contents[r] = NULL /\ ~Alive(r)
    BY <1>2, <2>1, RecordIsNew
  <2>3. /\ load' \in Loads /\ load' \in Loads \cup {NoLoad} /\ load'.step = "end" /\ load'.result = r
        /\ load'.tuple = t /\ load'.code = v /\ load'.name = n
    BY <1>3, <1>8 DEF Loads, t, v, n
  <2>4. /\ contents' \in [All -> Things \cup {NULL}] /\ contents'[r] = contents[v] /\ contents'[r] # NULL
        /\ \A p \in All \ {r} : contents'[p] = contents[p]
    BY <1>2, <1>5, <1>8, <2>2 DEF HeapTypeOK
  <2>5. ASSUME NEW p \in All
        PROVE  /\ Cardinality(Held(contents', p)) \in Nat /\ One(p \in Holds(contents[v])) \in Nat
               /\ Cardinality(Held(contents', p)) = Cardinality(Held(contents, p)) + One(p \in Holds(contents[v]))
    <3>1. SetAt(contents', contents, r)
      BY <2>4 DEF SetAt
    <3>2. /\ Cardinality(Held(contents', p)) \in Nat
          /\ Cardinality(Held(contents', p)) + One(p \in Holds(contents[r])) = Cardinality(Held(contents, p)) + One(p \in Holds(contents'[r]))
      BY <2>2, <3>1, Setting
    <3>3. Holds(contents[r]) = {}
      BY <2>2, WhatHolds
    <3>4. One(p \in Holds(contents[r])) = 0 /\ One(p \in Holds(contents'[r])) = One(p \in Holds(contents[v]))
          /\ One(p \in Holds(contents[v])) \in Nat
      BY <2>4, <3>3 DEF One
    <3>5. QED BY <1>6, <3>2, <3>4
  <2>6. ASSUME NEW p \in All
        PROVE  /\ Refers(refs', contents', load', p) + One(p = v) = Refers(refs, contents, load, p) + One(p \in Holds(contents[v]))
               /\ Refers(refs', contents', load', p) \in Nat /\ One(p \in Holds(contents[v])) \in Nat /\ One(p = v) \in Nat
    <3>1. Marshals(load', p) + One(p = v) = Marshals(load, p) /\ Marshals(load', p) \in Nat /\ One(p = v) \in Nat
      BY <1>7, <2>3
    <3>2. refs'[p] = refs[p]
      BY <1>1
    <3>3. QED BY <1>6, <2>5, <3>1, <3>2 DEF Refers
  <2>7. Balanced({n}, {v}, {})
    <3>1. SUFFICES ASSUME NEW p \in Objects
                   PROVE  Refers(refs', contents', load', p) + surplus'[p] + One(p \in {v})
                            = Refers(refs, contents, load, p) + surplus[p] + One(p \in {n})
      BY DEF Balanced
    <3>2. p \in Holds(contents[v]) <=> p \in {n}
      BY <1>2, <1>5, ImmortalsAssumption
    <3>3. One(p \in {v}) = One(p = v) /\ One(p \in {n}) = One(p \in Holds(contents[v]))
      BY <3>2 DEF One
    <3>4. surplus'[p] = surplus[p] /\ surplus[p] \in Nat /\ p \in All /\ Refers(refs, contents, load, p) \in Nat
      BY <1>2, <1>6, <1>8
    <3>5. QED BY <2>6, <3>3, <3>4
  <2>8. \A q \in Records \ {r} : Refers(refs', contents', load', q) > 0 => Alive(q)
    <3>1. TAKE q \in Records \ {r}
    <3>2. q \in All
      BY <1>2
    <3>3. q \notin Holds(contents[v]) => One(q \in Holds(contents[v])) = 0
      BY DEF One
    <3>4. Refers(refs', contents', load', q) > 0 => Refers(refs, contents, load, q) > 0
      BY <1>6, <2>6, <3>2, <3>3
    <3>5. QED BY <1>2, <3>2, <3>4 DEF ObjectsAreThere
  <2>9. refs' \in [All -> Nat] /\ surplus' \in [All -> Nat]
    BY <1>1, <1>2, <1>6, <1>8 DEF HeapTypeOK
  <2>10. ob_refcnt' \in [All -> 0 .. PALMDM_REFCNT] /\ ObjectsAreThere' /\ Alive(r)'
    <3>1. \A o \in {n} \cup {v} : o \in All /\ Alive(o)
      BY <1>3
    <3>2. \A o \in All \ {r} : contents'[o] # NULL <=> contents[o] # NULL
      BY <2>4
    <3>3. QED BY <1>2, <1>8, <2>1, <2>3, <2>4, <2>7, <2>8, <2>9, <3>1, <3>2, CopyCount
  <2>11. InternedAreOne'
    <3>1. \A q \in interned : q \in All \ {r}
      BY <1>2, <2>2 DEF InternedAreOne
    <3>2. QED BY <1>1, <1>2, <2>4, <2>10, <3>1, OthersStay
  <2>12. LoadIsOfCode'
    BY <1>3, <2>3, <2>10 DEF LoadIsOfCode
  <2>13. HeapTypeOK'
    BY <1>1, <1>2, <2>1, <2>3, <2>4, <2>9, <2>10 DEF HeapTypeOK
  <2>14. QED BY <2>1, <2>10, <2>11, <2>12, <2>13 DEF ImmInv, NothingOutsideASession
<1>9. ASSUME CopyFails, Count(Nothing, {n}, {}), load' = [load EXCEPT !.step = "end"],
             surplus' = [surplus EXCEPT ![n] = @ + 1, ![v] = @ + 1], contents' = contents
      PROVE  ImmInv'
  <2>1. records \subseteq records' /\ session' = session
    BY <1>2, <1>9, CopyFailed
  <2>2. /\ load' \in Loads /\ load' \in Loads \cup {NoLoad} /\ load'.step = "end" /\ load'.result = NULL
        /\ load'.tuple = t /\ load'.code = v /\ load'.name = n
    BY <1>3, <1>9 DEF Loads, t, v, n
  <2>3. surplus' \in [All -> Nat] /\ \A p \in All : surplus'[p] = surplus[p] + One(p = n) + One(p = v)
    <3>1. /\ surplus \in [All -> Nat] /\ n \in All /\ v \in All
          /\ surplus' = [surplus EXCEPT ![n] = @ + 1, ![v] = @ + 1]
      BY <1>2, <1>3, <1>9 DEF HeapTypeOK
    <3>2. surplus' \in [All -> Nat]
      BY <3>1
    <3>3. ASSUME NEW p \in All
          PROVE  surplus'[p] = surplus[p] + One(p = n) + One(p = v)
      <4>1. surplus[p] \in Nat
        BY <3>1
      <4>2. CASE p = n /\ p = v
        <5> DEFINE s == [surplus EXCEPT ![p] = @ + 1]
        <5>1. surplus' = [s EXCEPT ![p] = @ + 1]
          BY <3>1, <4>2
        <5>2. s \in [All -> Nat] /\ s[p] = surplus[p] + 1
          BY <3>1, <4>1
        <5> HIDE DEF s
        <5>3. surplus'[p] = surplus[p] + 1 + 1
          BY <5>1, <5>2
        <5>4. One(p = n) = 1 /\ One(p = v) = 1
          BY <4>2 DEF One
        <5>5. QED BY <4>1, <5>3, <5>4
      <4>3. CASE p = n /\ p # v
        BY <3>1, <4>1, <4>3 DEF One
      <4>4. CASE p # n /\ p = v
        BY <3>1, <4>1, <4>4 DEF One
      <4>5. CASE p # n /\ p # v
        BY <3>1, <4>1, <4>5 DEF One
      <4>6. QED BY <4>2, <4>3, <4>4, <4>5
    <3>4. QED BY <3>2, <3>3
  <2>4. ASSUME NEW p \in All
        PROVE  /\ Refers(refs', contents', load', p) + One(p = v) = Refers(refs, contents, load, p)
               /\ Refers(refs', contents', load', p) \in Nat /\ One(p = v) \in Nat
    <3>1. Marshals(load', p) + One(p = v) = Marshals(load, p) /\ Marshals(load', p) \in Nat /\ One(p = v) \in Nat
      BY <1>7, <2>2
    <3>2. refs'[p] = refs[p] /\ contents' = contents
      BY <1>1, <1>9
    <3>3. QED BY <1>6, <3>1, <3>2 DEF Refers
  <2>5. Balanced({n}, {}, {})
    <3>1. SUFFICES ASSUME NEW p \in Objects
                   PROVE  Refers(refs', contents', load', p) + surplus'[p] + One(p \in {})
                            = Refers(refs, contents, load, p) + surplus[p] + One(p \in {n})
      BY DEF Balanced
    <3>2. One(p \in {}) = 0 /\ One(p \in {n}) = One(p = n) /\ One(p = n) \in Nat
      BY DEF One
    <3>3. p \in All /\ surplus[p] \in Nat /\ surplus'[p] = surplus[p] + One(p = n) + One(p = v)
      BY <1>2, <1>6, <2>3
    <3>4. QED BY <2>4, <3>2, <3>3
  <2>6. \A r \in Records : Refers(refs', contents', load', r) > 0 => Alive(r)
    <3>1. \A r \in Records : Refers(refs', contents', load', r) > 0 => Refers(refs, contents, load, r) > 0
      BY <1>2, <2>4
    <3>2. QED BY <1>2, <3>1 DEF ObjectsAreThere
  <2>7. refs' \in [All -> Nat]
    BY <1>1, <1>2, <1>6 DEF HeapTypeOK
  <2>8. ob_refcnt' \in [All -> 0 .. PALMDM_REFCNT] /\ ObjectsAreThere'
    <3>1. \A o \in {n} \cup {} : o \in All /\ Alive(o)
      BY <1>3
    <3>2. QED BY <1>2, <1>9, <2>1, <2>2, <2>3, <2>5, <2>6, <2>7, <3>1, CountOnly
  <2>9. InternedAreOne'
    BY <1>1, <1>2, <1>9, <2>8, OthersStay
  <2>10. LoadIsOfCode'
    BY <1>3, <2>2 DEF LoadIsOfCode
  <2>11. HeapTypeOK'
    BY <1>1, <1>2, <1>9, <2>1, <2>2, <2>3, <2>8 DEF HeapTypeOK
  <2>12. QED BY <2>1, <2>8, <2>9, <2>10, <2>11 DEF ImmInv, NothingOutsideASession
<1>10. QED BY <1>8, <1>9 DEF CopyCode, t, v, n

LEMMA EndLoadStep ==
  ASSUME ImmInv, session = "running", EndLoad PROVE ImmInv'
<1> DEFINE t == load.tuple  n == load.name
<1>1. /\ load.step = "end" /\ dying = {} /\ Count(Nothing, {}, {t, n}) /\ load' = NoLoad
      /\ refs' = IF load.result = NULL THEN refs ELSE [refs EXCEPT ![load.result] = 1]
      /\ UNCHANGED <<session, records, contents, interned, surplus>>
  BY DEF EndLoad, dbVars
<1>2. HeapTypeOK /\ ObjectsAreThere /\ InternedAreOne /\ \A p \in Objects \cup Records : p \in All
  BY DEF ImmInv, All
<1>3. /\ load \in Loads /\ load # NoLoad /\ t \in All /\ n \in All /\ Alive(t) /\ Alive(n) /\ t # n
      /\ load.result \in Records \cup {NULL}
      /\ \A p : Marshals(load, p) = One(p = t) + One(p = n) + One(p = load.code /\ load.step # "end")
  BY <1>1, Reading
<1>4. load.result # NULL => Alive(load.result)
  BY <1>1, <1>3 DEF ImmInv, LoadIsOfCode
<1>5. refs' \in [All -> 0 .. MaxRefs] /\ refs' \in [All -> Nat] /\ \A p \in All : p # load.result => refs'[p] = refs[p]
  <2>1. refs \in [All -> 0 .. MaxRefs] /\ 1 \in 0 .. MaxRefs /\ \A k \in 0 .. MaxRefs : k \in Nat
    BY <1>2, ImmortalsAssumption DEF HeapTypeOK
  <2>2. CASE load.result = NULL
    BY <1>1, <2>1, <2>2
  <2>3. CASE load.result # NULL
    <3>1. refs' = [refs EXCEPT ![load.result] = 1]
      BY <1>1, <2>3
    <3>2. QED BY <2>1, <3>1
  <2>4. QED BY <2>2, <2>3
<1>6. ASSUME NEW p \in All
      PROVE  /\ Marshals(load', p) = 0 /\ Marshals(load, p) = One(p \in {t, n}) /\ One(p \in {t, n}) \in Nat
             /\ refs[p] \in Nat /\ Cardinality(Held(contents, p)) \in Nat /\ surplus[p] \in Nat
             /\ Refers(refs, contents, load, p) \in Nat
  <2>1. One(p = t) + One(p = n) + One(p = load.code /\ load.step # "end") = One(p \in {t, n}) /\ One(p \in {t, n}) \in Nat
    BY <1>1, <1>3 DEF One
  <2>2. Marshals(load', p) = 0
    BY <1>1 DEF Marshals
  <2>3. refs[p] \in Nat /\ surplus[p] \in Nat /\ load \in Loads \cup {NoLoad}
    BY <1>2, ImmortalsAssumption DEF HeapTypeOK
  <2>4. Marshals(load, p) = One(p = t) + One(p = n) + One(p = load.code /\ load.step # "end")
    BY <1>3
  <2>5. QED BY <2>1, <2>2, <2>3, <2>4, RefersType
<1>7. ASSUME NEW p \in All, p # load.result
      PROVE  Refers(refs', contents', load', p) + One(p \in {t, n}) = Refers(refs, contents, load, p)
  <2>1. refs'[p] = refs[p] /\ contents' = contents
    BY <1>1, <1>5, <1>7
  <2>2. QED BY <1>6, <2>1 DEF Refers
<1> HIDE DEF t, n
<1>8. Balanced({}, {t, n}, {})
  <2>1. SUFFICES ASSUME NEW p \in Objects
                 PROVE  Refers(refs', contents', load', p) + surplus'[p] + One(p \in {t, n})
                          = Refers(refs, contents, load, p) + surplus[p] + One(p \in {})
    BY DEF Balanced
  <2>2. One(p \in {}) = 0
    BY DEF One
  <2>3. p \in All /\ p # load.result /\ surplus'[p] = surplus[p] /\ surplus[p] \in Nat
    BY <1>1, <1>2, <1>3, <1>6, ImmortalsAssumption
  <2>4. Refers(refs', contents', load', p) \in Nat /\ Refers(refs, contents, load, p) \in Nat /\ One(p \in {t, n}) \in Nat
    BY <1>1, <1>5, <1>6, <2>3, RefersType
  <2>5. QED BY <1>7, <2>2, <2>3, <2>4
<1>9. \A r \in Records : Refers(refs', contents', load', r) > 0 => Alive(r)
  <2>1. TAKE r \in Records
  <2>2. r \in All
    BY <1>2
  <2>3. CASE r = load.result
    BY <1>3, <1>4, <2>2, <2>3, WhatHolds
  <2>4. CASE r # load.result
    <3>1. Refers(refs', contents', load', r) \in Nat
      BY <1>1, <1>5, <2>2, RefersType
    <3>2. Refers(refs', contents', load', r) > 0 => Refers(refs, contents, load, r) > 0
      BY <1>6, <1>7, <2>2, <2>4, <3>1
    <3>3. QED BY <1>2, <2>2, <3>2 DEF ObjectsAreThere
  <2>5. QED BY <2>3, <2>4
<1>10. ob_refcnt' \in [All -> 0 .. PALMDM_REFCNT] /\ ObjectsAreThere'
  <2>1. \A o \in {} \cup {t, n} : o \in All /\ Alive(o)
    BY <1>3
  <2>2. contents' = contents /\ records \subseteq records' /\ load' \in Loads \cup {NoLoad} /\ surplus' \in [All -> Nat]
    BY <1>1, <1>2 DEF HeapTypeOK
  <2>3. QED BY <1>1, <1>2, <1>5, <1>8, <1>9, <2>1, <2>2, CountOnly
<1>11. InternedAreOne'
  BY <1>1, <1>2, <1>10, OthersStay
<1>12. QED BY <1>1, <1>2, <1>5, <1>10, <1>11 DEF ImmInv, HeapTypeOK, LoadIsOfCode, NothingOutsideASession

LEMMA DeallocStep ==
  ASSUME ImmInv, NEW o \in All, _Py_Dealloc(o) PROVE ImmInv'
<1> DEFINE down == Holds(contents[o])
<1>1. /\ o \in dying /\ session = "running"
      /\ ob_refcnt' = [x \in All |-> IF x \in down /\ Counts(x) THEN ob_refcnt[x] - 1 ELSE ob_refcnt[x]]
      /\ dying' = (dying \ {o}) \cup {x \in down : ob_refcnt[x] = 1}
      /\ contents' = [contents EXCEPT ![o] = NULL]
      /\ UNCHANGED <<session, records, refs, interned, load, surplus>>
  BY DEF _Py_Dealloc, dbVars
<1>2. HeapTypeOK /\ ObjectsAreThere /\ InternedAreOne /\ \A p \in Objects \cup Records : p \in All
  BY DEF ImmInv, All
<1>3. /\ o \in Objects /\ ob_refcnt[o] = 0 /\ contents[o] \in Things /\ down \subseteq All
      /\ PALMDM_REFCNT \in Nat /\ PALMDM_REFCNT > 1
  <2>1. o \in Objects /\ ob_refcnt[o] = 0 /\ contents[o] \in Things /\ PALMDM_REFCNT \in Nat /\ PALMDM_REFCNT > 1
    BY <1>1, <1>2, ImmortalsAssumption DEF ObjectsAreThere, HeapTypeOK
  <2>2. QED BY <2>1, ThingsAre
<1>4. /\ contents' \in [All -> Things \cup {NULL}] /\ contents'[o] = NULL /\ \A p \in All \ {o} : contents'[p] = contents[p]
  BY <1>1, <1>2 DEF HeapTypeOK
<1>5. ASSUME NEW p \in All
      PROVE  /\ refs[p] \in Nat /\ surplus[p] \in Nat /\ Refers(refs, contents, load, p) \in Nat
             /\ Cardinality(Held(contents, p)) \in Nat /\ Marshals(load, p) \in Nat
             /\ ob_refcnt[p] \in 0 .. PALMDM_REFCNT
             /\ p \in down => Refers(refs, contents, load, p) > 0 /\ ob_refcnt[p] > 0
  <2>1. refs[p] \in Nat /\ surplus[p] \in Nat /\ load \in Loads \cup {NoLoad} /\ ob_refcnt[p] \in 0 .. PALMDM_REFCNT
    BY <1>2, ImmortalsAssumption DEF HeapTypeOK
  <2>2. p \in down => Held(contents, p) # {}
    BY DEF Held
  <2>3. /\ Refers(refs, contents, load, p) \in Nat /\ Cardinality(Held(contents, p)) \in Nat /\ Marshals(load, p) \in Nat
        /\ p \in down => Refers(refs, contents, load, p) > 0
    BY <2>1, <2>2, RefersType, MarshalsAre
  <2>4. QED BY <1>2, <2>1, <2>3 DEF ObjectsAreThere, Alive
<1> HIDE DEF down
<1>6. o \notin down
  BY <1>3, <1>5
<1>7. ASSUME NEW p \in All
      PROVE  /\ Refers(refs', contents', load', p) + One(p \in down) = Refers(refs, contents, load, p)
             /\ Refers(refs', contents', load', p) \in Nat /\ One(p \in down) \in Nat
  <2>1. SetAt(contents', contents, o)
    BY <1>4 DEF SetAt
  <2>2. /\ Cardinality(Held(contents', p)) \in Nat
        /\ Cardinality(Held(contents', p)) + One(p \in Holds(contents[o])) = Cardinality(Held(contents, p)) + One(p \in Holds(contents'[o]))
    BY <2>1, Setting
  <2>3. Holds(contents'[o]) = {}
    BY <1>4, WhatHolds
  <2>4. One(p \in Holds(contents'[o])) = 0 /\ One(p \in Holds(contents[o])) = One(p \in down) /\ One(p \in down) \in Nat
    BY <2>3 DEF One, down
  <2>5. refs' = refs /\ load' = load
    BY <1>1
  <2>6. QED BY <1>5, <2>2, <2>4, <2>5 DEF Refers
<1>8. ASSUME NEW p \in All
      PROVE  /\ p \in down /\ Counts(p) => ob_refcnt'[p] = ob_refcnt[p] - 1 /\ ob_refcnt[p] > 0 /\ ob_refcnt'[p] # PALMDM_REFCNT
             /\ p \notin down \/ ~Counts(p) => ob_refcnt'[p] = ob_refcnt[p]
             /\ ob_refcnt'[p] \in 0 .. PALMDM_REFCNT
  BY <1>1, <1>3, <1>5
<1>9. ob_refcnt' \in [All -> 0 .. PALMDM_REFCNT]
  BY <1>1, <1>8
<1>10. ASSUME NEW r \in Records, Alive(r) PROVE ~Counts(r) /\ ob_refcnt'[r] = PALMDM_REFCNT
  BY <1>2, <1>8, <1>10 DEF ObjectsAreThere, Counts
<1>11. ASSUME NEW p \in dying' PROVE p \in Objects /\ ob_refcnt'[p] = 0
  <2>1. CASE p \in dying
    <3>1. p \in Objects /\ p \in All /\ ob_refcnt[p] = 0
      BY <1>2, <2>1 DEF ObjectsAreThere
    <3>2. p \notin down
      BY <1>5, <3>1
    <3>3. QED BY <1>8, <3>1, <3>2
  <2>2. CASE p \in down /\ ob_refcnt[p] = 1
    <3>1. p \in All /\ Counts(p) /\ Alive(p)
      BY <1>3, <2>2 DEF Counts, Alive
    <3>2. p \notin Records
      BY <1>10, <3>1
    <3>3. QED BY <1>8, <2>2, <3>1, <3>2 DEF All
  <2>3. QED BY <1>1, <1>11, <2>1, <2>2
<1>12. ASSUME NEW p \in All PROVE contents'[p] # NULL <=> ob_refcnt'[p] > 0 \/ p \in dying'
  <2>1. CASE p = o
    BY <1>1, <1>3, <1>4, <1>6, <1>8, <2>1
  <2>2. CASE p # o
    <3>1. contents'[p] # NULL <=> ob_refcnt[p] > 0 \/ p \in dying
      BY <1>2, <1>4, <2>2 DEF ObjectsAreThere, Alive
    <3>2. CASE p \in down /\ Counts(p)
      BY <1>1, <1>5, <1>8, <3>1, <3>2
    <3>3. CASE p \notin down
      BY <1>1, <1>8, <2>2, <3>1, <3>3
    <3>4. CASE ~Counts(p)
      <4>1. ob_refcnt[p] = PALMDM_REFCNT
        BY <3>4 DEF Counts
      <4>2. QED BY <1>3, <1>8, <3>1, <3>4, <4>1
    <3>5. QED BY <3>2, <3>3, <3>4
  <2>3. QED BY <2>1, <2>2
<1>13. ASSUME NEW p \in Objects, ob_refcnt'[p] # PALMDM_REFCNT
       PROVE  ob_refcnt'[p] = Refers(refs', contents', load', p) + surplus'[p]
  <2>1. p \in All /\ Counts(p)
    BY <1>2, <1>8, <1>13 DEF Counts
  <2>2. ob_refcnt[p] = Refers(refs, contents, load, p) + surplus[p] /\ surplus'[p] = surplus[p]
    BY <1>1, <1>2, <2>1 DEF ObjectsAreThere
  <2>3. ob_refcnt'[p] = ob_refcnt[p] - One(p \in down)
    BY <1>8, <2>1, <1>5 DEF One
  <2>4. QED BY <1>5, <1>7, <2>1, <2>2, <2>3
<1>14. ASSUME NEW p \in All, Refers(refs', contents', load', p) > 0 PROVE ob_refcnt'[p] > 0
  <2>1. CASE p \in Objects
    <3>1. surplus'[p] = surplus[p]
      BY <1>1
    <3>2. QED BY <1>3, <1>5, <1>7, <1>13, <1>14, <2>1, <3>1
  <2>2. CASE p \in Records
    <3>1. Refers(refs, contents, load, p) > 0
      BY <1>5, <1>7, <1>14
    <3>2. QED BY <1>2, <1>3, <1>10, <2>2, <3>1 DEF ObjectsAreThere
  <2>3. QED BY <2>1, <2>2 DEF All
<1>15. ASSUME NEW r \in Records, ob_refcnt'[r] > 0 PROVE r \in records' /\ ob_refcnt'[r] = PALMDM_REFCNT
  <2>1. Alive(r)
    BY <1>2, <1>5, <1>8, <1>15 DEF Alive
  <2>2. QED BY <1>1, <1>2, <1>10, <2>1 DEF ObjectsAreThere
<1>16. ObjectsAreThere'
  BY <1>11, <1>12, <1>13, <1>14, <1>15 DEF ObjectsAreThere, Alive, Counts
<1>17. InternedAreOne'
  <2>1. \A r \in interned : r \in All \ {o}
    BY <1>2, <1>3, ImmortalsAssumption DEF InternedAreOne
  <2>2. QED BY <1>1, <1>2, <1>4, <1>16, <2>1, OthersStay
<1>18. LoadIsOfCode'
  <2>1. CASE load = NoLoad
    BY <1>1, <2>1 DEF LoadIsOfCode
  <2>2. CASE load # NoLoad
    <3>1. load.step \in {"tuple", "code", "end"}
      BY <1>2, <2>2 DEF HeapTypeOK, Loads
    <3>2. /\ load.tuple \in All /\ load.code \in All /\ Alive(load.tuple) /\ (load.step # "end" => Alive(load.code))
          /\ load.result \in Records \cup {NULL}
      BY <3>1, Reading
    <3>3. load.tuple # o /\ (load.step # "end" => load.code # o)
      BY <1>3, <3>2 DEF Alive
    <3>4. contents'[load.tuple] = contents[load.tuple] /\ (load.step # "end" => contents'[load.code] = contents[load.code])
      BY <1>4, <3>2, <3>3
    <3>5. ASSUME load.step = "end", load.result # NULL PROVE Alive(load.result)'
      <4>1. load.result \in Records /\ Alive(load.result)
        BY <2>2, <3>2, <3>5 DEF ImmInv, LoadIsOfCode
      <4>2. ob_refcnt'[load.result] > 0
        BY <1>3, <1>10, <4>1
      <4>3. QED BY <1>1, <4>2 DEF Alive
    <3>6. QED BY <1>1, <2>2, <3>4, <3>5 DEF ImmInv, LoadIsOfCode
  <2>3. QED BY <2>1, <2>2
<1>19. QED BY <1>1, <1>2, <1>4, <1>9, <1>16, <1>17, <1>18 DEF ImmInv, HeapTypeOK, NothingOutsideASession

(* Nothing is there at the start, and nothing after the end. *)
LEMMA NothingIsReferred ==
  ASSUME NEW rf, NEW cs, NEW o \in All, \A p \in All : rf[p] = 0 /\ cs[p] = NULL
  PROVE  Refers(rf, cs, NoLoad, o) = 0
<1>1. Held(cs, o) = {}
  BY WhatHolds DEF Held
<1>2. Cardinality(Held(cs, o)) = 0
  <2>1. Cardinality({}) = 0
    BY FS_EmptySet
  <2>2. QED BY <1>1, <2>1, Zenon
<1>3. Marshals(NoLoad, o) = 0
  BY DEF Marshals
<1>4. QED BY <1>2, <1>3 DEF Refers

LEMMA ImmStart == ASSUME ImmInit PROVE ImmInv
<1>1. /\ ob_refcnt = [o \in All |-> 0] /\ contents = [o \in All |-> NULL] /\ refs = [o \in All |-> 0] /\ dying = {}
      /\ surplus = [o \in All |-> 0] /\ interned = {} /\ load = NoLoad /\ session = "off"
  BY DEF ImmInit, DbInit
<1>2. \A o \in All : Refers(refs, contents, load, o) = 0
  BY <1>1, NothingIsReferred
<1>3. \A o \in All : contents[o] = NULL /\ ob_refcnt[o] = 0 /\ surplus[o] = 0
  BY <1>1
<1>4. ObjectsAreThere
  <2>1. \A o \in Objects \cup Records : o \in All
    BY DEF All
  <2>2. QED BY <1>1, <1>2, <1>3, <2>1 DEF ObjectsAreThere, Alive
<1>5. HeapTypeOK
  BY <1>1, ImmortalsAssumption DEF HeapTypeOK
<1>6. QED BY <1>1, <1>3, <1>4, <1>5 DEF ImmInv, LoadIsOfCode, InternedAreOne, NothingOutsideASession

LEMMA ForgetStep == ASSUME ImmInv, Forget PROVE ImmInv'
<1>1. /\ ob_refcnt' = [o \in All |-> 0] /\ contents' = [o \in All |-> NULL] /\ refs' = [o \in All |-> 0] /\ dying' = {}
      /\ surplus' = [o \in All |-> 0] /\ interned' = {} /\ load' = NoLoad /\ session' \in {"closing", "off"}
  BY DEF Forget, Empty, Finalize, Reset
<1>2. \A o \in All : Refers(refs', contents', load', o) = 0
  BY <1>1, NothingIsReferred
<1>3. \A o \in All : contents'[o] = NULL /\ ob_refcnt'[o] = 0 /\ surplus'[o] = 0
  BY <1>1
<1>4. ObjectsAreThere'
  <2>1. \A o \in Objects \cup Records : o \in All
    BY DEF All
  <2>2. QED BY <1>1, <1>2, <1>3, <2>1 DEF ObjectsAreThere, Alive
<1>5. HeapTypeOK'
  BY <1>1, ImmortalsAssumption DEF HeapTypeOK
<1>6. QED BY <1>1, <1>3, <1>4, <1>5 DEF ImmInv, LoadIsOfCode, InternedAreOne, NothingOutsideASession

LEMMA SessionStep == ASSUME ImmInv, Session PROVE ImmInv'
<1>1. /\ session # "running" /\ session' \in {"off", "creating", "opening", "running", "closing", "deleting"}
      /\ UNCHANGED <<ob_refcnt, contents, refs, dying, surplus, interned, load>>
  BY DEF Session, InitSteps, FiniSteps, Launch, CreateDatabase, OpenDatabase, InitFails, CloseDatabase, DeleteDatabase,
         heapVars, ImmInv, HeapTypeOK
<1>2. load = NoLoad /\ dying = {} /\ (\A o \in All : ob_refcnt[o] = 0) /\ \A r \in Records : r \in All
  BY <1>1 DEF ImmInv, NothingOutsideASession, All
<1>3. ObjectsAreThere'
  BY <1>1, <1>2 DEF ImmInv, ObjectsAreThere, Alive, Counts
<1>4. QED BY <1>1, <1>2, <1>3 DEF ImmInv, HeapTypeOK, LoadIsOfCode, InternedAreOne, NothingOutsideASession, Alive

LEMMA ImmStep == ASSUME ImmInv, [ImmNext]_immVars PROVE ImmInv'
<1>1. CASE UNCHANGED immVars
  <2>1. UNCHANGED <<session, records, ob_refcnt, contents, refs, dying, surplus, interned, load>>
    BY <1>1 DEF immVars, dbVars, heapVars
  <2>2. QED BY <2>1 DEF ImmInv, HeapTypeOK, ObjectsAreThere, LoadIsOfCode, InternedAreOne, NothingOutsideASession, Alive, Counts
<1>2. CASE Forget
  BY <1>2, ForgetStep
<1>3. CASE Session
  BY <1>3, SessionStep
<1>4. CASE Load
  BY <1>4, CopyTupleStep, CopyCodeStep, EndLoadStep DEF Load
<1>5. ASSUME NEW o \in All, _Py_Dealloc(o) \/ Duplicate(o) \/ Release(o) \/ PyString_InternInPlace(o) PROVE ImmInv'
  BY <1>5, DeallocStep, DuplicateStep, ReleaseStep, InternStep
<1>6. ASSUME NEW o \in Objects, NEW x \in Texts, NewString(o, x) PROVE ImmInv'
  BY <1>6, NewStringStep
<1>7. ASSUME NEW t \in Objects, NEW v \in Objects, NEW i \in All, NEW n \in All, ReadCode(t, v, i, n) PROVE ImmInv'
  BY <1>7, ReadStep
<1>8. QED BY <1>1, <1>2, <1>3, <1>4, <1>5, <1>6, <1>7 DEF ImmNext

(* What Py_INCREF and Py_DECREF count is what refers to an object, and     *)
(* what PyString_InternInPlace and marshal put in records stays there      *)
(* while it is referred to, for any heap, database and PALMDM_REFCNT and   *)
(* wherever a copy fails.                                                  *)
THEOREM NothingReferredIsFreed == ImmSpec => []ReferencesAreCounted
<1>1. ImmInv => ReferencesAreCounted
  <2>1. ASSUME ImmInv PROVE ReferencesAreCounted
    <3>1. \A o : ReferencesOf(o) = Refers(refs, contents, load, o)
      BY DEF ReferencesOf, Refers, OfMarshal, Marshals, Held
    <3>2. load.step \in {"none", "tuple", "code", "end"}
      BY <2>1 DEF ImmInv, HeapTypeOK, Loads, NoLoad
    <3>3. \A o \in All : Holds(contents[o]) \subseteq All
      BY <2>1, ThingsAre, WhatHolds DEF ImmInv, HeapTypeOK
    <3>4. ImmTypeOK
      BY <2>1, <3>2, <3>3 DEF ImmTypeOK, ImmInv, HeapTypeOK, ObjectsAreThere, InternedAreOne, All
    <3>5. \A r \in Records : Alive(r) => r \in records /\ contents[r] # NULL
      BY <2>1 DEF ImmInv, ObjectsAreThere, All
    <3>6. dying \cap Records = {}
      BY <2>1, ImmortalsAssumption DEF ImmInv, ObjectsAreThere
    <3>7. /\ \A o \in Objects : Counts(o) => ob_refcnt[o] = ReferencesOf(o) + surplus[o]
          /\ \A o \in All : ReferencesOf(o) > 0 => Alive(o)
      BY <2>1, <3>1 DEF ImmInv, ObjectsAreThere
    <3>8. \A r, t \in interned : contents[r] = contents[t] => r = t
      BY <2>1 DEF ImmInv, InternedAreOne
    <3>9. QED BY <3>4, <3>5, <3>6, <3>7, <3>8 DEF ReferencesAreCounted
  <2>2. QED BY <2>1
<1>2. QED
  <2>1. ImmInit => ImmInv
    BY ImmStart
  <2>2. ImmInv /\ [ImmNext]_immVars => ImmInv'
    BY ImmStep
  <2>3. QED BY <1>1, <2>1, <2>2, PTL DEF ImmSpec

-----------------------------------------------------------------------------
(* FrozenModules *)

(* The entries of the sources that were cached. *)
NamesIn(s) == IF s = "db" THEN dbNames ELSE resNames
Places(s) == {<<s, k>> : k \in DOMAIN NamesIn(s)}
PlacesOf(sources) == UNION {Places(s) : s \in sources}

(* The cache has an entry for each place of what was cached, and no other. *)
CacheEntry == [name : ToSet(dbNames) \cup ToSet(resNames), entry : PlacesOf({"db", "res"}), used : BOOLEAN]
CacheIsOf(list, sources) ==
  /\ list \in Seq(CacheEntry)
  /\ \A k \in DOMAIN list : list[k].entry \in PlacesOf(sources) /\ list[k].name = NameOf(list[k].entry)
  /\ \A e \in PlacesOf(sources) : \E k \in DOMAIN list : list[k].entry = e
  /\ \A j, k \in DOMAIN list : list[j].entry = list[k].entry => j = k

UsedIsCode(list, codes) == \A k \in DOMAIN list : list[k].used <=> list[k].entry \in ToSet(codes)

CacheThere(list, sources, codes, held) ==
  /\ CacheIsOf(list, sources) /\ UsedIsCode(list, codes)
  /\ \A e \in Entries : held[e] = IF e \in PlacesOf(sources) THEN 1 ELSE 0

(* Until cleanupCache. *)
CacheIsThere == stage \in {"open", "db", "res"} => CacheThere(all, cached, code, modLocks)

(* The places of the table before n have been looked for. *)
CodeFound(codes, n, sources) ==
  \A i \in DOMAIN Table :
    /\ i >= n => codes[i] = NoCode
    /\ i < n /\ Available(Table[i]) => codes[i] # NoCode
    /\ codes[i] # NoCode => codes[i] \in PlacesOf(sources) /\ NameOf(codes[i]) = Table[i] /\ Available(Table[i])
CodeIsFound == CodeFound(code, next, cached)

SearchInOrder ==
  /\ stage = "open" => cached = {} /\ all = <<>> /\ next = 1
  /\ "db" \in cached => search_db
  /\ stage = "res" => next <= Len(Table) /\ (search_db => "db" \in cached)
  /\ stage = "res" /\ search_db => Table[next] \notin ToSet(dbNames)
  /\ stage \in {"run", "ended"} => next > Len(Table)

FrozenTypeOK ==
  /\ stage \in {"open", "db", "res", "run", "ended"}
  /\ dbNames \in Contents /\ resNames \in Contents /\ search_db \in BOOLEAN
  /\ cached \subseteq {"db", "res"} /\ next \in 1 .. Len(Table) + 1
  /\ code \in [DOMAIN Table -> Entries \cup {NoCode}]
  /\ modLocks \in [Entries -> Nat]

FrozenInv == FrozenTypeOK /\ SearchInOrder /\ CodeIsFound /\ CacheIsThere /\ CodeStaysLocked

(* A set of numbers that is not empty has a least one. *)
LEMMA LeastOne ==
  ASSUME NEW S \in SUBSET Nat, S # {} PROVE \E k \in S : \A j \in S : k <= j
<1> DEFINE R == OpToRel(<, Nat)
<1>1. IsWellFoundedOn(R, Nat)
  BY NatLessThanWellFounded
<1>2. \A x, y \in Nat : x < y => <<x, y>> \in R
  BY DEF OpToRel
<1> HIDE DEF R
<1>3. PICK k \in S : \A j \in S : ~ (<<j, k>> \in R)
  BY <1>1, WFMin
<1>4. ASSUME NEW j \in S PROVE k <= j
  <2>1. j \in Nat /\ k \in Nat /\ ~ (<<j, k>> \in R)
    BY <1>3
  <2>2. ~ (j < k)
    BY <1>2, <2>1
  <2>3. QED BY <2>1, <2>2
<1>5. QED BY <1>3, <1>4

(* The sequences of names have lengths, and their places are entries. *)
LEMMA NamesAre ==
  ASSUME dbNames \in Contents, resNames \in Contents, NEW s \in {"db", "res"}
  PROVE  /\ NamesIn(s) \in Seq(ToSet(NamesIn(s))) /\ Len(NamesIn(s)) \in Nat /\ DOMAIN NamesIn(s) = 1 .. Len(NamesIn(s))
         /\ \A k \in DOMAIN NamesIn(s) : NamesIn(s)[k] \in ToSet(dbNames) \cup ToSet(resNames)
         /\ DOMAIN NamesIn(s) \subseteq 1 .. Len(dbNames) + Len(resNames)
<1>1. dbNames \in Seq(ToSet(dbNames)) /\ resNames \in Seq(ToSet(resNames))
  BY FrozenAssumption
<1>2. /\ Len(dbNames) \in Nat /\ DOMAIN dbNames = 1 .. Len(dbNames)
      /\ Len(resNames) \in Nat /\ DOMAIN resNames = 1 .. Len(resNames)
  BY <1>1, LenProperties
<1>3. CASE s = "db"
  BY <1>1, <1>2, <1>3 DEF NamesIn, ToSet
<1>4. CASE s = "res"
  BY <1>1, <1>2, <1>4 DEF NamesIn, ToSet
<1>5. QED BY <1>3, <1>4

LEMMA PlacesAre ==
  ASSUME dbNames \in Contents, resNames \in Contents, NEW s \in {"db", "res"}
  PROVE  /\ Places(s) \subseteq Entries /\ NoCode \notin Entries
         /\ \A k \in DOMAIN NamesIn(s) : NameOf(<<s, k>>) = NamesIn(s)[k]
         /\ \A e \in Places(s) : e = <<s, e[2]>> /\ e[1] = s /\ e[2] \in DOMAIN NamesIn(s) /\ NameOf(e) \in ToSet(NamesIn(s))
<1>1. Places(s) \subseteq Entries
  BY NamesAre DEF Places, Entries
<1>2. \A e \in Entries : e \in {"db", "res"} \X Nat
  <2>1. Len(dbNames) \in Nat /\ Len(resNames) \in Nat
    BY NamesAre DEF NamesIn
  <2>2. QED BY <2>1 DEF Entries
<1>3. \A k \in DOMAIN NamesIn(s) : NameOf(<<s, k>>) = NamesIn(s)[k]
  BY DEF NameOf, NamesIn
<1>4. ASSUME NEW e \in Places(s)
      PROVE  e = <<s, e[2]>> /\ e[1] = s /\ e[2] \in DOMAIN NamesIn(s) /\ NameOf(e) \in ToSet(NamesIn(s))
  <2>1. PICK k \in DOMAIN NamesIn(s) : e = <<s, k>>
    BY DEF Places
  <2>2. QED BY <1>3, <2>1 DEF ToSet
<1>5. QED BY <1>1, <1>2, <1>3, <1>4, FrozenAssumption

LEMMA FirstIsFound ==
  ASSUME NEW S, NEW list \in Seq(S), NEW name, Found(list, name) # {}
  PROVE  First(list, name) \in Found(list, name)
<1>1. Found(list, name) \in SUBSET Nat
  BY LenProperties DEF Found
<1>2. \E k \in Found(list, name) : \A j \in Found(list, name) : k <= j
  BY <1>1, LeastOne
<1>3. QED BY <1>2 DEF First

(* The caches of one source and of none. *)
Row(s, names, k) == [name |-> names[k], entry |-> <<s, k>>, used |-> FALSE]

LEMMA ListedRows ==
  ASSUME NEW s, NEW S, NEW names \in Seq(S)
  PROVE  /\ Listed(s, names) = [i \in 1 .. Len(names) |-> Row(s, names, (Len(names) - i) + 1)]
         /\ Len(names) \in Nat
<1> DEFINE n == Len(names)
           seq == [k \in 1 .. n |-> Row(s, names, k)]
<1>1. n \in Nat /\ DOMAIN names = 1 .. n
  BY LenProperties
<1>2. Listed(s, names) = Reverse(seq)
  BY <1>1 DEF Listed, Row
<1> HIDE DEF n
<1> DEFINE T == {Row(s, names, k) : k \in 1 .. n}
<1>3. seq \in [1 .. n -> T] /\ \A i \in 1 .. n : seq[i] = Row(s, names, i)
  OBVIOUS
<1> HIDE DEF seq, T
<1>4. seq \in Seq(T) /\ Len(seq) = n
  BY <1>1, <1>3
<1>5. \A i \in 1 .. n : (n - i) + 1 \in 1 .. n
  BY <1>1
<1>6. Reverse(seq) = [i \in 1 .. n |-> seq[(n - i) + 1]]
  BY <1>4 DEF Reverse
<1>7. \A i \in 1 .. n : seq[(n - i) + 1] = Row(s, names, (n - i) + 1)
  BY <1>3, <1>5
<1>8. [i \in 1 .. n |-> seq[(n - i) + 1]] = [i \in 1 .. n |-> Row(s, names, (n - i) + 1)]
  BY <1>7
<1>9. QED BY <1>1, <1>2, <1>6, <1>8 DEF n

LEMMA ListedIsTheSource ==
  ASSUME dbNames \in Contents, resNames \in Contents, NEW s \in {"db", "res"}
  PROVE  /\ CacheIsOf(Listed(s, NamesIn(s)), {s})
         /\ \A k \in DOMAIN Listed(s, NamesIn(s)) : Listed(s, NamesIn(s))[k].used = FALSE
<1> DEFINE names == NamesIn(s)  n == Len(names)  list == Listed(s, names)
<1>1. /\ n \in Nat /\ DOMAIN names = 1 .. n
      /\ \A k \in 1 .. n : names[k] \in ToSet(dbNames) \cup ToSet(resNames)
  BY NamesAre
<1>2. list = [i \in 1 .. n |-> Row(s, names, (n - i) + 1)]
  BY NamesAre, ListedRows
<1> HIDE DEF n, list, names
<1>3. \A i \in 1 .. n : (n - i) + 1 \in 1 .. n
  BY <1>1
<1>4. \A i \in 1 .. n : list[i] = Row(s, names, (n - i) + 1)
  BY <1>2
<1>5. PlacesOf({s}) = Places(s) /\ Places(s) = {<<s, k>> : k \in 1 .. n} /\ Places(s) \subseteq PlacesOf({"db", "res"})
  BY <1>1 DEF PlacesOf, Places, names, n
<1>6. DOMAIN list = 1 .. n
  BY <1>2
<1>7. list \in Seq(CacheEntry)
  <2>1. ASSUME NEW i \in 1 .. n PROVE Row(s, names, (n - i) + 1) \in CacheEntry
    <3>1. PICK k \in 1 .. n : k = (n - i) + 1
      BY <1>3
    <3>2. <<s, k>> \in PlacesOf({"db", "res"}) /\ names[k] \in ToSet(dbNames) \cup ToSet(resNames)
      BY <1>1, <1>5
    <3>3. QED BY <3>1, <3>2 DEF Row, CacheEntry
  <2>2. QED BY <1>1, <1>2, <2>1
<1>8. ASSUME NEW i \in 1 .. n
      PROVE  list[i].entry = <<s, (n - i) + 1>> /\ list[i].name = names[(n - i) + 1] /\ list[i].used = FALSE
  <2>1. list[i] = Row(s, names, (n - i) + 1)
    BY <1>4
  <2>2. QED BY <2>1 DEF Row
<1>9. ASSUME NEW i \in 1 .. n PROVE list[i].entry \in PlacesOf({s}) /\ list[i].name = NameOf(list[i].entry)
  <2>1. PICK k \in 1 .. n : k = (n - i) + 1
    BY <1>3
  <2>2. list[i].entry = <<s, k>> /\ list[i].name = names[k]
    BY <1>8, <2>1
  <2>3. NameOf(<<s, k>>) = names[k]
    BY <1>1, PlacesAre DEF names
  <2>4. QED BY <1>5, <2>2, <2>3
<1>10. \A e \in PlacesOf({s}) : \E k \in 1 .. n : list[k].entry = e
  <2>1. TAKE e \in PlacesOf({s})
  <2>2. PICK k \in 1 .. n : e = <<s, k>>
    BY <1>5
  <2>3. (n - k) + 1 \in 1 .. n /\ (n - ((n - k) + 1)) + 1 = k
    BY <1>1
  <2>4. QED BY <1>8, <2>2, <2>3
<1>11. ASSUME NEW i \in 1 .. n, NEW j \in 1 .. n, list[i].entry = list[j].entry PROVE i = j
  <2>1. (n - i) + 1 = (n - j) + 1
    <3>1. <<s, (n - i) + 1>> = <<s, (n - j) + 1>>
      BY <1>8, <1>11
    <3>2. QED BY <3>1
  <2>2. QED BY <1>1, <2>1
<1>12. QED BY <1>6, <1>7, <1>8, <1>9, <1>10, <1>11 DEF CacheIsOf, list, names

LEMMA SourceIs ==
  ASSUME dbNames \in Contents, resNames \in Contents, NEW s \in {"db", "res"}
  PROVE  /\ CacheIsOf(Source(s), {s} \ cached)
         /\ \A k \in DOMAIN Source(s) : Source(s)[k].used = FALSE
<1>1. CASE s \in cached
  <2>1. Source(s) = <<>> /\ PlacesOf({s} \ cached) = {} /\ <<>> \in Seq(CacheEntry) /\ DOMAIN Source(s) = {}
    BY <1>1 DEF Source, PlacesOf
  <2>2. QED BY <2>1 DEF CacheIsOf
<1>2. CASE s \notin cached
  <2>1. Source(s) = Listed(s, NamesIn(s)) /\ {s} \ cached = {s}
    BY <1>2 DEF Source, NamesIn
  <2>2. QED BY <2>1, ListedIsTheSource
<1>3. QED BY <1>1, <1>2

(* A cache put before another is the cache of both their sources. *)
LEMMA CachesJoin ==
  ASSUME dbNames \in Contents, resNames \in Contents,
         NEW A, NEW B, A \subseteq {"db", "res"}, B \subseteq {"db", "res"}, A \cap B = {},
         NEW list, NEW later, CacheIsOf(list, A), CacheIsOf(later, B)
  PROVE  CacheIsOf(list \o later, A \cup B)
<1> DEFINE m == Len(list)  n == Len(later)  both == list \o later
<1>1. list \in Seq(CacheEntry) /\ later \in Seq(CacheEntry)
  BY DEF CacheIsOf
<1>2. m \in Nat /\ n \in Nat /\ DOMAIN list = 1 .. m /\ DOMAIN later = 1 .. n
  BY <1>1, LenProperties
<1>3. both \in Seq(CacheEntry) /\ DOMAIN both = 1 .. m + n
  <2>1. both \in Seq(CacheEntry) /\ Len(both) = m + n
    BY <1>1, ConcatProperties
  <2>2. QED BY <2>1, LenProperties
<1>4. \A i \in 1 .. m + n : both[i] = IF i <= m THEN list[i] ELSE later[i - m]
  BY <1>1, ConcatProperties
<1> HIDE DEF m, n, both
<1>5. \A i \in 1 .. m : i \in 1 .. m + n /\ both[i] = list[i]
  BY <1>2, <1>4
<1>6. \A i \in 1 .. n : i + m \in 1 .. m + n /\ both[i + m] = later[i]
  BY <1>2, <1>4
<1>7. ASSUME NEW i \in 1 .. m + n
      PROVE  \/ i \in 1 .. m /\ both[i] = list[i]
             \/ i - m \in 1 .. n /\ both[i] = later[i - m]
  BY <1>2, <1>4
<1>8. PlacesOf(A \cup B) = PlacesOf(A) \cup PlacesOf(B) /\ PlacesOf(A) \cap PlacesOf(B) = {}
  <2>1. ASSUME NEW S, S \subseteq {"db", "res"} PROVE \A e \in PlacesOf(S) : e[1] \in S
    BY <2>1, PlacesAre DEF PlacesOf
  <2>2. PlacesOf(A \cup B) = PlacesOf(A) \cup PlacesOf(B)
    BY DEF PlacesOf
  <2>3. QED BY <2>1, <2>2
<1>9. ASSUME NEW i \in 1 .. m + n PROVE both[i].entry \in PlacesOf(A \cup B) /\ both[i].name = NameOf(both[i].entry)
  <2>1. \A k \in 1 .. m : list[k].entry \in PlacesOf(A) /\ list[k].name = NameOf(list[k].entry)
    BY <1>2 DEF CacheIsOf
  <2>2. \A k \in 1 .. n : later[k].entry \in PlacesOf(B) /\ later[k].name = NameOf(later[k].entry)
    BY <1>2 DEF CacheIsOf
  <2>3. CASE i \in 1 .. m /\ both[i] = list[i]
    BY <1>8, <2>1, <2>3
  <2>4. CASE i - m \in 1 .. n /\ both[i] = later[i - m]
    BY <1>8, <2>2, <2>4
  <2>5. QED BY <1>7, <2>3, <2>4
<1>10. ASSUME NEW e \in PlacesOf(A \cup B) PROVE \E i \in 1 .. m + n : both[i].entry = e
  <2>1. CASE e \in PlacesOf(A)
    <3>1. PICK k \in 1 .. m : list[k].entry = e
      BY <1>2, <2>1 DEF CacheIsOf
    <3>2. QED BY <1>5, <3>1
  <2>2. CASE e \in PlacesOf(B)
    <3>1. PICK k \in 1 .. n : later[k].entry = e
      BY <1>2, <2>2 DEF CacheIsOf
    <3>2. QED BY <1>6, <3>1
  <2>3. QED BY <1>8, <2>1, <2>2
<1>11. ASSUME NEW i \in 1 .. m + n, NEW j \in 1 .. m + n, both[i].entry = both[j].entry PROVE i = j
  <2>1. \A k \in 1 .. m : list[k].entry \in PlacesOf(A) /\ \A l \in 1 .. m : list[k].entry = list[l].entry => k = l
    BY <1>2 DEF CacheIsOf
  <2>2. \A k \in 1 .. n : later[k].entry \in PlacesOf(B) /\ \A l \in 1 .. n : later[k].entry = later[l].entry => k = l
    BY <1>2 DEF CacheIsOf
  <2>3. CASE i \in 1 .. m /\ both[i] = list[i]
    <3>1. ~ (j - m \in 1 .. n /\ both[j] = later[j - m])
      BY <1>8, <1>11, <2>1, <2>2, <2>3
    <3>2. QED BY <1>7, <1>11, <2>1, <2>3, <3>1
  <2>4. CASE i - m \in 1 .. n /\ both[i] = later[i - m]
    <3>1. ~ (j \in 1 .. m /\ both[j] = list[j])
      BY <1>8, <1>11, <2>1, <2>2, <2>4
    <3>2. j - m \in 1 .. n /\ both[j] = later[j - m]
      BY <1>7, <3>1
    <3>3. i - m = j - m
      BY <1>11, <2>2, <2>4, <3>2
    <3>4. QED BY <1>2, <3>3
  <2>5. QED BY <1>7, <2>3, <2>4
<1>12. QED BY <1>3, <1>9, <1>10, <1>11 DEF CacheIsOf, both

(* Marking an entry as used leaves a cache of the same sources. *)
LEMMA MarkIsOf ==
  ASSUME dbNames \in Contents, resNames \in Contents, NEW A, NEW list, CacheIsOf(list, A), NEW name
  PROVE  /\ CacheIsOf(Mark(list, name), A) /\ DOMAIN Mark(list, name) = DOMAIN list
         /\ \A k \in DOMAIN list :
              /\ Mark(list, name)[k].entry = list[k].entry
              /\ Mark(list, name)[k].used <=> list[k].used \/ (Found(list, name) # {} /\ k = First(list, name))
<1> DEFINE marked == Mark(list, name)  n == Len(list)
           chosen(k) == k \in Found(list, name) /\ k = First(list, name)
<1>1. list \in Seq(CacheEntry) /\ n \in Nat /\ DOMAIN list = 1 .. n /\ \A k \in 1 .. n : list[k] \in CacheEntry
  BY LenProperties, ElementOfSeq DEF CacheIsOf
<1>2. \A k \in 1 .. n : chosen(k) <=> Found(list, name) # {} /\ k = First(list, name)
  BY <1>1, FirstIsFound
<1> HIDE DEF n
<1>3. marked = [k \in 1 .. n |-> IF chosen(k) THEN [list[k] EXCEPT !.used = TRUE] ELSE list[k]]
  BY <1>1 DEF Mark
<1> HIDE DEF marked, chosen
<1>4. ASSUME NEW k \in 1 .. n
      PROVE  /\ marked[k] \in CacheEntry
             /\ marked[k].entry = list[k].entry /\ marked[k].name = list[k].name
             /\ marked[k].used <=> list[k].used \/ chosen(k)
  <2>1. list[k] \in CacheEntry
    BY <1>1
  <2>2. CASE chosen(k)
    <3>1. marked[k] = [list[k] EXCEPT !.used = TRUE]
      BY <1>3, <2>2
    <3>2. QED BY <2>1, <2>2, <3>1 DEF CacheEntry
  <2>3. CASE ~ chosen(k)
    BY <1>3, <2>1, <2>3
  <2>4. QED BY <2>2, <2>3
<1>5. marked \in Seq(CacheEntry) /\ DOMAIN marked = 1 .. n
  BY <1>1, <1>3, <1>4
<1>6. CacheIsOf(marked, A)
  <2>1. \A k \in 1 .. n : marked[k].entry \in PlacesOf(A) /\ marked[k].name = NameOf(marked[k].entry)
    BY <1>1, <1>4 DEF CacheIsOf
  <2>2. \A e \in PlacesOf(A) : \E k \in 1 .. n : marked[k].entry = e
    <3>1. TAKE e \in PlacesOf(A)
    <3>2. PICK k \in 1 .. n : list[k].entry = e
      BY <1>1 DEF CacheIsOf
    <3>3. QED BY <1>4, <3>2
  <2>3. \A j, k \in 1 .. n : marked[j].entry = marked[k].entry => j = k
    <3>1. \A j, k \in 1 .. n : list[j].entry = list[k].entry => j = k
      BY <1>1 DEF CacheIsOf
    <3>2. QED BY <1>4, <3>1
  <2>4. QED BY <1>5, <2>1, <2>2, <2>3 DEF CacheIsOf
<1>7. QED BY <1>1, <1>2, <1>4, <1>5, <1>6 DEF marked

(* A cache has one entry for each place of its sources and no other. *)
LEMMA OneEntry ==
  ASSUME NEW A, NEW list, CacheIsOf(list, A), NEW e
  PROVE  Cardinality({k \in DOMAIN list : list[k].entry = e}) = IF e \in PlacesOf(A) THEN 1 ELSE 0
<1> DEFINE S == {k \in DOMAIN list : list[k].entry = e}
<1>1. CASE e \in PlacesOf(A)
  <2>1. PICK k \in DOMAIN list : list[k].entry = e
    BY <1>1 DEF CacheIsOf
  <2>2. S = {k}
    BY <2>1 DEF CacheIsOf
  <2>3. QED BY <1>1, <2>2, FS_Singleton
<1>2. CASE e \notin PlacesOf(A)
  <2>1. S = {}
    BY <1>2 DEF CacheIsOf
  <2>2. Cardinality({}) = 0
    BY FS_EmptySet
  <2>3. QED BY <1>2, <2>1, <2>2, Zenon
<1>3. QED BY <1>1, <1>2

LEMMA NotThere ==
  ASSUME dbNames \in Contents, resNames \in Contents, NEW s \in {"db", "res"},
         NEW A, NEW list, CacheIsOf(list, A), s \in A, NEW name, Found(list, name) = {}
  PROVE  name \notin ToSet(NamesIn(s))
<1>1. SUFFICES ASSUME NEW k \in DOMAIN NamesIn(s), name = NamesIn(s)[k] PROVE FALSE
  BY DEF ToSet
<1>2. <<s, k>> \in PlacesOf(A) /\ NameOf(<<s, k>>) = name
  BY <1>1, PlacesAre DEF PlacesOf, Places
<1>3. PICK j \in DOMAIN list : list[j].entry = <<s, k>>
  BY <1>2 DEF CacheIsOf
<1>4. list[j].name = name
  BY <1>2, <1>3 DEF CacheIsOf
<1>5. QED BY <1>3, <1>4 DEF Found

(* What is in a source that was cached can be found. *)
LEMMA PlacedIsAvailable ==
  ASSUME dbNames \in Contents, resNames \in Contents, NEW A, A \subseteq {"db", "res"}, "db" \in A => search_db,
         NEW e \in PlacesOf(A)
  PROVE  e \in Entries /\ e # NoCode /\ e[1] \in A /\ Available(NameOf(e))
<1>1. PICK s \in A : e \in Places(s)
  BY DEF PlacesOf
<1>2. s \in {"db", "res"}
  OBVIOUS
<1>3. e \in Entries /\ e # NoCode /\ e[1] = s /\ NameOf(e) \in ToSet(NamesIn(s))
  BY <1>1, <1>2, PlacesAre
<1>4. Available(NameOf(e))
  BY <1>2, <1>3 DEF Available, NamesIn
<1>5. QED BY <1>3, <1>4

LEMMA GivenStay ==
  ASSUME dbNames' = dbNames, resNames' = resNames, search_db' = search_db
  PROVE  /\ CodeFound(code', next', cached') => CodeIsFound'
         /\ CacheThere(all', cached', code', modLocks') => CacheIsThere'
         /\ Entries' = Entries
<1>1. Entries' = Entries
  BY DEF Entries
<1>2. CodeFound(code', next', cached') => CodeIsFound'
  BY DEF CodeIsFound, CodeFound, Available, PlacesOf, Places, NamesIn, NameOf
<1>3. CacheThere(all', cached', code', modLocks') => CacheIsThere'
  BY DEF CacheIsThere, CacheThere, CacheIsOf, UsedIsCode, CacheEntry, PlacesOf, Places, NamesIn, NameOf, Entries
<1>4. QED BY <1>1, <1>2, <1>3

LEMMA FrozenStart ==
  ASSUME FrozenInit PROVE FrozenInv
<1>1. /\ stage = "open" /\ dbNames \in Contents /\ resNames \in Contents
      /\ search_db = FALSE /\ cached = {} /\ all = <<>> /\ next = 1
      /\ code = [i \in DOMAIN Table |-> NoCode] /\ modLocks = [e \in Entries |-> 0]
  BY DEF FrozenInit
<1>2. Len(Table) \in Nat /\ DOMAIN Table = 1 .. Len(Table)
  BY FrozenAssumption, LenProperties
<1>3. PlacesOf(cached) = {}
  BY <1>1 DEF PlacesOf
<1>4. FrozenTypeOK
  <2>1. code \in [DOMAIN Table -> Entries \cup {NoCode}]
    BY <1>1
  <2>2. modLocks \in [Entries -> Nat]
    BY <1>1
  <2>3. search_db \in BOOLEAN /\ cached \subseteq {"db", "res"}
    BY <1>1, Zenon
  <2>4. next \in 1 .. Len(Table) + 1
    BY <1>1, <1>2
  <2>5. QED BY <1>1, <2>1, <2>2, <2>3, <2>4 DEF FrozenTypeOK
<1>5. CodeIsFound
  <2>1. \A i \in DOMAIN Table : code[i] = NoCode /\ ~ (i < next)
    BY <1>1, <1>2
  <2>2. QED BY <2>1 DEF CodeIsFound, CodeFound
<1>6. CacheIsThere
  <2>1. all \in Seq(CacheEntry) /\ DOMAIN all = {}
    BY <1>1
  <2>2. QED BY <1>1, <1>3, <2>1 DEF CacheIsThere, CacheThere, CacheIsOf, UsedIsCode
<1>7. QED BY <1>1, <1>4, <1>5, <1>6 DEF FrozenInv, SearchInOrder, CodeStaysLocked

(* One source is searched, and with success or after both the next place   *)
(* of the table comes.                                                     *)
LEMMA SearchStep ==
  ASSUME FrozenInv, NEW s \in {"db", "res"}, NEW other, Search(s, other),
         s = "db" => search_db /\ other = "res", s = "res" => other = "db"
  PROVE  FrozenInv'
<1> DEFINE list == Source(s) \o all
           name == Table[next]
           new == {s} \ cached
<1>1. /\ stage = s /\ next <= Len(Table) /\ cached' = cached \cup {s} /\ all' = Mark(list, name)
      /\ modLocks' = [e \in Entries |->
                        modLocks[e] + Cardinality({k \in DOMAIN Source(s) : Source(s)[k].entry = e})]
      /\ dbNames' = dbNames /\ resNames' = resNames /\ search_db' = search_db
  BY DEF Search, givenVars
<1>2. /\ dbNames \in Contents /\ resNames \in Contents /\ cached \subseteq {"db", "res"} /\ search_db \in BOOLEAN
      /\ cached' \subseteq {"db", "res"} /\ ("db" \in cached' => search_db)
      /\ Len(Table) \in Nat /\ DOMAIN Table = 1 .. Len(Table) /\ next \in DOMAIN Table
      /\ next \in Nat /\ next + 1 \in 1 .. Len(Table) + 1 /\ \A i \in DOMAIN Table : i \in Nat
      /\ code \in [DOMAIN Table -> Entries \cup {NoCode}] /\ modLocks \in [Entries -> Nat]
  <2>1. /\ dbNames \in Contents /\ resNames \in Contents /\ cached \subseteq {"db", "res"} /\ search_db \in BOOLEAN
        /\ code \in [DOMAIN Table -> Entries \cup {NoCode}] /\ modLocks \in [Entries -> Nat]
        /\ next \in 1 .. Len(Table) + 1 /\ ("db" \in cached => search_db)
    BY DEF FrozenInv, FrozenTypeOK, SearchInOrder
  <2>2. Len(Table) \in Nat /\ DOMAIN Table = 1 .. Len(Table)
    BY FrozenAssumption, LenProperties
  <2>3. QED BY <1>1, <2>1, <2>2
<1>3. CacheIsOf(all, cached) /\ UsedIsCode(all, code) /\ \A e \in Entries : modLocks[e] = IF e \in PlacesOf(cached) THEN 1 ELSE 0
  BY <1>1 DEF FrozenInv, CacheIsThere, CacheThere
<1>4. CacheIsOf(Source(s), new) /\ \A k \in DOMAIN Source(s) : Source(s)[k].used = FALSE
  BY <1>2, SourceIs
<1>5. CacheIsOf(list, cached') /\ list \in Seq(CacheEntry)
  <2>1. CacheIsOf(list, new \cup cached)
    BY <1>2, <1>3, <1>4, CachesJoin
  <2>2. new \cup cached = cached'
    BY <1>1
  <2>3. QED BY <2>1, <2>2 DEF CacheIsOf
<1>6. PlacesOf(cached') = PlacesOf(cached) \cup PlacesOf(new) /\ PlacesOf(cached) \cap PlacesOf(new) = {}
  <2>1. PlacesOf(cached') = PlacesOf(cached) \cup PlacesOf(new)
    BY <1>1 DEF PlacesOf
  <2>2. (\A e \in PlacesOf(cached) : e[1] \in cached) /\ \A e \in PlacesOf(new) : e[1] \in new
    BY <1>2, PlacesAre DEF PlacesOf
  <2>3. QED BY <2>1, <2>2
<1>7. \A e \in PlacesOf(cached') : e \in Entries /\ e # NoCode /\ Available(NameOf(e))
  BY <1>2, PlacedIsAvailable
<1>8. \A i \in DOMAIN Table :
        /\ i >= next => code[i] = NoCode
        /\ i < next /\ Available(Table[i]) => code[i] # NoCode
        /\ code[i] # NoCode => code[i] \in PlacesOf(cached) /\ NameOf(code[i]) = Table[i] /\ Available(Table[i])
  BY DEF FrozenInv, CodeIsFound, CodeFound
<1>9. \A k \in DOMAIN list : list[k].used <=> list[k].entry \in ToSet(code)
  <2>1. Source(s) \in Seq(CacheEntry) /\ all \in Seq(CacheEntry)
    BY <1>3, <1>4 DEF CacheIsOf
  <2>2. /\ Len(Source(s)) \in Nat /\ Len(all) \in Nat /\ DOMAIN Source(s) = 1 .. Len(Source(s)) /\ DOMAIN all = 1 .. Len(all)
        /\ DOMAIN list = 1 .. Len(Source(s)) + Len(all)
        /\ \A k \in DOMAIN list : list[k] = IF k <= Len(Source(s)) THEN Source(s)[k] ELSE all[k - Len(Source(s))]
    BY <2>1, LenProperties, ConcatProperties
  <2>3. TAKE k \in DOMAIN list
  <2> HIDE DEF list
  <2>4. CASE k <= Len(Source(s))
    <3>1. k \in DOMAIN Source(s) /\ list[k] = Source(s)[k]
      BY <2>2, <2>4
    <3>2. list[k].used = FALSE /\ list[k].entry \in PlacesOf(new)
      BY <1>4, <3>1 DEF CacheIsOf
    <3>3. \A c \in ToSet(code) : c \in PlacesOf(cached) \cup {NoCode}
      BY <1>2, <1>8 DEF ToSet
    <3>4. QED BY <1>6, <1>7, <3>2, <3>3
  <2>5. CASE ~ (k <= Len(Source(s)))
    <3>1. k - Len(Source(s)) \in DOMAIN all /\ list[k] = all[k - Len(Source(s))]
      BY <2>2, <2>5
    <3>2. QED BY <1>3, <3>1 DEF UsedIsCode
  <2>6. QED BY <2>4, <2>5
<1> HIDE DEF list, new
<1>10. \A e \in Entries : modLocks'[e] = IF e \in PlacesOf(cached') THEN 1 ELSE 0
  <2>1. TAKE e \in Entries
  <2>2. modLocks'[e] = (IF e \in PlacesOf(cached) THEN 1 ELSE 0) + (IF e \in PlacesOf(new) THEN 1 ELSE 0)
    BY <1>1, <1>3, <1>4, OneEntry
  <2>3. QED BY <1>6, <2>2
<1>11. modLocks' \in [Entries -> Nat]
  <2>1. \A e \in Entries : modLocks'[e] \in Nat
    BY <1>10
  <2>2. QED BY <1>1, <2>1
<1>12. /\ CacheIsOf(all', cached') /\ DOMAIN all' = DOMAIN list
       /\ \A k \in DOMAIN list :
            /\ all'[k].entry = list[k].entry
            /\ all'[k].used <=> list[k].used \/ (Found(list, name) # {} /\ k = First(list, name))
  BY <1>1, <1>2, <1>5, MarkIsOf
<1>13. CASE Found(list, name) # {}
  <2> DEFINE f == First(list, name)  e == list[f].entry
  <2>1. f \in DOMAIN list /\ list[f].name = name
    BY <1>5, <1>13, FirstIsFound DEF Found
  <2>2. code' = [code EXCEPT ![next] = e] /\ next' = next + 1 /\ stage' = "db"
    BY <1>1, <1>13 DEF Search, list
  <2>3. e \in PlacesOf(cached') /\ NameOf(e) = name /\ e \in Entries /\ e # NoCode /\ Available(name)
    <3>1. e \in PlacesOf(cached') /\ NameOf(e) = name
      BY <1>5, <2>1 DEF CacheIsOf
    <3>2. QED BY <1>7, <3>1
  <2> HIDE DEF f, e
  <2>4. code' \in [DOMAIN Table -> Entries \cup {NoCode}] /\ code'[next] = e
        /\ \A i \in DOMAIN Table : i # next => code'[i] = code[i]
    BY <1>2, <2>2, <2>3
  <2>5. CodeFound(code', next', cached')
    <3>1. SUFFICES ASSUME NEW i \in DOMAIN Table
                   PROVE  /\ i >= next' => code'[i] = NoCode
                          /\ i < next' /\ Available(Table[i]) => code'[i] # NoCode
                          /\ code'[i] # NoCode => code'[i] \in PlacesOf(cached') /\ NameOf(code'[i]) = Table[i] /\ Available(Table[i])
      BY DEF CodeFound
    <3>2. CASE i = next
      BY <1>2, <2>2, <2>3, <2>4, <3>2
    <3>3. CASE i # next
      <4>1. code'[i] = code[i] /\ (i >= next' => i >= next) /\ (i < next' => i < next)
        BY <1>2, <2>2, <2>4, <3>3
      <4>2. QED BY <1>6, <1>8, <4>1
    <3>4. QED BY <3>2, <3>3
  <2>6. UsedIsCode(all', code')
    <3>1. SUFFICES ASSUME NEW k \in DOMAIN list PROVE all'[k].used <=> all'[k].entry \in ToSet(code')
      BY <1>12 DEF UsedIsCode
    <3>2. list[k].entry = e <=> k = f
      BY <1>5, <2>1 DEF CacheIsOf, e
    <3>3. list[k].entry # NoCode
      BY <1>5, <1>7 DEF CacheIsOf
    <3>4. code[next] = NoCode
      BY <1>2, <1>8
    <3>5. list[k].entry \in ToSet(code') <=> list[k].entry = e \/ list[k].entry \in ToSet(code)
      BY <1>2, <2>4, <3>3, <3>4 DEF ToSet
    <3>6. all'[k].entry = list[k].entry /\ (all'[k].used <=> list[k].used \/ k = f)
      BY <1>12, <1>13 DEF f
    <3>7. QED BY <1>9, <3>2, <3>5, <3>6
  <2>7. CodeIsFound' /\ CacheIsThere' /\ Entries' = Entries
    <3>1. CacheThere(all', cached', code', modLocks')
      BY <1>10, <1>12, <2>6 DEF CacheThere
    <3>2. QED BY <1>1, <2>5, <3>1, GivenStay
  <2>8. FrozenTypeOK'
    BY <1>1, <1>2, <1>11, <2>2, <2>4, <2>7 DEF FrozenTypeOK
  <2>9. QED BY <1>1, <1>2, <2>2, <2>7, <2>8 DEF FrozenInv, SearchInOrder, CodeStaysLocked
<1>14. CASE Found(list, name) = {}
  <2>1. code' = code /\ next' = (IF s = "res" THEN next + 1 ELSE next) /\ stage' = other
    BY <1>1, <1>14 DEF Search, list
  <2>2. /\ s = "db" => name \notin ToSet(dbNames)
        /\ s = "res" => name \notin ToSet(resNames)
    <3>1. name \notin ToSet(NamesIn(s))
      BY <1>1, <1>2, <1>5, <1>14, NotThere
    <3>2. QED BY <3>1 DEF NamesIn
  <2>3. s = "res" => ~ Available(name)
    BY <1>1, <2>2 DEF FrozenInv, SearchInOrder, Available
  <2>4. CodeFound(code', next', cached')
    <3>1. SUFFICES ASSUME NEW i \in DOMAIN Table
                   PROVE  /\ i >= next' => code[i] = NoCode
                          /\ i < next' /\ Available(Table[i]) => code[i] # NoCode
                          /\ code[i] # NoCode => code[i] \in PlacesOf(cached') /\ NameOf(code[i]) = Table[i] /\ Available(Table[i])
      BY <2>1 DEF CodeFound
    <3>2. (i >= next' => i >= next) /\ (i < next' => i < next \/ (i = next /\ s = "res"))
      BY <1>2, <2>1
    <3>3. QED BY <1>6, <1>8, <2>3, <3>2
  <2>5. UsedIsCode(all', code')
    BY <1>9, <1>12, <1>14, <2>1 DEF UsedIsCode
  <2>6. CodeIsFound' /\ CacheIsThere' /\ Entries' = Entries
    <3>1. CacheThere(all', cached', code', modLocks')
      BY <1>10, <1>12, <2>5 DEF CacheThere
    <3>2. QED BY <1>1, <2>4, <3>1, GivenStay
  <2>7. next' \in 1 .. Len(Table) + 1 /\ stage' \in {"db", "res"} /\ (stage' = "res" => s = "db" /\ next' = next)
    BY <1>2, <2>1
  <2>8. FrozenTypeOK'
    BY <1>1, <1>2, <1>11, <2>1, <2>6, <2>7 DEF FrozenTypeOK
  <2>9. SearchInOrder'
    BY <1>1, <1>2, <2>2, <2>7 DEF SearchInOrder
  <2>10. QED BY <2>6, <2>7, <2>8, <2>9 DEF FrozenInv, CodeStaysLocked
<1>15. QED BY <1>13, <1>14

LEMMA FrozenOpenStep ==
  ASSUME FrozenInv, OpenModules PROVE FrozenInv'
<1>1. /\ stage = "open" /\ stage' = "db" /\ search_db' \in BOOLEAN
      /\ UNCHANGED <<dbNames, resNames, cached, all, next, code, modLocks>>
  BY DEF OpenModules, givenVars
<1>2. /\ FrozenTypeOK /\ cached = {} /\ CodeIsFound /\ CacheThere(all, cached, code, modLocks)
  BY <1>1 DEF FrozenInv, SearchInOrder, CacheIsThere
<1>3. PlacesOf(cached) = {} /\ PlacesOf(cached') = {}
  BY <1>1, <1>2 DEF PlacesOf
<1>4. \A i \in DOMAIN Table : code[i] = NoCode
  BY <1>2, <1>3 DEF CodeIsFound, CodeFound
<1>5. FrozenTypeOK'
  BY <1>1, <1>2 DEF FrozenTypeOK, Entries
<1>6. CacheIsThere'
  BY <1>1, <1>2 DEF CacheIsThere, CacheThere, CacheIsOf, UsedIsCode, CacheEntry, PlacesOf, Places, NamesIn, NameOf, Entries
<1>7. next = 1
  BY <1>1 DEF FrozenInv, SearchInOrder
<1>8. CodeIsFound'
  <2>1. \A i \in DOMAIN Table : i \in Nat /\ ~ (i < 1)
    <3>1. Len(Table) \in Nat /\ DOMAIN Table = 1 .. Len(Table)
      BY FrozenAssumption, LenProperties
    <3>2. QED BY <3>1
  <2>2. QED BY <1>1, <1>4, <1>7, <2>1 DEF CodeIsFound, CodeFound
<1>9. QED BY <1>1, <1>2, <1>5, <1>6, <1>8 DEF FrozenInv, SearchInOrder, CodeStaysLocked

LEMMA FrozenSkipStep ==
  ASSUME FrozenInv, SkipDatabase PROVE FrozenInv'
<1>1. /\ stage = "db" /\ ~search_db /\ next <= Len(Table) /\ stage' = "res"
      /\ dbNames' = dbNames /\ resNames' = resNames /\ search_db' = search_db
      /\ UNCHANGED <<cached, all, next, code, modLocks>>
  BY DEF SkipDatabase, givenVars
<1>2. /\ FrozenTypeOK /\ CodeFound(code, next, cached) /\ CacheThere(all, cached, code, modLocks)
  BY <1>1 DEF FrozenInv, CacheIsThere, CodeIsFound
<1>3. CodeFound(code', next', cached') /\ CacheThere(all', cached', code', modLocks')
  BY <1>1, <1>2
<1>4. CodeIsFound' /\ CacheIsThere' /\ Entries' = Entries
  BY <1>1, <1>3, GivenStay
<1>5. FrozenTypeOK'
  BY <1>1, <1>2, <1>4 DEF FrozenTypeOK
<1>6. QED BY <1>1, <1>4, <1>5 DEF FrozenInv, SearchInOrder, CodeStaysLocked

(* No two places of the table have the same name, so an entry is the code  *)
(* of one place at most.                                                   *)
LEMMA OneHandle ==
  ASSUME FrozenTypeOK, CodeIsFound, NEW e \in Entries
  PROVE  Cardinality(Handle(e)) = IF e \in ToSet(code) THEN 1 ELSE 0
<1>1. e # NoCode
  BY PlacesAre DEF FrozenTypeOK
<1>2. DOMAIN code = DOMAIN Table
  BY DEF FrozenTypeOK
<1>3. CASE e \in ToSet(code)
  <2>1. PICK i \in DOMAIN Table : code[i] = e
    BY <1>2, <1>3 DEF ToSet
  <2>2. ASSUME NEW j \in DOMAIN Table, code[j] = e PROVE j = i
    <3>1. NameOf(e) = Table[i] /\ NameOf(e) = Table[j]
      BY <1>1, <2>1, <2>2 DEF CodeIsFound, CodeFound
    <3>2. QED BY <3>1, FrozenAssumption
  <2>3. Handle(e) = {i}
    BY <2>1, <2>2 DEF Handle
  <2>4. QED BY <1>3, <2>3, FS_Singleton
<1>4. CASE e \notin ToSet(code)
  <2>1. Handle(e) = {}
    BY <1>2, <1>4 DEF Handle, ToSet
  <2>2. Cardinality({}) = 0
    BY FS_EmptySet
  <2>3. QED BY <1>4, <2>1, <2>2, Zenon
<1>5. QED BY <1>3, <1>4

LEMMA FrozenCleanupStep ==
  ASSUME FrozenInv, cleanupCache PROVE FrozenInv'
<1> DEFINE unused == {all[k].entry : k \in {j \in DOMAIN all : ~all[j].used}}
<1>1. /\ stage = "db" /\ next > Len(Table) /\ stage' = "run" /\ all' = <<>>
      /\ modLocks' = [e \in Entries |-> IF e \in unused THEN modLocks[e] - 1 ELSE modLocks[e]]
      /\ dbNames' = dbNames /\ resNames' = resNames /\ search_db' = search_db
      /\ UNCHANGED <<cached, next, code>>
  BY DEF cleanupCache, givenVars
<1>2. FrozenTypeOK /\ CodeIsFound /\ CodeFound(code, next, cached) /\ CacheThere(all, cached, code, modLocks)
  BY <1>1 DEF FrozenInv, CacheIsThere, CodeIsFound
<1>3. CacheIsOf(all, cached) /\ \A k \in DOMAIN all : all[k].used <=> all[k].entry \in ToSet(code)
  BY <1>2 DEF CacheThere, UsedIsCode
<1>4. ASSUME NEW e \in Entries PROVE modLocks'[e] = Cardinality(Handle(e)) /\ modLocks'[e] \in Nat
  <2>1. Cardinality(Handle(e)) = IF e \in ToSet(code) THEN 1 ELSE 0
    BY <1>2, OneHandle
  <2>2. modLocks[e] = IF e \in PlacesOf(cached) THEN 1 ELSE 0
    BY <1>2 DEF CacheThere
  <2>3. CASE e \in PlacesOf(cached)
    <3>1. PICK k \in DOMAIN all : all[k].entry = e
      BY <1>3, <2>3 DEF CacheIsOf
    <3>2. \A j \in DOMAIN all : all[j].entry = e => j = k
      BY <1>3, <3>1 DEF CacheIsOf
    <3>3. e \in unused <=> e \notin ToSet(code)
      BY <1>3, <3>1, <3>2
    <3>4. QED BY <1>1, <2>1, <2>2, <2>3, <3>3
  <2>4. CASE e \notin PlacesOf(cached)
    <3>1. e \notin unused
      BY <1>3, <2>4 DEF CacheIsOf
    <3>2. e # NoCode /\ DOMAIN code = DOMAIN Table
      BY <1>2, PlacesAre DEF FrozenTypeOK
    <3>3. e \notin ToSet(code)
      BY <1>2, <2>4, <3>2 DEF CodeFound, ToSet
    <3>4. QED BY <1>1, <2>1, <2>2, <2>4, <3>1, <3>3
  <2>5. QED BY <2>3, <2>4
<1>5. modLocks' \in [Entries -> Nat] /\ Entries' = Entries
  BY <1>1, <1>4, GivenStay
<1>6. CodeIsFound'
  <2>1. CodeFound(code', next', cached')
    BY <1>1, <1>2
  <2>2. QED BY <1>1, <2>1, GivenStay
<1>7. FrozenTypeOK'
  BY <1>1, <1>2, <1>5 DEF FrozenTypeOK
<1>8. CodeStaysLocked'
  <2>1. \A e \in Entries : Handle(e)' = Handle(e)
    BY <1>1 DEF Handle
  <2>2. QED BY <1>1, <1>4, <1>5, <2>1 DEF CodeStaysLocked
<1>9. QED BY <1>1, <1>6, <1>7, <1>8 DEF FrozenInv, SearchInOrder, CacheIsThere

LEMMA FrozenEndStep ==
  ASSUME FrozenInv, cleanup_FrozenModules PROVE FrozenInv'
<1>1. /\ stage = "run" /\ stage' = "ended"
      /\ modLocks' = [e \in Entries |-> modLocks[e] - Cardinality(Handle(e))]
      /\ dbNames' = dbNames /\ resNames' = resNames /\ search_db' = search_db
      /\ UNCHANGED <<cached, all, next, code>>
  BY DEF cleanup_FrozenModules, givenVars
<1>2. /\ FrozenTypeOK /\ CodeFound(code, next, cached)
      /\ \A e \in Entries : modLocks[e] \in Nat /\ modLocks[e] = Cardinality(Handle(e))
  <2>1. modLocks \in [Entries -> Nat] /\ CodeStaysLocked
    BY DEF FrozenInv, FrozenTypeOK
  <2>2. \A e \in Entries : modLocks[e] \in Nat /\ modLocks[e] = Cardinality(Handle(e))
    BY <1>1, <2>1 DEF CodeStaysLocked
  <2>3. QED BY <2>2 DEF FrozenInv, CodeIsFound
<1>3. \A e \in Entries : modLocks'[e] = 0
  BY <1>1, <1>2
<1>4. CodeIsFound' /\ Entries' = Entries
  <2>1. CodeFound(code', next', cached')
    BY <1>1, <1>2
  <2>2. QED BY <1>1, <2>1, GivenStay
<1>5. FrozenTypeOK'
  BY <1>1, <1>2, <1>3, <1>4 DEF FrozenTypeOK
<1>6. CodeStaysLocked'
  BY <1>1, <1>3, <1>4 DEF CodeStaysLocked
<1>7. QED BY <1>1, <1>4, <1>5, <1>6 DEF FrozenInv, SearchInOrder, CacheIsThere

LEMMA FrozenStep ==
  ASSUME FrozenInv, [FrozenNext]_frozenVars PROVE FrozenInv'
<1>1. CASE OpenModules
  BY <1>1, FrozenOpenStep
<1>2. CASE search_datamanager
  BY <1>2, SearchStep DEF search_datamanager
<1>3. CASE SkipDatabase
  BY <1>3, FrozenSkipStep
<1>4. CASE search_resources
  BY <1>4, SearchStep DEF search_resources
<1>5. CASE cleanupCache
  BY <1>5, FrozenCleanupStep
<1>6. CASE cleanup_FrozenModules
  BY <1>6, FrozenEndStep
<1>7. CASE UNCHANGED frozenVars
  <2>1. /\ dbNames' = dbNames /\ resNames' = resNames /\ search_db' = search_db
        /\ UNCHANGED <<stage, cached, all, next, code, modLocks>>
    BY <1>7 DEF frozenVars, givenVars
  <2>2. Entries' = Entries
    BY <2>1, GivenStay
  <2>3. CodeFound(code', next', cached') /\ (stage \in {"open", "db", "res"} => CacheThere(all', cached', code', modLocks'))
    BY <2>1 DEF FrozenInv, CodeIsFound, CacheIsThere
  <2>4. CodeIsFound' /\ CacheIsThere'
    <3>1. stage \in {"open", "db", "res"} => CacheIsThere'
      BY <2>1, <2>3, GivenStay
    <3>2. stage \notin {"open", "db", "res"} => CacheIsThere'
      BY <2>1 DEF CacheIsThere
    <3>3. QED BY <2>1, <2>3, <3>1, <3>2, GivenStay
  <2>5. FrozenTypeOK' /\ SearchInOrder'
    BY <2>1, <2>2 DEF FrozenInv, FrozenTypeOK, SearchInOrder
  <2>6. CodeStaysLocked'
    BY <2>1, <2>2 DEF FrozenInv, CodeStaysLocked, Handle
  <2>7. QED BY <2>4, <2>5, <2>6 DEF FrozenInv
<1>8. QED BY <1>1, <1>2, <1>3, <1>4, <1>5, <1>6, <1>7 DEF FrozenNext

(* Whatever the table, the database and the resources hold, a module that  *)
(* is in one of them is found with the code of its name, and that memory   *)
(* stays locked exactly as long as Python runs.                            *)
THEOREM FrozenCodeStays == FrozenSpec => []ModulesKeepTheirCode
<1>1. FrozenInv => ModulesKeepTheirCode
  <2>1. SUFFICES ASSUME FrozenInv PROVE FoundWhereverItIs
    BY DEF ModulesKeepTheirCode, FrozenInv
  <2>2. SUFFICES ASSUME stage = "run", NEW i \in DOMAIN Table
                 PROVE  IF Available(Table[i]) THEN code[i] # NoCode /\ NameOf(code[i]) = Table[i]
                                               ELSE code[i] = NoCode
    BY DEF FoundWhereverItIs
  <2>3. i < next
    <3>1. Len(Table) \in Nat /\ DOMAIN Table = 1 .. Len(Table)
      BY FrozenAssumption, LenProperties
    <3>2. next > Len(Table) /\ next \in 1 .. Len(Table) + 1
      BY <2>1, <2>2 DEF FrozenInv, SearchInOrder, FrozenTypeOK
    <3>3. QED BY <3>1, <3>2
  <2>4. QED BY <2>1, <2>3 DEF FrozenInv, CodeIsFound, CodeFound
<1>2. QED BY <1>1, FrozenStart, FrozenStep, PTL DEF FrozenSpec
=============================================================================
