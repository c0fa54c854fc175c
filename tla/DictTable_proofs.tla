-------------------------- MODULE DictTable_proofs --------------------------
(***************************************************************************)
(* Proofs about the dictionary's hash table, for any keys, values, hashes, *)
(* table sizes and any probe sequence that visits the whole table.         *)
(***************************************************************************)
EXTENDS DictTable, FiniteSetTheorems, WellFoundedInduction, TLAPS

(* A set of naturals that is not empty has a least element. *)
LEMMA LeastNat ==
  ASSUME NEW T, T \subseteq Nat, T # {}
  PROVE  \E x \in T : \A y \in T : x <= y
<1> DEFINE R == {ss \in Nat \X Nat : ss[1] < ss[2]}
<1>1. IsWellFoundedOn(R, Nat)
  BY NatLessThanWellFounded DEF OpToRel
<1>2. \E x \in T : \A y \in T : ~(<<y, x>> \in R)
  <2> HIDE DEF R
  <2>1. QED BY <1>1, WFMin
<1>3. PICK x \in T : \A y \in T : ~(<<y, x>> \in R)
  BY <1>2
<1>4. ASSUME NEW y \in T PROVE x <= y
  <2>1. x \in Nat /\ y \in Nat /\ <<y, x>> \in Nat \X Nat
    OBVIOUS
  <2>2. ~(y < x)
    BY <1>3, <2>1
  <2>3. QED BY <2>1, <2>2
<1>5. QED BY <1>4

-----------------------------------------------------------------------------
(* The lookup *)

(* Where a lookup that returns stops: at the first probe that meets NULL   *)
(* or the key.                                                             *)
LEMMA StopAtFirst ==
  ASSUME NEW k \in Keys, ma_size \in Nat, Returns(k)
  PROVE  /\ StopAt(k) \in Slots(ma_size) /\ Stops(k, StopAt(k))
         /\ \A m \in 0 .. StopAt(k) - 1 : ~Stops(k, m)
<1> DEFINE T == {n \in Slots(ma_size) : Stops(k, n)}
<1>1. T \subseteq Nat /\ T # {}
  BY DEF Returns, Slots
<1>2. PICK x \in T : \A y \in T : x <= y
  <2> HIDE DEF T
  <2>1. QED BY <1>1, LeastNat
<1>3. x \in Slots(ma_size) /\ Stops(k, x) /\ \A m \in 0 .. x - 1 : ~Stops(k, m)
  <2>1. SUFFICES ASSUME NEW m \in 0 .. x - 1 PROVE ~Stops(k, m)
    OBVIOUS
  <2>2. m \in Slots(ma_size) /\ ~(x <= m) /\ x \in Nat /\ m \in Nat
    BY DEF Slots
  <2>3. QED BY <1>2, <2>2
<1>4. QED BY <1>3 DEF StopAt

(* What the lookup answers: a slot on the key's way, no probe before it    *)
(* having met that slot, NULL or the key; and, in a table that loses no keys, a slot  *)
(* with another key than the one looked up only if that one is absent.     *)
LEMMA LookupFinds ==
  ASSUME NEW k \in Keys, TypeOK, ma_size # 0, NoKeyIsLost, Returns(k)
  PROVE  /\ \E n \in Slots(ma_size) :
              /\ SlotOf(k, n) = lookdict(k)
              /\ \A m \in 0 .. n - 1 : ~Stops(k, m) /\ SlotOf(k, m) # lookdict(k)
         /\ lookdict(k) \in Slots(ma_size)
         /\ ma_table[lookdict(k)].key \in {NULL, Dummy, k}
         /\ ma_table[lookdict(k)].key # k =>
              \A s \in Active(ma_table) : ma_table[s].key # k
<1> DEFINE n == StopAt(k)
           dummies == {m \in 0 .. n - 1 : KeyAt(k, m) = Dummy}
<1>1. ma_size \in Sizes /\ ma_size \in Nat /\ DOMAIN ma_table = Slots(ma_size)
  BY DictAssumption DEF TypeOK
<1>2. /\ n \in Slots(ma_size) /\ Stops(k, n)
      /\ \A m \in 0 .. n - 1 : ~Stops(k, m)
  BY <1>1, StopAtFirst
<1>3. \A m \in Slots(ma_size) : SlotOf(k, m) \in Slots(ma_size)
  BY <1>1, ProbeAssumption DEF SlotOf, Slots
<1>4. KeyAt(k, n) # k => \A s \in Active(ma_table) : ma_table[s].key # k
  <2>1. SUFFICES ASSUME NEW s \in Active(ma_table), ma_table[s].key = k
                 PROVE  KeyAt(k, n) = k
    OBVIOUS
  <2>2. PICK j \in Slots(ma_size) : /\ SlotOf(k, j) = s
                                    /\ \A m \in 0 .. j - 1 : ~Stops(k, m)
    BY <2>1 DEF NoKeyIsLost
  <2>3. Stops(k, j)
    BY <2>1, <2>2 DEF Stops, KeyAt
  <2>4. j = n
    <3> HIDE DEF n
    <3>1. j \in Nat /\ n \in Nat
      BY <1>2 DEF Slots
    <3>2. ~(j < n) /\ ~(n < j)
      BY <1>2, <2>2, <2>3, <3>1
    <3>3. QED BY <3>1, <3>2
  <2>5. QED BY <2>1, <2>2, <2>4 DEF KeyAt
<1>5. KeyAt(k, n) \in {NULL, k}
  BY <1>2 DEF Stops
<1>6. CASE KeyAt(k, n) = k \/ dummies = {}
  <2>1. lookdict(k) = SlotOf(k, n)
    BY <1>6 DEF lookdict
  <2>2. \A m \in 0 .. n - 1 : SlotOf(k, m) # SlotOf(k, n)
    BY <1>2 DEF Stops, KeyAt
  <2> HIDE DEF n
  <2>3. QED BY <1>2, <1>3, <1>4, <1>5, <2>1, <2>2 DEF KeyAt
<1>7. CASE KeyAt(k, n) # k /\ dummies # {}
  <2> DEFINE d == CHOOSE m \in dummies : \A j \in dummies : m <= j
  <2>1. lookdict(k) = SlotOf(k, d)
    BY <1>7 DEF lookdict
  <2>2. dummies \subseteq Nat
    BY <1>2 DEF Slots
  <2>3. \E m \in dummies : \A j \in dummies : m <= j
    <3> HIDE DEF dummies
    <3>1. QED BY <1>7, <2>2, LeastNat
  <2>4. d \in dummies /\ \A j \in dummies : d <= j
    <3> HIDE DEF dummies
    <3>1. QED BY <2>3
  <2>5. d \in 0 .. n - 1 /\ KeyAt(k, d) = Dummy
    BY <2>4
  <2>5a. \A m \in 0 .. d - 1 : SlotOf(k, m) # SlotOf(k, d)
    <3>1. SUFFICES ASSUME NEW m \in 0 .. d - 1, SlotOf(k, m) = SlotOf(k, d)
                   PROVE  FALSE
      OBVIOUS
    <3>2. KeyAt(k, m) = Dummy /\ m \in 0 .. n - 1 /\ m < d /\ d \in Int /\ m \in Int
      <4>1. KeyAt(k, m) = Dummy BY <2>5, <3>1 DEF KeyAt
      <4>2. n \in Int BY <1>2 DEF Slots
      <4> HIDE DEF n, d
      <4>3. QED BY <2>5, <4>1, <4>2
    <3>3. m \in dummies BY <3>2
    <3> HIDE DEF d, dummies
    <3>4. QED BY <2>4, <3>2, <3>3
  <2> HIDE DEF d, n, dummies
  <2>6. d \in Slots(ma_size) /\ \A m \in 0 .. d - 1 : m \in 0 .. n - 1
    BY <1>1, <1>2, <2>5 DEF Slots
  <2>7. QED BY <1>2, <1>3, <1>4, <1>7, <2>1, <2>5, <2>5a, <2>6 DEF KeyAt
<1>8. QED BY <1>6, <1>7

-----------------------------------------------------------------------------
(* One slot changes: what happens to the counters *)

(* The slots of a table are finitely many. *)
LEMMA FiniteSlots ==
  ASSUME NEW n \in Nat, NEW table, DOMAIN table = Slots(n)
  PROVE  /\ IsFiniteSet(InUse(table)) /\ IsFiniteSet(Active(table))
         /\ IsFiniteSet(Slots(n)) /\ Cardinality(Slots(n)) = n
         /\ Cardinality(InUse(table)) \in Nat
         /\ Cardinality(Active(table)) \in Nat
<1>1. IsFiniteSet(Slots(n)) /\ Cardinality(Slots(n)) = n
  BY FS_Interval DEF Slots
<1>2. InUse(table) \in SUBSET Slots(n) /\ Active(table) \in SUBSET Slots(n)
  BY DEF InUse, Active
<1>3. IsFiniteSet(InUse(table)) /\ IsFiniteSet(Active(table))
  BY <1>1, <1>2, FS_Subset
<1>4. QED BY <1>1, <1>3, FS_CardinalityType

(* insertdict keeps the shape of the table, its counters and its keys.     *)
LEMMA InsertKeeps ==
  ASSUME NEW k \in Keys, NEW v \in Values, TypeOK, ma_size # 0,
         NoKeyIsLost, CountersCount, insertdict(k, v)
  PROVE  /\ ma_size' = ma_size
         /\ ma_table' \in [Slots(ma_size) -> Entries] /\ TableOK(ma_table')
         /\ NoKeyIsLost' /\ CountersCount'
         /\ ma_fill' \in {ma_fill, ma_fill + 1}
         /\ ma_fill \in Nat /\ ma_used \in Nat
<1> DEFINE e == [key |-> k, value |-> v]
           x == lookdict(k)
<1>1. /\ ma_size \in Sizes /\ ma_size \in Nat
      /\ ma_table \in [Slots(ma_size) -> Entries] /\ TableOK(ma_table)
      /\ DOMAIN ma_table = Slots(ma_size)
  BY DictAssumption DEF TypeOK
<1>2. /\ Returns(k) /\ ma_size' = ma_size
      /\ ma_table' = [ma_table EXCEPT ![x] = e]
      /\ ma_fill' = IF ma_table[x].key = NULL THEN ma_fill + 1 ELSE ma_fill
      /\ ma_used' = IF ma_table[x].value = NULL THEN ma_used + 1 ELSE ma_used
  BY DEF insertdict
<1>3. /\ \E n \in Slots(ma_size) :
           /\ SlotOf(k, n) = x
           /\ \A m \in 0 .. n - 1 : ~Stops(k, m) /\ SlotOf(k, m) # x
      /\ x \in Slots(ma_size)
      /\ ma_table[x].key \in {NULL, Dummy, k}
      /\ ma_table[x].key # k => \A s \in Active(ma_table) : ma_table[s].key # k
  BY <1>2, LookupFinds
<1> HIDE DEF x
<1>4. e \in Entries /\ e.key = k /\ e.value = v /\ v # NULL /\ k # NULL /\ k # Dummy
  BY DictAssumption DEF Entries
<1> HIDE DEF e
<1>5. /\ ma_table' \in [Slots(ma_size) -> Entries]
      /\ ma_table'[x] = e
      /\ \A s \in Slots(ma_size) : s # x => ma_table'[s] = ma_table[s]
      /\ DOMAIN ma_table' = Slots(ma_size)
  BY <1>1, <1>2, <1>3, <1>4
<1>6. TableOK(ma_table')
  <2>1. \A s \in Slots(ma_size) :
          ma_table'[s].value # NULL <=> ma_table'[s].key \in Keys
    BY <1>1, <1>4, <1>5 DEF TableOK
  <2>2. QED BY <1>5, <2>1 DEF TableOK
<1>7. NoKeyIsLost'
  (* A way along which no probe met NULL or its key still is one if the    *)
  (* slot that was written is not on it or got another key.                *)
  <2>1. ASSUME NEW s \in Active(ma_table'), NEW q \in Keys, ma_table'[s].key = q,
               NEW j \in Slots(ma_size), SlotOf(q, j) = s,
               \A m \in 0 .. j - 1 : ~Stops(q, m),
               \A m \in 0 .. j - 1 : q = k => SlotOf(q, m) # x
        PROVE  \E n \in Slots(ma_size') :
                 /\ SlotOf(ma_table[s].key, n)' = s
                 /\ \A m \in 0 .. n - 1 : ~Stops(ma_table[s].key, m)'
    <3>1. ASSUME NEW m \in 0 .. j - 1 PROVE ~Stops(q, m)'
      <4>1. m \in Slots(ma_size) /\ SlotOf(q, m) \in Slots(ma_size)
        <5>1. m \in Slots(ma_size)
          BY <1>1, <2>1, <3>1 DEF Slots
        <5>2. QED BY <1>1, <5>1, ProbeAssumption DEF SlotOf, Slots
      <4>2. ma_table[SlotOf(q, m)].key \notin {NULL, q}
        BY <2>1 DEF Stops, KeyAt
      <4>3. ma_table'[SlotOf(q, m)].key \notin {NULL, q}
        <5>1. CASE SlotOf(q, m) # x
          BY <1>5, <4>1, <4>2, <5>1
        <5>2. CASE SlotOf(q, m) = x
          BY <1>4, <1>5, <2>1, <5>2
        <5>3. QED BY <5>1, <5>2
      <4>4. QED BY <1>2, <4>3 DEF Stops, KeyAt, SlotOf
    <3>2. SlotOf(q, j)' = s
      BY <1>2, <2>1 DEF SlotOf
    <3>3. /\ SlotOf(ma_table[s].key, j)' = s
          /\ \A m \in 0 .. j - 1 : ~Stops(ma_table[s].key, m)'
      BY <2>1, <3>1, <3>2 DEF SlotOf, Stops, KeyAt
    <3>4. QED BY <1>2, <3>3
  <2>2. ASSUME NEW s \in Active(ma_table')
        PROVE  \E n \in Slots(ma_size') :
                 /\ SlotOf(ma_table[s].key, n)' = s
                 /\ \A m \in 0 .. n - 1 : ~Stops(ma_table[s].key, m)'
    <3>1. s \in Slots(ma_size) /\ ma_table'[s].key \in Keys
      BY <1>5, <1>6 DEF Active, TableOK
    <3>2. CASE s = x
      <4>1. ma_table'[s].key = k
        BY <1>4, <1>5, <3>2
      <4>2. PICK n \in Slots(ma_size) :
              /\ SlotOf(k, n) = x
              /\ \A m \in 0 .. n - 1 : ~Stops(k, m) /\ SlotOf(k, m) # x
        BY <1>3
      <4>3. QED BY <2>1, <3>2, <4>1, <4>2
    <3>3. CASE s # x
      <4>1. ma_table'[s] = ma_table[s] /\ s \in Active(ma_table)
        BY <1>1, <1>5, <3>1, <3>3 DEF Active
      <4>2. PICK n \in Slots(ma_size) :
              /\ SlotOf(ma_table[s].key, n) = s
              /\ \A m \in 0 .. n - 1 : ~Stops(ma_table[s].key, m)
        BY <4>1 DEF NoKeyIsLost
      <4>3. ASSUME ma_table[s].key = k PROVE \A m \in 0 .. n - 1 : SlotOf(k, m) # x
        <5>1. ma_table[x].key = k
          BY <1>3, <4>1, <4>3
        <5>2. QED BY <4>2, <4>3, <5>1 DEF Stops, KeyAt
      <4>4. QED BY <2>1, <3>1, <4>1, <4>2, <4>3
    <3>4. QED BY <3>2, <3>3
  <2>3. QED BY <2>2 DEF NoKeyIsLost
<1>8. CountersCount' /\ ma_fill \in Nat /\ ma_used \in Nat
  <2>1. /\ InUse(ma_table') = InUse(ma_table) \cup {x}
        /\ Active(ma_table') = Active(ma_table) \cup {x}
    BY <1>1, <1>3, <1>4, <1>5 DEF InUse, Active
  <2>2. /\ x \in InUse(ma_table) <=> ma_table[x].key # NULL
        /\ x \in Active(ma_table) <=> ma_table[x].value # NULL
    BY <1>1, <1>3 DEF InUse, Active
  <2>3. /\ IsFiniteSet(InUse(ma_table)) /\ IsFiniteSet(Active(ma_table))
        /\ ma_fill \in Nat /\ ma_used \in Nat
    BY <1>1, FiniteSlots DEF CountersCount
  <2>4. /\ Cardinality(InUse(ma_table')) =
             IF x \in InUse(ma_table) THEN Cardinality(InUse(ma_table))
                                      ELSE Cardinality(InUse(ma_table)) + 1
        /\ Cardinality(Active(ma_table')) =
             IF x \in Active(ma_table) THEN Cardinality(Active(ma_table))
                                       ELSE Cardinality(Active(ma_table)) + 1
    BY <2>1, <2>3, FS_AddElement
  <2>5. QED BY <1>2, <2>2, <2>3, <2>4 DEF CountersCount
<1>9. QED BY <1>2, <1>5, <1>6, <1>7, <1>8

(* PyDict_DelItem leaves a dummy, so that every other key is still found.  *)
LEMMA DeleteKeeps ==
  ASSUME NEW k \in Keys, TypeOK, NoKeyIsLost, CountersCount, DelItem(k)
  PROVE  /\ ma_size # 0 /\ ma_size' = ma_size
         /\ ma_table' \in [Slots(ma_size) -> Entries] /\ TableOK(ma_table')
         /\ NoKeyIsLost' /\ CountersCount'
         /\ ma_fill' = ma_fill
<1> DEFINE e == [key |-> Dummy, value |-> NULL]
           x == lookdict(k)
<1>1. /\ ma_size # 0 /\ ma_size \in Sizes /\ ma_size \in Nat
      /\ ma_table \in [Slots(ma_size) -> Entries] /\ TableOK(ma_table)
      /\ DOMAIN ma_table = Slots(ma_size)
  BY DictAssumption DEF TypeOK, DelItem
<1>2. /\ Returns(k) /\ ma_size' = ma_size /\ ma_fill' = ma_fill
      /\ ma_table' = [ma_table EXCEPT ![x] = e]
      /\ ma_used' = ma_used - 1
      /\ ma_table[x].value # NULL
  BY DEF DelItem
<1>3. x \in Slots(ma_size)
  BY <1>1, <1>2, LookupFinds
<1> HIDE DEF x
<1>4. e \in Entries /\ e.key = Dummy /\ e.value = NULL /\ Dummy # NULL /\ Dummy \notin Keys
  BY DictAssumption DEF Entries
<1> HIDE DEF e
<1>5. /\ ma_table' \in [Slots(ma_size) -> Entries]
      /\ ma_table'[x] = e
      /\ \A s \in Slots(ma_size) : s # x => ma_table'[s] = ma_table[s]
      /\ DOMAIN ma_table' = Slots(ma_size)
  BY <1>1, <1>2, <1>3, <1>4
<1>6. TableOK(ma_table')
  <2>1. \A s \in Slots(ma_size) :
          ma_table'[s].value # NULL <=> ma_table'[s].key \in Keys
    BY <1>1, <1>4, <1>5 DEF TableOK
  <2>2. QED BY <1>5, <2>1 DEF TableOK
<1>7. ASSUME NEW s \in Active(ma_table')
      PROVE  \E n \in Slots(ma_size') :
               /\ SlotOf(ma_table[s].key, n)' = s
               /\ \A m \in 0 .. n - 1 : ~Stops(ma_table[s].key, m)'
  <2>1. /\ s \in Slots(ma_size) /\ s # x /\ ma_table'[s] = ma_table[s]
        /\ s \in Active(ma_table) /\ ma_table[s].key \in Keys
    BY <1>1, <1>4, <1>5, <1>7 DEF Active, TableOK
  <2> DEFINE q == ma_table[s].key
  <2>2. PICK n \in Slots(ma_size) : SlotOf(q, n) = s /\ \A m \in 0 .. n - 1 : ~Stops(q, m)
    BY <2>1 DEF NoKeyIsLost
  <2>3. q \in Keys /\ q' = q
    BY <2>1
  <2> HIDE DEF q
  <2>4. ASSUME NEW m \in 0 .. n - 1 PROVE ~Stops(q, m)'
    <3>1. m \in Slots(ma_size)
      BY <1>1, <2>2 DEF Slots
    <3>2. SlotOf(q, m) \in Slots(ma_size)
      BY <1>1, <2>3, <3>1, ProbeAssumption DEF SlotOf, Slots
    <3>3. ma_table[SlotOf(q, m)].key \notin {NULL, q}
      BY <2>2 DEF Stops, KeyAt
    <3>4. ma_table'[SlotOf(q, m)].key \notin {NULL, q}
      BY <1>4, <1>5, <2>3, <3>2, <3>3
    <3>5. QED BY <1>2, <2>3, <3>4 DEF Stops, KeyAt, SlotOf
  <2>5. SlotOf(q, n)' = s
    BY <1>2, <2>2, <2>3 DEF SlotOf
  <2>6. QED BY <1>2, <2>4, <2>5 DEF q
<1>8. NoKeyIsLost'
  BY <1>7 DEF NoKeyIsLost
<1>9. CountersCount'
  <2>1. /\ InUse(ma_table') = InUse(ma_table)
        /\ Active(ma_table') = Active(ma_table) \ {x}
        /\ x \in Active(ma_table)
    BY <1>1, <1>2, <1>3, <1>4, <1>5, DictAssumption DEF InUse, Active, TableOK
  <2>2. IsFiniteSet(Active(ma_table))
    BY <1>1, FiniteSlots
  <2>3. Cardinality(Active(ma_table')) = Cardinality(Active(ma_table)) - 1
    BY <2>1, <2>2, FS_RemoveElement
  <2>4. QED BY <1>2, <2>1, <2>3 DEF CountersCount
<1>10. QED BY <1>1, <1>2, <1>5, <1>6, <1>8, <1>9

(* A table without entries is in order. *)
LEMMA EmptyTableOK ==
  ASSUME NEW n \in Nat
  PROVE  /\ EmptyTable(n) \in [Slots(n) -> Entries] /\ TableOK(EmptyTable(n))
         /\ DOMAIN EmptyTable(n) = Slots(n)
         /\ Active(EmptyTable(n)) = {} /\ InUse(EmptyTable(n)) = {}
<1>1. Free \in Entries /\ NULL \notin Keys
  BY DictAssumption DEF Free, Entries
<1>2. QED BY <1>1 DEF EmptyTable, TableOK, Active, InUse, Free

LEMMA EmptyTableKeeps ==
  ASSUME NEW n \in Nat, ma_table' = EmptyTable(n), ma_size' = n,
         ma_fill' = 0, ma_used' = 0
  PROVE  /\ ma_table' \in [Slots(n) -> Entries] /\ TableOK(ma_table')
         /\ NoKeyIsLost' /\ CountersCount'
<1>1. Active(ma_table') = {} /\ InUse(ma_table') = {}
  BY EmptyTableOK
<1>2. Cardinality({}) = 0
  BY FS_EmptySet
<1>3. QED BY <1>1, <1>2, EmptyTableOK DEF NoKeyIsLost, CountersCount

-----------------------------------------------------------------------------
(* The invariant of every behaviour, with or without failing allocations   *)
(* and re-entering destructors *)

(* What the phases mean: a SetItem waits in item while its table is being  *)
(* resized, an update has its entries in todo, and only a resize has an    *)
(* old table.                                                              *)
FlowInv ==
  /\ phase \in {"resize", "insert"} => ma_size # 0
  /\ phase = "insert" => item # NoItem
  /\ phase \notin {"resize", "insert"} => item = NoItem
  /\ phase = "resize" => item # NoItem \/ updating
  /\ phase # "resize" => old = EmptyTable(0) /\ pos = 0
  /\ phase = "update" => updating
  /\ phase = "idle" => ~updating
  /\ ~updating => todo = NoUpdate /\ ~hook

TableInv == TypeOK /\ NoKeyIsLost /\ CountersCount /\ FlowInv

LEMMA NoItemIsNone == NoItem \notin [key : Keys, value : Values]
BY DictAssumption DEF NoItem

LEMMA NoUpdateIsNone ==
  DOMAIN NoUpdate = {} /\ DOMAIN NoUpdate \subseteq Keys
  /\ NoUpdate \in [DOMAIN NoUpdate -> Values]
BY DEF NoUpdate

LEMMA TableInit == Init => TableInv
<1> SUFFICES ASSUME Init PROVE TableInv
  OBVIOUS
<1> USE DEF Init
<1>1. TypeOK
  BY EmptyTableOK, NoUpdateIsNone DEF TypeOK
<1>2. NoKeyIsLost /\ CountersCount
  <2>1. Active(ma_table) = {} /\ InUse(ma_table) = {}
    BY EmptyTableOK
  <2>2. QED BY <2>1, FS_EmptySet DEF NoKeyIsLost, CountersCount
<1>3. FlowInv
  BY DEF FlowInv
<1>4. QED BY <1>1, <1>2, <1>3 DEF TableInv

(* The part of TypeOK that is not about the table. *)
RestOK ==
  /\ phase \in {"idle", "resize", "insert", "update", "crash"}
  /\ pos \in Nat /\ \E s \in Sizes \cup {0} : DOMAIN old = Slots(s)
  /\ TableOK(old)
  /\ item \in [key : Keys, value : Values] \cup {NoItem}
  /\ DOMAIN todo \subseteq Keys /\ todo \in [DOMAIN todo -> Values]
  /\ updating \in BOOLEAN /\ hook \in BOOLEAN

(* The three ways in which a step leaves the table in order. *)
TableStep ==
  /\ ma_size' \in Sizes \cup {0}
  /\ ma_table' \in [Slots(ma_size') -> Entries] /\ TableOK(ma_table')
  /\ NoKeyIsLost' /\ CountersCount'

LEMMA TableSame ==
  ASSUME TableInv, UNCHANGED tableVars PROVE TableStep
<1>1. UNCHANGED <<ma_table, ma_size, ma_fill, ma_used>>
  BY DEF tableVars
<1>2. NoKeyIsLost'
  BY <1>1 DEF TableInv, NoKeyIsLost, Stops, KeyAt, SlotOf
<1>3. CountersCount'
  BY <1>1 DEF TableInv, CountersCount
<1>4. QED BY <1>1, <1>2, <1>3 DEF TableInv, TypeOK, TableStep

LEMMA TableInsert ==
  ASSUME TableInv, ma_size # 0, NEW k \in Keys, NEW v \in Values, insertdict(k, v)
  PROVE  TableStep /\ ma_size' = ma_size
<1>1. /\ ma_size' = ma_size
      /\ ma_table' \in [Slots(ma_size) -> Entries] /\ TableOK(ma_table')
      /\ NoKeyIsLost' /\ CountersCount'
  BY InsertKeeps DEF TableInv
<1>2. QED BY <1>1 DEF TableInv, TypeOK, TableStep

LEMMA TableResize ==
  ASSUME TableInv, NEW minused, StartResize(minused)
  PROVE  TableStep /\ ma_size' # 0 /\ phase' = "resize"
         /\ old' = ma_table /\ pos' = 0
         /\ \E s \in Sizes \cup {0} : DOMAIN old' = Slots(s)
         /\ TableOK(old')
<1>1. PICK newsize \in Sizes :
        /\ ma_table' = EmptyTable(newsize) /\ ma_size' = newsize
        /\ ma_fill' = 0 /\ ma_used' = 0
        /\ old' = ma_table /\ pos' = 0
        /\ phase' = "resize"
  BY DEF StartResize
<1>2. newsize \in Nat /\ newsize # 0
  BY DictAssumption
<1>3. TableStep
  BY <1>1, <1>2, EmptyTableKeeps DEF TableStep
<1>4. TableOK(ma_table) /\ \E s \in Sizes \cup {0} : DOMAIN ma_table = Slots(s)
  BY DEF TableInv, TypeOK
<1>5. QED BY <1>1, <1>2, <1>3, <1>4

LEMMA TableClear ==
  ASSUME TableInv, Clear PROVE TableStep
<1>1. /\ ma_table' = EmptyTable(0) /\ ma_size' = 0 /\ ma_fill' = 0 /\ ma_used' = 0
  BY DEF Clear
<1>2. QED BY <1>1, EmptyTableKeeps DEF TableStep

LEMMA TableDelete ==
  ASSUME TableInv, NEW k \in Keys, DelItem(k) PROVE TableStep
<1>1. /\ ma_size' = ma_size
      /\ ma_table' \in [Slots(ma_size) -> Entries] /\ TableOK(ma_table')
      /\ NoKeyIsLost' /\ CountersCount'
  BY DeleteKeeps DEF TableInv
<1>2. QED BY <1>1 DEF TableInv, TypeOK, TableStep

(* A table of no slots has no entry to count. *)
LEMMA FillOfNothing ==
  ASSUME TypeOK, CountersCount
  PROVE  /\ ma_fill \in Nat /\ ma_used \in Nat /\ ma_size \in Nat
         /\ ma_size = 0 => ma_fill = 0
<1>1. ma_size \in Nat /\ DOMAIN ma_table = Slots(ma_size)
  BY DictAssumption DEF TypeOK
<1>2. ma_size = 0 => InUse(ma_table) = {}
  BY <1>1 DEF InUse, Slots
<1>3. QED BY <1>1, <1>2, FiniteSlots, FS_EmptySet DEF CountersCount

LEMMA TableNext == TableInv /\ [Next]_vars => TableInv'
<1> SUFFICES ASSUME TableInv, [Next]_vars PROVE TableInv'
  OBVIOUS
<1>0. RestOK /\ FlowInv /\ TypeOK /\ CountersCount /\ NoKeyIsLost
  BY DEF TableInv, TypeOK, RestOK
<1>1. ASSUME TableStep, RestOK', FlowInv' PROVE TableInv'
  BY <1>1 DEF TableInv, TypeOK, TableStep, RestOK
<1> USE DEF loopVars
<1>2. ASSUME NEW k \in Keys, NEW v \in Values, SetItem(k, v) PROVE TableInv'
  <2>1. ma_size # 0
    BY <1>0, <1>2, FillOfNothing DEF SetItem
  <2>2. TableStep /\ ma_size' = ma_size
    BY <1>2, <2>1, TableInsert DEF SetItem
  <2>3. RestOK' /\ FlowInv'
    BY <1>0, <1>2, <2>2 DEF SetItem, RestOK, FlowInv, TableOK
  <2>4. QED BY <1>1, <2>2, <2>3
<1>3. ASSUME NEW k \in Keys, NEW v \in Values, SetItemResizes(k, v) PROVE TableInv'
  <2>1. /\ TableStep /\ ma_size' # 0 /\ phase' = "resize"
        /\ old' = ma_table /\ pos' = 0
        /\ \E s \in Sizes \cup {0} : DOMAIN old' = Slots(s)
        /\ TableOK(old')
    BY <1>3, TableResize DEF SetItemResizes
  <2>2. item' \in [key : Keys, value : Values] /\ UNCHANGED <<updating, todo, hook>>
    BY <1>3 DEF SetItemResizes
  <2>3. RestOK'
    BY <1>0, <2>1, <2>2 DEF RestOK
  <2>4. FlowInv'
    BY <1>0, <2>1, <2>2, NoItemIsNone DEF FlowInv
  <2>5. QED BY <1>1, <2>1, <2>3, <2>4
<1>4. ASSUME NEW k \in Keys, DelItem(k) PROVE TableInv'
  <2>1. TableStep
    BY <1>4, TableDelete
  <2>2. RestOK' /\ FlowInv'
    BY <1>0, <1>4 DEF DelItem, RestOK, FlowInv, TableOK
  <2>3. QED BY <1>1, <2>1, <2>2
<1>5. ASSUME NEW k \in Keys, UpdateEntry(k) PROVE TableInv'
  <2>1. /\ phase = "update" /\ k \in DOMAIN todo /\ todo' = Without(todo, k)
        /\ UNCHANGED <<old, pos, item, updating>>
    BY <1>5 DEF UpdateEntry
  <2>2. DOMAIN todo' \subseteq Keys /\ todo' \in [DOMAIN todo' -> Values]
    BY <1>0, <2>1 DEF RestOK, Without
  <2>3. CASE ma_size = 0
    <3>1. TableStep
      BY <1>5, <2>3, TableSame DEF UpdateEntry
    <3>2. phase' = "crash" /\ hook' = hook
      BY <1>5, <2>3 DEF UpdateEntry
    <3>3. RestOK' /\ FlowInv'
      BY <1>0, <2>1, <2>2, <3>2 DEF RestOK, FlowInv, TableOK
    <3>4. QED BY <1>1, <3>1, <3>3
  <2>4. CASE ma_size # 0
    <3>1. /\ insertdict(k, todo[k]) /\ phase' = phase /\ hook' \in BOOLEAN
      BY <1>5, <2>4 DEF UpdateEntry
    <3>2. todo[k] \in Values
      BY <1>0, <2>1 DEF RestOK
    <3>3. TableStep /\ ma_size' = ma_size
      BY <2>4, <3>1, <3>2, TableInsert
    <3>4. RestOK' /\ FlowInv'
      BY <1>0, <2>1, <2>2, <3>1, <3>3 DEF RestOK, FlowInv, TableOK
    <3>5. QED BY <1>1, <3>3, <3>4
  <2>5. QED BY <2>3, <2>4
<1>6. ASSUME NEW other \in Others, StartUpdate(other) PROVE TableInv'
  <2> DEFINE n == Cardinality(DOMAIN other)
  <2>1. DOMAIN other \subseteq Keys /\ other \in [DOMAIN other -> Values]
    BY DictAssumption
  <2>2. /\ phase = "idle" /\ todo' = other /\ updating' = TRUE /\ hook' = FALSE
        /\ item' = item
    BY <1>6 DEF StartUpdate
  <2>3. CASE StartResize(((ma_used + n) * 3) \div 2)
    <3>1. /\ TableStep /\ ma_size' # 0 /\ phase' = "resize"
          /\ old' = ma_table /\ pos' = 0
          /\ \E s \in Sizes \cup {0} : DOMAIN old' = Slots(s)
          /\ TableOK(old')
      BY <2>3, TableResize
    <3>2. RestOK' /\ FlowInv'
      BY <1>0, <2>1, <2>2, <3>1 DEF RestOK, FlowInv
    <3>3. QED BY <1>1, <3>1, <3>2
  <2>4. CASE phase' = "update" /\ UNCHANGED <<tableVars, old, pos>>
    <3>1. TableStep
      BY <2>4, TableSame
    <3>2. RestOK' /\ FlowInv'
      BY <1>0, <2>1, <2>2, <2>4 DEF RestOK, FlowInv, TableOK
    <3>3. QED BY <1>1, <3>1, <3>2
  <2>5. QED BY <1>6, <2>3, <2>4 DEF StartUpdate
<1>7. CASE Clear
  <2>1. TableStep
    BY <1>7, TableClear
  <2>2. RestOK' /\ FlowInv'
    BY <1>0, <1>7 DEF Clear, MayStart, RestOK, FlowInv, TableOK
  <2>3. QED BY <1>1, <2>1, <2>2
<1>8. CASE Reinsert
  <2>1. /\ phase = "resize" /\ pos \in DOMAIN old /\ pos' = pos + 1
        /\ UNCHANGED <<phase, old, item, updating, todo, hook>>
        /\ ma_size # 0
    BY <1>0, <1>8 DEF Reinsert, FlowInv
  <2>2. TableStep /\ ma_size' = ma_size
    <3>1. CASE old[pos].value # NULL
      <4>1. old[pos].key \in Keys /\ old[pos].value \in Values
        BY <1>0, <2>1, <3>1 DEF RestOK, TableOK, Entries
      <4>2. insertdict(old[pos].key, old[pos].value)
        BY <1>8, <3>1 DEF Reinsert
      <4>3. QED BY <2>1, <4>1, <4>2, TableInsert
    <3>2. CASE old[pos].value = NULL
      BY <1>8, <3>2, TableSame DEF Reinsert, tableVars
    <3>3. QED BY <3>1, <3>2
  <2>3. RestOK' /\ FlowInv'
    BY <1>0, <2>1, <2>2 DEF RestOK, FlowInv, TableOK
  <2>4. QED BY <1>1, <2>2, <2>3
<1>9. CASE FinishResize
  <2>1. TableStep
    BY <1>9, TableSame DEF FinishResize
  <2>2. ma_size' = ma_size
    BY <1>9 DEF FinishResize, tableVars
  <2>3. DOMAIN EmptyTable(0) = Slots(0) /\ TableOK(EmptyTable(0))
    BY EmptyTableOK
  <2>4. RestOK'
    BY <1>0, <1>9, <2>3 DEF FinishResize, RestOK
  <2>5. FlowInv'
    BY <1>0, <1>9, <2>2 DEF FinishResize, FlowInv
  <2>6. QED BY <1>1, <2>1, <2>4, <2>5
<1>10. CASE Insert
  <2>1. /\ phase = "insert" /\ item # NoItem /\ ma_size # 0
        /\ insertdict(item.key, item.value) /\ item' = NoItem
        /\ phase' = IF updating THEN "update" ELSE "idle"
        /\ UNCHANGED <<old, pos, updating, todo, hook>>
    BY <1>0, <1>10 DEF Insert, Resume, FlowInv
  <2>2. item.key \in Keys /\ item.value \in Values
    BY <1>0, <2>1 DEF RestOK
  <2>3. TableStep
    BY <2>1, <2>2, TableInsert
  <2>4. RestOK'
    BY <1>0, <2>1 DEF RestOK, TableOK
  <2>5. FlowInv'
    BY <1>0, <2>1 DEF FlowInv, RestOK
  <2>6. QED BY <1>1, <2>3, <2>4, <2>5
<1>11. CASE FinishUpdate
  <2>1. TableStep
    BY <1>11, TableSame DEF FinishUpdate
  <2>2. RestOK' /\ FlowInv'
    BY <1>0, <1>11 DEF FinishUpdate, RestOK, FlowInv, TableOK
  <2>3. QED BY <1>1, <2>1, <2>2
<1>12. CASE UNCHANGED vars
  <2>1. TableStep
    BY <1>12, TableSame DEF vars
  <2>2. RestOK' /\ FlowInv'
    BY <1>0, <1>12 DEF vars, tableVars, RestOK, FlowInv, TableOK
  <2>3. QED BY <1>1, <2>1, <2>2
<1>13. QED
  BY <1>2, <1>3, <1>4, <1>5, <1>6, <1>7, <1>8, <1>9, <1>10, <1>11, <1>12 DEF Next

LEMMA TableAlways == Spec => []TableInv
<1>1. QED BY TableInit, TableNext, PTL DEF Spec

(* The table is always an array of ma_size entries that are in use with a  *)
(* key and a value, or not in use with neither.                            *)
THEOREM TypeCorrectness == Spec => []TypeOK
<1>1. TableInv => TypeOK
  BY DEF TableInv
<1>2. QED BY <1>1, TableAlways, PTL

(* No sequence of operations, failed resizes and re-entering destructors   *)
(* included, makes a key unreachable or stores it twice.                   *)
THEOREM KeysStayReachable == Spec => []NoKeyIsLost
<1>1. TableInv => NoKeyIsLost
  BY DEF TableInv
<1>2. QED BY <1>1, TableAlways, PTL

(* ma_fill and ma_used always count what the comment says they count.      *)
THEOREM CountersAreRight == Spec => []CountersCount
<1>1. TableInv => CountersCount
  BY DEF TableInv
<1>2. QED BY <1>1, TableAlways, PTL

-----------------------------------------------------------------------------
(* Room: when every allocation succeeds and no destructor re-enters, the   *)
(* entries still to come always leave a NULL key *)

(* The entries of the old table that pass 1 has not reached, and the keys  *)
(* that the operation under way will insert after the resize.              *)
Left == {s \in DOMAIN old : s >= pos /\ old[s].value # NULL}
Coming == IF item # NoItem THEN 1 ELSE Cardinality(DOMAIN todo)

RoomInv ==
  /\ phase # "crash" /\ (phase = "update" => ma_size # 0)
  /\ item # NoItem => ~updating
  /\ ma_size # 0 => ma_fill + Cardinality(Left) + Coming < ma_size

LEMMA ComingIsNat ==
  ASSUME TypeOK PROVE IsFiniteSet(DOMAIN todo) /\ Cardinality(DOMAIN todo) \in Nat
<1>1. DOMAIN todo \in SUBSET Keys /\ IsFiniteSet(Keys)
  BY DictAssumption DEF TypeOK
<1>2. QED BY <1>1, FS_Subset, FS_CardinalityType

LEMMA LeftIsFinite ==
  ASSUME TypeOK
  PROVE  IsFiniteSet(Left) /\ Cardinality(Left) \in Nat
<1>1. PICK n \in Sizes \cup {0} : DOMAIN old = Slots(n)
  BY DEF TypeOK
<1>2. n \in Nat
  BY DictAssumption
<1>3. IsFiniteSet(Active(old))
  BY <1>1, <1>2, FiniteSlots
<1>4. Left \in SUBSET Active(old)
  BY DEF Left, Active
<1>5. QED BY <1>3, <1>4, FS_Subset, FS_CardinalityType

LEMMA NothingLeft == ASSUME old = EmptyTable(0) PROVE Left = {} /\ Cardinality(Left) = 0
<1>1. DOMAIN old = {}
  BY DEF EmptyTable, Slots
<1>2. Left = {}
  BY <1>1 DEF Left
<1>3. QED BY <1>2, FS_EmptySet

(* The entries in use have different keys: there are at most Keys of them. *)
LEMMA UsedIsBounded ==
  ASSUME TableInv PROVE ma_used <= Cardinality(Keys)
<1> DEFINE f == [s \in Active(ma_table) |-> ma_table[s].key]
<1>1. ma_size \in Nat /\ DOMAIN ma_table = Slots(ma_size) /\ TableOK(ma_table)
  BY DictAssumption DEF TableInv, TypeOK
<1>2. IsFiniteSet(Active(ma_table)) /\ IsFiniteSet(Keys)
  BY <1>1, FiniteSlots, DictAssumption
<1>3. f \in [Active(ma_table) -> Keys]
  BY <1>1 DEF Active, TableOK
<1>4. \A s, t \in Active(ma_table) : f[s] = f[t] => s = t
  <2>1. SUFFICES ASSUME NEW s \in Active(ma_table), NEW t \in Active(ma_table),
                        ma_table[s].key = ma_table[t].key
                 PROVE  s = t
    OBVIOUS
  <2>2. PICK n \in Slots(ma_size) :
          /\ SlotOf(ma_table[s].key, n) = s
          /\ \A m \in 0 .. n - 1 : ~Stops(ma_table[s].key, m)
    BY DEF TableInv, NoKeyIsLost
  <2>3. PICK j \in Slots(ma_size) :
          /\ SlotOf(ma_table[t].key, j) = t
          /\ \A m \in 0 .. j - 1 : ~Stops(ma_table[t].key, m)
    BY DEF TableInv, NoKeyIsLost
  <2>4. Stops(ma_table[s].key, n) /\ Stops(ma_table[s].key, j)
    BY <2>1, <2>2, <2>3 DEF Stops, KeyAt
  <2>5. n \in Nat /\ j \in Nat
    BY DEF Slots
  <2>6. ~(n < j) /\ ~(j < n)
    BY <2>1, <2>2, <2>3, <2>4, <2>5
  <2>7. QED BY <2>1, <2>2, <2>3, <2>5, <2>6
<1>5. f \in Injection(Active(ma_table), Keys)
  BY <1>3, <1>4 DEF Injection, IsInjective
<1>6. Cardinality(Active(ma_table)) <= Cardinality(Keys)
  <2> HIDE DEF f
  <2>1. QED BY <1>2, <1>5, FS_Injection
<1>7. QED BY <1>6 DEF TableInv, CountersCount

LEMMA RoomInit == Init => RoomInv
BY DEF Init, RoomInv

(* The resize of an operation that brings n keys leaves room for them if   *)
(* it asks for more slots than entries in use and keys to come.            *)
LEMMA ResizeMakesRoom ==
  ASSUME TableInv, NEW n \in Nat, NEW minused, StartResize(minused),
         \A size \in Nat : size >= 4 /\ size > minused => ma_used + n < size
  PROVE  /\ ma_size' # 0 /\ phase' = "resize"
         /\ ma_fill' + Cardinality(Left') + n < ma_size'
<1>1. PICK newsize \in Sizes :
        /\ newsize > minused
        /\ ma_size' = newsize /\ ma_fill' = 0
        /\ old' = ma_table /\ pos' = 0
        /\ phase' = "resize"
  BY DEF StartResize, Fits
<1>2. newsize \in Nat /\ newsize >= 4
  BY DictAssumption
<1>3. ma_size \in Nat /\ DOMAIN ma_table = Slots(ma_size)
  BY DictAssumption DEF TableInv, TypeOK
<1>4. Left' = Active(ma_table)
  BY <1>1, <1>3 DEF Left, Active, Slots
<1>5. Cardinality(Left') = ma_used /\ ma_used \in Nat
  BY <1>3, <1>4, FiniteSlots DEF TableInv, CountersCount
<1>6. QED BY <1>1, <1>2, <1>5

LEMMA RoomNext ==
  ASSUME TableInv, RoomInv, ~AllocFails, ~Reenters, [Next]_vars
  PROVE  RoomInv'
<1>0. /\ TypeOK /\ FlowInv /\ CountersCount /\ NoKeyIsLost
      /\ ma_fill \in Nat /\ ma_used \in Nat /\ ma_size \in Nat
      /\ IsFiniteSet(Left) /\ Cardinality(Left) \in Nat
      /\ IsFiniteSet(DOMAIN todo) /\ Cardinality(DOMAIN todo) \in Nat
      /\ Coming \in Nat
  BY FillOfNothing, LeftIsFinite, ComingIsNat DEF TableInv, Coming
<1>1. MayStart => /\ phase = "idle" /\ ~updating /\ item = NoItem /\ todo = NoUpdate
                  /\ old = EmptyTable(0) /\ Cardinality(Left) = 0 /\ Coming = 0
  <2>1. Cardinality(DOMAIN NoUpdate) = 0
    BY NoUpdateIsNone, FS_EmptySet
  <2>2. QED BY <1>0, <2>1, NothingLeft DEF MayStart, FlowInv, Coming
<1> USE DEF loopVars
<1>2. ASSUME NEW k \in Keys, NEW v \in Values, SetItem(k, v) PROVE RoomInv'
  <2>1. ~ResizeFails(ma_used * 2)
    <3>1. PICK s \in Sizes : s > 3 * Cardinality(Keys)
      BY DictAssumption
    <3>2. s \in Nat /\ Cardinality(Keys) \in Nat
      BY DictAssumption, FS_CardinalityType
    <3>3. s > ma_used * 2
      BY <1>0, <3>1, <3>2, UsedIsBounded
    <3>4. QED BY <3>3 DEF ResizeFails
  <2>2. /\ ma_fill * 3 < ma_size * 2 /\ MayStart /\ insertdict(k, v)
        /\ UNCHANGED <<phase, old, pos, item, updating, todo>>
    BY <1>2, <2>1 DEF SetItem
  <2>3. ma_size # 0 /\ ma_size >= 4
    BY <1>0, <2>2, DictAssumption DEF TypeOK
  <2>4. ma_size' = ma_size /\ ma_fill' \in {ma_fill, ma_fill + 1}
    BY <1>0, <2>2, <2>3, InsertKeeps
  <2>5. Left' = Left /\ Coming' = Coming
    BY <2>2 DEF Left, Coming
  <2>6. Cardinality(Left') = 0 /\ Coming' = 0
    BY <1>1, <2>2, <2>5
  <2>7. ma_fill' + 0 + 0 < ma_size'
    <3>1. ma_fill + 1 < ma_size
      <4> HIDE DEF insertdict, MayStart
      <4>1. ma_fill * 3 < ma_size * 2
        BY <2>2
      <4>2. ma_fill \in Nat /\ ma_size \in Nat /\ ma_size >= 4
        BY <1>0, <2>3
      <4>3. QED BY <4>1, <4>2
    <3>2. CASE ma_fill' = ma_fill
      <4>1. ma_fill' \in Nat /\ ma_fill' < ma_size'
        BY <1>0, <2>4, <3>1, <3>2
      <4>2. QED BY <4>1
    <3>3. CASE ma_fill' = ma_fill + 1
      <4>1. ma_fill' \in Nat /\ ma_fill' < ma_size'
        BY <1>0, <2>4, <3>1, <3>3
      <4>2. QED BY <4>1
    <3>4. QED BY <2>4, <3>2, <3>3
  <2>8. phase' = "idle" /\ item' = NoItem
    BY <1>1, <2>2
  <2>9. QED BY <2>6, <2>7, <2>8 DEF RoomInv
<1>3. ASSUME NEW k \in Keys, NEW v \in Values, SetItemResizes(k, v) PROVE RoomInv'
  <2>1. /\ MayStart /\ StartResize(ma_used * 2)
        /\ item' = [key |-> k, value |-> v] /\ updating' = updating
    BY <1>3 DEF SetItemResizes
  <2>2. \A size \in Nat : size >= 4 /\ size > ma_used * 2 => ma_used + 1 < size
    BY <1>0
  <2>3. /\ ma_size' # 0 /\ phase' = "resize"
        /\ ma_fill' + Cardinality(Left') + 1 < ma_size'
    BY <2>1, <2>2, ResizeMakesRoom
  <2>4. Coming' = 1
    BY <2>1, NoItemIsNone DEF Coming
  <2>5. QED BY <1>1, <2>1, <2>3, <2>4 DEF RoomInv
<1>4. ASSUME NEW k \in Keys, DelItem(k) PROVE RoomInv'
  <2>1. ma_size' = ma_size /\ ma_fill' = ma_fill
    BY <1>4 DEF DelItem
  <2>2. UNCHANGED <<phase, old, pos, item, updating, todo>>
    BY <1>4 DEF DelItem
  <2>3. Left' = Left /\ Coming' = Coming
    BY <2>2 DEF Left, Coming
  <2>4. QED BY <2>1, <2>2, <2>3 DEF RoomInv
<1>5. ASSUME NEW k \in Keys, UpdateEntry(k) PROVE RoomInv'
  <2>1. /\ phase = "update" /\ k \in DOMAIN todo /\ todo' = Without(todo, k)
        /\ UNCHANGED <<old, pos, item, updating>> /\ ma_size # 0
        /\ item = NoItem
    BY <1>0, <1>5 DEF UpdateEntry, RoomInv, FlowInv
  <2>2. insertdict(k, todo[k]) /\ phase' = phase
    BY <1>5, <2>1 DEF UpdateEntry
  <2>3. todo[k] \in Values
    BY <1>0, <2>1 DEF TypeOK
  <2>4. ma_size' = ma_size /\ ma_fill' \in {ma_fill, ma_fill + 1}
    BY <1>0, <2>1, <2>2, <2>3, InsertKeeps
  <2>5. Left' = Left
    BY <2>1 DEF Left
  <2>6. DOMAIN todo' = DOMAIN todo \ {k}
    BY <2>1 DEF Without
  <2>7. Cardinality(DOMAIN todo') = Cardinality(DOMAIN todo) - 1
    BY <1>0, <2>1, <2>6, FS_RemoveElement
  <2>8. Coming' = Coming - 1
    BY <2>1, <2>7 DEF Coming
  <2>9. QED BY <1>0, <2>1, <2>2, <2>4, <2>5, <2>8 DEF RoomInv
<1>6. ASSUME NEW other \in Others, StartUpdate(other) PROVE RoomInv'
  <2> DEFINE n == Cardinality(DOMAIN other)
  <2>1. n \in Nat
    <3>1. DOMAIN other \in SUBSET Keys /\ IsFiniteSet(Keys)
      BY DictAssumption
    <3>2. QED BY <3>1, FS_Subset, FS_CardinalityType
  <2>2. /\ phase = "idle" /\ todo' = other /\ item' = item
        /\ IF (ma_fill + n) * 3 >= ma_size * 2
           THEN StartResize(((ma_used + n) * 3) \div 2)
           ELSE phase' = "update" /\ UNCHANGED <<tableVars, old, pos>>
    BY <1>6 DEF StartUpdate
  <2>3. item = NoItem /\ item' = NoItem /\ Cardinality(Left) = 0
    BY <1>1, <2>2 DEF MayStart
  <2>4. Coming' = n
    BY <2>2, <2>3 DEF Coming
  <2> HIDE DEF n
  <2>5. CASE (ma_fill + n) * 3 >= ma_size * 2
    <3>1. \A size \in Nat : size >= 4 /\ size > ((ma_used + n) * 3) \div 2
                             => ma_used + n < size
      BY <1>0, <2>1
    <3>2. StartResize(((ma_used + n) * 3) \div 2)
      BY <2>2, <2>5
    <3>3. /\ ma_size' # 0 /\ phase' = "resize"
          /\ ma_fill' + Cardinality(Left') + n < ma_size'
      BY <2>1, <3>1, <3>2, ResizeMakesRoom
    <3>4. QED BY <2>3, <2>4, <3>3 DEF RoomInv
  <2>6. CASE ~((ma_fill + n) * 3 >= ma_size * 2)
    <3>1. phase' = "update" /\ ma_size' = ma_size /\ ma_fill' = ma_fill /\ Left' = Left
      BY <2>2, <2>6 DEF tableVars, Left
    <3>2. ma_size # 0 /\ ma_fill + n < ma_size
      BY <1>0, <2>1, <2>6
    <3>3. QED BY <1>0, <2>1, <2>3, <2>4, <3>1, <3>2 DEF RoomInv
  <2>7. QED BY <2>5, <2>6
<1>7. CASE Clear
  <2>1. ma_size' = 0 /\ MayStart /\ UNCHANGED <<phase, item, updating>>
    BY <1>7 DEF Clear
  <2>2. QED BY <1>1, <2>1 DEF RoomInv
<1>8. CASE Reinsert
  <2>1. /\ phase = "resize" /\ pos \in DOMAIN old /\ pos' = pos + 1
        /\ UNCHANGED <<phase, old, item, updating, todo>>
        /\ ma_size # 0
    BY <1>0, <1>8 DEF Reinsert, FlowInv
  <2>2. Coming' = Coming
    BY <2>1 DEF Coming
  <2>3. DOMAIN old \subseteq Nat /\ pos \in Nat
    BY <1>0, DictAssumption DEF TypeOK, Slots
  <2>4. CASE old[pos].value # NULL
    <3>1. old[pos].key \in Keys /\ old[pos].value \in Values
      BY <1>0, <2>1, <2>4 DEF TypeOK, TableOK, Entries
    <3>2. insertdict(old[pos].key, old[pos].value)
      BY <1>8, <2>4 DEF Reinsert
    <3>3. ma_size' = ma_size /\ ma_fill' \in {ma_fill, ma_fill + 1}
      BY <1>0, <2>1, <3>1, <3>2, InsertKeeps
    <3>4. Left' = Left \ {pos} /\ pos \in Left
      BY <2>1, <2>3, <2>4 DEF Left
    <3>5. Cardinality(Left') = Cardinality(Left) - 1
      BY <1>0, <3>4, FS_RemoveElement
    <3>6. QED BY <1>0, <2>1, <2>2, <3>3, <3>5 DEF RoomInv
  <2>5. CASE old[pos].value = NULL
    <3>1. ma_size' = ma_size /\ ma_fill' = ma_fill
      BY <1>8, <2>5 DEF Reinsert, tableVars
    <3>2. Left' = Left
      BY <2>1, <2>3, <2>5 DEF Left
    <3>3. QED BY <2>1, <2>2, <3>1, <3>2 DEF RoomInv
  <2>6. QED BY <2>4, <2>5
<1>9. CASE FinishResize
  <2>1. /\ phase = "resize" /\ ma_size' = ma_size /\ ma_fill' = ma_fill
        /\ old' = EmptyTable(0)
        /\ UNCHANGED <<item, updating, todo>> /\ ma_size # 0
        /\ phase' \in {"insert", "update"}
    BY <1>0, <1>9 DEF FinishResize, tableVars, FlowInv
  <2>2. Left' = {}
    BY <2>1 DEF Left, EmptyTable, Slots
  <2>3. Coming' = Coming /\ Cardinality(Left') = 0
    BY <2>1, <2>2, FS_EmptySet DEF Coming
  <2>4. QED BY <1>0, <2>1, <2>2, <2>3 DEF RoomInv
<1>10. CASE Insert
  <2>1. /\ phase = "insert" /\ item # NoItem /\ ma_size # 0 /\ ~updating
        /\ insertdict(item.key, item.value) /\ item' = NoItem
        /\ phase' = "idle"
        /\ UNCHANGED <<old, pos, updating, todo>>
    BY <1>0, <1>10 DEF Insert, Resume, FlowInv, RoomInv
  <2>2. item.key \in Keys /\ item.value \in Values
    BY <1>0, <2>1 DEF TypeOK
  <2>3. ma_size' = ma_size /\ ma_fill' \in {ma_fill, ma_fill + 1}
    BY <1>0, <2>1, <2>2, InsertKeeps
  <2>4. Left' = Left /\ Coming = 1
    BY <2>1 DEF Left, Coming
  <2>5. Coming' = 0
    <3>1. todo' = NoUpdate
      BY <1>0, <2>1 DEF FlowInv
    <3>2. QED BY <2>1, <3>1, NoUpdateIsNone, FS_EmptySet DEF Coming
  <2>6. QED BY <1>0, <2>1, <2>3, <2>4, <2>5 DEF RoomInv
<1>11. CASE FinishUpdate
  <2>1. /\ phase' = "idle" /\ ma_size' = ma_size /\ ma_fill' = ma_fill
        /\ UNCHANGED <<old, pos, item, todo>> /\ phase = "update"
    BY <1>11 DEF FinishUpdate, tableVars
  <2>2. Left' = Left /\ Coming' = Coming /\ item' = NoItem
    BY <1>0, <2>1 DEF Left, Coming, FlowInv
  <2>3. QED BY <2>1, <2>2 DEF RoomInv
<1>12. CASE UNCHANGED vars
  BY <1>12 DEF vars, tableVars, RoomInv, Left, Coming
<1>13. QED
  BY <1>2, <1>3, <1>4, <1>5, <1>6, <1>7, <1>8, <1>9, <1>10, <1>11, <1>12 DEF Next

LEMMA RoomMeansNull ==
  ASSUME TableInv, RoomInv PROVE OneNullKey
<1> SUFFICES ASSUME ma_size # 0, \A s \in Slots(ma_size) : ma_table[s].key # NULL
             PROVE  FALSE
  BY DEF OneNullKey
<1>1. ma_size \in Nat /\ DOMAIN ma_table = Slots(ma_size)
  BY DictAssumption DEF TableInv, TypeOK
<1>2. InUse(ma_table) = Slots(ma_size)
  BY <1>1 DEF InUse
<1>3. ma_fill = ma_size
  BY <1>1, <1>2, FiniteSlots DEF TableInv, CountersCount
<1>4. Cardinality(Left) \in Nat /\ Coming \in Nat
  BY LeftIsFinite, ComingIsNat DEF TableInv, Coming
<1>5. QED BY <1>1, <1>3, <1>4 DEF RoomInv

LEMMA RoomAlways ==
  ASSUME ~AllocFails, ~Reenters PROVE Spec => [](TableInv /\ RoomInv)
<1>1. TableInv /\ RoomInv /\ [Next]_vars => (TableInv /\ RoomInv)'
  BY TableNext, RoomNext
<1>2. Init => TableInv /\ RoomInv
  BY TableInit, RoomInit
<1>3. QED BY <1>1, <1>2, PTL DEF Spec

(* While allocations succeed and destructors keep off the dictionary, a    *)
(* table always has the NULL key that lookdict needs to stop, through any  *)
(* sequence of sets, deletions, clears, resizes and updates.               *)
THEOREM LookupsAlwaysStop ==
  ASSUME ~AllocFails, ~Reenters PROVE Spec => []OneNullKey
<1>1. TableInv /\ RoomInv => OneNullKey
  BY RoomMeansNull
<1>2. Spec => [](TableInv /\ RoomInv)
  BY RoomAlways
<1>3. QED BY <1>1, <1>2, PTL

LEMMA NullKeyMeansRight ==
  ASSUME TableInv, OneNullKey PROVE LookupIsRight
<1> SUFFICES ASSUME phase \in {"idle", "update"}, ma_size # 0, NEW k \in Keys
             PROVE  /\ Returns(k)
                    /\ \A v \in Values : Holds(k, v) <=> GetItem(k) = v
  BY DEF LookupIsRight
<1>1. /\ ma_size \in Sizes /\ ma_size \in Nat
      /\ ma_table \in [Slots(ma_size) -> Entries] /\ TableOK(ma_table)
      /\ TypeOK /\ NoKeyIsLost /\ NULL \notin Values /\ NULL \notin Keys
  BY DictAssumption DEF TableInv, TypeOK
<1>2. Returns(k)
  <2>1. PICK s \in Slots(ma_size) : ma_table[s].key = NULL
    BY DEF OneNullKey
  <2>2. PICK n \in Slots(ma_size) : SlotOf(k, n) = s
    BY <1>1, <2>1, ProbeAssumption DEF SlotOf, Slots
  <2>3. QED BY <2>1, <2>2 DEF Returns, Stops, KeyAt
<1>3. GetItem(k) = ma_table[lookdict(k)].value
  BY DEF GetItem
<1>4. DOMAIN old = {}
  BY DEF TableInv, FlowInv, EmptyTable, Slots
<1>5. ASSUME NEW v \in Values, Holds(k, v) PROVE GetItem(k) = v
  <2>1. PICK s \in Slots(ma_size) : ma_table[s] = [key |-> k, value |-> v]
    BY <1>1, <1>4, <1>5 DEF Holds
  <2>2. s \in Active(ma_table) /\ ma_table[s].key = k
    BY <1>1, <2>1 DEF Active
  <2>3. ma_table[lookdict(k)].key = k /\ lookdict(k) \in Slots(ma_size)
    BY <1>1, <1>2, <2>2, LookupFinds
  <2>4. lookdict(k) = s
    <3>1. PICK n \in Slots(ma_size) :
            /\ SlotOf(k, n) = lookdict(k)
            /\ \A m \in 0 .. n - 1 : ~Stops(k, m) /\ SlotOf(k, m) # lookdict(k)
      BY <1>1, <1>2, LookupFinds
    <3>2. PICK j \in Slots(ma_size) :
            /\ SlotOf(k, j) = s
            /\ \A m \in 0 .. j - 1 : ~Stops(k, m)
      BY <1>1, <2>2 DEF NoKeyIsLost
    <3>3. Stops(k, n) /\ Stops(k, j)
      BY <2>2, <2>3, <3>1, <3>2 DEF Stops, KeyAt
    <3>4. n \in Nat /\ j \in Nat
      BY <1>1 DEF Slots
    <3>5. ~(n < j) /\ ~(j < n)
      BY <3>1, <3>2, <3>3, <3>4
    <3>6. QED BY <3>1, <3>2, <3>4, <3>5
  <2>5. QED BY <1>3, <2>1, <2>4
<1>6. ASSUME NEW v \in Values, GetItem(k) = v PROVE Holds(k, v)
  <2>1. lookdict(k) \in Slots(ma_size) /\ ma_table[lookdict(k)].key \in {NULL, Dummy, k}
    BY <1>1, <1>2, LookupFinds
  <2>2. ma_table[lookdict(k)].value = v /\ v # NULL
    BY <1>1, <1>3, <1>6
  <2>3. ma_table[lookdict(k)].key = k
    BY <1>1, <2>1, <2>2, DictAssumption DEF TableOK
  <2>4. ma_table[lookdict(k)] = [key |-> k, value |-> v]
    BY <1>1, <2>1, <2>2, <2>3 DEF Entries
  <2>5. QED BY <1>1, <2>1, <2>4 DEF Holds
<1>7. QED BY <1>2, <1>5, <1>6

(* Under the same conditions every lookup returns, of an absent key too,   *)
(* and gives exactly what the table holds for the key.                     *)
THEOREM LookupsAreRight ==
  ASSUME ~AllocFails, ~Reenters PROVE Spec => []LookupIsRight
<1>1. TableInv /\ RoomInv => LookupIsRight
  BY RoomMeansNull, NullKeyMeansRight
<1>2. Spec => [](TableInv /\ RoomInv)
  BY RoomAlways
<1>3. QED BY <1>1, <1>2, PTL

-----------------------------------------------------------------------------
(* The refinement of DictSpec *)

(* The map that a table and what is left of an old one stand for.          *)
Pair(k, v)            == [key |-> k, value |-> v]
InTable(table, k, v)  == \E s \in DOMAIN table : table[s] = Pair(k, v)
IsLeft(o, p, k, v)    == \E s \in DOMAIN o : s >= p /\ o[s] = Pair(k, v)
HeldIn(table, o, p, k, v) == InTable(table, k, v) \/ IsLeft(o, p, k, v)
MapIn(table, o, p) == [k \in {j \in Keys : \E v \in Values : HeldIn(table, o, p, j, v)} |->
                         CHOOSE v \in Values : HeldIn(table, o, p, k, v)]
OneEach(table, o, p) ==
  \A k \in Keys, v, w \in Values : HeldIn(table, o, p, k, v) /\ HeldIn(table, o, p, k, w) => v = w

(* f is that map. *)
IsMap(f, table, o, p) ==
  /\ f = [k \in DOMAIN f |-> f[k]] /\ DOMAIN f \subseteq Keys
  /\ \A k \in Keys, v \in Values : HeldIn(table, o, p, k, v) <=> k \in DOMAIN f /\ f[k] = v
  /\ \A k \in DOMAIN f : f[k] \in Values

LEMMA MapIsMap ==
  ASSUME NEW table, NEW o, NEW p, OneEach(table, o, p)
  PROVE  IsMap(MapIn(table, o, p), table, o, p)
<1> DEFINE f == MapIn(table, o, p)
           D == {j \in Keys : \E v \in Values : HeldIn(table, o, p, j, v)}
<1>1. f = [k \in D |-> CHOOSE v \in Values : HeldIn(table, o, p, k, v)]
  BY DEF MapIn
<1>2. DOMAIN f = D /\ f = [k \in DOMAIN f |-> f[k]]
  BY <1>1
<1>3. ASSUME NEW k \in D PROVE f[k] \in Values /\ HeldIn(table, o, p, k, f[k])
  <2>1. f[k] = CHOOSE v \in Values : HeldIn(table, o, p, k, v)
    BY <1>1
  <2>2. \E v \in Values : HeldIn(table, o, p, k, v)
    OBVIOUS
  <2>3. QED BY <2>1, <2>2
<1> HIDE DEF f
<1>4. ASSUME NEW k \in Keys, NEW v \in Values
      PROVE  HeldIn(table, o, p, k, v) <=> k \in DOMAIN f /\ f[k] = v
  BY <1>2, <1>3 DEF OneEach
<1>5. QED BY <1>2, <1>3, <1>4 DEF IsMap, f

LEMMA MapsAreEqual ==
  ASSUME NEW table, NEW o, NEW p, NEW f, NEW g, IsMap(f, table, o, p), IsMap(g, table, o, p)
  PROVE  f = g
<1>1. \A k \in Keys : k \in DOMAIN f <=> k \in DOMAIN g
  BY DEF IsMap
<1>2. DOMAIN f = DOMAIN g
  BY <1>1 DEF IsMap
<1>3. \A k \in DOMAIN f : f[k] = g[k]
  BY <1>2 DEF IsMap
<1>4. f = [k \in DOMAIN f |-> f[k]] /\ g = [k \in DOMAIN g |-> g[k]]
  BY DEF IsMap
<1>5. [k \in DOMAIN f |-> f[k]] = [k \in DOMAIN g |-> g[k]]
  BY <1>2, <1>3
<1>6. QED BY <1>4, <1>5

(* What becomes of the map when the pairs change.                          *)
SamePairs(table, o, p, t2, o2, p2) ==
  \A k \in Keys, v \in Values : HeldIn(t2, o2, p2, k, v) <=> HeldIn(table, o, p, k, v)
PairSet(table, o, p, t2, o2, p2, k, v) ==
  \A j \in Keys, w \in Values :
    HeldIn(t2, o2, p2, j, w) <=> IF j = k THEN w = v ELSE HeldIn(table, o, p, j, w)
PairGone(table, o, p, t2, o2, p2, k) ==
  \A j \in Keys, w \in Values : HeldIn(t2, o2, p2, j, w) <=> j # k /\ HeldIn(table, o, p, j, w)

LEMMA MapStays ==
  ASSUME NEW table, NEW o, NEW p, NEW t2, NEW o2, NEW p2, OneEach(table, o, p),
         SamePairs(table, o, p, t2, o2, p2)
  PROVE  MapIn(t2, o2, p2) = MapIn(table, o, p)
<1>1. OneEach(t2, o2, p2)
  BY DEF OneEach, SamePairs
<1>2. IsMap(MapIn(t2, o2, p2), t2, o2, p2) /\ IsMap(MapIn(table, o, p), table, o, p)
  BY <1>1, MapIsMap
<1>3. IsMap(MapIn(table, o, p), t2, o2, p2)
  BY <1>2 DEF IsMap, SamePairs
<1>4. QED BY <1>2, <1>3, MapsAreEqual

LEMMA MapSets ==
  ASSUME NEW table, NEW o, NEW p, NEW t2, NEW o2, NEW p2, OneEach(table, o, p),
         NEW k \in Keys, NEW v \in Values, PairSet(table, o, p, t2, o2, p2, k, v), NEW f, f = MapIn(table, o, p)
  PROVE  MapIn(t2, o2, p2) = [j \in DOMAIN f \cup {k} |-> IF j = k THEN v ELSE f[j]]
<1> DEFINE g == [j \in DOMAIN f \cup {k} |-> IF j = k THEN v ELSE f[j]]
<1>1. OneEach(t2, o2, p2)
  BY DEF OneEach, PairSet
<1>2. IsMap(MapIn(t2, o2, p2), t2, o2, p2) /\ IsMap(f, table, o, p)
  BY <1>1, MapIsMap
<1>3. IsMap(g, t2, o2, p2)
  <2>1. DOMAIN g = DOMAIN f \cup {k} /\ g = [j \in DOMAIN g |-> g[j]]
        /\ \A j \in DOMAIN g : g[j] = IF j = k THEN v ELSE f[j]
    OBVIOUS
  <2> HIDE DEF g
  <2>2. DOMAIN g \subseteq Keys /\ \A j \in DOMAIN g : g[j] \in Values
    BY <1>2, <2>1 DEF IsMap
  <2>3. ASSUME NEW j \in Keys, NEW w \in Values
        PROVE  HeldIn(t2, o2, p2, j, w) <=> j \in DOMAIN g /\ g[j] = w
    <3>1. HeldIn(table, o, p, j, w) <=> j \in DOMAIN f /\ f[j] = w
      BY <1>2 DEF IsMap
    <3>2. HeldIn(t2, o2, p2, j, w) <=> IF j = k THEN w = v ELSE HeldIn(table, o, p, j, w)
      BY DEF PairSet
    <3>3. QED BY <2>1, <3>1, <3>2
  <2>4. QED BY <2>1, <2>2, <2>3 DEF IsMap
<1>4. QED BY <1>2, <1>3, MapsAreEqual

LEMMA MapLoses ==
  ASSUME NEW table, NEW o, NEW p, NEW t2, NEW o2, NEW p2, OneEach(table, o, p),
         NEW k, PairGone(table, o, p, t2, o2, p2, k), NEW f, f = MapIn(table, o, p)
  PROVE  MapIn(t2, o2, p2) = [j \in DOMAIN f \ {k} |-> f[j]]
<1> DEFINE g == [j \in DOMAIN f \ {k} |-> f[j]]
<1>1. OneEach(t2, o2, p2)
  BY DEF OneEach, PairGone
<1>2. IsMap(MapIn(t2, o2, p2), t2, o2, p2) /\ IsMap(f, table, o, p)
  BY <1>1, MapIsMap
<1>3. IsMap(g, t2, o2, p2)
  <2>1. DOMAIN g = DOMAIN f \ {k} /\ g = [j \in DOMAIN g |-> g[j]] /\ \A j \in DOMAIN g : g[j] = f[j]
    OBVIOUS
  <2> HIDE DEF g
  <2>2. DOMAIN g \subseteq Keys /\ \A j \in DOMAIN g : g[j] \in Values
    BY <1>2, <2>1 DEF IsMap
  <2>3. ASSUME NEW j \in Keys, NEW w \in Values
        PROVE  HeldIn(t2, o2, p2, j, w) <=> j \in DOMAIN g /\ g[j] = w
    <3>1. HeldIn(table, o, p, j, w) <=> j \in DOMAIN f /\ f[j] = w
      BY <1>2 DEF IsMap
    <3>2. HeldIn(t2, o2, p2, j, w) <=> j # k /\ HeldIn(table, o, p, j, w)
      BY DEF PairGone
    <3>3. QED BY <2>1, <3>1, <3>2
  <2>4. QED BY <2>1, <2>2, <2>3 DEF IsMap
<1>4. QED BY <1>2, <1>3, MapsAreEqual

LEMMA MapOfNothing ==
  ASSUME NEW table, NEW o, NEW p, \A k \in Keys, v \in Values : ~HeldIn(table, o, p, k, v), NEW e
  PROVE  MapIn(table, o, p) = [k \in {} |-> e]
<1>1. {j \in Keys : \E v \in Values : HeldIn(table, o, p, j, v)} = {}
  OBVIOUS
<1>2. QED BY <1>1 DEF MapIn

(* The variables hold that map. *)
LEMMA ContentsAre ==
  /\ Contents = MapIn(ma_table, old, pos)
  /\ Contents' = MapIn(ma_table', old', pos')
BY DEF Contents, MapIn, Holds, HeldIn, InTable, IsLeft, Pair

(* A table that loses no key has no key twice. *)
LEMMA KeysAreUnique ==
  ASSUME TypeOK, NoKeyIsLost, NEW s \in Active(ma_table), NEW t \in Active(ma_table), ma_table[s].key = ma_table[t].key
  PROVE  s = t
<1> DEFINE k == ma_table[s].key
<1>1. PICK m \in Slots(ma_size) : SlotOf(k, m) = s /\ \A i \in 0 .. m - 1 : ~Stops(k, i)
  BY DEF NoKeyIsLost
<1>2. PICK n \in Slots(ma_size) : SlotOf(k, n) = t /\ \A i \in 0 .. n - 1 : ~Stops(k, i)
  BY DEF NoKeyIsLost
<1>3. Stops(k, m) /\ Stops(k, n)
  BY <1>1, <1>2 DEF Stops, KeyAt
<1>4. m \in Nat /\ n \in Nat
  BY <1>1, <1>2 DEF Slots
<1> HIDE DEF k
<1>5. ~(m < n) /\ ~(n < m)
  BY <1>1, <1>2, <1>3, <1>4
<1>6. QED BY <1>1, <1>2, <1>4, <1>5

(* What is left of the old table has each key once and none that the table *)
(* has.                                                                    *)
OldInv ==
  /\ \A s, t \in Active(old) : old[s].key = old[t].key => s = t
  /\ \A s \in Active(old), t \in Active(ma_table) : s >= pos => old[s].key # ma_table[t].key

MapInv == TableInv /\ OldInv

(* A pair is in a table at an active slot. *)
LEMMA PairsAreActive ==
  ASSUME NEW table, NEW k, NEW v \in Values, NEW s \in DOMAIN table, table[s] = Pair(k, v)
  PROVE  s \in Active(table) /\ table[s].key = k /\ table[s].value = v
BY DictAssumption DEF Pair, Active

LEMMA EachOnce ==
  ASSUME MapInv PROVE OneEach(ma_table, old, pos)
<1>1. SUFFICES ASSUME NEW k \in Keys, NEW v \in Values, NEW w \in Values,
                      HeldIn(ma_table, old, pos, k, v), HeldIn(ma_table, old, pos, k, w)
               PROVE  v = w
  BY DEF OneEach
<1>2. ASSUME InTable(ma_table, k, v), InTable(ma_table, k, w) PROVE v = w
  <2>1. PICK s \in DOMAIN ma_table : ma_table[s] = Pair(k, v)
    BY <1>2 DEF InTable
  <2>2. PICK t \in DOMAIN ma_table : ma_table[t] = Pair(k, w)
    BY <1>2 DEF InTable
  <2>3. s = t
    BY <2>1, <2>2, PairsAreActive, KeysAreUnique DEF MapInv, TableInv
  <2>4. QED BY <2>1, <2>2, <2>3 DEF Pair
<1>3. ASSUME IsLeft(old, pos, k, v), IsLeft(old, pos, k, w) PROVE v = w
  <2>1. PICK s \in DOMAIN old : old[s] = Pair(k, v)
    BY <1>3 DEF IsLeft
  <2>2. PICK t \in DOMAIN old : old[t] = Pair(k, w)
    BY <1>3 DEF IsLeft
  <2>3. s = t
    BY <2>1, <2>2, PairsAreActive DEF MapInv, OldInv
  <2>4. QED BY <2>1, <2>2, <2>3 DEF Pair
<1>4. ASSUME NEW x \in Values, NEW y \in Values, InTable(ma_table, k, x), IsLeft(old, pos, k, y) PROVE FALSE
  <2>1. PICK t \in DOMAIN ma_table : ma_table[t] = Pair(k, x)
    BY <1>4 DEF InTable
  <2>2. PICK s \in DOMAIN old : s >= pos /\ old[s] = Pair(k, y)
    BY <1>4 DEF IsLeft
  <2>3. QED BY <2>1, <2>2, PairsAreActive DEF MapInv, OldInv
<1>5. QED BY <1>1, <1>2, <1>3, <1>4 DEF HeldIn

(* What insertdict does to the pairs of the table and to its keys. *)
LEMMA InsertPairs ==
  ASSUME TypeOK, ma_size # 0, NoKeyIsLost, NEW k \in Keys, NEW v \in Values, insertdict(k, v)
  PROVE  /\ \A j \in Keys, w \in Values : InTable(ma_table', j, w) <=> IF j = k THEN w = v ELSE InTable(ma_table, j, w)
         /\ \A t \in Active(ma_table') :
              ma_table'[t].key = k \/ (t \in Active(ma_table) /\ ma_table'[t].key = ma_table[t].key)
<1> DEFINE x == lookdict(k)  e == Pair(k, v)
<1>1. Returns(k) /\ ma_table' = [ma_table EXCEPT ![x] = e]
  BY DEF insertdict, Pair
<1>2. /\ ma_size \in Nat /\ ma_table \in [Slots(ma_size) -> Entries] /\ DOMAIN ma_table = Slots(ma_size)
      /\ TableOK(ma_table)
  BY DictAssumption DEF TypeOK
<1>3. /\ x \in Slots(ma_size) /\ ma_table[x].key \in {NULL, Dummy, k}
      /\ ma_table[x].key # k => \A s \in Active(ma_table) : ma_table[s].key # k
  BY <1>1, LookupFinds
<1> HIDE DEF x
<1>4. DOMAIN ma_table' = Slots(ma_size) /\ ma_table'[x] = e /\ \A s \in Slots(ma_size) \ {x} : ma_table'[s] = ma_table[s]
  BY <1>1, <1>2, <1>3
<1>5. e.key = k /\ e.value = v /\ v # NULL /\ k \notin {NULL, Dummy}
  BY DictAssumption DEF Pair
<1>6. ASSUME NEW s \in Active(ma_table), ma_table[s].key = k PROVE s = x
  <2>1. ma_table[x].key = k
    BY <1>3, <1>6
  <2>2. x \in Active(ma_table)
    BY <1>2, <1>3, <2>1 DEF Active, TableOK
  <2>3. QED BY <1>6, <2>1, <2>2, KeysAreUnique
<1>7. ASSUME NEW j \in Keys, NEW w \in Values
      PROVE  InTable(ma_table', j, w) <=> IF j = k THEN w = v ELSE InTable(ma_table, j, w)
  <2>1. CASE j = k
    <3>1. w = v => InTable(ma_table', j, w)
      BY <1>3, <1>4, <2>1 DEF InTable
    <3>2. ASSUME InTable(ma_table', j, w) PROVE w = v
      <4>1. PICK s \in Slots(ma_size) : ma_table'[s] = Pair(j, w)
        BY <1>4, <3>2 DEF InTable
      <4>2. s = x
        BY <1>2, <1>4, <1>6, <2>1, <4>1, PairsAreActive
      <4>3. QED BY <1>4, <4>1, <4>2 DEF Pair
    <3>3. QED BY <2>1, <3>1, <3>2
  <2>2. CASE j # k
    <3>1. ASSUME NEW s \in Slots(ma_size) PROVE ma_table'[s] = Pair(j, w) <=> ma_table[s] = Pair(j, w)
      <4>1. CASE s = x
        <5>1. ma_table'[s] # Pair(j, w)
          BY <1>4, <2>2, <4>1 DEF Pair
        <5>2. j \notin {NULL, Dummy, k}
          BY <2>2, DictAssumption
        <5>3. ma_table[s] # Pair(j, w)
          BY <1>3, <4>1, <5>2 DEF Pair
        <5>4. QED BY <5>1, <5>3
      <4>2. QED BY <1>4, <4>1
    <3>2. QED BY <1>2, <1>4, <2>2, <3>1 DEF InTable
  <2>3. QED BY <2>1, <2>2
<1>8. ASSUME NEW t \in Active(ma_table')
      PROVE  ma_table'[t].key = k \/ (t \in Active(ma_table) /\ ma_table'[t].key = ma_table[t].key)
  BY <1>2, <1>4, <1>5 DEF Active
<1>9. QED BY <1>7, <1>8

(* Outside of a resize nothing is left of an old table. *)
LEMMA NothingIsLeft ==
  ASSUME NEW o, o = EmptyTable(0), NEW p
  PROVE  Active(o) = {} /\ \A k, v : ~IsLeft(o, p, k, v)
<1>1. DOMAIN o = {} /\ Active(o) = {}
  BY DEF EmptyTable, Slots, Active
<1>2. QED BY <1>1 DEF IsLeft

LEMMA InsertIsSet ==
  ASSUME MapInv, ma_size # 0, NEW k \in Keys, NEW v \in Values, insertdict(k, v),
         old' = old, old = EmptyTable(0), pos' = pos, phase # "resize", phase' # "resize"
  PROVE  Abstract!Next /\ OldInv'
<1>1. Active(old) = {} /\ \A j, w : ~IsLeft(old, pos, j, w)
  BY NothingIsLeft
<1>2. \A j \in Keys, w \in Values : InTable(ma_table', j, w) <=> IF j = k THEN w = v ELSE InTable(ma_table, j, w)
  BY InsertPairs DEF MapInv, TableInv
<1>3. PairSet(ma_table, old, pos, ma_table', old', pos', k, v)
  BY <1>1, <1>2 DEF PairSet, HeldIn
<1>4. OneEach(ma_table, old, pos)
  BY EachOnce
<1>5. Contents' = [j \in DOMAIN Contents \cup {k} |-> IF j = k THEN v ELSE Contents[j]]
  BY <1>3, <1>4, ContentsAre, MapSets
<1>6. Abstract!Set(k, v)
  BY <1>5 DEF Abstract!Set
<1>7. Abstract!Change
  BY <1>6 DEF Abstract!Change
<1>8. OldInv'
  BY <1>1 DEF OldInv
<1>9. QED BY <1>7, <1>8 DEF Abstract!Next

LEMMA DeleteIsDel ==
  ASSUME MapInv, NEW k \in Keys, DelItem(k) PROVE Abstract!Next /\ OldInv'
<1> DEFINE x == lookdict(k)  e == [key |-> Dummy, value |-> NULL]
<1>1. /\ ma_size # 0 /\ Returns(k) /\ ma_table[x].value # NULL /\ ma_table' = [ma_table EXCEPT ![x] = e]
      /\ old' = old /\ pos' = pos /\ phase' = phase /\ phase # "resize" /\ old = EmptyTable(0)
  BY DEF DelItem, MayStart, loopVars, MapInv, TableInv, FlowInv
<1>2. /\ ma_table \in [Slots(ma_size) -> Entries] /\ DOMAIN ma_table = Slots(ma_size) /\ TableOK(ma_table)
      /\ TypeOK /\ NoKeyIsLost
  BY DEF MapInv, TableInv, TypeOK
<1>3. x \in Slots(ma_size) /\ ma_table[x].key \in {NULL, Dummy, k}
  BY <1>1, <1>2, LookupFinds
<1>4. ma_table[x].key = k /\ ma_table[x].value \in Values /\ x \in Active(ma_table)
  BY <1>1, <1>2, <1>3, DictAssumption DEF TableOK, Entries, Active
<1> HIDE DEF x
<1>5. DOMAIN ma_table' = Slots(ma_size) /\ ma_table'[x] = e /\ \A s \in Slots(ma_size) \ {x} : ma_table'[s] = ma_table[s]
  BY <1>1, <1>2, <1>3
<1>6. Active(old) = {} /\ \A j, w : ~IsLeft(old, pos, j, w)
  BY <1>1, NothingIsLeft
<1>7. ASSUME NEW j \in Keys, NEW w \in Values
      PROVE  InTable(ma_table', j, w) <=> j # k /\ InTable(ma_table, j, w)
  <2>1. e # Pair(j, w)
    BY DictAssumption DEF Pair
  <2>2. CASE j = k
    <3>1. ASSUME NEW s \in Slots(ma_size), ma_table'[s] = Pair(j, w) PROVE FALSE
      <4>1. s # x /\ ma_table[s] = Pair(j, w)
        BY <1>5, <2>1, <3>1
      <4>2. s = x
        BY <1>2, <1>4, <2>2, <4>1, PairsAreActive, KeysAreUnique
      <4>3. QED BY <4>1, <4>2
    <3>2. QED BY <1>5, <2>2, <3>1 DEF InTable
  <2>3. CASE j # k
    <3>1. ma_table[x] # Pair(j, w)
      BY <1>4, <2>3 DEF Pair
    <3>2. \A s \in Slots(ma_size) : ma_table'[s] = Pair(j, w) <=> ma_table[s] = Pair(j, w)
      BY <1>5, <2>1, <3>1
    <3>3. QED BY <1>2, <1>5, <2>3, <3>2 DEF InTable
  <2>4. QED BY <2>2, <2>3
<1>8. PairGone(ma_table, old, pos, ma_table', old', pos', k)
  BY <1>1, <1>6, <1>7 DEF PairGone, HeldIn
<1>9. OneEach(ma_table, old, pos)
  BY EachOnce
<1>10. Contents' = [j \in DOMAIN Contents \ {k} |-> Contents[j]]
  BY <1>8, <1>9, ContentsAre, MapLoses
<1>11. k \in DOMAIN Contents
  <2>1. IsMap(Contents, ma_table, old, pos)
    BY <1>9, ContentsAre, MapIsMap
  <2>2. ma_table[x] = Pair(k, ma_table[x].value)
    BY <1>2, <1>3, <1>4 DEF Entries, Pair
  <2>3. HeldIn(ma_table, old, pos, k, ma_table[x].value)
    BY <1>2, <1>3, <2>2 DEF HeldIn, InTable
  <2>4. QED BY <1>4, <2>1, <2>3 DEF IsMap
<1>12. Abstract!Change
  BY <1>1, <1>10, <1>11 DEF Abstract!Change, Abstract!Del
<1>13. OldInv'
  BY <1>1, <1>6 DEF OldInv
<1>14. QED BY <1>12, <1>13 DEF Abstract!Next

LEMMA ClearIsClear ==
  ASSUME MapInv, Clear PROVE Abstract!Next /\ OldInv'
<1>1. /\ ma_table' = EmptyTable(0)
      /\ old' = old /\ pos' = pos /\ phase' = phase /\ phase # "resize" /\ old = EmptyTable(0)
  BY DEF Clear, MayStart, loopVars, MapInv, TableInv, FlowInv
<1>2. Active(old) = {} /\ \A j, w : ~IsLeft(old', pos', j, w)
  BY <1>1, NothingIsLeft
<1>3. \A k \in Keys, v \in Values : ~HeldIn(ma_table', old', pos', k, v)
  <2>1. DOMAIN ma_table' = {}
    BY <1>1 DEF EmptyTable, Slots
  <2>2. QED BY <1>2, <2>1 DEF HeldIn, InTable
<1>4. Contents' = [k \in {} |-> CHOOSE v \in Values : TRUE]
  BY <1>3, ContentsAre, MapOfNothing
<1>5. Abstract!Change
  BY <1>1, <1>4 DEF Abstract!Change, Abstract!Clear, Abstract!Nothing
<1>6. OldInv'
  BY <1>1, <1>2 DEF OldInv
<1>7. QED BY <1>5, <1>6 DEF Abstract!Next

(* The new table is empty and the old one is all left. *)
LEMMA StartIsResize ==
  ASSUME MapInv, NEW minused, StartResize(minused), phase # "resize"
  PROVE  Abstract!Next /\ OldInv'
<1>1. PICK size \in Sizes : /\ ma_table' = EmptyTable(size)
                            /\ old' = ma_table /\ pos' = 0 /\ phase' = "resize"
  BY DEF StartResize
<1>2. /\ TypeOK /\ NoKeyIsLost /\ ma_size \in Nat /\ DOMAIN ma_table = Slots(ma_size) /\ old = EmptyTable(0)
  BY DictAssumption DEF MapInv, TableInv, TypeOK, FlowInv
<1>3. Active(ma_table') = {}
  BY <1>1, EmptyTableOK, DictAssumption
<1>4. OldInv'
  BY <1>1, <1>2, <1>3, KeysAreUnique DEF OldInv
<1>5. SamePairs(ma_table, old, pos, ma_table', old', pos')
  <2>1. SUFFICES ASSUME NEW k \in Keys, NEW v \in Values
                 PROVE  HeldIn(ma_table', old', pos', k, v) <=> HeldIn(ma_table, old, pos, k, v)
    BY DEF SamePairs
  <2>2. ~InTable(ma_table', k, v)
    BY <1>3, PairsAreActive DEF InTable
  <2>3. ~IsLeft(old, pos, k, v)
    BY <1>2, NothingIsLeft
  <2>4. IsLeft(old', pos', k, v) <=> InTable(ma_table, k, v)
    <3>1. \A s \in Slots(ma_size) : s >= 0
      BY <1>2 DEF Slots
    <3>2. QED BY <1>1, <1>2, <3>1 DEF IsLeft, InTable
  <2>5. QED BY <2>2, <2>3, <2>4 DEF HeldIn
<1>6. Contents' = Contents
  BY <1>5, EachOnce, MapStays, ContentsAre
<1>7. Abstract!Resize
  BY <1>1, <1>6 DEF Abstract!Resize
<1>8. QED BY <1>4, <1>7 DEF Abstract!Next

(* Pass 1 moves one entry after the other: the map stays.                  *)
LEMMA ReinsertIsHidden ==
  ASSUME MapInv, Reinsert PROVE UNCHANGED <<Contents, (phase = "resize")>> /\ OldInv'
<1> DEFINE k == old[pos].key  v == old[pos].value
<1>1. /\ pos \in DOMAIN old /\ pos' = pos + 1 /\ old' = old /\ phase' = phase /\ ma_size # 0
      /\ IF v # NULL THEN insertdict(k, v) ELSE UNCHANGED tableVars
  BY DEF Reinsert, MapInv, TableInv, FlowInv
<1>2. /\ TypeOK /\ NoKeyIsLost /\ TableOK(old) /\ pos \in Nat /\ \A s \in DOMAIN old : s \in Nat
  BY DictAssumption DEF MapInv, TableInv, TypeOK, Slots
<1>3. old[pos] = Pair(k, v)
  BY <1>1, <1>2 DEF TableOK, Entries, Pair
<1>4. \A s \in DOMAIN old : s >= pos' <=> s >= pos /\ s # pos
  BY <1>1, <1>2
<1>5. OneEach(ma_table, old, pos)
  BY EachOnce
<1>6. CASE v # NULL
  <2>1. k \in Keys /\ v \in Values /\ pos \in Active(old) /\ insertdict(k, v)
    BY <1>1, <1>2, <1>6 DEF TableOK, Entries, Active
  <2> HIDE DEF k, v
  <2>2. /\ \A j \in Keys, w \in Values : InTable(ma_table', j, w) <=> IF j = k THEN w = v ELSE InTable(ma_table, j, w)
        /\ \A t \in Active(ma_table') :
             ma_table'[t].key = k \/ (t \in Active(ma_table) /\ ma_table'[t].key = ma_table[t].key)
    BY <1>1, <1>2, <2>1, InsertPairs
  <2>3. \A s \in Active(old) : old[s].key = k => s = pos
    BY <1>3, <2>1 DEF MapInv, OldInv, Pair
  <2>4. OldInv'
    <3>1. SUFFICES ASSUME NEW s \in Active(old), NEW t \in Active(ma_table'), s >= pos'
                   PROVE  old[s].key # ma_table'[t].key
      BY <1>1 DEF MapInv, OldInv
    <3>2. s >= pos /\ s # pos
      BY <1>4, <3>1 DEF Active
    <3>3. QED BY <2>2, <2>3, <3>2 DEF MapInv, OldInv
  <2>5. ASSUME NEW j \in Keys, NEW w \in Values
        PROVE  HeldIn(ma_table', old', pos', j, w) <=> HeldIn(ma_table, old, pos, j, w)
    <3>1. CASE j = k
      <4>1. InTable(ma_table', j, w) <=> w = v
        BY <2>2, <3>1
      <4>2. ~IsLeft(old', pos', j, w)
        <5>1. SUFFICES ASSUME NEW s \in DOMAIN old, s >= pos', old[s] = Pair(j, w) PROVE FALSE
          BY <1>1 DEF IsLeft
        <5>2. s # pos /\ s \in Active(old) /\ old[s].key = k
          BY <1>4, <3>1, <5>1, PairsAreActive
        <5>3. QED BY <2>3, <5>2
      <4>3. HeldIn(ma_table, old, pos, k, v)
        <5>1. pos >= pos
          BY <1>2
        <5>2. QED BY <1>1, <1>3, <5>1 DEF HeldIn, IsLeft
      <4>4. HeldIn(ma_table, old, pos, j, w) <=> w = v
        BY <1>5, <2>1, <3>1, <4>3 DEF OneEach
      <4>5. QED BY <4>1, <4>2, <4>4 DEF HeldIn
    <3>2. CASE j # k
      <4>1. InTable(ma_table', j, w) <=> InTable(ma_table, j, w)
        BY <2>2, <3>2
      <4>2. old[pos] # Pair(j, w)
        BY <1>3, <3>2 DEF Pair
      <4>3. IsLeft(old', pos', j, w) <=> IsLeft(old, pos, j, w)
        BY <1>1, <1>4, <4>2 DEF IsLeft
      <4>4. QED BY <4>1, <4>3 DEF HeldIn
    <3>3. QED BY <3>1, <3>2
  <2>6. Contents' = Contents
    BY <1>5, <2>5, ContentsAre, MapStays DEF SamePairs
  <2>7. QED BY <1>1, <2>4, <2>6
<1>7. CASE v = NULL
  <2>1. ma_table' = ma_table
    BY <1>1, <1>7 DEF tableVars
  <2>2. OldInv'
    BY <1>1, <1>4, <2>1 DEF MapInv, OldInv, Active
  <2>3. ASSUME NEW j \in Keys, NEW w \in Values PROVE IsLeft(old', pos', j, w) <=> IsLeft(old, pos, j, w)
    <3>1. old[pos] # Pair(j, w)
      BY <1>7, DictAssumption DEF Pair
    <3>2. QED BY <1>1, <1>4, <3>1 DEF IsLeft
  <2>4. Contents' = Contents
    BY <1>5, <2>1, <2>3, ContentsAre, MapStays DEF SamePairs, HeldIn
  <2>5. QED BY <1>1, <2>2, <2>4
<1>8. QED BY <1>6, <1>7

LEMMA FinishIsResize ==
  ASSUME MapInv, FinishResize PROVE Abstract!Next /\ OldInv'
<1>1. /\ phase = "resize" /\ pos \notin DOMAIN old /\ phase' \in {"insert", "update"}
      /\ old' = EmptyTable(0) /\ ma_table' = ma_table
  BY DEF FinishResize, tableVars
<1>2. \A s \in DOMAIN old : ~(s >= pos)
  <2>1. PICK n \in Sizes \cup {0} : DOMAIN old = Slots(n)
    BY DEF MapInv, TableInv, TypeOK
  <2>2. n \in Nat /\ pos \in Nat
    BY DictAssumption DEF MapInv, TableInv, TypeOK
  <2>3. QED BY <1>1, <2>1, <2>2 DEF Slots
<1>3. Active(old') = {} /\ \A k, v : ~IsLeft(old', pos', k, v)
  BY <1>1, NothingIsLeft
<1>4. \A k, v : ~IsLeft(old, pos, k, v)
  BY <1>2 DEF IsLeft
<1>5. SamePairs(ma_table, old, pos, ma_table', old', pos')
  BY <1>1, <1>3, <1>4 DEF SamePairs, HeldIn
<1>6. Contents' = Contents
  BY <1>5, EachOnce, MapStays, ContentsAre
<1>7. Abstract!Resize
  BY <1>1, <1>6 DEF Abstract!Resize
<1>8. OldInv'
  BY <1>3 DEF OldInv
<1>9. QED BY <1>7, <1>8 DEF Abstract!Next

LEMMA MapStep ==
  ASSUME MapInv, [Next]_vars PROVE MapInv' /\ [Abstract!Next]_<<Contents, (phase = "resize")>>
<1>1. TableInv'
  BY TableNext DEF MapInv
<1>2. SUFFICES OldInv' /\ [Abstract!Next]_<<Contents, (phase = "resize")>>
  BY <1>1 DEF MapInv
<1>3. FlowInv /\ TypeOK /\ CountersCount
  BY DEF MapInv, TableInv
<1>4. ASSUME ma_table' = ma_table, old' = old, pos' = pos PROVE OldInv' /\ Contents' = Contents
  BY <1>4, ContentsAre DEF MapInv, OldInv
<1> USE DEF loopVars
<1>5. ASSUME NEW k \in Keys, NEW v \in Values, SetItem(k, v) PROVE Abstract!Next /\ OldInv'
  <2>1. ma_size # 0
    BY <1>3, <1>5, FillOfNothing DEF SetItem
  <2>2. insertdict(k, v) /\ old' = old /\ pos' = pos /\ phase' = phase /\ phase # "resize" /\ old = EmptyTable(0)
    BY <1>3, <1>5 DEF SetItem, MayStart, FlowInv
  <2>3. QED BY <2>1, <2>2, InsertIsSet
<1>6. ASSUME NEW k \in Keys, NEW v \in Values, SetItemResizes(k, v) PROVE Abstract!Next /\ OldInv'
  <2>1. StartResize(ma_used * 2) /\ phase # "resize"
    BY <1>6 DEF SetItemResizes, MayStart
  <2>2. QED BY <2>1, StartIsResize
<1>7. ASSUME NEW k \in Keys, DelItem(k) PROVE Abstract!Next /\ OldInv'
  BY <1>7, DeleteIsDel
<1>8. ASSUME NEW k \in Keys, UpdateEntry(k)
      PROVE  OldInv' /\ (Abstract!Next \/ UNCHANGED <<Contents, (phase = "resize")>>)
  <2>1. phase = "update" /\ k \in DOMAIN todo /\ old' = old /\ pos' = pos /\ old = EmptyTable(0)
    BY <1>3, <1>8 DEF UpdateEntry, FlowInv
  <2>2. CASE ma_size = 0
    <3>1. phase' = "crash" /\ ma_table' = ma_table
      BY <1>8, <2>2 DEF UpdateEntry, tableVars
    <3>2. QED BY <1>4, <2>1, <3>1
  <2>3. CASE ma_size # 0
    <3>1. insertdict(k, todo[k]) /\ phase' = phase /\ todo[k] \in Values
      BY <1>3, <1>8, <2>1, <2>3 DEF UpdateEntry, TypeOK
    <3>2. QED BY <2>1, <2>3, <3>1, InsertIsSet
  <2>4. QED BY <2>2, <2>3
<1>9. ASSUME NEW other \in Others, StartUpdate(other)
      PROVE  OldInv' /\ (Abstract!Next \/ UNCHANGED <<Contents, (phase = "resize")>>)
  <2>1. phase = "idle"
    BY <1>9 DEF StartUpdate
  <2>2. CASE StartResize(((ma_used + Cardinality(DOMAIN other)) * 3) \div 2)
    BY <2>1, <2>2, StartIsResize
  <2>3. CASE phase' = "update" /\ UNCHANGED <<tableVars, old, pos>>
    BY <1>4, <2>1, <2>3 DEF tableVars
  <2>4. QED BY <1>9, <2>2, <2>3 DEF StartUpdate
<1>10. CASE Insert
  <2>1. /\ phase = "insert" /\ item # NoItem /\ ma_size # 0 /\ old = EmptyTable(0)
        /\ insertdict(item.key, item.value) /\ phase' \in {"update", "idle"} /\ old' = old /\ pos' = pos
    BY <1>3, <1>10 DEF Insert, Resume, FlowInv
  <2>2. item.key \in Keys /\ item.value \in Values
    BY <1>3, <2>1 DEF TypeOK
  <2>3. QED BY <2>1, <2>2, InsertIsSet
<1>11. ASSUME FinishUpdate \/ UNCHANGED vars PROVE OldInv' /\ UNCHANGED <<Contents, (phase = "resize")>>
  <2>1. ma_table' = ma_table /\ old' = old /\ pos' = pos /\ (phase' = "resize" <=> phase = "resize")
    BY <1>11 DEF FinishUpdate, vars, tableVars
  <2>2. QED BY <1>4, <2>1
<1>12. CASE Clear
  BY <1>12, ClearIsClear
<1>13. CASE Reinsert
  BY <1>13, ReinsertIsHidden
<1>14. CASE FinishResize
  BY <1>14, FinishIsResize
<1>15. QED
  BY <1>5, <1>6, <1>7, <1>8, <1>9, <1>10, <1>11, <1>12, <1>13, <1>14 DEF Next

(* Whatever allocations fail and whatever destructors do, the table is a   *)
(* finite map that the operations change in one step, and not at all while *)
(* it is being resized.                                                    *)
THEOREM TableIsMap == Spec => ImplementsMap
<1>1. Init => OldInv
  BY NothingIsLeft DEF Init, OldInv
<1>2. Init => MapInv
  BY <1>1, TableInit DEF MapInv
<1>3. Init => Abstract!Init
  <2>1. SUFFICES ASSUME Init PROVE Contents = [k \in {} |-> CHOOSE v \in Values : TRUE]
    BY DEF Init, Abstract!Init, Abstract!Nothing
  <2>2. \A k \in Keys, v \in Values : ~HeldIn(ma_table, old, pos, k, v)
    <3>1. ma_table = EmptyTable(0) /\ old = EmptyTable(0)
      BY <2>1 DEF Init
    <3>2. DOMAIN ma_table = {} /\ \A k, v : ~IsLeft(old, pos, k, v)
      <4>1. DOMAIN ma_table = {}
        BY <3>1 DEF EmptyTable, Slots
      <4>2. QED BY <3>1, <4>1, NothingIsLeft
    <3>3. QED BY <3>2 DEF HeldIn, InTable
  <2>3. QED BY <2>2, ContentsAre, MapOfNothing
<1>4. MapInv /\ [Next]_vars => MapInv'
  BY MapStep
<1>5. MapInv /\ [Next]_vars => [Abstract!Next]_<<Contents, (phase = "resize")>>
  BY MapStep
<1>6. QED BY <1>2, <1>3, <1>4, <1>5, PTL DEF Spec, ImplementsMap, Abstract!Spec, Abstract!vars

-----------------------------------------------------------------------------
(* The increments of lookdict: from what a run checks of one walk of each  *)
(* size (FullCycle of ProbeCycle) to what ProbeAssumption says of all.     *)

(* A walk through N increments, each of which tells the one before it,     *)
(* that is back at the first after N steps and not before.                 *)
Closes(f, N, step, back) ==
  /\ f \in [0 .. N -> 1 .. N]
  /\ \A n \in 0 .. N - 1 : f[n + 1] = step[f[n]] /\ back[f[n + 1]] = f[n]
  /\ \A n \in 1 .. N : f[n] = f[0] <=> n = N

(* It does not repeat an increment: the first that it repeats would have   *)
(* one before it that it repeats as well.                                  *)
LEMMA CycleIsInjective ==
  ASSUME NEW N \in Nat \ {0}, NEW step, NEW back, NEW f, Closes(f, N, step, back),
         NEW i \in 0 .. N - 1, NEW j \in 0 .. N - 1, f[i] = f[j]
  PROVE  i = j
<1> DEFINE T == {a \in 0 .. N - 1 : \E b \in 0 .. N - 1 : a < b /\ f[a] = f[b]}
<1>1. T = {}
  <2>1. SUFFICES ASSUME T # {} PROVE FALSE
    OBVIOUS
  <2>2. T \subseteq Nat
    OBVIOUS
  <2>3. PICK a \in T : \A c \in T : a <= c
    BY <2>1, <2>2, LeastNat
  <2>4. PICK b \in 0 .. N - 1 : a < b /\ f[a] = f[b]
    OBVIOUS
  <2>5. a \in 0 .. N - 1
    OBVIOUS
  <2>6. CASE a = 0
    <3>1. b \in 1 .. N /\ b # N
      BY <2>4, <2>6
    <3>2. QED BY <2>4, <2>6, <3>1 DEF Closes
  <2>7. CASE a # 0
    <3>1. a - 1 \in 0 .. N - 1 /\ b - 1 \in 0 .. N - 1 /\ a - 1 < b - 1
      BY <2>4, <2>5, <2>7
    <3>2. (a - 1) + 1 = a /\ (b - 1) + 1 = b
      BY <2>4, <2>5
    <3>3. back[f[a]] = f[a - 1] /\ back[f[b]] = f[b - 1]
      BY <3>1, <3>2 DEF Closes
    <3>4. a - 1 \in T
      BY <2>4, <3>1, <3>3
    <3>5. ~(a <= a - 1)
      BY <2>5
    <3> HIDE DEF T
    <3>6. QED BY <2>3, <3>4, <3>5
  <2>8. QED BY <2>6, <2>7
<1>2. ~(i < j)
  BY <1>1
<1>3. ~(j < i)
  BY <1>1
<1>4. QED BY <1>2, <1>3

(* As many different increments as there are is all of them. *)
LEMMA CycleIsAll ==
  ASSUME NEW N \in Nat \ {0}, NEW step, NEW back, NEW f, Closes(f, N, step, back),
         NEW x \in 1 .. N
  PROVE  \E n \in 0 .. N - 1 : f[n] = x
<1>1. SUFFICES ASSUME \A n \in 0 .. N - 1 : f[n] # x PROVE FALSE
  OBVIOUS
<1> DEFINE g == [n \in 0 .. N - 1 |-> f[n]]
           S == 0 .. N - 1
           T == (1 .. N) \ {x}
<1>2. g \in [S -> T]
  BY <1>1 DEF Closes
<1>3. IsFiniteSet(S) /\ Cardinality(S) = N
  <2>1. 0 \in Int /\ N - 1 \in Int /\ ~(0 > N - 1) /\ (N - 1) - 0 + 1 = N
    OBVIOUS
  <2>2. QED BY <2>1, FS_Interval
<1>4. IsFiniteSet(1 .. N) /\ Cardinality(1 .. N) = N
  <2>1. 1 \in Int /\ N \in Int /\ ~(1 > N) /\ N - 1 + 1 = N
    OBVIOUS
  <2>2. QED BY <2>1, FS_Interval
<1>5. IsFiniteSet(T) /\ Cardinality(T) = N - 1
  BY <1>4, FS_RemoveElement
<1>6. Cardinality(T) < Cardinality(S)
  BY <1>3, <1>5
<1> HIDE DEF T
<1>7. PICK i \in S, j \in S : i # j /\ g[i] = g[j]
  <2> HIDE DEF S, g
  <2>1. QED BY <1>2, <1>3, <1>5, <1>6, FS_PigeonHole
<1>8. f[i] = f[j]
  BY <1>7
<1>9. QED BY <1>7, <1>8, CycleIsInjective

(* From another increment the walk is the same, turned. *)
Turned(f, N, i, n) == f[IF i + n < N THEN i + n ELSE i + n - N]

LEMMA WalksAreTurned ==
  ASSUME NEW N \in Nat \ {0}, NEW step, NEW back, NEW f, Closes(f, N, step, back),
         NEW g, NEW i \in 0 .. N - 1, g[0] = f[i],
         \A n \in 0 .. N - 1 : g[n + 1] = step[g[n]], NEW n \in 0 .. N - 1
  PROVE  g[n] = Turned(f, N, i, n)
<1> DEFINE T == {m \in 0 .. N - 1 : g[m] # Turned(f, N, i, m)}
<1>1. T = {}
  <2>1. SUFFICES ASSUME T # {} PROVE FALSE
    OBVIOUS
  <2>2. T \subseteq Nat
    OBVIOUS
  <2>3. PICK a \in T : \A c \in T : a <= c
    BY <2>1, <2>2, LeastNat
  <2>4. a \in 0 .. N - 1 /\ g[a] # Turned(f, N, i, a)
    OBVIOUS
  <2>5. a # 0
    BY <2>4 DEF Turned
  <2>6. a - 1 \in 0 .. N - 1 /\ (a - 1) + 1 = a /\ ~(a <= a - 1)
    BY <2>4, <2>5
  <2>7. g[a - 1] = Turned(f, N, i, a - 1)
    BY <2>3, <2>6
  <2> HIDE DEF T
  <2> DEFINE k == IF i + (a - 1) < N THEN i + (a - 1) ELSE i + (a - 1) - N
  <2>8. k \in 0 .. N - 1 /\ g[a - 1] = f[k]
    BY <2>6, <2>7 DEF Turned
  <2>9. g[a] = f[k + 1]
    <3>1. f[k + 1] = step[f[k]] /\ g[(a - 1) + 1] = step[g[a - 1]]
      BY <2>6, <2>8 DEF Closes
    <3>2. QED BY <2>6, <2>8, <3>1
  <2>10. f[N] = f[0]
    <3>1. N \in 1 .. N
      OBVIOUS
    <3>2. QED BY <3>1 DEF Closes
  <2>11. CASE i + (a - 1) < N /\ i + a >= N
    <3>1. k + 1 = N /\ i + a - N = 0 /\ ~(i + a < N)
      BY <2>4, <2>11
    <3>2. QED BY <2>4, <2>9, <2>10, <3>1 DEF Turned
  <2>12. CASE ~(i + (a - 1) < N /\ i + a >= N)
    <3>1. k + 1 = IF i + a < N THEN i + a ELSE i + a - N
      BY <2>4, <2>12
    <3>2. QED BY <2>4, <2>9, <3>1 DEF Turned
  <2>13. QED BY <2>11, <2>12
<1>2. QED BY <1>1

(* One full cycle of a size is enough for every hash: from whichever slot  *)
(* and increment the probes of lookdict start, they visit the whole table. *)
(* This is the second part of ProbeAssumption; the first is the remainder. *)
THEOREM CycleVisitsAll ==
  ASSUME NEW size \in Nat, size > 1, NEW step, NEW back,
         NEW f, Closes(f, size - 1, step, back),
         NEW first \in 0 .. size - 1,
         NEW incr, incr[0] \in 1 .. size - 1,
         \A n \in 0 .. size - 2 : incr[n + 1] = step[incr[n]],
         NEW slot \in 0 .. size - 1
  PROVE  \E n \in 0 .. size - 1 : slot = IF n = 0 THEN first ELSE (first + incr[n - 1]) % size
<1> DEFINE N == size - 1
<1>1. N \in Nat \ {0} /\ size = N + 1 /\ size - 2 = N - 1
  OBVIOUS
<1>2. CASE slot = first
  <2>1. 0 \in 0 .. size - 1
    OBVIOUS
  <2>2. QED BY <1>2, <2>1
<1>3. CASE slot # first
  <2> DEFINE d == IF slot > first THEN slot - first ELSE slot - first + size
  <2>1. d \in 1 .. N /\ (first + d = slot \/ first + d = slot + size)
    BY <1>3
  <2>2. (first + d) % size = slot
    <3>1. slot % size = slot /\ (slot + size) % size = slot
      OBVIOUS
    <3>2. QED BY <2>1, <3>1
  <2> HIDE DEF d, N
  <2>3. Closes(f, N, step, back) /\ incr[0] \in 1 .. N
    BY DEF N
  <2>4. PICK i \in 0 .. N - 1 : f[i] = incr[0]
    BY <1>1, <2>3, CycleIsAll
  <2>5. PICK m \in 0 .. N - 1 : f[m] = d
    BY <1>1, <2>1, <2>3, CycleIsAll
  <2> DEFINE n == IF m >= i THEN m - i ELSE m - i + N
  <2>6. n \in 0 .. N - 1 /\ (IF i + n < N THEN i + n ELSE i + n - N) = m
    BY <1>1
  <2> HIDE DEF n
  <2>7. \A k \in 0 .. N - 1 : incr[k + 1] = step[incr[k]]
    BY <1>1
  <2>8. incr[n] = Turned(f, N, i, n)
    BY <1>1, <2>3, <2>4, <2>6, <2>7, WalksAreTurned
  <2>9. incr[n] = d
    BY <2>5, <2>6, <2>8 DEF Turned
  <2>10. n + 1 \in 0 .. size - 1 /\ n + 1 # 0 /\ (n + 1) - 1 = n
    BY <1>1, <2>6
  <2>11. slot = (first + incr[(n + 1) - 1]) % size
    BY <2>2, <2>9, <2>10
  <2>12. QED BY <2>10, <2>11
<1>4. QED BY <1>2, <1>3
=============================================================================
