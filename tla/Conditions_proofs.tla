------------------------- MODULE Conditions_proofs --------------------------
(***************************************************************************)
(* Proofs about Conditions, for any number of threads: the monitor is held *)
(* by one thread and an RLock comes back as deep as it was; every waiter   *)
(* can still be notified; only a timeout uses up a notification; and no    *)
(* release of a semaphore is lost on a thread that sleeps.                 *)
(***************************************************************************)
EXTENDS Conditions, FiniteSetTheorems, SequenceTheorems, WellFoundedInduction, TLAPS

(* Where each operation can be. *)
FlowInv ==
  \A t \in Threads :
    /\ op[t] = "none" <=> at[t] = "idle"
    /\ op[t] # "none" => op[t] \in Ops(kind)
    /\ at[t] \in {"note", "left"} => op[t] = "use"
    /\ at[t] \in {"append", "save", "saved", "parked", "remove", "reenter", "restore"}
         => op[t] \in {"use", "P", "wait"}
    /\ at[t] = "take" => op[t] \in {"P", "tryP"} /\ value > 0
    /\ at[t] \in {"notify", "delist"} => op[t] \in {"use", "V", "set"}
    /\ kind = "semaphore" => ~timed[t]

(* One thread has the lock.                                                *)
HoldInv ==
  /\ \A t, u \in Threads : at[t] \in Holding /\ at[u] \in Holding => t = u
  /\ block <=> \E t \in Threads : at[t] \in Holding

(* The RLock has been acquired as often as its owner did, and the thread   *)
(* that gave it up for a wait keeps that number.                           *)
DepthInv ==
  \A t \in Threads : op[t] = "use" =>
    /\ at[t] \in {"in", "append", "save", "notify", "delist"} =>
         owner = t /\ count = depth[t] /\ depth[t] >= 1
    /\ at[t] \in {"saved", "parked", "remove", "reenter", "restore"} =>
         saved[t] = depth[t] /\ depth[t] >= 1

(* The list: who is in it waits, and who waits unnotified is in it.        *)
Listed == ToSet(waiters)
Chosen(w) == \E u \in Threads : at[u] = "delist" /\ Head(slice[u]) = w

ListInv ==
  /\ IsInjective(waiters)
  /\ \A t \in Threads :
       /\ t \in Listed => at[t] \in {"save", "saved", "parked", "remove", "reenter"}
       /\ at[t] \in {"save", "saved"} => t \in Listed
       /\ at[t] = "parked" => t \in Listed \/ t \in open
       /\ t \in Listed /\ (t \in open \/ at[t] = "reenter") => Chosen(t)
       /\ at[t] = "remove" => timed[t]

(* An unlocked waiter's lock is that of a thread that waits, or gave up.   *)
OpenInv ==
  \A t \in open : \/ at[t] = "parked"
                  \/ timed[t] /\ at[t] \in {"remove", "reenter", "restore"}

(* Those that a notify has yet to release are as when it chose them, or    *)
(* have given up meanwhile.                                                *)
Unreleased(u) == IF at[u] = "delist" THEN 2 .. Len(slice[u]) ELSE 1 .. Len(slice[u])

SliceInv ==
  \A u \in Threads :
    /\ at[u] \notin {"notify", "delist"} => slice[u] = <<>>
    /\ IsInjective(slice[u])
    /\ \A i \in Unreleased(u) : LET w == slice[u][i] IN
         \/ at[w] = "parked" /\ w \in Listed /\ w \notin open
         \/ at[w] \in {"remove", "reenter"} /\ timed[w] /\ w \notin open
    /\ at[u] = "delist" => /\ slice[u] # <<>>
                           /\ Head(slice[u]) \in open \/ at[Head(slice[u])] = "reenter"

(* The semaphore: the releases to come stay within the bound of its value. *)
Adding   == {t \in Threads : op[t] = "V" /\ at[t] \in {"enter", "in"}}
ValueInv == value + Cardinality(Adding) <= MaxValue

(* Those on their way to test the value, and the releases that are about   *)
(* to wake one: while somebody sleeps there are at least as many as the    *)
(* value would let in.                                                     *)
Active == {t \in Threads : \/ op[t] = "P" /\ at[t] = "parked" /\ t \in open
                           \/ op[t] = "P" /\ at[t] \in {"reenter", "restore", "in", "take"}
                           \/ op[t] = "V" /\ at[t] = "notify" /\ slice[t] # <<>>}
WakeInv ==
  kind = "semaphore" =>
    /\ \A t \in Threads : op[t] = "P" /\ at[t] \in {"append", "save", "saved"} => value = 0
    /\ \A t \in Threads : op[t] = "V" => Len(slice[t]) <= 1
    /\ (\E t \in Threads : Asleep(t)) => value <= Cardinality(Active)

CInv == CTypeOK /\ FlowInv /\ HoldInv /\ DepthInv /\ ListInv /\ OpenInv /\ SliceInv
        /\ ValueInv /\ WakeInv

-----------------------------------------------------------------------------
(* Lists *)

LEMMA Least ==
  ASSUME NEW I, I \subseteq Nat, I # {} PROVE Min(I) \in I
<1>1. \E x \in I : \A y \in I : ~(<<y, x>> \in OpToRel(<, Nat))
  BY NatLessThanWellFounded, WFMin
<1>2. \A x, y \in I : ~(<<y, x>> \in OpToRel(<, Nat)) => x <= y
  <2>1. ASSUME NEW x \in I, NEW y \in I, ~(x <= y) PROVE <<y, x>> \in OpToRel(<, Nat)
    BY <2>1 DEF OpToRel
  <2>2. QED BY <2>1
<1>3. \E x \in I : \A y \in I : x =< y
  BY <1>1, <1>2
<1>4. QED BY <1>3 DEF Min

(* list.remove: without its first e, a list without repetitions has all    *)
(* the others, in their order.                                             *)
LEMMA Removing ==
  ASSUME NEW S, NEW s \in Seq(S), NEW e
  PROVE  /\ RemoveFirst(s, e) \in Seq(S)
         /\ IsInjective(s) => /\ IsInjective(RemoveFirst(s, e))
                              /\ ToSet(RemoveFirst(s, e)) = ToSet(s) \ {e}
<1>1. Len(s) \in Nat /\ DOMAIN s = 1 .. Len(s) /\ \A i \in 1 .. Len(s) : s[i] \in S
  BY LenProperties
<1>2. CASE ~\E i \in 1 .. Len(s) : s[i] = e
  <2>1. RemoveFirst(s, e) = s
    BY <1>2 DEF RemoveFirst
  <2>2. ToSet(s) = ToSet(s) \ {e}
    BY <1>1, <1>2 DEF ToSet
  <2>3. QED BY <2>1, <2>2
<1>3. CASE \E i \in 1 .. Len(s) : s[i] = e
  <2> DEFINE I == {i \in 1 .. Len(s) : s[i] = e}
             k == Min(I)
             r == SubSeq(s, 1, k - 1) \o SubSeq(s, k + 1, Len(s))
  <2>1. k \in I
    <3>1. I \subseteq Nat /\ I # {}
      BY <1>1, <1>3
    <3> HIDE DEF I
    <3>2. QED BY <3>1, Least
  <2>2. k \in 1 .. Len(s) /\ s[k] = e
    BY <2>1
  <2>3. RemoveFirst(s, e) = r
    <3>1. SelectInSeq(s, LAMBDA v : v = e) = k
      BY <2>1 DEF SelectInSeq
    <3> HIDE DEF k
    <3>2. QED BY <1>3, <3>1 DEF RemoveFirst, RemoveAt
  <2> HIDE DEF k
  <2>4. /\ SubSeq(s, 1, k - 1) \in Seq(S) /\ Len(SubSeq(s, 1, k - 1)) = k - 1
        /\ \A i \in 1 .. k - 1 : SubSeq(s, 1, k - 1)[i] = s[i]
    <3>1. \A i \in 1 .. k - 1 : s[i] \in S
      BY <1>1, <2>2
    <3>2. k - 1 \in Int /\ k - 1 - 1 + 1 = k - 1 /\ (1 <= k - 1 \/ k - 1 = 0)
      BY <1>1, <2>2
    <3>3. /\ SubSeq(s, 1, k - 1) \in Seq(S)
          /\ Len(SubSeq(s, 1, k - 1)) = IF 1 <= k - 1 THEN k - 1 - 1 + 1 ELSE 0
          /\ \A i \in 1 .. k - 1 - 1 + 1 : SubSeq(s, 1, k - 1)[i] = s[1 + i - 1]
      BY <3>1, <3>2, SubSeqProperties
    <3>4. QED BY <3>2, <3>3
  <2>5. /\ SubSeq(s, k + 1, Len(s)) \in Seq(S) /\ Len(SubSeq(s, k + 1, Len(s))) = Len(s) - k
        /\ \A i \in 1 .. Len(s) - k : SubSeq(s, k + 1, Len(s))[i] = s[k + i]
    <3> DEFINE a == k + 1
               n == Len(s)
    <3>1. a \in Int /\ n \in Int /\ \A i \in a .. n : s[i] \in S
      <4>1. a \in Nat /\ n \in Nat /\ a >= 1
        BY <1>1, <2>2
      <4>2. \A i \in a .. n : i \in 1 .. n
        BY <4>1
      <4>3. QED BY <1>1, <4>1, <4>2
    <3>2. n - a + 1 = n - k /\ (a <= n \/ n - k = 0) /\ \A i \in 1 .. n - k : a + i - 1 = k + i
      <4>1. k \in Nat /\ n \in Nat /\ k <= n /\ a = k + 1
        BY <1>1, <2>2
      <4> HIDE DEF a, n
      <4>2. QED BY <4>1
    <3> HIDE DEF a, n
    <3>3. /\ SubSeq(s, a, n) \in Seq(S)
          /\ Len(SubSeq(s, a, n)) = IF a <= n THEN n - a + 1 ELSE 0
          /\ \A i \in 1 .. n - a + 1 : SubSeq(s, a, n)[i] = s[a + i - 1]
      BY <3>1, SubSeqProperties
    <3>4. /\ SubSeq(s, a, n) \in Seq(S) /\ Len(SubSeq(s, a, n)) = n - k
          /\ \A i \in 1 .. n - k : SubSeq(s, a, n)[i] = s[k + i]
      BY <3>2, <3>3
    <3>5. QED BY <3>4 DEF a, n
  <2>6. /\ r \in Seq(S) /\ Len(r) = Len(s) - 1
        /\ \A i \in 1 .. Len(s) - 1 : r[i] = IF i < k THEN s[i] ELSE s[i + 1]
    <3>1. /\ r \in Seq(S) /\ Len(r) = k - 1 + (Len(s) - k)
          /\ \A i \in 1 .. k - 1 + (Len(s) - k) : r[i] =
               IF i <= k - 1 THEN SubSeq(s, 1, k - 1)[i] ELSE SubSeq(s, k + 1, Len(s))[i - (k - 1)]
      <4> DEFINE u == SubSeq(s, 1, k - 1)
                 v == SubSeq(s, k + 1, Len(s))
      <4>1. u \in Seq(S) /\ v \in Seq(S) /\ Len(u) = k - 1 /\ Len(v) = Len(s) - k /\ r = u \o v
        BY <2>4, <2>5
      <4> HIDE DEF u, v
      <4>2. /\ u \o v \in Seq(S) /\ Len(u \o v) = Len(u) + Len(v)
            /\ \A i \in 1 .. Len(u) + Len(v) :
                 (u \o v)[i] = IF i <= Len(u) THEN u[i] ELSE v[i - Len(u)]
        BY <4>1, ConcatProperties
      <4>3. /\ r \in Seq(S) /\ Len(r) = k - 1 + (Len(s) - k)
            /\ \A i \in 1 .. k - 1 + (Len(s) - k) :
                 r[i] = IF i <= k - 1 THEN u[i] ELSE v[i - (k - 1)]
        BY <4>1, <4>2
      <4>4. QED BY <4>3 DEF u, v
    <3> HIDE DEF r
    <3>2. k - 1 + (Len(s) - k) = Len(s) - 1
      BY <1>1, <2>2
    <3>3. ASSUME NEW i \in 1 .. Len(s) - 1 PROVE r[i] = IF i < k THEN s[i] ELSE s[i + 1]
      <4>1. CASE i < k
        BY <1>1, <2>2, <2>4, <3>1, <3>2, <4>1
      <4>2. CASE ~(i < k)
        <5>1. i - (k - 1) \in 1 .. Len(s) - k /\ k + (i - (k - 1)) = i + 1
          BY <1>1, <2>2, <4>2
        <5>2. ~(i <= k - 1) /\ i \in 1 .. k - 1 + (Len(s) - k)
          BY <1>1, <2>2, <3>2, <4>2
        <5>3. r[i] = SubSeq(s, k + 1, Len(s))[i - (k - 1)]
          BY <3>1, <5>2
        <5>4. QED BY <2>5, <4>2, <5>1, <5>3
      <4>3. QED BY <4>1, <4>2
    <3>4. QED BY <3>1, <3>2, <3>3
  <2> HIDE DEF r
  <2>7. DOMAIN r = 1 .. Len(s) - 1
    BY <2>6, LenProperties
  <2>8. ASSUME IsInjective(s) PROVE IsInjective(r)
    <3> DEFINE from(i) == IF i < k THEN i ELSE i + 1
    <3>1. ASSUME NEW i \in 1 .. Len(s) - 1 PROVE from(i) \in 1 .. Len(s) /\ r[i] = s[from(i)]
      <4>1. from(i) \in 1 .. Len(s)
        BY <1>1
      <4>2. QED BY <2>6, <4>1
    <3>2. \A i, j \in 1 .. Len(s) - 1 : from(i) = from(j) => i = j
      BY <1>1, <2>2
    <3> HIDE DEF from
    <3>3. \A i, j \in 1 .. Len(s) : s[i] = s[j] => i = j
      BY <1>1, <2>8 DEF IsInjective
    <3>4. \A i, j \in 1 .. Len(s) - 1 : r[i] = r[j] => i = j
      BY <3>1, <3>2, <3>3
    <3>5. QED BY <2>7, <3>4 DEF IsInjective
  <2>9. ASSUME IsInjective(s) PROVE ToSet(r) = ToSet(s) \ {e}
    <3>1. ASSUME NEW x \in ToSet(r) PROVE x \in ToSet(s) \ {e}
      <4>1. PICK i \in 1 .. Len(s) - 1 : x = r[i]
        BY <2>7, <3>1 DEF ToSet
      <4>2. PICK j \in 1 .. Len(s) : j # k /\ x = s[j]
        BY <1>1, <2>2, <2>6, <4>1
      <4>3. x # e
        BY <1>1, <2>2, <2>9, <4>2 DEF IsInjective
      <4>4. QED BY <1>1, <4>2, <4>3 DEF ToSet
    <3>2. ASSUME NEW x \in ToSet(s) \ {e} PROVE x \in ToSet(r)
      <4>1. PICK j \in 1 .. Len(s) : x = s[j]
        BY <1>1 DEF ToSet
      <4>2. j # k
        BY <2>2, <4>1
      <4>3. \E i \in 1 .. Len(s) - 1 : r[i] = x
        <5>1. CASE j < k
          BY <1>1, <2>2, <2>6, <4>1, <5>1
        <5>2. CASE j > k
          <6>1. j - 1 \in 1 .. Len(s) - 1 /\ ~(j - 1 < k) /\ j - 1 + 1 = j
            BY <1>1, <2>2, <5>2
          <6>2. QED BY <2>6, <4>1, <6>1
        <5>3. QED BY <1>1, <2>2, <4>2, <5>1, <5>2
      <4>4. QED BY <2>7, <4>3 DEF ToSet
    <3>3. QED BY <3>1, <3>2
  <2>10. QED BY <2>3, <2>6, <2>8, <2>9
<1>4. QED BY <1>2, <1>3

LEMMA Appending ==
  ASSUME NEW S, NEW s \in Seq(S), NEW e \in S
  PROVE  /\ Append(s, e) \in Seq(S)
         /\ ToSet(Append(s, e)) = ToSet(s) \cup {e}
         /\ IsInjective(s) /\ e \notin ToSet(s) => IsInjective(Append(s, e))
<1> DEFINE r == Append(s, e)
<1>1. Len(s) \in Nat /\ DOMAIN s = 1 .. Len(s)
  BY LenProperties
<1>2. /\ r \in Seq(S) /\ Len(r) = Len(s) + 1
      /\ \A i \in 1 .. Len(s) : r[i] = s[i]
      /\ r[Len(s) + 1] = e
  BY AppendProperties
<1>3. DOMAIN r = 1 .. Len(s) + 1
  BY <1>2, LenProperties
<1> HIDE DEF r
<1>4. ToSet(r) = ToSet(s) \cup {e}
  BY <1>1, <1>2, <1>3 DEF ToSet
<1>5. IsInjective(s) /\ e \notin ToSet(s) => IsInjective(r)
  BY <1>1, <1>2, <1>3 DEF ToSet, IsInjective
<1>6. QED BY <1>2, <1>4, <1>5 DEF r

(* The first n of a list, or all of it. *)
LEMMA Choosing ==
  ASSUME NEW S, NEW s \in Seq(S), NEW n \in Nat
  PROVE  LET r == SubSeq(s, 1, IF n < Len(s) THEN n ELSE Len(s)) IN
         /\ r \in Seq(S) /\ ToSet(r) \subseteq ToSet(s) /\ Len(r) <= n
         /\ IsInjective(s) => IsInjective(r)
         /\ s # <<>> /\ n > 0 => r # <<>>
<1> DEFINE m == IF n < Len(s) THEN n ELSE Len(s)
           r == SubSeq(s, 1, m)
<1>1. Len(s) \in Nat /\ DOMAIN s = 1 .. Len(s) /\ \A i \in 1 .. Len(s) : s[i] \in S
  BY LenProperties
<1>2. m \in Nat /\ m <= Len(s) /\ m <= n /\ (n > 0 /\ Len(s) > 0 => m > 0)
  BY <1>1
<1>3. /\ r \in Seq(S) /\ Len(r) = IF 1 <= m THEN m - 1 + 1 ELSE 0
      /\ \A i \in 1 .. m - 1 + 1 : r[i] = s[1 + i - 1]
  <2>1. \A i \in 1 .. m : s[i] \in S
    BY <1>1, <1>2
  <2> HIDE DEF m
  <2>2. QED BY <1>2, <2>1, SubSeqProperties
<1> HIDE DEF m, r
<1>4. Len(r) = m /\ \A i \in 1 .. m : r[i] = s[i]
  BY <1>2, <1>3
<1>5. DOMAIN r = 1 .. m
  BY <1>3, <1>4, LenProperties
<1>6. ToSet(r) \subseteq ToSet(s) /\ (IsInjective(s) => IsInjective(r))
  BY <1>1, <1>2, <1>4, <1>5 DEF ToSet, IsInjective
<1>7. s # <<>> /\ n > 0 => r # <<>>
  BY <1>2, <1>4, EmptySeq
<1>8. QED BY <1>2, <1>3, <1>4, <1>6, <1>7 DEF m, r

LEMMA Shortening ==
  ASSUME NEW S, NEW s \in Seq(S), s # <<>>
  PROVE  /\ Head(s) \in S /\ Head(s) = s[1]
         /\ Tail(s) \in Seq(S) /\ Len(Tail(s)) = Len(s) - 1 /\ Len(s) \in Nat \ {0}
         /\ \A i \in 1 .. Len(s) - 1 : Tail(s)[i] = s[i + 1]
         /\ IsInjective(s) => /\ IsInjective(Tail(s))
                              /\ \A i \in 2 .. Len(s) : s[i] # s[1]
<1>1. /\ Head(s) \in S /\ Tail(s) \in Seq(S) /\ Len(Tail(s)) = Len(s) - 1
      /\ \A i \in 1 .. Len(s) - 1 : Tail(s)[i] = s[i + 1]
  BY HeadTailProperties
<1>2. Len(s) \in Nat \ {0} /\ DOMAIN s = 1 .. Len(s) /\ DOMAIN Tail(s) = 1 .. Len(s) - 1
  BY <1>1, EmptySeq, LenProperties
<1>3. IsInjective(s) => IsInjective(Tail(s)) /\ \A i \in 2 .. Len(s) : s[i] # s[1]
  BY <1>1, <1>2 DEF IsInjective
<1>4. Head(s) = s[1]
  OBVIOUS
<1>5. QED BY <1>1, <1>2, <1>3, <1>4

-----------------------------------------------------------------------------
(* The steps, as the proofs take them apart. *)
CallOps == {"use", "P", "tryP", "V", "set", "clear", "wait"}
Step(t) == \/ \E o \in CallOps : Call(t, o)
           \/ Lock(t) \/ AcquireAgain(t) \/ ReleaseOnce(t) \/ TimesOut(t) \/ Use(t)
           \/ Proceed(t)

(* A thread that has the lock goes on with it. *)
LEMMA GoingOn ==
  ASSUME CTypeOK, HoldInv, NEW t \in Threads, at[t] \in Holding, NEW p \in Holding,
         at' = [at EXCEPT ![t] = p] \/ at' = at, block' = block
  PROVE  HoldInv'
BY DEF CTypeOK, HoldInv

(* An operation goes from place to place. *)
LEMMA FlowStep ==
  ASSUME CInv, NEW t \in Threads, Step(t), UNCHANGED kind PROVE FlowInv'
<1> USE DEF CInv, CTypeOK, FlowInv, HoldInv, Holding, Places
<1>1. ASSUME NEW o \in CallOps, Call(t, o) PROVE FlowInv'
  <2>1. /\ op' = [op EXCEPT ![t] = o] /\ at' = [at EXCEPT ![t] = "enter"]
        /\ value' = value /\ timed' = timed /\ o \in Ops(kind) /\ o # "none"
    BY <1>1 DEF Call, GoOn, Set, CallOps, dataVars
  <2>2. QED BY <2>1
<1>2. ASSUME Enter(t) PROVE FlowInv'
  BY <1>2 DEF Enter, GoOn, lockVars, listVars, dataVars, Ops
<1>3. ASSUME Reenter(t) PROVE FlowInv'
  BY <1>3 DEF Reenter, GoOn, lockVars, listVars, dataVars
<1>4. ASSUME Note(t) PROVE FlowInv'
  BY <1>4 DEF Note, GoOn, Set, lockVars, listVars, dataVars
<1>5. ASSUME AcquireAgain(t) PROVE FlowInv'
  BY <1>5 DEF AcquireAgain, Set, lockVars, listVars, dataVars
<1>6. ASSUME ReleaseOnce(t) PROVE FlowInv'
  <2>1. /\ at[t] = "in" /\ op[t] = "use" /\ op' = op /\ value' = value /\ timed' = timed
        /\ at' = at \/ at' = [at EXCEPT ![t] = "left"]
    BY <1>6 DEF ReleaseOnce, GoOn, dataVars
  <2>2. QED BY <2>1
<1>7. ASSUME Unblock(t) PROVE FlowInv'
  BY <1>7 DEF Unblock, GoOn, Set, lockVars, listVars, dataVars
<1>8. ASSUME AppendWaiter(t) PROVE FlowInv'
  BY <1>8 DEF AppendWaiter, GoOn, lockVars, listVars, dataVars
<1>9. ASSUME Save(t) PROVE FlowInv'
  BY <1>9 DEF Save, GoOn, Set, lockVars, listVars, dataVars
<1>10. ASSUME Park(t) PROVE FlowInv'
  BY <1>10 DEF Park, GoOn, lockVars, listVars, dataVars
<1>11. ASSUME Woken(t) PROVE FlowInv'
  BY <1>11 DEF Woken, GoOn, lockVars, listVars, dataVars
<1>12. ASSUME TimesOut(t) PROVE FlowInv'
  BY <1>12 DEF TimesOut, GoOn, lockVars, listVars, dataVars
<1>13. ASSUME RemoveWaiter(t) PROVE FlowInv'
  BY <1>13 DEF RemoveWaiter, GoOn, lockVars, listVars, dataVars
<1>14. ASSUME Restore(t) PROVE FlowInv'
  BY <1>14 DEF Restore, GoOn, lockVars, listVars, dataVars
<1>15. ASSUME ReleaseWaiter(t) PROVE FlowInv'
  BY <1>15 DEF ReleaseWaiter, GoOn, lockVars, listVars, dataVars
<1>16. ASSUME Delist(t) PROVE FlowInv'
  BY <1>16 DEF Delist, GoOn, Set, lockVars, listVars, dataVars
<1>17. ASSUME Use(t) PROVE FlowInv'
  BY <1>17 DEF Use, GoOn, Set, Notify, lockVars, listVars, dataVars, Ops
<1>18. ASSUME TestValue(t) PROVE FlowInv'
  BY <1>18 DEF TestValue, GoOn, lockVars, listVars, dataVars
<1>19. ASSUME TakeValue(t) PROVE FlowInv'
  BY <1>19 DEF TakeValue, GoOn, lockVars, listVars, dataVars
<1>20. ASSUME V(t) PROVE FlowInv'
  BY <1>20 DEF V, GoOn, Notify, Set, lockVars, listVars, dataVars
<1>21. ASSUME SetEvent(t) PROVE FlowInv'
  BY <1>21 DEF SetEvent, GoOn, Notify, Set, lockVars, listVars, dataVars
<1>22. ASSUME ClearEvent(t) PROVE FlowInv'
  BY <1>22 DEF ClearEvent, GoOn, lockVars, listVars, dataVars
<1>23. ASSUME WaitEvent(t) PROVE FlowInv'
  BY <1>23 DEF WaitEvent, GoOn, Set, lockVars, listVars, dataVars, Ops
<1> HIDE DEF FlowInv
<1>24. QED
  BY <1>1, <1>2, <1>3, <1>4, <1>5, <1>6, <1>7, <1>8, <1>9, <1>10, <1>11, <1>12,
     <1>13, <1>14, <1>15, <1>16, <1>17, <1>18, <1>19, <1>20, <1>21, <1>22, <1>23
  DEF Step, Lock, Proceed

(* The lock of the condition is taken when it is free and given back by the thread that has it. *)
LEMMA HoldStep ==
  ASSUME CInv, NEW t \in Threads, Step(t), UNCHANGED kind PROVE HoldInv'
<1> USE DEF CInv, CTypeOK, HoldInv, Holding, Places
<1>1. ASSUME NEW o \in CallOps, Call(t, o) PROVE HoldInv'
  BY <1>1 DEF Call, GoOn, Set, CallOps, Ops, lockVars, listVars, dataVars
<1>2. ASSUME Enter(t) PROVE HoldInv'
  BY <1>2 DEF Enter, GoOn, lockVars, listVars, dataVars
<1>3. ASSUME Reenter(t) PROVE HoldInv'
  BY <1>3 DEF Reenter, GoOn, lockVars, listVars, dataVars
<1>4. ASSUME Note(t) PROVE HoldInv'
  BY <1>4 DEF Note, GoOn, Set, lockVars, listVars, dataVars
<1>5. ASSUME AcquireAgain(t) PROVE HoldInv'
  BY <1>5 DEF AcquireAgain, Set, lockVars, listVars, dataVars
<1>6. ASSUME ReleaseOnce(t) PROVE HoldInv'
  <2>1. at[t] \in Holding /\ block' = block
    BY <1>6 DEF ReleaseOnce, lockVars, Holding
  <2>2. \E p \in Holding : at' = [at EXCEPT ![t] = p] \/ at' = at
    BY <1>6 DEF ReleaseOnce, GoOn, Notify, Holding
  <2> HIDE DEF Holding, HoldInv, CTypeOK
  <2>3. QED BY <2>1, <2>2, GoingOn
<1>7. ASSUME Unblock(t) PROVE HoldInv'
  BY <1>7 DEF Unblock, GoOn, Set, lockVars, listVars, dataVars
<1>8. ASSUME AppendWaiter(t) PROVE HoldInv'
  <2>1. at[t] \in Holding /\ block' = block
    BY <1>8 DEF AppendWaiter, lockVars
  <2>2. \E p \in Holding : at' = [at EXCEPT ![t] = p] \/ at' = at
    BY <1>8 DEF AppendWaiter, GoOn
  <2> HIDE DEF Holding, HoldInv, CTypeOK
  <2>3. QED BY <2>1, <2>2, GoingOn
<1>9. ASSUME Save(t) PROVE HoldInv'
  <2>1. at[t] \in Holding /\ block' = block
    BY <1>9 DEF Save, lockVars
  <2>2. \E p \in Holding : at' = [at EXCEPT ![t] = p] \/ at' = at
    BY <1>9 DEF Save, GoOn
  <2> HIDE DEF Holding, HoldInv, CTypeOK
  <2>3. QED BY <2>1, <2>2, GoingOn
<1>10. ASSUME Park(t) PROVE HoldInv'
  BY <1>10 DEF Park, GoOn, lockVars, listVars, dataVars
<1>11. ASSUME Woken(t) PROVE HoldInv'
  BY <1>11 DEF Woken, GoOn, lockVars, listVars, dataVars
<1>12. ASSUME TimesOut(t) PROVE HoldInv'
  BY <1>12 DEF TimesOut, GoOn, lockVars, listVars, dataVars
<1>13. ASSUME RemoveWaiter(t) PROVE HoldInv'
  BY <1>13 DEF RemoveWaiter, GoOn, lockVars, listVars, dataVars
<1>14. ASSUME Restore(t) PROVE HoldInv'
  BY <1>14 DEF Restore, GoOn, lockVars, listVars, dataVars
<1>15. ASSUME ReleaseWaiter(t) PROVE HoldInv'
  <2>1. at[t] \in Holding /\ block' = block
    BY <1>15 DEF ReleaseWaiter, lockVars, Holding
  <2>2. \E p \in Holding : at' = [at EXCEPT ![t] = p] \/ at' = at
    BY <1>15 DEF ReleaseWaiter, GoOn, Notify, Holding
  <2> HIDE DEF Holding, HoldInv, CTypeOK
  <2>3. QED BY <2>1, <2>2, GoingOn
<1>16. ASSUME Delist(t) PROVE HoldInv'
  BY <1>16 DEF Delist, GoOn, Set, lockVars, listVars, dataVars
<1>17. ASSUME Use(t) PROVE HoldInv'
  <2>1. at[t] \in Holding /\ block' = block
    BY <1>17 DEF Use, lockVars, Holding
  <2>2. \E p \in Holding : at' = [at EXCEPT ![t] = p] \/ at' = at
    BY <1>17 DEF Use, GoOn, Notify, Holding
  <2> HIDE DEF Holding, HoldInv, CTypeOK
  <2>3. QED BY <2>1, <2>2, GoingOn
<1>18. ASSUME TestValue(t) PROVE HoldInv'
  <2>1. at[t] \in Holding /\ block' = block
    BY <1>18 DEF TestValue, lockVars
  <2>2. \E p \in Holding : at' = [at EXCEPT ![t] = p] \/ at' = at
    BY <1>18 DEF TestValue, GoOn, Notify
  <2> HIDE DEF Holding, HoldInv, CTypeOK
  <2>3. QED BY <2>1, <2>2, GoingOn
<1>19. ASSUME TakeValue(t) PROVE HoldInv'
  <2>1. at[t] \in Holding /\ block' = block
    BY <1>19 DEF TakeValue, lockVars
  <2>2. \E p \in Holding : at' = [at EXCEPT ![t] = p] \/ at' = at
    BY <1>19 DEF TakeValue, GoOn
  <2> HIDE DEF Holding, HoldInv, CTypeOK
  <2>3. QED BY <2>1, <2>2, GoingOn
<1>20. ASSUME V(t) PROVE HoldInv'
  <2>1. at[t] \in Holding /\ block' = block
    BY <1>20 DEF V, lockVars, Holding
  <2>2. \E p \in Holding : at' = [at EXCEPT ![t] = p] \/ at' = at
    BY <1>20 DEF V, GoOn, Notify, Holding
  <2> HIDE DEF Holding, HoldInv, CTypeOK
  <2>3. QED BY <2>1, <2>2, GoingOn
<1>21. ASSUME SetEvent(t) PROVE HoldInv'
  <2>1. at[t] \in Holding /\ block' = block
    BY <1>21 DEF SetEvent, lockVars
  <2>2. \E p \in Holding : at' = [at EXCEPT ![t] = p] \/ at' = at
    BY <1>21 DEF SetEvent, GoOn, Notify
  <2> HIDE DEF Holding, HoldInv, CTypeOK
  <2>3. QED BY <2>1, <2>2, GoingOn
<1>22. ASSUME ClearEvent(t) PROVE HoldInv'
  <2>1. at[t] \in Holding /\ block' = block
    BY <1>22 DEF ClearEvent, lockVars
  <2>2. \E p \in Holding : at' = [at EXCEPT ![t] = p] \/ at' = at
    BY <1>22 DEF ClearEvent, GoOn, Notify
  <2> HIDE DEF Holding, HoldInv, CTypeOK
  <2>3. QED BY <2>1, <2>2, GoingOn
<1>23. ASSUME WaitEvent(t) PROVE HoldInv'
  BY <1>23 DEF WaitEvent, GoOn, Set, lockVars, listVars, dataVars
<1> HIDE DEF HoldInv
<1>24. QED
  BY <1>1, <1>2, <1>3, <1>4, <1>5, <1>6, <1>7, <1>8, <1>9, <1>10, <1>11, <1>12,
     <1>13, <1>14, <1>15, <1>16, <1>17, <1>18, <1>19, <1>20, <1>21, <1>22, <1>23
  DEF Step, Lock, Proceed

(* The count of an RLock follows its owner. *)
LEMMA DepthStep ==
  ASSUME CInv, NEW t \in Threads, Step(t), UNCHANGED kind PROVE DepthInv'
<1> USE DEF CInv, CTypeOK, FlowInv, HoldInv, DepthInv, Holding, Places
<1>1. ASSUME NEW o \in CallOps, Call(t, o) PROVE DepthInv'
  BY <1>1 DEF Call, GoOn, Set, CallOps, Ops, lockVars, listVars, dataVars
<1>2. ASSUME Enter(t) PROVE DepthInv'
  <2>1. /\ op' = op /\ owner' = owner /\ count' = count /\ depth' = depth /\ saved' = saved
        /\ at' = [at EXCEPT ![t] = IF kind = "condition" THEN "note" ELSE "in"]
    BY <1>2 DEF Enter, GoOn
  <2>2. at[t] = "enter" /\ (op[t] = "use" => kind = "condition")
    BY <1>2 DEF Enter, Ops
  <2>3. QED BY <2>1, <2>2
<1>3. ASSUME Reenter(t) PROVE DepthInv'
  BY <1>3 DEF Reenter, GoOn, lockVars, listVars, dataVars
<1>4. ASSUME Note(t) PROVE DepthInv'
  BY <1>4 DEF Note, GoOn, Set, lockVars, listVars, dataVars
<1>5. ASSUME AcquireAgain(t) PROVE DepthInv'
  BY <1>5 DEF AcquireAgain, Set, lockVars, listVars, dataVars
<1>6. ASSUME ReleaseOnce(t) PROVE DepthInv'
  BY <1>6 DEF ReleaseOnce, GoOn, Set, lockVars, listVars, dataVars
<1>7. ASSUME Unblock(t) PROVE DepthInv'
  BY <1>7 DEF Unblock, GoOn, Set, lockVars, listVars, dataVars
<1>8. ASSUME AppendWaiter(t) PROVE DepthInv'
  BY <1>8 DEF AppendWaiter, GoOn, lockVars, listVars, dataVars
<1>9. ASSUME Save(t) PROVE DepthInv'
  <2>1. op[t] = "use" => kind = "condition"
    BY <1>9 DEF Save, Ops
  <2>2. \A u \in Threads : at[u] \in Holding => u = t
    BY <1>9 DEF Save
  <2>3. ASSUME NEW u \in Threads \ {t}, op'[u] = "use"
        PROVE  at'[u] \notin {"in", "append", "save", "notify", "delist"}
    BY <1>9, <2>2 DEF Save, GoOn
  <2>4. op[t] = "use" => at'[t] \in {"saved", "leave"} /\ (at'[t] = "leave" => op[t] = "wait")
    BY <1>9 DEF Save, GoOn
  <2>5. QED BY <1>9, <2>1, <2>3, <2>4 DEF Save, GoOn, Set
<1>10. ASSUME Park(t) PROVE DepthInv'
  BY <1>10 DEF Park, GoOn, lockVars, listVars, dataVars
<1>11. ASSUME Woken(t) PROVE DepthInv'
  BY <1>11 DEF Woken, GoOn, lockVars, listVars, dataVars
<1>12. ASSUME TimesOut(t) PROVE DepthInv'
  BY <1>12 DEF TimesOut, GoOn, lockVars, listVars, dataVars
<1>13. ASSUME RemoveWaiter(t) PROVE DepthInv'
  BY <1>13 DEF RemoveWaiter, GoOn, lockVars, listVars, dataVars
<1>14. ASSUME Restore(t) PROVE DepthInv'
  <2>1. op[t] = "use" => kind = "condition"
    BY <1>14 DEF Restore, Ops
  <2>2. \A u \in Threads : at[u] \in Holding => u = t
    BY <1>14 DEF Restore
  <2>3. ASSUME NEW u \in Threads \ {t}, op'[u] = "use"
        PROVE  at'[u] \notin {"in", "append", "save", "notify", "delist"}
    BY <1>14, <2>2 DEF Restore, GoOn
  <2>4. op[t] = "use" => at'[t] \in {"in", "leave"} /\ (at'[t] = "leave" => op[t] = "wait")
    BY <1>14 DEF Restore, GoOn
  <2>5. QED BY <1>14, <2>1, <2>3, <2>4 DEF Restore, GoOn, Set
<1>15. ASSUME ReleaseWaiter(t) PROVE DepthInv'
  BY <1>15 DEF ReleaseWaiter, GoOn, lockVars, listVars, dataVars
<1>16. ASSUME Delist(t) PROVE DepthInv'
  BY <1>16 DEF Delist, GoOn, Set, lockVars, listVars, dataVars
<1>17. ASSUME Use(t) PROVE DepthInv'
  BY <1>17 DEF Use, GoOn, Set, Notify, lockVars, listVars, dataVars
<1>18. ASSUME TestValue(t) PROVE DepthInv'
  <2>1. /\ op[t] # "use" /\ op' = op /\ \A u \in Threads \ {t} : at'[u] = at[u]
        /\ UNCHANGED <<owner, count, depth, saved>>
    BY <1>18 DEF TestValue, GoOn, lockVars
  <2>2. QED BY <2>1
<1>19. ASSUME TakeValue(t) PROVE DepthInv'
  BY <1>19 DEF TakeValue, GoOn, lockVars, listVars, dataVars
<1>20. ASSUME V(t) PROVE DepthInv'
  BY <1>20 DEF V, GoOn, Notify, Set, lockVars, listVars, dataVars
<1>21. ASSUME SetEvent(t) PROVE DepthInv'
  BY <1>21 DEF SetEvent, GoOn, Notify, Set, lockVars, listVars, dataVars
<1>22. ASSUME ClearEvent(t) PROVE DepthInv'
  BY <1>22 DEF ClearEvent, GoOn, lockVars, listVars, dataVars
<1>23. ASSUME WaitEvent(t) PROVE DepthInv'
  BY <1>23 DEF WaitEvent, GoOn, Set, lockVars, listVars, dataVars
<1> HIDE DEF DepthInv
<1>24. QED
  BY <1>1, <1>2, <1>3, <1>4, <1>5, <1>6, <1>7, <1>8, <1>9, <1>10, <1>11, <1>12,
     <1>13, <1>14, <1>15, <1>16, <1>17, <1>18, <1>19, <1>20, <1>21, <1>22, <1>23
  DEF Step, Lock, Proceed

(* What the steps do to the lists. *)
LEMMA ListSame ==
  ASSUME CInv PROVE waiters \in Seq(Threads) /\ Len(waiters) \in Nat /\ Listed \subseteq Threads
<1>1. waiters \in Seq(Threads)
  BY DEF CInv, CTypeOK
<1>2. QED BY <1>1, LenProperties DEF Listed, ToSet

LEMMA ListGrows ==
  ASSUME CInv, NEW t \in Threads, AppendWaiter(t)
  PROVE  /\ waiters' \in Seq(Threads) /\ Listed' = Listed \cup {t} /\ IsInjective(waiters')
         /\ t \notin Listed
<1>1. t \notin Listed
  BY DEF AppendWaiter, CInv, ListInv
<1>2. QED BY <1>1, Appending DEF AppendWaiter, CInv, CTypeOK, ListInv, Listed

LEMMA ListShrinks ==
  ASSUME CInv, NEW t \in Threads, RemoveWaiter(t)
  PROVE  waiters' \in Seq(Threads) /\ Listed' = Listed \ {t} /\ IsInjective(waiters')
BY Removing DEF RemoveWaiter, CInv, CTypeOK, ListInv, Listed

LEMMA NextInSlice ==
  ASSUME CInv, NEW t \in Threads, slice[t] # <<>>
  PROVE  /\ Head(slice[t]) \in Threads /\ Head(slice[t]) = slice[t][1]
         /\ Len(slice[t]) \in Nat \ {0}
         /\ Tail(slice[t]) \in Seq(Threads) /\ Len(Tail(slice[t])) = Len(slice[t]) - 1
         /\ \A i \in 1 .. Len(slice[t]) - 1 : Tail(slice[t])[i] = slice[t][i + 1]
         /\ IsInjective(Tail(slice[t]))
         /\ \A i \in 2 .. Len(slice[t]) : slice[t][i] # Head(slice[t])
<1>1. slice[t] \in Seq(Threads) /\ IsInjective(slice[t])
  BY DEF CInv, CTypeOK, SliceInv
<1>2. QED BY <1>1, Shortening

LEMMA Delisting ==
  ASSUME CInv, NEW t \in Threads, Delist(t)
  PROVE  /\ slice[t] # <<>>
         /\ waiters' \in Seq(Threads) /\ Listed' = Listed \ {Head(slice[t])}
         /\ IsInjective(waiters')
         /\ slice' = [slice EXCEPT ![t] = Tail(slice[t])]
<1>1. slice[t] # <<>>
  BY DEF Delist, CInv, SliceInv
<1>2. QED BY <1>1, Removing DEF Delist, Set, CInv, CTypeOK, ListInv, Listed

LEMMA Slicing ==
  ASSUME CInv, NEW t \in Threads, NEW n \in Nat, Notify(t, n)
  PROVE  \E r \in Seq(Threads) :
           /\ slice' = [slice EXCEPT ![t] = r] /\ at' = [at EXCEPT ![t] = "notify"]
           /\ Len(r) \in Nat /\ Len(r) <= n /\ IsInjective(r)
           /\ \A i \in 1 .. Len(r) : r[i] \in Listed
           /\ n > 0 /\ r = <<>> => waiters = <<>>
<1> DEFINE r == SubSeq(waiters, 1, IF n < Len(waiters) THEN n ELSE Len(waiters))
<1>1. slice' = [slice EXCEPT ![t] = r] /\ at' = [at EXCEPT ![t] = "notify"]
  BY DEF Notify, Set, GoOn
<1>2. waiters \in Seq(Threads) /\ IsInjective(waiters)
  BY DEF CInv, CTypeOK, ListInv
<1>3. /\ r \in Seq(Threads) /\ ToSet(r) \subseteq ToSet(waiters) /\ Len(r) <= n
      /\ IsInjective(r) /\ (waiters # <<>> /\ n > 0 => r # <<>>)
  BY <1>2, Choosing
<1> HIDE DEF r
<1>4. Len(r) \in Nat /\ \A i \in 1 .. Len(r) : r[i] \in ToSet(r)
  BY <1>3, LenProperties DEF ToSet
<1>5. QED BY <1>1, <1>3, <1>4 DEF Listed

(* A use notifies some of the first waiters, a semaphore the first, an     *)
(* event all of them.                                                      *)
LEMMA NotifyCounts ==
  ASSUME CInv, NEW t \in Threads
  PROVE  /\ 1 .. Cardinality(Threads) \subseteq Nat /\ 1 \in Nat /\ Len(waiters) \in Nat
BY ListSame, FS_CardinalityType, ConditionsAssumption

LEMMA Notified ==
  ASSUME CInv, NEW t \in Threads, NEW n \in Nat, Notify(t, n)
  PROVE  slice' \in [Threads -> Seq(Threads)] /\ at' \in [Threads -> Places]
<1>1. PICK r \in Seq(Threads) :
        slice' = [slice EXCEPT ![t] = r] /\ at' = [at EXCEPT ![t] = "notify"]
  BY Slicing
<1>2. QED BY <1>1 DEF CInv, CTypeOK, Places, Holding

(* A thread that is about to add to the value is counted. *)
LEMMA AddingFits ==
  ASSUME CInv, NEW t \in Threads, at[t] = "in", op[t] = "V"
  PROVE  value + 1 \in 0 .. MaxValue
<1>1. t \in Adding /\ IsFiniteSet(Adding)
  BY ConditionsAssumption, FS_Subset DEF Adding
<1>2. Cardinality(Adding) \in Nat /\ Cardinality(Adding) # 0
  BY <1>1, FS_CardinalityType, FS_EmptySet
<1>3. value \in Nat /\ MaxValue \in Nat /\ value + Cardinality(Adding) <= MaxValue
  BY ConditionsAssumption DEF CInv, CTypeOK, ValueInv
<1>4. QED BY <1>2, <1>3

(* Every variable keeps its type: no count leaves its range. *)
LEMMA TypeStep ==
  ASSUME CInv, NEW t \in Threads, Step(t), UNCHANGED kind PROVE CTypeOK'
<1> USE DEF CInv, CTypeOK, Places, Holding
<1>1. ASSUME NEW o \in CallOps, Call(t, o) PROVE CTypeOK'
  BY <1>1 DEF Call, GoOn, Set, CallOps, Ops, lockVars, listVars, dataVars, Ops
<1>2. ASSUME Enter(t) PROVE CTypeOK'
  BY <1>2 DEF Enter, GoOn, lockVars, listVars, dataVars
<1>3. ASSUME Reenter(t) PROVE CTypeOK'
  BY <1>3 DEF Reenter, GoOn, lockVars, listVars, dataVars
<1>4. ASSUME Note(t) PROVE CTypeOK'
  BY <1>4, ConditionsAssumption DEF Note, GoOn, Set, lockVars, listVars, dataVars
<1>5. ASSUME AcquireAgain(t) PROVE CTypeOK'
  <2>1. count = depth[t] /\ count + 1 \in 0 .. MaxCount
    BY <1>5, ConditionsAssumption DEF AcquireAgain, DepthInv
  <2>2. count' \in 0 .. MaxCount /\ depth' \in [Threads -> 0 .. MaxCount]
    BY <1>5, <2>1 DEF AcquireAgain, Set
  <2>3. QED BY <1>5, <2>2 DEF AcquireAgain, listVars, dataVars
<1>6. ASSUME ReleaseOnce(t) PROVE CTypeOK'
  <2>1. count = depth[t] /\ count - 1 \in 0 .. MaxCount
    BY <1>6, ConditionsAssumption DEF ReleaseOnce, DepthInv
  <2>2. count' \in 0 .. MaxCount /\ depth' \in [Threads -> 0 .. MaxCount]
    BY <1>6, <2>1 DEF ReleaseOnce, Set
  <2>3. QED BY <1>6, <2>2 DEF ReleaseOnce, GoOn, listVars, dataVars
<1>7. ASSUME Unblock(t) PROVE CTypeOK'
  <2>1. timed' \in [Threads -> BOOLEAN]
    BY <1>7, Zenon DEF Unblock, Set
  <2>2. QED BY <1>7, <2>1 DEF Unblock, GoOn, Set, listVars, dataVars
<1>8. ASSUME AppendWaiter(t) PROVE CTypeOK'
  BY <1>8, ListGrows DEF AppendWaiter, GoOn, lockVars, listVars, dataVars
<1>9. ASSUME Save(t) PROVE CTypeOK'
  <2>1. saved' \in [Threads -> 0 .. MaxCount] /\ count' \in 0 .. MaxCount
    <3>1. 0 \in 0 .. MaxCount
      BY ConditionsAssumption
    <3>2. CASE kind = "condition"
      BY <1>9, <3>1, <3>2 DEF Save, Set
    <3>3. CASE kind # "condition"
      BY <1>9, <3>3 DEF Save
    <3>4. QED BY <3>2, <3>3
  <2>2. owner' \in Threads \cup {NoThread}
    BY <1>9 DEF Save
  <2>3. QED BY <1>9, <2>1, <2>2 DEF Save, GoOn, listVars, dataVars
<1>10. ASSUME Park(t) PROVE CTypeOK'
  BY <1>10 DEF Park, GoOn, lockVars, listVars, dataVars
<1>11. ASSUME Woken(t) PROVE CTypeOK'
  BY <1>11 DEF Woken, GoOn, lockVars, listVars, dataVars
<1>12. ASSUME TimesOut(t) PROVE CTypeOK'
  BY <1>12 DEF TimesOut, GoOn, lockVars, listVars, dataVars
<1>13. ASSUME RemoveWaiter(t) PROVE CTypeOK'
  BY <1>13, ListShrinks DEF RemoveWaiter, GoOn, lockVars, listVars, dataVars
<1>14. ASSUME Restore(t) PROVE CTypeOK'
  BY <1>14 DEF Restore, GoOn, lockVars, listVars, dataVars
<1>15. ASSUME ReleaseWaiter(t) PROVE CTypeOK'
  <2> HIDE DEF CInv
  <2>1. slice[t] # <<>> => Head(slice[t]) \in Threads
    BY NextInSlice
  <2>2. QED BY <1>15, <2>1 DEF CInv, ReleaseWaiter, GoOn, lockVars, dataVars
<1>16. ASSUME Delist(t) PROVE CTypeOK'
  <2> HIDE DEF CInv
  <2>1. slice[t] # <<>> /\ waiters' \in Seq(Threads) /\ slice' = [slice EXCEPT ![t] = Tail(slice[t])]
    BY <1>16, Delisting
  <2>2. Tail(slice[t]) \in Seq(Threads)
    BY <2>1, NextInSlice
  <2>3. slice' \in [Threads -> Seq(Threads)]
    BY <2>1, <2>2 DEF CInv
  <2>4. QED BY <1>16, <2>1, <2>3 DEF CInv, Delist, GoOn, lockVars, dataVars
<1>17. ASSUME Use(t) PROVE CTypeOK'
  <2>1. timed' \in [Threads -> BOOLEAN]
    BY <1>17 DEF Use, Set
  <2>2. slice' \in [Threads -> Seq(Threads)] /\ at' \in [Threads -> Places]
    <3> HIDE DEF CInv, CTypeOK, Places, Holding
    <3>1. CASE \E n \in 1 .. Cardinality(Threads) : Notify(t, n)
      BY <3>1, Notified, NotifyCounts
    <3>2. CASE GoOn(t, "append") /\ UNCHANGED slice
      BY <3>2 DEF GoOn, CInv, CTypeOK, Places, Holding
    <3>3. QED BY <1>17, <3>1, <3>2 DEF Use
  <2>3. QED BY <1>17, <2>1, <2>2 DEF Use, lockVars, listVars, dataVars
<1>18. ASSUME TestValue(t) PROVE CTypeOK'
  BY <1>18 DEF TestValue, GoOn, lockVars, listVars, dataVars
<1>19. ASSUME TakeValue(t) PROVE CTypeOK'
  <2>1. value' \in 0 .. MaxValue
    BY <1>19, ConditionsAssumption DEF TakeValue, FlowInv
  <2>2. QED BY <1>19, <2>1 DEF TakeValue, GoOn, lockVars, listVars
<1>20. ASSUME V(t) PROVE CTypeOK'
  <2>1. value' \in 0 .. MaxValue
    BY <1>20, AddingFits DEF V
  <2>2. slice' \in [Threads -> Seq(Threads)] /\ at' \in [Threads -> Places]
    <3> HIDE DEF CInv, CTypeOK, Places, Holding
    <3>1. QED BY <1>20, Notified, NotifyCounts DEF V
  <2>3. QED BY <1>20, <2>1, <2>2 DEF V, lockVars, listVars
<1>21. ASSUME SetEvent(t) PROVE CTypeOK'
  <2>1. slice' \in [Threads -> Seq(Threads)] /\ at' \in [Threads -> Places]
    <3> HIDE DEF CInv, CTypeOK, Places, Holding
    <3>1. QED BY <1>21, Notified, NotifyCounts DEF SetEvent
  <2>2. QED BY <1>21, <2>1 DEF SetEvent, lockVars, listVars
<1>22. ASSUME ClearEvent(t) PROVE CTypeOK'
  BY <1>22 DEF ClearEvent, GoOn, lockVars, listVars, dataVars
<1>23. ASSUME WaitEvent(t) PROVE CTypeOK'
  <2>1. timed' \in [Threads -> BOOLEAN]
    BY <1>23 DEF WaitEvent, Set
  <2>2. QED BY <1>23, <2>1 DEF WaitEvent, GoOn, lockVars, listVars, dataVars
<1> HIDE DEF CTypeOK
<1>24. QED
  BY <1>1, <1>2, <1>3, <1>4, <1>5, <1>6, <1>7, <1>8, <1>9, <1>10, <1>11, <1>12,
     <1>13, <1>14, <1>15, <1>16, <1>17, <1>18, <1>19, <1>20, <1>21, <1>22, <1>23
  DEF Step, Lock, Proceed


-----------------------------------------------------------------------------
(* The lists *)

(* When nobody notifies, no waiter that is still in the list was released. *)
LEMMA NobodyNotifies ==
  ASSUME CInv, \A u \in Threads : at[u] \notin {"notify", "delist"}
  PROVE  /\ \A u \in Threads : slice[u] = <<>> /\ Unreleased(u) = {}
         /\ \A w \in Listed : w \notin open /\ at[w] # "reenter"
<1>1. \A u \in Threads : slice[u] = <<>>
  BY DEF CInv, SliceInv
<1>2. Len(<<>>) = 0 /\ 1 .. 0 = {}
  OBVIOUS
<1>3. \A w \in Threads : ~Chosen(w)
  BY DEF Chosen
<1>4. QED BY <1>1, <1>2, <1>3, ListSame DEF CInv, ListInv, Unreleased

LEMMA OneHolds ==
  ASSUME CInv, NEW t \in Threads, at[t] \in Holding
  PROVE  \A u \in Threads \ {t} : at[u] \notin Holding
BY DEF CInv, HoldInv

ListsInv == ListInv /\ OpenInv /\ SliceInv

LEMMA SlicedThreads ==
  ASSUME CInv, NEW u \in Threads PROVE \A i \in Unreleased(u) : slice[u][i] \in Threads
<1>1. slice[u] \in Seq(Threads)
  BY DEF CInv, CTypeOK
<1>2. Len(slice[u]) \in Nat /\ \A i \in 1 .. Len(slice[u]) : slice[u][i] \in Threads
  BY <1>1, LenProperties
<1>3. QED BY <1>2 DEF Unreleased

(* Steps that neither come to the lists nor leave them. *)
Plain == {"idle", "enter", "note", "in", "take", "left", "leave", "append"}

LEMMA PlainKeeps ==
  ASSUME CInv, NEW t \in Threads, at[t] \in Plain, NEW p \in Plain,
         at' = [at EXCEPT ![t] = p] \/ at' = at, UNCHANGED <<listVars, slice>>,
         \A u \in Threads \ {t} : timed'[u] = timed[u]
  PROVE  ListsInv'
<1>1. t \notin Listed /\ t \notin open /\ waiters' = waiters /\ open' = open /\ slice' = slice
  BY DEF CInv, ListInv, OpenInv, Plain, listVars
<1>2. at'[t] \in Plain /\ \A u \in Threads \ {t} : at'[u] = at[u]
  BY DEF CInv, CTypeOK
<1>3. Listed' = Listed /\ \A w \in Threads : Chosen(w)' <=> Chosen(w)
  <2>1. \A u \in Threads : at[u] = "delist" <=> at'[u] = "delist"
    BY <1>2 DEF Plain
  <2>2. QED BY <1>1, <2>1 DEF Listed, Chosen
<1>4. \A u \in Threads : Unreleased(u)' = Unreleased(u)
  <2>1. \A u \in Threads : at[u] = "delist" <=> at'[u] = "delist"
    BY <1>2 DEF Plain
  <2>2. QED BY <1>1, <2>1 DEF Unreleased
<1>5. ListInv'
  BY <1>1, <1>2, <1>3 DEF CInv, ListInv, Plain
<1>6. OpenInv'
  BY <1>1, <1>2 DEF CInv, CTypeOK, OpenInv
<1>7. SliceInv'
  <2>1. \A u \in Threads : \A i \in Unreleased(u) : slice[u][i] \in Threads /\ slice[u][i] # t
    <3>1. \A u \in Threads : \A i \in Unreleased(u) : slice[u][i] \in Threads
      BY SlicedThreads
    <3>2. QED BY <3>1 DEF CInv, SliceInv, Plain
  <2>2. \A u \in Threads : at[u] = "delist" => Head(slice[u]) \in Threads /\ Head(slice[u]) # t
    <3>1. \A u \in Threads : at[u] = "delist" => Head(slice[u]) \in Threads
      BY NextInSlice DEF CInv, SliceInv
    <3>2. QED BY <1>1, <3>1 DEF CInv, SliceInv, Plain
  <2>3. \A u \in Threads : at'[u] \notin {"notify", "delist"} => at[u] \notin {"notify", "delist"}
    BY <1>2 DEF Plain
  <2>4. \A u \in Threads : at'[u] = "delist" => at[u] = "delist"
    BY <1>2 DEF Plain
  <2>5. QED BY <1>1, <1>2, <1>3, <1>4, <2>1, <2>2, <2>3, <2>4 DEF CInv, SliceInv
<1>8. QED BY <1>5, <1>6, <1>7 DEF ListsInv

(* Steps of the thread that has the lock and does not notify: AppendWaiter, *)
(* Save, Park and Restore, and of one that comes back, Reenter.             *)
LEMMA QuietKeeps ==
  ASSUME CInv, NEW t \in Threads, slice' = slice, timed' = timed,
         \A u \in Threads : at[u] \notin {"notify", "delist"},
         AppendWaiter(t) \/ Save(t) \/ Park(t) \/ Restore(t) \/ Reenter(t)
  PROVE  ListsInv'
<1>1. /\ at'[t] \notin {"notify", "delist"}
      /\ \A u \in Threads \ {t} : at'[u] = at[u]
  BY DEF CInv, CTypeOK, AppendWaiter, Save, Park, Restore, Reenter, GoOn
<1>2. /\ \A u \in Threads : slice[u] = <<>> /\ Unreleased(u) = {}
      /\ \A w \in Listed : w \notin open /\ at[w] # "reenter"
  BY NobodyNotifies
<1>3. \A u \in Threads : Unreleased(u)' = {}
  <2>1. Len(<<>>) = 0 /\ 1 .. 0 = {}
    OBVIOUS
  <2>2. QED BY <1>1, <1>2, <2>1 DEF Unreleased
<1>4. SliceInv'
  BY <1>1, <1>2, <1>3 DEF SliceInv, CInv
<1>5. CASE AppendWaiter(t)
  <2>1. at[t] = "append" /\ at' = [at EXCEPT ![t] = "save"] /\ open' = open /\ t \notin open
    BY <1>5 DEF AppendWaiter, GoOn, CInv, OpenInv
  <2>2. Listed' = Listed \cup {t} /\ IsInjective(waiters')
    BY <1>5, ListGrows
  <2>3. ListInv'
    BY <1>1, <1>2, <2>1, <2>2 DEF CInv, CTypeOK, ListInv
  <2>4. OpenInv'
    BY <1>1, <2>1 DEF CInv, CTypeOK, OpenInv
  <2>5. QED BY <1>4, <2>3, <2>4 DEF ListsInv
<1>6. CASE Save(t) \/ Park(t)
  <2>1. /\ at[t] \in {"save", "saved"} /\ at'[t] \in {"saved", "parked"}
        /\ open' = open /\ waiters' = waiters /\ Listed' = Listed /\ t \in Listed
    BY <1>6 DEF Save, Park, GoOn, CInv, CTypeOK, ListInv, listVars, Listed
  <2>2. ListInv'
    BY <1>1, <1>2, <2>1 DEF CInv, CTypeOK, ListInv
  <2>3. OpenInv'
    BY <1>1, <1>2, <2>1 DEF CInv, CTypeOK, OpenInv
  <2>4. QED BY <1>4, <2>2, <2>3 DEF ListsInv
<1>7. CASE Restore(t)
  <2>1. /\ at[t] = "restore" /\ at'[t] \in {"in", "leave"}
        /\ open' = open \ {t} /\ waiters' = waiters /\ Listed' = Listed /\ t \notin Listed
    BY <1>7 DEF Restore, GoOn, CInv, CTypeOK, ListInv, Listed
  <2>2. ListInv'
    BY <1>1, <1>2, <2>1 DEF CInv, CTypeOK, ListInv
  <2>3. OpenInv'
    BY <1>1, <1>2, <2>1 DEF CInv, CTypeOK, OpenInv
  <2>4. QED BY <1>4, <2>2, <2>3 DEF ListsInv
<1>8. CASE Reenter(t)
  <2>1. /\ at[t] = "reenter" /\ at'[t] = "restore"
        /\ open' = open /\ waiters' = waiters /\ Listed' = Listed /\ t \notin Listed
    BY <1>2, <1>8 DEF Reenter, GoOn, CInv, CTypeOK, listVars, Listed
  <2>2. ListInv'
    BY <1>1, <1>2, <2>1 DEF CInv, CTypeOK, ListInv
  <2>3. OpenInv'
    BY <1>1, <1>2, <2>1 DEF CInv, CTypeOK, OpenInv
  <2>4. QED BY <1>4, <2>2, <2>3 DEF ListsInv
<1>9. QED BY <1>5, <1>6, <1>7, <1>8

(* Steps of a waiter without the lock, while another thread may notify. *)
LEMMA WaiterKeeps ==
  ASSUME CInv, NEW t \in Threads, slice' = slice, timed' = timed,
         Woken(t) \/ TimesOut(t) \/ RemoveWaiter(t)
  PROVE  ListsInv'
<1>1. /\ at[t] \in {"parked", "remove"} /\ at'[t] \in {"remove", "reenter"}
      /\ \A u \in Threads \ {t} : at'[u] = at[u]
  BY DEF CInv, CTypeOK, Woken, TimesOut, RemoveWaiter, GoOn
<1>2. \A w : Chosen(w)' <=> Chosen(w)
  BY <1>1 DEF Chosen
<1>3. \A u \in Threads : Unreleased(u)' = Unreleased(u) /\ (at'[u] = "delist" <=> at[u] = "delist")
  BY <1>1 DEF Unreleased
<1>4. \A u \in Threads : \A i \in Unreleased(u) : slice[u][i] \in Threads
  BY SlicedThreads
<1>5. \A u \in Threads : at[u] = "delist" => Head(slice[u]) \in Threads
  BY NextInSlice DEF CInv, SliceInv
<1>6. \A u \in Threads : at'[u] \in {"notify", "delist"} <=> at[u] \in {"notify", "delist"}
  BY <1>1
<1>7. CASE Woken(t)
  <2>1. /\ at[t] = "parked" /\ at'[t] = "reenter" /\ t \in open /\ open' = open \ {t}
        /\ waiters' = waiters /\ Listed' = Listed
    BY <1>7 DEF Woken, GoOn, CInv, CTypeOK, Listed
  <2>2. ListInv'
    BY <1>1, <1>2, <2>1 DEF CInv, CTypeOK, ListInv
  <2>3. OpenInv'
    BY <1>1, <2>1 DEF CInv, CTypeOK, OpenInv
  <2>4. SliceInv'
    BY <1>1, <1>3, <1>4, <1>5, <1>6, <2>1 DEF CInv, SliceInv
  <2>5. QED BY <2>2, <2>3, <2>4 DEF ListsInv
<1>8. CASE TimesOut(t)
  <2>1. /\ at[t] = "parked" /\ at'[t] = "remove" /\ t \notin open /\ open' = open
        /\ waiters' = waiters /\ Listed' = Listed /\ timed[t]
    BY <1>8 DEF TimesOut, GoOn, CInv, CTypeOK, Listed, listVars
  <2>2. ListInv'
    BY <1>1, <1>2, <2>1 DEF CInv, CTypeOK, ListInv
  <2>3. OpenInv'
    BY <1>1, <2>1 DEF CInv, CTypeOK, OpenInv
  <2>4. SliceInv'
    BY <1>1, <1>3, <1>4, <1>5, <1>6, <2>1 DEF CInv, SliceInv
  <2>5. QED BY <2>2, <2>3, <2>4 DEF ListsInv
<1>9. CASE RemoveWaiter(t)
  <2>1. at[t] = "remove" /\ at'[t] = "reenter" /\ open' = open /\ timed[t]
    BY <1>9 DEF RemoveWaiter, GoOn, CInv, CTypeOK, ListInv
  <2>2. Listed' = Listed \ {t} /\ IsInjective(waiters')
    BY <1>9, ListShrinks
  <2>3. ListInv'
    BY <1>1, <1>2, <2>1, <2>2 DEF CInv, CTypeOK, ListInv
  <2>4. OpenInv'
    BY <1>1, <2>1 DEF CInv, CTypeOK, OpenInv
  <2>5. SliceInv'
    BY <1>1, <1>3, <1>4, <1>5, <1>6, <2>1, <2>2 DEF CInv, SliceInv
  <2>6. QED BY <2>3, <2>4, <2>5 DEF ListsInv
<1>10. QED BY <1>7, <1>8, <1>9

(* Steps of the thread that notifies. *)
LEMMA NotifyKeeps ==
  ASSUME CInv, NEW t \in Threads, at[t] = "in", timed' = timed, UNCHANGED listVars,
         NEW n \in Nat, Notify(t, n)
  PROVE  ListsInv'
<1>1. PICK r \in Seq(Threads) :
        /\ slice' = [slice EXCEPT ![t] = r] /\ at' = [at EXCEPT ![t] = "notify"]
        /\ Len(r) \in Nat /\ IsInjective(r) /\ \A i \in 1 .. Len(r) : r[i] \in Listed
  BY Slicing
<1>2. /\ at'[t] = "notify" /\ slice'[t] = r
      /\ \A u \in Threads \ {t} : at'[u] = at[u] /\ slice'[u] = slice[u]
      /\ waiters' = waiters /\ open' = open /\ Listed' = Listed
  BY <1>1 DEF CInv, CTypeOK, listVars, Listed
<1>3. \A u \in Threads : at[u] \notin {"notify", "delist"} /\ (u # t => at[u] \notin {"save", "saved"})
  BY OneHolds DEF Holding
<1>4. /\ \A u \in Threads : slice[u] = <<>> /\ Unreleased(u) = {}
      /\ \A w \in Listed : w \notin open /\ at[w] # "reenter"
  BY <1>3, NobodyNotifies
<1>5. \A w \in Listed : at[w] = "parked" \/ (at[w] = "remove" /\ timed[w])
  BY <1>3, <1>4, ListSame DEF CInv, ListInv
<1>6. ListInv'
  BY <1>2, <1>4 DEF CInv, CTypeOK, ListInv
<1>7. OpenInv'
  BY <1>2 DEF CInv, CTypeOK, OpenInv
<1>8. SliceInv'
  <2>1. Unreleased(t)' = 1 .. Len(r) /\ \A u \in Threads \ {t} : Unreleased(u)' = {}
    BY <1>2, <1>3, <1>4 DEF Unreleased
  <2>2. \A w \in Listed : w \in Threads /\ w # t
    BY <1>5, ListSame
  <2>3. \A i \in 1 .. Len(r) :
          LET w == r[i] IN \/ at'[w] = "parked" /\ w \in Listed' /\ w \notin open'
                           \/ at'[w] \in {"remove", "reenter"} /\ timed'[w] /\ w \notin open'
    BY <1>1, <1>2, <1>4, <1>5, <2>2
  <2>4. \A u \in Threads : IsInjective(slice'[u])
    BY <1>1, <1>2 DEF CInv, SliceInv
  <2>5. \A u \in Threads \ {t} : slice'[u] = <<>> /\ at'[u] # "delist"
    BY <1>2, <1>3, <1>4
  <2>6. QED BY <1>2, <2>1, <2>3, <2>4, <2>5 DEF SliceInv
<1>9. QED BY <1>6, <1>7, <1>8 DEF ListsInv

LEMMA ReleaseKeeps ==
  ASSUME CInv, NEW t \in Threads, timed' = timed, slice' = slice, ReleaseWaiter(t)
  PROVE  ListsInv'
<1>1. at[t] = "notify" /\ \A u \in Threads \ {t} : at[u] \notin {"notify", "delist", "save", "saved"}
  BY OneHolds DEF ReleaseWaiter, Holding
<1>2. \A u \in Threads \ {t} : slice[u] = <<>> /\ at'[u] = at[u]
  BY <1>1 DEF CInv, CTypeOK, SliceInv, ReleaseWaiter, GoOn
<1>3. waiters' = waiters /\ Listed' = Listed
  BY DEF ReleaseWaiter, Listed
<1>4. \A u \in Threads \ {t} : Unreleased(u)' = {}
  <2>1. Len(<<>>) = 0 /\ 1 .. 0 = {}
    OBVIOUS
  <2>2. QED BY <1>1, <1>2, <2>1 DEF Unreleased
<1>5. \A w : ~Chosen(w)
  BY <1>1 DEF Chosen
<1>6. \A w \in Listed : w \in Threads /\ w \notin open /\ at[w] # "reenter"
  BY <1>5, ListSame DEF CInv, ListInv
<1>7. CASE slice[t] = <<>>
  <2>1. open' = open /\ at'[t] \in {"in", "leave"}
    BY <1>7 DEF ReleaseWaiter, GoOn, CInv, CTypeOK
  <2>2. ListInv'
    BY <1>1, <1>2, <1>3, <1>6, <2>1 DEF CInv, CTypeOK, ListInv
  <2>3. OpenInv'
    BY <1>1, <1>2, <2>1 DEF CInv, CTypeOK, OpenInv
  <2>4. Unreleased(t)' = {}
    <3>1. Len(<<>>) = 0 /\ 1 .. 0 = {}
      OBVIOUS
    <3>2. QED BY <1>7, <2>1, <3>1 DEF Unreleased
  <2>5. SliceInv'
    BY <1>1, <1>2, <1>4, <1>7, <2>1, <2>4 DEF CInv, SliceInv
  <2>6. QED BY <2>2, <2>3, <2>5 DEF ListsInv
<1>8. CASE slice[t] # <<>>
  <2>1. PICK w \in Threads : w = Head(slice[t])
    BY <1>8, NextInSlice
  <2>2. open' = open \cup {w} /\ at'[t] = "delist"
    BY <1>8, <2>1 DEF ReleaseWaiter, GoOn, CInv, CTypeOK
  <2>3. /\ Len(slice[t]) \in Nat \ {0} /\ w = slice[t][1]
        /\ \A i \in 2 .. Len(slice[t]) : slice[t][i] # w
    BY <1>8, <2>1, NextInSlice
  <2>4. Unreleased(t) = 1 .. Len(slice[t]) /\ Unreleased(t)' = 2 .. Len(slice[t])
    BY <1>1, <2>2 DEF Unreleased
  <2>5. /\ 1 \in Unreleased(t)
        /\ \A i \in 2 .. Len(slice[t]) : i \in Unreleased(t) /\ slice[t][i] \in Threads
    BY <2>3, <2>4, SlicedThreads
  <2>6. \/ at[w] = "parked" /\ w \in Listed
        \/ at[w] \in {"remove", "reenter"} /\ timed[w]
    BY <2>3, <2>5 DEF CInv, SliceInv
  <2>7. Chosen(w)'
    BY <2>1, <2>2 DEF Chosen
  <2>8. ListInv'
    BY <1>1, <1>2, <1>3, <1>6, <2>2, <2>7 DEF CInv, CTypeOK, ListInv
  <2>9. w # t
    BY <1>1, <2>6
  <2>10. OpenInv'
    BY <1>1, <1>2, <2>2, <2>6, <2>9 DEF CInv, CTypeOK, OpenInv
  <2>11. \A i \in Unreleased(t)' : LET x == slice'[t][i] IN
           \/ at'[x] = "parked" /\ x \in Listed' /\ x \notin open'
           \/ at'[x] \in {"remove", "reenter"} /\ timed'[x] /\ x \notin open'
    <3>1. SUFFICES ASSUME NEW i \in 2 .. Len(slice[t])
                   PROVE  LET x == slice[t][i] IN
                            \/ at'[x] = "parked" /\ x \in Listed' /\ x \notin open'
                            \/ at'[x] \in {"remove", "reenter"} /\ timed'[x] /\ x \notin open'
      BY <2>4
    <3>2. PICK x \in Threads : x = slice[t][i]
      BY <2>5
    <3>3. \/ at[x] = "parked" /\ x \in Listed /\ x \notin open
          \/ at[x] \in {"remove", "reenter"} /\ timed[x] /\ x \notin open
      BY <2>5, <3>2 DEF CInv, SliceInv
    <3>4. x # w /\ x # t
      BY <1>1, <2>3, <3>2, <3>3
    <3>5. QED BY <1>2, <1>3, <2>2, <3>2, <3>3, <3>4
  <2>12. SliceInv'
    BY <1>1, <1>2, <1>4, <1>8, <2>1, <2>2, <2>11 DEF CInv, SliceInv
  <2>13. QED BY <2>8, <2>10, <2>12 DEF ListsInv
<1>9. QED BY <1>7, <1>8

LEMMA DelistKeeps ==
  ASSUME CInv, NEW t \in Threads, timed' = timed, Delist(t)
  PROVE  ListsInv'
<1>1. at[t] = "delist" /\ \A u \in Threads \ {t} : at[u] \notin {"notify", "delist", "save", "saved"}
  BY OneHolds DEF Delist, Holding
<1>2. /\ slice[t] # <<>> /\ IsInjective(waiters')
      /\ Listed' = Listed \ {Head(slice[t])} /\ slice' = [slice EXCEPT ![t] = Tail(slice[t])]
  BY Delisting
<1>3. PICK w \in Threads : w = Head(slice[t])
  BY <1>2, NextInSlice
<1>4. at'[t] = "notify" /\ open' = open /\ slice'[t] = Tail(slice[t])
  BY <1>2 DEF Delist, GoOn, CInv, CTypeOK
<1>5. \A u \in Threads \ {t} : slice[u] = <<>> /\ slice'[u] = <<>> /\ at'[u] = at[u]
  BY <1>1, <1>2 DEF CInv, CTypeOK, SliceInv, Delist, GoOn
<1>6. \A x \in Threads : Chosen(x) => x = w
  BY <1>1, <1>3 DEF Chosen
<1>7. w \in open \/ at[w] = "reenter"
  BY <1>1, <1>3 DEF CInv, SliceInv
<1>8. ListInv'
  <2>1. \A u \in Threads : u \in Listed' => u \in Listed /\ u # w /\ u # t /\ at'[u] = at[u]
    BY <1>1, <1>2, <1>3, <1>5 DEF CInv, ListInv
  <2>2. \A u \in Threads : u \in Listed' => ~(u \in open' \/ at'[u] = "reenter")
    BY <1>4, <1>6, <2>1 DEF CInv, ListInv
  <2>3. \A u \in Threads : at'[u] \in {"save", "saved", "parked", "remove"} =>
          /\ u # t /\ at'[u] = at[u]
          /\ u \in Listed /\ u # w => u \in Listed'
    BY <1>2, <1>3, <1>4, <1>5
  <2>4. at[w] \in {"save", "saved"} => w = t
    BY <1>1
  <2>5. ListInv
    BY DEF CInv
  <2>6. ASSUME NEW u \in Threads
        PROVE  /\ at'[u] \in {"save", "saved"} => u \in Listed'
               /\ at'[u] = "parked" => u \in Listed' \/ u \in open'
               /\ at'[u] = "remove" => timed'[u]
    BY <1>4, <1>7, <2>3, <2>4, <2>5 DEF ListInv
  <2>7. QED BY <1>2, <2>1, <2>2, <2>5, <2>6 DEF ListInv
<1>9. OpenInv'
  BY <1>1, <1>4, <1>5 DEF CInv, CTypeOK, OpenInv
<1>10. SliceInv'
  <2>1. /\ Len(Tail(slice[t])) = Len(slice[t]) - 1 /\ Len(slice[t]) \in Nat \ {0}
        /\ \A i \in 1 .. Len(slice[t]) - 1 : Tail(slice[t])[i] = slice[t][i + 1]
        /\ IsInjective(Tail(slice[t]))
        /\ \A i \in 2 .. Len(slice[t]) : slice[t][i] # w
    BY <1>2, <1>3, NextInSlice
  <2>2. Unreleased(t) = 2 .. Len(slice[t]) /\ Unreleased(t)' = 1 .. Len(slice[t]) - 1
    BY <1>1, <1>4, <2>1 DEF Unreleased
  <2>3. \A u \in Threads \ {t} : Unreleased(u)' = {}
    <3>1. Len(<<>>) = 0 /\ 1 .. 0 = {}
      OBVIOUS
    <3>2. QED BY <1>1, <1>5, <3>1 DEF Unreleased
  <2>4. \A i \in Unreleased(t)' : LET x == slice'[t][i] IN
          \/ at'[x] = "parked" /\ x \in Listed' /\ x \notin open'
          \/ at'[x] \in {"remove", "reenter"} /\ timed'[x] /\ x \notin open'
    <3>1. SUFFICES ASSUME NEW i \in 1 .. Len(slice[t]) - 1
                   PROVE  LET x == slice[t][i + 1] IN
                            \/ at'[x] = "parked" /\ x \in Listed' /\ x \notin open'
                            \/ at'[x] \in {"remove", "reenter"} /\ timed'[x] /\ x \notin open'
      BY <1>4, <2>1, <2>2
    <3>2. i + 1 \in Unreleased(t)
      BY <2>1, <2>2
    <3>3. PICK x \in Threads : x = slice[t][i + 1]
      BY <3>2, SlicedThreads
    <3>4. \/ at[x] = "parked" /\ x \in Listed /\ x \notin open
          \/ at[x] \in {"remove", "reenter"} /\ timed[x] /\ x \notin open
      BY <3>2, <3>3 DEF CInv, SliceInv
    <3>5. x # w /\ x # t
      BY <1>1, <2>1, <2>2, <3>2, <3>3, <3>4
    <3>6. QED BY <1>2, <1>3, <1>4, <1>5, <3>3, <3>4, <3>5
  <2>5. \A u \in Threads : IsInjective(slice'[u])
    BY <1>4, <1>5, <2>1 DEF CInv, SliceInv
  <2>6. \A u \in Threads : at'[u] # "delist"
    BY <1>1, <1>4, <1>5
  <2>7. \A u \in Threads : at'[u] # "notify" => slice'[u] = <<>>
    BY <1>4, <1>5
  <2>8. QED BY <2>3, <2>4, <2>5, <2>6, <2>7 DEF SliceInv
<1>11. QED BY <1>8, <1>9, <1>10 DEF ListsInv

(* The lists stay as the waiters need them, whatever is the step. *)
LEMMA ListsStep ==
  ASSUME CInv, NEW t \in Threads, Step(t), UNCHANGED kind PROVE ListsInv'
<1>1. CASE Use(t)
  <2>1. at[t] = "in" /\ UNCHANGED listVars
    BY <1>1 DEF Use
  <2>2. ASSUME NEW n \in 1 .. Cardinality(Threads), Notify(t, n), timed' = timed PROVE ListsInv'
    BY <2>1, <2>2, NotifyCounts, NotifyKeeps
  <2>3. ASSUME GoOn(t, "append"), UNCHANGED slice,
               \E b \in BOOLEAN : timed' = Set(timed, t, b)
        PROVE  ListsInv'
    <3>1. /\ at[t] \in Plain /\ "append" \in Plain /\ at' = [at EXCEPT ![t] = "append"]
          /\ \A u \in Threads \ {t} : timed'[u] = timed[u]
      BY <2>1, <2>3 DEF GoOn, Set, Plain, CInv, CTypeOK
    <3>2. QED BY <2>1, <2>3, <3>1, PlainKeeps
  <2>4. QED BY <1>1, <2>2, <2>3 DEF Use
<1>2. CASE V(t)
  BY <1>2, NotifyCounts, NotifyKeeps DEF V
<1>3. CASE SetEvent(t)
  BY <1>3, NotifyCounts, NotifyKeeps DEF SetEvent
<1>4. CASE ReleaseWaiter(t)
  BY <1>4, ReleaseKeeps DEF ReleaseWaiter
<1>5. CASE Delist(t)
  BY <1>5, DelistKeeps DEF Delist
<1>6. CASE Woken(t) \/ TimesOut(t) \/ RemoveWaiter(t)
  BY <1>6, WaiterKeeps DEF Woken, TimesOut, RemoveWaiter
<1>7. CASE AppendWaiter(t) \/ Save(t) \/ Park(t) \/ Restore(t) \/ Reenter(t)
  <2>1. \A u \in Threads : at[u] \notin {"notify", "delist"}
    BY <1>7 DEF CInv, HoldInv, Holding, AppendWaiter, Save, Park, Restore, Reenter
  <2>2. slice' = slice /\ timed' = timed
    BY <1>7 DEF AppendWaiter, Save, Park, Restore, Reenter
  <2>3. QED BY <1>7, <2>1, <2>2, QuietKeeps
<1>8. CASE (\E o \in CallOps : Call(t, o)) \/ Enter(t) \/ Note(t) \/ AcquireAgain(t)
           \/ ReleaseOnce(t) \/ Unblock(t) \/ TestValue(t) \/ TakeValue(t)
           \/ ClearEvent(t) \/ WaitEvent(t)
  <2>1. at[t] \in Plain /\ \E p \in Plain : at' = [at EXCEPT ![t] = p] \/ at' = at
    BY <1>8 DEF Call, Enter, Note, AcquireAgain, ReleaseOnce, Unblock, TestValue, TakeValue,
       ClearEvent, WaitEvent, GoOn, Plain
  <2>2. UNCHANGED <<listVars, slice>>
    BY <1>8 DEF Call, Enter, Note, AcquireAgain, ReleaseOnce, Unblock, TestValue, TakeValue,
       ClearEvent, WaitEvent
  <2>3. \A u \in Threads \ {t} : timed'[u] = timed[u]
    BY <1>8 DEF Call, Enter, Note, AcquireAgain, ReleaseOnce, Unblock, TestValue, TakeValue,
       ClearEvent, WaitEvent, Set, CInv, CTypeOK
  <2>4. QED BY <2>1, <2>2, <2>3, PlainKeeps
<1>9. QED
  BY <1>1, <1>2, <1>3, <1>4, <1>5, <1>6, <1>7, <1>8 DEF Step, Lock, Proceed

-----------------------------------------------------------------------------
(* The semaphore *)

(* Sets of threads are finite; who joins one counts. *)
LEMMA Counting ==
  ASSUME NEW A, A \subseteq Threads, NEW B, B \subseteq Threads
  PROVE  /\ IsFiniteSet(A) /\ Cardinality(A) \in Nat
         /\ IsFiniteSet(B) /\ Cardinality(B) \in Nat
         /\ A \subseteq B => Cardinality(A) <= Cardinality(B)
<1>1. IsFiniteSet(A) /\ IsFiniteSet(B)
  BY ConditionsAssumption, FS_Subset
<1>2. QED BY <1>1, FS_Subset, FS_CardinalityType

LEMMA CountingOne ==
  ASSUME NEW A, A \subseteq Threads, NEW t \in Threads, t \notin A
  PROVE  Cardinality(A \cup {t}) = Cardinality(A) + 1
BY Counting, FS_AddElement

(* A release that begins leaves room for those that have begun.            *)
LEMMA ValueStep ==
  ASSUME CInv, NEW t \in Threads, Step(t), UNCHANGED kind PROVE ValueInv'
<1>1. /\ Adding \subseteq Threads /\ Adding' \subseteq Threads /\ Cardinality(Adding) \in Nat
      /\ Cardinality(Adding') \in Nat /\ MaxValue \in Nat /\ value \in Nat
      /\ value + Cardinality(Adding) <= MaxValue
  <2>1. Adding \subseteq Threads /\ Adding' \subseteq Threads
    BY DEF Adding
  <2>2. Cardinality(Adding) \in Nat /\ Cardinality(Adding') \in Nat
    BY <2>1, Counting
  <2>3. QED BY <2>1, <2>2, ConditionsAssumption DEF CInv, CTypeOK, ValueInv
<1>2. ASSUME Adding' \subseteq Adding, value' = value PROVE ValueInv'
  <2>1. Cardinality(Adding') <= Cardinality(Adding)
    BY <1>1, <1>2, Counting
  <2>2. QED BY <1>1, <1>2, <2>1 DEF ValueInv
<1>3. ASSUME NEW o \in CallOps, Call(t, o) PROVE ValueInv'
  <2>1. at[t] = "idle" /\ op[t] = "none" /\ op' = [op EXCEPT ![t] = o]
        /\ at' = [at EXCEPT ![t] = "enter"] /\ value' = value
    BY <1>3 DEF Call, GoOn, Set, dataVars, CInv, FlowInv
  <2>2. CASE o = "V"
    <3>1. Adding' = Adding \cup {t} /\ t \notin Adding
      BY <2>1, <2>2 DEF Adding, CInv, CTypeOK
    <3> DEFINE R == {u \in Threads : op[u] = "V"}
    <3>2. R \subseteq Threads /\ Adding \subseteq R /\ value + Cardinality(R) < MaxValue
      BY <1>3, <2>2 DEF Call, Adding
    <3> HIDE DEF R
    <3>3. Cardinality(R) \in Nat /\ Cardinality(Adding) <= Cardinality(R)
          /\ Cardinality(Adding') = Cardinality(Adding) + 1
      BY <1>1, <3>1, <3>2, Counting, CountingOne
    <3>4. QED BY <1>1, <2>1, <3>2, <3>3 DEF ValueInv
  <2>3. CASE o # "V"
    <3>1. Adding' \subseteq Adding
      BY <2>1, <2>3 DEF Adding, CInv, CTypeOK
    <3>2. QED BY <1>2, <2>1, <3>1
  <2>4. QED BY <2>2, <2>3
<1>4. CASE V(t)
  <2>1. /\ at[t] = "in" /\ op[t] = "V" /\ op' = op /\ value' = value + 1
        /\ at'[t] = "notify" /\ \A u \in Threads \ {t} : at'[u] = at[u]
    BY <1>4 DEF V, Notify, GoOn, CInv, CTypeOK
  <2>2. Adding = Adding' \cup {t} /\ t \notin Adding'
    BY <2>1 DEF Adding
  <2>3. Cardinality(Adding) = Cardinality(Adding') + 1
    BY <1>1, <2>2, CountingOne
  <2>4. QED BY <1>1, <2>1, <2>3 DEF ValueInv
<1>5. CASE TakeValue(t)
  <2>1. at[t] = "take" /\ op' = op /\ value' = value - 1
        /\ at'[t] = "leave" /\ \A u \in Threads \ {t} : at'[u] = at[u]
    BY <1>5 DEF TakeValue, GoOn, CInv, CTypeOK
  <2>2. Adding' \subseteq Adding
    BY <2>1 DEF Adding
  <2>3. Cardinality(Adding') <= Cardinality(Adding)
    BY <1>1, <2>2, Counting
  <2>4. QED BY <1>1, <2>1, <2>3 DEF ValueInv
<1>6. ASSUME at[t] # "idle",
             \/ \E p \in Places \ {"enter", "in"} : at' = [at EXCEPT ![t] = p]
             \/ at' = at
             \/ at[t] = "enter" /\ \E p \in Places : at' = [at EXCEPT ![t] = p]
             \/ op[t] # "V" /\ \E p \in Places : at' = [at EXCEPT ![t] = p],
             op' = op \/ op' = [op EXCEPT ![t] = "none"], value' = value
      PROVE  ValueInv'
  <2>1. Adding' \subseteq Adding
    BY <1>6 DEF Adding, CInv, CTypeOK
  <2>2. QED BY <1>2, <1>6, <2>1
<1>7. CASE Enter(t)
  BY <1>6, <1>7 DEF Enter, GoOn, dataVars, Places, Holding
<1>8. CASE Restore(t)
  BY <1>6, <1>8 DEF Restore, GoOn, dataVars, Places, Holding, CInv, FlowInv
<1>9. CASE ReleaseWaiter(t)
  BY <1>6, <1>9 DEF ReleaseWaiter, GoOn, dataVars, Places, Holding
<1>10. CASE Use(t) \/ SetEvent(t) \/ AcquireAgain(t) \/ ReleaseOnce(t) \/ Note(t) \/ Unblock(t)
  BY <1>6, <1>10 DEF Use, SetEvent, AcquireAgain, ReleaseOnce, Note, Unblock, Notify, GoOn, Set,
     dataVars, Places, Holding, CInv, FlowInv
<1>11. CASE Reenter(t) \/ AppendWaiter(t) \/ Save(t) \/ Park(t) \/ Woken(t) \/ TimesOut(t)
            \/ RemoveWaiter(t) \/ Delist(t) \/ TestValue(t) \/ ClearEvent(t) \/ WaitEvent(t)
  BY <1>6, <1>11 DEF Reenter, AppendWaiter, Save, Park, Woken, TimesOut, RemoveWaiter, Delist,
     TestValue, ClearEvent, WaitEvent, GoOn, dataVars, Places, Holding
<1>12. QED
  BY <1>3, <1>4, <1>5, <1>7, <1>8, <1>9, <1>10, <1>11 DEF Step, Lock, Proceed

(* A step of a thread that only moves: it wakes nobody and nobody goes to  *)
(* sleep, and who was on its way to the value still is.                    *)
LEMMA WakeSame ==
  ASSUME CInv, kind = "semaphore", value' = value, kind' = kind,
         \A u \in Threads : op'[u] = "P" /\ at'[u] \in {"append", "save", "saved"}
                              => op[u] = "P" /\ at[u] \in {"append", "save", "saved"},
         \A u \in Threads : op'[u] = "V" => Len(slice'[u]) <= 1,
         \A u \in Threads : Asleep(u)' => Asleep(u),
         Active \subseteq Active'
  PROVE  WakeInv'
<1>1. Active \subseteq Threads /\ Active' \subseteq Threads /\ value \in Nat
  BY DEF Active, CInv, CTypeOK
<1>2. /\ Cardinality(Active) \in Nat /\ Cardinality(Active') \in Nat
      /\ Cardinality(Active) <= Cardinality(Active')
  BY <1>1, Counting
<1>3. (\E u \in Threads : Asleep(u)') => value' <= Cardinality(Active')
  BY <1>1, <1>2 DEF CInv, WakeInv
<1>4. QED BY <1>3 DEF CInv, WakeInv

LEMMA WakeStep ==
  ASSUME CInv, NEW t \in Threads, Step(t), UNCHANGED kind PROVE WakeInv'
<1> SUFFICES ASSUME kind = "semaphore" PROVE WakeInv'
  BY DEF WakeInv
<1>1. /\ Active \subseteq Threads /\ Active' \subseteq Threads /\ value \in Nat
      /\ Cardinality(Active) \in Nat /\ Cardinality(Active') \in Nat
  <2>1. Active \subseteq Threads /\ Active' \subseteq Threads
    BY DEF Active
  <2>2. Cardinality(Active) \in Nat /\ Cardinality(Active') \in Nat
    BY <2>1, Counting
  <2>3. value \in Nat
    BY DEF CInv, CTypeOK
  <2>4. QED BY <2>1, <2>2, <2>3
<1>2. \A u \in Threads : op[u] \in {"none", "P", "tryP", "V"} /\ ~timed[u]
  BY DEF CInv, FlowInv, Ops
<1>3. ASSUME value' = value, slice' = slice, open' = open,
             op' = op \/ op' = [op EXCEPT ![t] = "none"],
             \A u \in Threads \ {t} : at'[u] = at[u],
             op[t] = "P" => /\ at'[t] \in {"append", "save", "saved"} => at[t] \in {"append", "save", "saved"}
                            /\ t \in Active => at'[t] \in {"reenter", "restore", "in", "take"} /\ op' = op,
             at'[t] # "parked", op[t] = "V" => at[t] # "notify"
      PROVE  WakeInv'
  <2>1. \A u \in Threads : op'[u] = "P" /\ at'[u] \in {"append", "save", "saved"}
                             => op[u] = "P" /\ at[u] \in {"append", "save", "saved"}
    BY <1>3 DEF CInv, CTypeOK
  <2>2. \A u \in Threads : op'[u] = "V" => Len(slice'[u]) <= 1
    BY <1>3 DEF CInv, CTypeOK, WakeInv
  <2>3. \A u \in Threads : Asleep(u)' => Asleep(u)
    BY <1>3 DEF Asleep
  <2>4. Active \subseteq Active'
    BY <1>3 DEF Active, CInv, CTypeOK
  <2>5. QED BY <1>3, <2>1, <2>2, <2>3, <2>4, WakeSame
<1>4. ASSUME NEW o \in CallOps, Call(t, o) PROVE WakeInv'
  <2>1. /\ at[t] = "idle" /\ op[t] = "none" /\ op' = [op EXCEPT ![t] = o] /\ slice[t] = <<>>
        /\ at' = [at EXCEPT ![t] = "enter"] /\ value' = value /\ slice' = slice /\ open' = open
    BY <1>4 DEF Call, GoOn, Set, dataVars, listVars, CInv, FlowInv, SliceInv
  <2>2. Len(<<>>) = 0
    OBVIOUS
  <2>3. \A u \in Threads : op'[u] = "V" => Len(slice'[u]) <= 1
    BY <2>1, <2>2 DEF CInv, CTypeOK, WakeInv
  <2>4. \A u \in Threads : Asleep(u)' => Asleep(u)
    BY <2>1 DEF Asleep, CInv, CTypeOK
  <2>5. Active \subseteq Active'
    BY <2>1 DEF Active, CInv, CTypeOK
  <2>6. \A u \in Threads : op'[u] = "P" /\ at'[u] \in {"append", "save", "saved"}
                             => op[u] = "P" /\ at[u] \in {"append", "save", "saved"}
    BY <2>1 DEF CInv, CTypeOK
  <2>7. QED BY <2>1, <2>3, <2>4, <2>5, <2>6, WakeSame
<1>5. CASE Enter(t) \/ Reenter(t) \/ AppendWaiter(t) \/ Save(t) \/ RemoveWaiter(t) \/ Unblock(t)
           \/ TimesOut(t)
  <2>1. value' = value /\ slice' = slice /\ open' = open
    BY <1>5 DEF Enter, Reenter, AppendWaiter, Save, RemoveWaiter, Unblock, TimesOut,
       dataVars, listVars
  <2>2. op' = op \/ op' = [op EXCEPT ![t] = "none"]
    BY <1>5 DEF Enter, Reenter, AppendWaiter, Save, RemoveWaiter, Unblock, TimesOut, Set
  <2>3. \E p \in Places : at' = [at EXCEPT ![t] = p]
    BY <1>5 DEF Enter, Reenter, AppendWaiter, Save, RemoveWaiter, Unblock, TimesOut, GoOn,
       Places, Holding
  <2>4. op[t] = "P" => /\ at'[t] \in {"append", "save", "saved"} => at[t] \in {"append", "save", "saved"}
                       /\ t \in Active => at'[t] \in {"reenter", "restore", "in", "take"} /\ op' = op
    BY <1>2, <1>5 DEF Enter, Reenter, AppendWaiter, Save, RemoveWaiter, Unblock, TimesOut, GoOn,
       Active, CInv, CTypeOK
  <2>5. op[t] = "V" => at[t] # "notify"
    BY <1>5 DEF Enter, Reenter, AppendWaiter, Save, RemoveWaiter, Unblock, TimesOut
  <2>6. at'[t] # "parked" /\ \A u \in Threads \ {t} : at'[u] = at[u]
    BY <1>5, <2>3 DEF Enter, Reenter, AppendWaiter, Save, RemoveWaiter, Unblock, TimesOut, GoOn,
       CInv, CTypeOK
  <2>7. QED BY <1>3, <2>1, <2>2, <2>4, <2>5, <2>6
<1>6. CASE Woken(t) \/ Restore(t)
  <2>1. /\ value' = value /\ slice' = slice /\ open' = open \ {t} /\ op' = op
        /\ at'[t] \in {"reenter", "in", "leave"} /\ (op[t] = "P" => at'[t] # "leave")
        /\ \A u \in Threads \ {t} : at'[u] = at[u]
    BY <1>6 DEF Woken, Restore, GoOn, dataVars, CInv, CTypeOK
  <2>2. op[t] # "V" \/ t \notin Active
    BY <1>6 DEF Woken, Restore, Active
  <2>3. Active \subseteq Active'
    BY <2>1, <2>2 DEF Active
  <2>4. \A u \in Threads : Asleep(u)' => Asleep(u)
    BY <2>1 DEF Asleep
  <2>5. \A u \in Threads : op'[u] = "P" /\ at'[u] \in {"append", "save", "saved"}
                             => op[u] = "P" /\ at[u] \in {"append", "save", "saved"}
    BY <2>1
  <2>6. \A u \in Threads : op'[u] = "V" => Len(slice'[u]) <= 1
    BY <2>1 DEF CInv, WakeInv
  <2>7. QED BY <2>1, <2>3, <2>4, <2>5, <2>6, WakeSame
<1>7. CASE Park(t) \/ (TestValue(t) /\ value = 0)
  <2>1. value' = value /\ op' = op /\ slice' = slice /\ value = 0
    BY <1>2, <1>7 DEF Park, TestValue, dataVars, CInv, FlowInv, WakeInv
  <2>2. \A u \in Threads : op'[u] = "P" /\ at'[u] \in {"append", "save", "saved"} => value' = 0
    BY <2>1
  <2>3. QED BY <1>1, <2>1, <2>2 DEF CInv, WakeInv
<1>8. CASE TestValue(t) /\ value # 0
  <2>1. /\ value' = value /\ slice' = slice /\ open' = open /\ op' = op /\ at'[t] = "take"
        /\ op[t] # "V" /\ \A u \in Threads \ {t} : at'[u] = at[u]
    BY <1>1, <1>8 DEF TestValue, GoOn, dataVars, listVars, CInv, CTypeOK
  <2>2. QED BY <1>3, <2>1
<1>9. CASE TakeValue(t)
  <2>1. /\ at[t] = "take" /\ value > 0 /\ value' = value - 1 /\ slice' = slice /\ open' = open
        /\ op' = op /\ at'[t] = "leave" /\ \A u \in Threads \ {t} : at'[u] = at[u]
    BY <1>9 DEF TakeValue, GoOn, dataVars, listVars, CInv, CTypeOK, FlowInv
  <2>2. Active \subseteq Active' \cup {t} /\ t \notin Active'
    BY <2>1 DEF Active
  <2>3. Cardinality(Active) <= Cardinality(Active') + 1
    <3>1. Cardinality(Active' \cup {t}) = Cardinality(Active') + 1
      BY <1>1, <2>2, CountingOne
    <3>2. Active' \cup {t} \subseteq Threads
      BY <1>1
    <3>3. Cardinality(Active) <= Cardinality(Active' \cup {t})
      BY <1>1, <2>2, <3>2, Counting
    <3>4. QED BY <3>1, <3>3
  <2>4. \A u \in Threads : Asleep(u)' => Asleep(u)
    BY <2>1 DEF Asleep
  <2>5. (\E u \in Threads : Asleep(u)') => value' <= Cardinality(Active')
    BY <1>1, <2>1, <2>3, <2>4 DEF CInv, WakeInv
  <2>6. \A u \in Threads : op'[u] = "P" => at'[u] \notin {"append", "save", "saved"}
    BY <2>1, OneHolds DEF Holding
  <2>7. QED BY <2>1, <2>5, <2>6 DEF CInv, WakeInv
<1>10. CASE V(t)
  <2>1. /\ at[t] = "in" /\ op[t] = "V" /\ value' = value + 1 /\ open' = open /\ op' = op
        /\ waiters' = waiters /\ at'[t] = "notify" /\ \A u \in Threads \ {t} : at'[u] = at[u]
    BY <1>10 DEF V, Notify, GoOn, listVars, CInv, CTypeOK
  <2>2. PICK r \in Seq(Threads) : /\ slice' = [slice EXCEPT ![t] = r] /\ Len(r) <= 1
                                  /\ r = <<>> => waiters = <<>>
    BY <1>10, Slicing, 1 \in Nat, 1 > 0 DEF V
  <2>3. slice'[t] = r /\ \A u \in Threads \ {t} : slice'[u] = slice[u]
    BY <2>2 DEF CInv, CTypeOK
  <2>4. \A u \in Threads : op'[u] = "P" => at'[u] \notin {"append", "save", "saved"}
    BY <2>1, OneHolds DEF Holding
  <2>5. \A u \in Threads : op'[u] = "V" => Len(slice'[u]) <= 1
    BY <2>1, <2>2, <2>3 DEF CInv, WakeInv
  <2>6. ASSUME NEW u \in Threads, Asleep(u)' PROVE value' <= Cardinality(Active')
    <3>1. Asleep(u) /\ u # t
      BY <2>1, <2>6 DEF Asleep
    <3>2. waiters # <<>>
      <4>1. u \in Listed
        BY <3>1 DEF Asleep, CInv, ListInv
      <4>2. QED BY <4>1 DEF Listed, ToSet
    <3>3. Active' = Active \cup {t} /\ t \notin Active
      BY <2>1, <2>2, <2>3, <3>2 DEF Active
    <3>4. Cardinality(Active') = Cardinality(Active) + 1
      BY <1>1, <3>3, CountingOne
    <3>5. QED BY <1>1, <2>1, <3>1, <3>4 DEF CInv, WakeInv
  <2>7. QED BY <2>4, <2>5, <2>6 DEF WakeInv
<1>11. CASE ReleaseWaiter(t) /\ slice[t] = <<>>
  <2>1. /\ at[t] = "notify" /\ at'[t] = "leave" /\ op[t] = "V"
        /\ value' = value /\ slice' = slice /\ open' = open /\ op' = op
        /\ \A u \in Threads \ {t} : at'[u] = at[u]
    BY <1>2, <1>11 DEF ReleaseWaiter, GoOn, dataVars, CInv, CTypeOK, FlowInv
  <2>2. Active \subseteq Active' /\ \A u \in Threads : Asleep(u)' => Asleep(u)
    BY <1>11, <2>1 DEF Active, Asleep
  <2>3. \A u \in Threads : op'[u] = "P" /\ at'[u] \in {"append", "save", "saved"}
                             => op[u] = "P" /\ at[u] \in {"append", "save", "saved"}
    BY <2>1
  <2>4. \A u \in Threads : op'[u] = "V" => Len(slice'[u]) <= 1
    BY <2>1 DEF CInv, WakeInv
  <2>5. QED BY <2>1, <2>2, <2>3, <2>4, WakeSame
<1>12. CASE ReleaseWaiter(t) /\ slice[t] # <<>>
  <2>1. PICK w \in Threads : w = Head(slice[t]) /\ w = slice[t][1] /\ Len(slice[t]) \in Nat \ {0}
    BY <1>12, NextInSlice
  <2>2. /\ at[t] = "notify" /\ at'[t] = "delist" /\ op[t] = "V"
        /\ value' = value /\ slice' = slice /\ open' = open \cup {w} /\ op' = op
        /\ \A u \in Threads \ {t} : at'[u] = at[u]
    BY <1>2, <1>12, <2>1 DEF ReleaseWaiter, GoOn, dataVars, CInv, CTypeOK, FlowInv
  <2>3. at[w] = "parked" /\ w \notin open /\ op[w] = "P"
    <3>1. 1 \in Unreleased(t)
      BY <2>1, <2>2 DEF Unreleased
    <3>2. at[w] = "parked" /\ w \notin open
      BY <1>2, <2>1, <3>1 DEF CInv, SliceInv
    <3>3. QED BY <1>2, <3>2 DEF CInv, FlowInv
  <2>4. /\ t \in Active /\ t \notin Active' /\ w \notin Active /\ w # t
        /\ Active' \cup {t} = Active \cup {w}
    BY <1>12, <2>2, <2>3 DEF Active
  <2>5. Cardinality(Active') = Cardinality(Active)
    <3>1. Cardinality(Active' \cup {t}) = Cardinality(Active') + 1
      BY <1>1, <2>4, CountingOne
    <3>2. Cardinality(Active \cup {w}) = Cardinality(Active) + 1
      BY <1>1, <2>4, CountingOne
    <3>3. QED BY <1>1, <2>4, <3>1, <3>2
  <2>6. \A u \in Threads : Asleep(u)' => Asleep(u)
    BY <2>2 DEF Asleep
  <2>7. \A u \in Threads : op'[u] = "P" /\ at'[u] \in {"append", "save", "saved"}
                             => op[u] = "P" /\ at[u] \in {"append", "save", "saved"}
    BY <2>2
  <2>8. QED BY <1>1, <2>2, <2>5, <2>6, <2>7 DEF CInv, WakeInv
<1>13. CASE Delist(t)
  <2>1. /\ slice[t] # <<>> /\ slice' = [slice EXCEPT ![t] = Tail(slice[t])]
    BY <1>13, Delisting
  <2>2. /\ at[t] = "delist" /\ at'[t] = "notify" /\ op[t] = "V"
        /\ value' = value /\ open' = open /\ op' = op
        /\ \A u \in Threads \ {t} : at'[u] = at[u]
    BY <1>2, <1>13 DEF Delist, GoOn, dataVars, CInv, CTypeOK, FlowInv
  <2>3. Len(Tail(slice[t])) <= 1
    BY <2>1, <2>2, NextInSlice DEF CInv, WakeInv
  <2>4. slice'[t] = Tail(slice[t]) /\ \A u \in Threads \ {t} : slice'[u] = slice[u]
    BY <2>1 DEF CInv, CTypeOK
  <2>5. Active \subseteq Active' /\ \A u \in Threads : Asleep(u)' => Asleep(u)
    BY <2>2, <2>4 DEF Active, Asleep
  <2>6. \A u \in Threads : op'[u] = "P" /\ at'[u] \in {"append", "save", "saved"}
                             => op[u] = "P" /\ at[u] \in {"append", "save", "saved"}
    BY <2>2
  <2>7. \A u \in Threads : op'[u] = "V" => Len(slice'[u]) <= 1
    BY <2>2, <2>3, <2>4 DEF CInv, WakeInv
  <2>8. QED BY <2>2, <2>5, <2>6, <2>7, WakeSame
<1>14. CASE Note(t) \/ AcquireAgain(t) \/ ReleaseOnce(t) \/ Use(t) \/ SetEvent(t) \/ ClearEvent(t)
            \/ WaitEvent(t)
  BY <1>2, <1>14 DEF Note, AcquireAgain, ReleaseOnce, Use, SetEvent, ClearEvent, WaitEvent,
     CInv, FlowInv
<1>15. CASE TestValue(t)
  BY <1>7, <1>8, <1>15
<1>16. CASE ReleaseWaiter(t)
  BY <1>11, <1>12, <1>16
<1>17. CASE Park(t)
  BY <1>7, <1>17
<1>18. QED
  BY <1>4, <1>5, <1>6, <1>9, <1>10, <1>13, <1>14, <1>15, <1>16, <1>17
  DEF Step, Lock, Proceed

-----------------------------------------------------------------------------
(* The invariant *)

LEMMA InvInit == CInit => CInv
<1> SUFFICES ASSUME CInit PROVE CInv
  OBVIOUS
<1> USE ConditionsAssumption
<1>1. /\ waiters = <<>> /\ <<>> \in Seq(Threads) /\ Len(<<>>) = 0 /\ DOMAIN <<>> = {}
      /\ \A t \in Threads : at[t] = "idle" /\ op[t] = "none" /\ slice[t] = <<>> /\ ~timed[t]
  BY DEF CInit
<1>2. CTypeOK
  <2>1. /\ kind \in Kinds /\ block \in BOOLEAN /\ owner \in Threads \cup {NoThread}
        /\ count \in 0 .. MaxCount /\ open \subseteq Threads /\ waiters \in Seq(Threads)
        /\ value \in 0 .. MaxValue /\ flag \in BOOLEAN
    <3>1. /\ kind \in Kinds /\ block = FALSE /\ owner = NoThread /\ open = {} /\ flag = FALSE
          /\ waiters = <<>> /\ count = 0 /\ value = 0
      BY DEF CInit
    <3>2. 0 \in 0 .. MaxCount /\ 0 \in 0 .. MaxValue
      OBVIOUS
    <3>3. waiters \in Seq(Threads)
      BY <1>1
    <3>4. QED BY <3>1, <3>2, <3>3
  <2>2. at \in [Threads -> Places] /\ timed \in [Threads -> BOOLEAN]
    BY DEF CInit, Places
  <2>3. op \in [Threads -> Ops("condition") \cup Ops("semaphore") \cup Ops("event") \cup {"none"}]
    BY DEF CInit
  <2>4. slice \in [Threads -> Seq(Threads)]
    BY <1>1 DEF CInit
  <2>5. saved \in [Threads -> 0 .. MaxCount] /\ depth \in [Threads -> 0 .. MaxCount]
    <3>1. 0 \in 0 .. MaxCount
      OBVIOUS
    <3>2. QED BY <3>1 DEF CInit
  <2>6. QED BY <2>1, <2>2, <2>3, <2>4, <2>5 DEF CTypeOK
<1>3. FlowInv /\ HoldInv /\ DepthInv /\ OpenInv
  BY <1>1 DEF CInit, FlowInv, HoldInv, DepthInv, OpenInv, Holding
<1>4. Listed = {} /\ IsInjective(<<>>)
  BY <1>1 DEF Listed, ToSet, IsInjective
<1>5. ListInv
  BY <1>1, <1>4 DEF ListInv
<1>6. SliceInv
  BY <1>1, <1>4 DEF SliceInv, Unreleased
<1>7. ValueInv
  <2>1. Adding = {}
    BY <1>1 DEF Adding
  <2>2. Cardinality(Adding) = 0
    BY <2>1, FS_EmptySet
  <2>3. QED BY <2>2 DEF ValueInv, CInit
<1>8. WakeInv
  BY <1>1 DEF WakeInv, Asleep
<1>9. QED BY <1>2, <1>3, <1>5, <1>6, <1>7, <1>8 DEF CInv

LEMMA StutterKeeps ==
  ASSUME CInv, UNCHANGED cVars PROVE CInv'
<1>1. CTypeOK' /\ FlowInv' /\ HoldInv' /\ DepthInv' /\ OpenInv'
  BY DEF cVars, lockVars, listVars, dataVars, CInv, CTypeOK, FlowInv, HoldInv, DepthInv, OpenInv
<1>2. ListInv' /\ SliceInv'
  BY DEF cVars, lockVars, listVars, dataVars, CInv, ListInv, SliceInv, Listed, Chosen, Unreleased
<1>3. ValueInv' /\ WakeInv'
  BY DEF cVars, lockVars, listVars, dataVars, CInv, ValueInv, Adding, WakeInv, Active, Asleep
<1>4. QED BY <1>1, <1>2, <1>3 DEF CInv

LEMMA InvStep == ASSUME CInv, [CNext]_cVars PROVE CInv'
<1>1. CASE CNext
  <2>1. PICK t \in Threads : Step(t)
    BY <1>1 DEF CNext, Step, CallOps
  <2>2. UNCHANGED kind
    BY <1>1 DEF CNext
  <2>3. CTypeOK' /\ FlowInv' /\ HoldInv' /\ DepthInv'
    BY <2>1, <2>2, TypeStep, FlowStep, HoldStep, DepthStep
  <2>4. ListInv' /\ OpenInv' /\ SliceInv'
    BY <2>1, <2>2, ListsStep DEF ListsInv
  <2>5. ValueInv' /\ WakeInv'
    BY <2>1, <2>2, ValueStep, WakeStep
  <2>6. QED BY <2>3, <2>4, <2>5 DEF CInv
<1>2. CASE UNCHANGED cVars
  BY <1>2, StutterKeeps
<1>3. QED BY <1>1, <1>2

(* Every state satisfies the invariant. *)
LEMMA InvAlways == CSpec => []CInv
<1>1. CInit => CInv
  BY InvInit
<1>2. CInv /\ [CNext]_cVars => CInv'
  BY InvStep
<1>3. QED BY <1>1, <1>2, PTL DEF CSpec

(* One thread at a time is where the lock of the condition is needed, and  *)
(* a thread that comes back from wait has acquired the RLock as often as   *)
(* before it (Condition.wait, _release_save and _acquire_restore).         *)
THEOREM MonitorIsHeld == CSpec => []MonitorHolds
<1>1. CInv => MonitorHolds
  <2> SUFFICES ASSUME CInv PROVE MonitorHolds
    OBVIOUS
  <2>1. CTypeOK /\ HoldInv /\ DepthInv
    BY DEF CInv
  <2>2. QED BY <2>1 DEF HoldInv, DepthInv, MonitorHolds
<1>2. QED BY <1>1, InvAlways, PTL

(* A thread that waits is in the list once or is about to be woken, and    *)
(* the list holds no lock of a thread that has come back.                  *)
THEOREM WaitersStayListed == CSpec => []WaitersAreListed
<1>1. CInv => WaitersAreListed
  <2> SUFFICES ASSUME CInv PROVE WaitersAreListed
    OBVIOUS
  <2>1. QED BY DEF CInv, ListInv, Listed, WaitersAreListed
<1>2. QED BY <1>1, InvAlways, PTL

(* A notification that wakes nobody was given to a thread whose wait timed *)
(* out after notify had chosen it.                                         *)
THEOREM NotifiesReachWaiters == CSpec => []OnlyTimeoutsWasteANotify
<1>1. CInv => OnlyTimeoutsWasteANotify
  BY DEF CInv, OpenInv, OnlyTimeoutsWasteANotify
<1>2. QED BY <1>1, InvAlways, PTL

(* No thread sleeps on a semaphore whose value would let it in, once all   *)
(* calls are over but those that sleep: the releases were not lost.        *)
THEOREM ReleasesAreNotLost == CSpec => []NoReleaseIsLost
<1>1. CInv => NoReleaseIsLost
  <2> SUFFICES ASSUME CInv, kind = "semaphore",
                      \A t \in Threads : at[t] = "idle" \/ Asleep(t),
                      NEW u \in Threads, Asleep(u)
               PROVE  value = 0
    BY DEF NoReleaseIsLost
  <2>1. Active = {}
    BY DEF Active, Asleep
  <2>2. Cardinality(Active) = 0
    BY <2>1, FS_EmptySet
  <2>3. value \in Nat
    BY ConditionsAssumption DEF CInv, CTypeOK
  <2>4. QED BY <2>2, <2>3 DEF CInv, WakeInv
<1>2. QED BY <1>1, InvAlways, PTL

=============================================================================
