-------------------------- MODULE SyncQueue_proofs --------------------------
(***************************************************************************)
(* Proofs about SyncQueue, for any number of threads, limits and items: no *)
(* release finds its lock unlocked, the locks tell exactly the limits of a *)
(* queue that nobody is at work on, and the queue is a FIFO.               *)
(***************************************************************************)
EXTENDS SyncQueue, FiniteSetTheorems, SequenceTheorems, TLAPS

(* Where each operation can be. *)
FlowInv ==
  \A t \in Users :
    /\ op[t] = "none" <=> at[t] = "idle"
    /\ at[t] \in {"sema", "test", "change", "other", "own"} => op[t] \in {"put", "get"}
    /\ op[t] = "put" => item[t] \in Items

(* One thread at a time works on the list.  An exception leaves the mutex  *)
(* locked, so nobody comes to the list afterwards.                         *)
Working  == {t \in Users : at[t] \in {"test", "change", "other", "own", "unlock"}}
MutexInv ==
  /\ \A t, u \in Working : t = u
  /\ Working # {} => "mutex" \in locked /\ failed = {}
  /\ failed # {} => "mutex" \in locked
  /\ "mutex" \in locked => Working # {} \/ failed # {}

(* Who has the lock l of the two for its own, and who is about to release  *)
(* it for the others.                                                      *)
Semas    == {"fsema", "esema"}
Limit(l) == IF l = "fsema" THEN QFull ELSE QEmpty
Has(t, l)   == /\ op[t] \in {"put", "get"} /\ Own(op[t]) = l
               /\ at[t] \in {"mutex", "test", "change", "other", "own"}
Hands(t, l) == /\ op[t] \in {"put", "get"} /\ Other(op[t]) = l
               /\ at[t] = "other" /\ was[t]

(* As long as nothing has raised, a lock is locked for exactly one reason: *)
(* its operation has it, the queue is at its limit, or the queue just left *)
(* the limit and the thread that saw it is about to release the lock.      *)
SemaInv ==
  failed = {} =>
    /\ \A t \in Users : at[t] = "change" => was[t] = AtOther(op[t])
    /\ \A l \in Semas :
         /\ l \in locked <=> \/ Limit(l)
                             \/ \E t \in Users : Has(t, l) \/ Hands(t, l)
         /\ \A t, u \in Users : Has(t, l) /\ Has(u, l) => t = u
         /\ \A t, u \in Users : ~(Has(t, l) /\ Hands(u, l))
         /\ \A t \in Users : Hands(t, l) => ~Limit(l)
         /\ \A t \in Users : Has(t, l) /\ at[t] \in {"mutex", "test", "change"} => ~Limit(l)

QInv == QTypeOK /\ FlowInv /\ MutexInv /\ SemaInv /\ ~error

Step(t) == \/ \E i \in Items : put(t, i)
           \/ get(t) \/ look(t)
           \/ AcquireSema(t) \/ RaiseLimit(t) \/ AcquireMutex(t) \/ InMutex(t)

-----------------------------------------------------------------------------
(* The list *)

(* The thread that changes the list has the own lock of its operation, so  *)
(* a put finds room and a get finds an item.                               *)
LEMMA ChangeFindsRoom ==
  ASSUME QInv, NEW t \in Users, at[t] = "change"
  PROVE  /\ failed = {} /\ op[t] \in {"put", "get"}
         /\ op[t] = "put" => ~QFull
         /\ op[t] = "get" => ~QEmpty
<1>1. failed = {} /\ op[t] \in {"put", "get"}
  BY DEF QInv, FlowInv, MutexInv, Working
<1>2. Has(t, Own(op[t])) /\ Own(op[t]) \in Semas
  BY <1>1 DEF Has, Own, Semas
<1>3. ~Limit(Own(op[t]))
  BY <1>1, <1>2 DEF QInv, SemaInv
<1>4. QED BY <1>1, <1>3 DEF Limit, Own

LEMMA Putting ==
  ASSUME QInv, NEW t \in Users, at[t] = "change", _put(t), UNCHANGED maxsize
  PROVE  /\ queue' \in Seq(Items) /\ Len(queue') = Len(queue) + 1
         /\ (maxsize > 0 => Len(queue') <= maxsize) /\ ~QEmpty'
<1>1. item[t] \in Items /\ queue \in Seq(Items) /\ queue' = Append(queue, item[t])
  BY DEF _put, QInv, QTypeOK, FlowInv
<1>2. queue' \in Seq(Items) /\ Len(queue') = Len(queue) + 1
  BY <1>1, AppendProperties
<1>3. Len(queue) \in Nat /\ (maxsize > 0 => Len(queue) <= maxsize) /\ maxsize \in Nat
  BY <1>1, LenProperties, QueueAssumption DEF QInv, QTypeOK
<1>4. maxsize > 0 => Len(queue) # maxsize
  BY ChangeFindsRoom DEF QFull, _put
<1>5. queue' # <<>>
  BY <1>2, <1>3, EmptySeq
<1>6. QED BY <1>2, <1>3, <1>4, <1>5 DEF QEmpty

LEMMA Getting ==
  ASSUME QInv, NEW t \in Users, at[t] = "change", _get(t), UNCHANGED maxsize
  PROVE  /\ queue' \in Seq(Items) /\ Len(queue') = Len(queue) - 1
         /\ (maxsize > 0 => Len(queue') <= maxsize) /\ ~QFull'
<1>1. queue \in Seq(Items) /\ queue # <<>> /\ queue' = Tail(queue)
  BY DEF _get, QInv, QTypeOK
<1>2. queue' \in Seq(Items) /\ Len(queue') = Len(queue) - 1
  BY <1>1, HeadTailProperties
<1>3. Len(queue) \in Nat /\ (maxsize > 0 => Len(queue) <= maxsize) /\ maxsize \in Nat
  BY <1>1, LenProperties, QueueAssumption DEF QInv, QTypeOK
<1>4. QED BY <1>2, <1>3 DEF QFull

-----------------------------------------------------------------------------
(* The invariant is kept *)
(* Every variable keeps its type, and a queue with a limit its limit. *)
LEMMA TypeStep ==
  ASSUME QInv, NEW t \in Users, Step(t), UNCHANGED maxsize PROVE QTypeOK'
<1> USE DEF QInv, QTypeOK, Places, Locks
<1>1. ASSUME NEW i \in Items, put(t, i) PROVE QTypeOK'
  BY <1>1, QueueAssumption DEF put, Call, GoOn
<1>2. ASSUME get(t) PROVE QTypeOK'
  BY <1>2 DEF get, Call, GoOn
<1>3. ASSUME look(t) PROVE QTypeOK'
  BY <1>3 DEF look, Call, GoOn
<1>4. ASSUME AcquireSema(t) PROVE QTypeOK'
  BY <1>4 DEF AcquireSema, Acquire, GoOn, Own
<1>5. ASSUME RaiseLimit(t) PROVE QTypeOK'
  BY <1>5 DEF RaiseLimit, Leave
<1>6. ASSUME AcquireMutex(t) PROVE QTypeOK'
  BY <1>6 DEF AcquireMutex, Acquire, GoOn
<1>7. ASSUME TestOther(t) PROVE QTypeOK'
  <2>1. AtOther(op[t]) \in BOOLEAN
    BY DEF AtOther, QFull, QEmpty
  <2>2. was' \in [Users -> BOOLEAN]
    BY <1>7, <2>1 DEF TestOther
  <2>3. QED BY <1>7, <2>2 DEF TestOther, GoOn
<1>8. ASSUME Change(t) PROVE QTypeOK'
  <2>1. queue' \in Seq(Items) /\ (maxsize > 0 => Len(queue') <= maxsize)
    BY <1>8, Putting, Getting DEF Change
  <2>2. QED BY <1>8, <2>1 DEF Change, GoOn
<1>9. ASSUME ChangeRaises(t) PROVE QTypeOK'
  BY <1>9 DEF ChangeRaises, Leave
<1>10. ASSUME ReleaseOther(t) PROVE QTypeOK'
  BY <1>10 DEF ReleaseOther, Unlock, GoOn, Other
<1>11. ASSUME ReleaseOwn(t) PROVE QTypeOK'
  BY <1>11 DEF ReleaseOwn, Unlock, GoOn, Own
<1>12. ASSUME ReleaseMutex(t) PROVE QTypeOK'
  BY <1>12 DEF ReleaseMutex, Unlock, Leave
<1> HIDE DEF QTypeOK
<1>13. QED BY <1>1, <1>2, <1>3, <1>4, <1>5, <1>6, <1>7, <1>8, <1>9, <1>10, <1>11, <1>12 DEF Step, InMutex

(* An operation goes from place to place. *)
LEMMA FlowStep ==
  ASSUME QInv, NEW t \in Users, Step(t), UNCHANGED maxsize PROVE FlowInv'
<1> USE DEF QInv, QTypeOK, FlowInv
<1>1. ASSUME NEW i \in Items, put(t, i) PROVE FlowInv'
  BY <1>1 DEF put, Call, GoOn
<1>2. ASSUME get(t) PROVE FlowInv'
  BY <1>2 DEF get, Call, GoOn
<1>3. ASSUME look(t) PROVE FlowInv'
  BY <1>3 DEF look, Call, GoOn
<1>4. ASSUME AcquireSema(t) PROVE FlowInv'
  BY <1>4 DEF AcquireSema, Acquire, GoOn
<1>5. ASSUME RaiseLimit(t) PROVE FlowInv'
  BY <1>5 DEF RaiseLimit, Leave
<1>6. ASSUME AcquireMutex(t) PROVE FlowInv'
  BY <1>6 DEF AcquireMutex, Acquire, GoOn
<1>7. ASSUME TestOther(t) PROVE FlowInv'
  BY <1>7 DEF TestOther, GoOn
<1>8. ASSUME Change(t) PROVE FlowInv'
  BY <1>8 DEF Change, GoOn
<1>9. ASSUME ChangeRaises(t) PROVE FlowInv'
  BY <1>9 DEF ChangeRaises, Leave
<1>10. ASSUME ReleaseOther(t) PROVE FlowInv'
  BY <1>10 DEF ReleaseOther, Unlock, GoOn
<1>11. ASSUME ReleaseOwn(t) PROVE FlowInv'
  BY <1>11 DEF ReleaseOwn, Unlock, GoOn
<1>12. ASSUME ReleaseMutex(t) PROVE FlowInv'
  BY <1>12 DEF ReleaseMutex, Unlock, Leave
<1> HIDE DEF FlowInv
<1>13. QED BY <1>1, <1>2, <1>3, <1>4, <1>5, <1>6, <1>7, <1>8, <1>9, <1>10, <1>11, <1>12 DEF Step, InMutex

(* The mutex is held by who works on the list, or for ever. *)
LEMMA MutexStep ==
  ASSUME QInv, NEW t \in Users, Step(t), UNCHANGED maxsize PROVE MutexInv'
<1> USE DEF QInv, QTypeOK, FlowInv, MutexInv, Working
<1>1. ASSUME NEW i \in Items, put(t, i) PROVE MutexInv'
  BY <1>1 DEF put, Call, GoOn
<1>2. ASSUME get(t) PROVE MutexInv'
  BY <1>2 DEF get, Call, GoOn
<1>3. ASSUME look(t) PROVE MutexInv'
  BY <1>3 DEF look, Call, GoOn
<1>4. ASSUME AcquireSema(t) PROVE MutexInv'
  BY <1>4 DEF AcquireSema, Acquire, GoOn, Own
<1>5. ASSUME RaiseLimit(t) PROVE MutexInv'
  BY <1>5 DEF RaiseLimit, Leave
<1>6. ASSUME AcquireMutex(t) PROVE MutexInv'
  BY <1>6 DEF AcquireMutex, Acquire, GoOn
<1>7. ASSUME TestOther(t) PROVE MutexInv'
  BY <1>7 DEF TestOther, GoOn
<1>8. ASSUME Change(t) PROVE MutexInv'
  BY <1>8 DEF Change, GoOn
<1>9. ASSUME ChangeRaises(t) PROVE MutexInv'
  BY <1>9 DEF ChangeRaises, Leave
<1>10. ASSUME ReleaseOther(t) PROVE MutexInv'
  BY <1>10 DEF ReleaseOther, Unlock, GoOn, Other
<1>11. ASSUME ReleaseOwn(t) PROVE MutexInv'
  BY <1>11 DEF ReleaseOwn, Unlock, GoOn, Own
<1>12. ASSUME ReleaseMutex(t) PROVE MutexInv'
  BY <1>12 DEF ReleaseMutex, Unlock, Leave
<1> HIDE DEF MutexInv
<1>13. QED BY <1>1, <1>2, <1>3, <1>4, <1>5, <1>6, <1>7, <1>8, <1>9, <1>10, <1>11, <1>12 DEF Step, InMutex

(* An operation that leaves without the locks changes nothing about them.  *)
LEMMA LeavingKeeps ==
  ASSUME QInv, NEW t \in Users, RaiseLimit(t) \/ ReleaseMutex(t), UNCHANGED maxsize
  PROVE  SemaInv'
<1> USE DEF QInv
<1>1. /\ Leave(t) /\ at[t] \in {"sema", "unlock"}
      /\ queue' = queue /\ failed' = failed
      /\ \A l \in Semas : l \in locked' <=> l \in locked
  BY DEF RaiseLimit, ReleaseMutex, Unlock, Semas
<1>2. \A u \in Users : at'[u] \notin {"idle", "sema", "unlock"} =>
        u # t /\ at'[u] = at[u] /\ op'[u] = op[u] /\ was'[u] = was[u]
  BY <1>1 DEF Leave, QTypeOK
<1>3. /\ at'[t] = "idle"
      /\ \A u \in Users \ {t} : at'[u] = at[u] /\ op'[u] = op[u] /\ was'[u] = was[u]
  BY <1>1 DEF Leave, QTypeOK
<1>4. \A u \in Users, l \in Semas : /\ Has(u, l)' <=> Has(u, l)
                                    /\ Hands(u, l)' <=> Hands(u, l)
                                    /\ Has(u, l) => at'[u] = at[u]
  BY <1>1, <1>3 DEF Has, Hands
<1>5. QFull' = QFull /\ QEmpty' = QEmpty
  BY <1>1 DEF QFull, QEmpty
<1>6. /\ \A l \in Semas : Limit(l)' <=> Limit(l)
      /\ \A u \in Users : AtOther(op[u])' = IF op'[u] = "put" THEN QEmpty ELSE QFull
  BY <1>5 DEF Limit, AtOther
<1>7. failed = {} => \A u \in Users : at'[u] = "change" => was'[u] = AtOther(op[u])'
  <2> SUFFICES ASSUME failed = {}, NEW u \in Users, at'[u] = "change"
               PROVE  was'[u] = AtOther(op[u])'
    OBVIOUS
  <2>1. at[u] = "change" /\ op'[u] = op[u] /\ was'[u] = was[u]
    BY <1>2
  <2>2. was[u] = AtOther(op[u])
    BY <2>1 DEF SemaInv
  <2>3. QED BY <2>1, <2>2, <1>6 DEF AtOther
<1> HIDE DEF QInv
<1>8. SemaInv
  BY DEF QInv
<1>9. QED BY <1>1, <1>4, <1>6, <1>7, <1>8 DEF SemaInv

(* The change of the list leaves at most one limit and comes to at most    *)
(* the other one.                                                          *)
LEMMA ChangeKeeps ==
  ASSUME QInv, NEW t \in Users, Change(t), UNCHANGED maxsize
  PROVE  SemaInv'
<1>1. /\ at[t] = "change" /\ failed = {} /\ op[t] \in {"put", "get"}
      /\ at' = [at EXCEPT ![t] = "other"] /\ locked' = locked /\ op' = op /\ was' = was
  BY ChangeFindsRoom DEF Change, GoOn
<1>2. /\ at'[t] = "other"
      /\ \A u \in Users \ {t} : at'[u] = at[u] /\ at[u] \notin {"test", "change", "other", "own"}
  BY <1>1 DEF QInv, QTypeOK, MutexInv, Working
<1>3. SemaInv /\ was[t] = AtOther(op[t])
  BY <1>1 DEF QInv, SemaInv
<1>4. PICK own \in Semas, other \in Semas :
        /\ own = Own(op[t]) /\ other = Other(op[t]) /\ own # other
        /\ \A l \in Semas : l = own \/ l = other
  BY <1>1 DEF Own, Other, Semas
<1>5. Limit(other) = was[t] /\ ~Limit(other)'
  <2>1. CASE op[t] = "put"
    BY <1>1, <1>3, <1>4, <2>1, Putting DEF Limit, Other, AtOther, Change, _put, _get
  <2>2. CASE op[t] = "get"
    BY <1>1, <1>3, <1>4, <2>2, Getting DEF Limit, Other, AtOther, Change, _put, _get
  <2>3. QED BY <1>1, <2>1, <2>2
<1>6. /\ Has(t, own) /\ Has(t, own)' /\ ~Has(t, other) /\ ~Has(t, other)'
      /\ Hands(t, other)' = was[t] /\ ~Hands(t, own)'
  BY <1>1, <1>2, <1>4 DEF Has, Hands, QInv, QTypeOK
<1>7. \A u \in Users, l \in Semas :
        /\ ~Hands(u, l)
        /\ u # t => /\ Has(u, l)' <=> Has(u, l)
                    /\ ~Hands(u, l)'
                    /\ Has(u, l) => at[u] = "mutex" /\ at'[u] = "mutex"
  BY <1>1, <1>2 DEF Has, Hands
<1>8. own \in locked' /\ (other \in locked' <=> Hands(t, other)' \/ \E u \in Users : Has(u, other)')
  <2>1. own \in locked
    BY <1>1, <1>3, <1>4, <1>6 DEF SemaInv
  <2>2. other \in locked <=> Limit(other) \/ \E u \in Users : Has(u, other)
    BY <1>1, <1>3, <1>4, <1>7 DEF SemaInv
  <2>3. \A u \in Users : Has(u, other) <=> Has(u, other)'
    BY <1>4, <1>6, <1>7
  <2>4. QED BY <1>1, <1>5, <1>6, <2>1, <2>2, <2>3
<1>9. \A u \in Users, l \in Semas : Has(u, l)' <=> Has(u, l)
  BY <1>4, <1>6, <1>7
<1>10. \A u \in Users : at'[u] # "change"
  BY <1>1, <1>2
<1>11. \A u \in Users : Has(u, own) => u = t
  BY <1>1, <1>3, <1>4, <1>6 DEF SemaInv
<1>12. \A u \in Users : Has(u, other) => ~Limit(other)
  BY <1>1, <1>3, <1>4, <1>6, <1>7 DEF SemaInv
<1>13. \A l \in Semas :
         /\ l \in locked' <=> \/ Limit(l)'
                              \/ \E u \in Users : Has(u, l)' \/ Hands(u, l)'
         /\ \A u, v \in Users : Has(u, l)' /\ Has(v, l)' => u = v
         /\ \A u, v \in Users : ~(Has(u, l)' /\ Hands(v, l)')
         /\ \A u \in Users : Hands(u, l)' => ~Limit(l)'
         /\ \A u \in Users : Has(u, l)' /\ at'[u] \in {"mutex", "test", "change"} => ~Limit(l)'
  <2>1. \A u, v \in Users : Has(u, other)' /\ Has(v, other)' => u = v
    BY <1>1, <1>3, <1>4, <1>9 DEF SemaInv
  <2>2. \A u \in Users, l \in Semas : Hands(u, l)' => u = t /\ l = other /\ Limit(other)
    BY <1>4, <1>5, <1>6, <1>7
  <2>3. \A u \in Users : Has(u, own)' => at'[u] = "other"
    BY <1>2, <1>4, <1>9, <1>11
  <2>4. QED BY <1>4, <1>5, <1>6, <1>8, <1>9, <1>11, <1>12, <2>1, <2>2, <2>3
<1>14. QED BY <1>10, <1>13 DEF SemaInv

(* The locks have one reason to be locked. *)
LEMMA SemaStep ==
  ASSUME QInv, NEW t \in Users, Step(t), UNCHANGED maxsize PROVE SemaInv'
<1> USE DEF QInv, QTypeOK, FlowInv, MutexInv, SemaInv, Working, Semas, Limit, Has, Hands, Own, Other, AtOwn, AtOther, QFull, QEmpty
<1>1. ASSUME NEW i \in Items, put(t, i) PROVE SemaInv'
  BY <1>1 DEF put, Call, GoOn
<1>2. ASSUME get(t) PROVE SemaInv'
  BY <1>2 DEF get, Call, GoOn
<1>3. ASSUME look(t) PROVE SemaInv'
  BY <1>3 DEF look, Call, GoOn
<1>4. ASSUME AcquireSema(t) PROVE SemaInv'
  BY <1>4 DEF AcquireSema, Acquire, GoOn
<1>5. ASSUME RaiseLimit(t) PROVE SemaInv'
  BY <1>5, LeavingKeeps
<1>6. ASSUME AcquireMutex(t) PROVE SemaInv'
  BY <1>6 DEF AcquireMutex, Acquire, GoOn
<1>7. ASSUME TestOther(t) PROVE SemaInv'
  BY <1>7 DEF TestOther, GoOn
<1>8. ASSUME Change(t) PROVE SemaInv'
  BY <1>8, ChangeKeeps
<1>9. ASSUME ChangeRaises(t) PROVE SemaInv'
  BY <1>9 DEF ChangeRaises, Leave
<1>10. ASSUME ReleaseOther(t) PROVE SemaInv'
  BY <1>10 DEF ReleaseOther, Unlock, GoOn
<1>11. ASSUME ReleaseOwn(t) PROVE SemaInv'
  BY <1>11 DEF ReleaseOwn, Unlock, GoOn
<1>12. ASSUME ReleaseMutex(t) PROVE SemaInv'
  BY <1>12, LeavingKeeps
<1> HIDE DEF SemaInv
<1>13. QED BY <1>1, <1>2, <1>3, <1>4, <1>5, <1>6, <1>7, <1>8, <1>9, <1>10, <1>11, <1>12 DEF Step, InMutex

LEMMA OtherIsLocked ==
  ASSUME QInv, NEW t \in Users, at[t] = "other", was[t] PROVE Other(op[t]) \in locked
<1>1. failed = {} /\ op[t] \in {"put", "get"}
  BY DEF QInv, FlowInv, MutexInv, Working
<1>2. Hands(t, Other(op[t])) /\ Other(op[t]) \in Semas
  BY <1>1 DEF Hands, Other, Semas
<1>3. QED BY <1>1, <1>2 DEF QInv, SemaInv

LEMMA OwnIsLocked ==
  ASSUME QInv, NEW t \in Users, at[t] = "own" PROVE Own(op[t]) \in locked
<1>1. failed = {} /\ op[t] \in {"put", "get"}
  BY DEF QInv, FlowInv, MutexInv, Working
<1>2. Has(t, Own(op[t])) /\ Own(op[t]) \in Semas
  BY <1>1 DEF Has, Own, Semas
<1>3. QED BY <1>1, <1>2 DEF QInv, SemaInv

(* A lock that is released is locked. *)
LEMMA ErrorStep ==
  ASSUME QInv, NEW t \in Users, Step(t), UNCHANGED maxsize PROVE ~error'
<1> USE DEF QInv, QTypeOK
<1>1. ASSUME NEW i \in Items, put(t, i) PROVE ~error'
  BY <1>1 DEF put, Call, GoOn
<1>2. ASSUME get(t) PROVE ~error'
  BY <1>2 DEF get, Call, GoOn
<1>3. ASSUME look(t) PROVE ~error'
  BY <1>3 DEF look, Call, GoOn
<1>4. ASSUME AcquireSema(t) PROVE ~error'
  BY <1>4 DEF AcquireSema, Acquire, GoOn
<1>5. ASSUME RaiseLimit(t) PROVE ~error'
  BY <1>5 DEF RaiseLimit, Leave
<1>6. ASSUME AcquireMutex(t) PROVE ~error'
  BY <1>6 DEF AcquireMutex, Acquire, GoOn
<1>7. ASSUME TestOther(t) PROVE ~error'
  BY <1>7 DEF TestOther, GoOn
<1>8. ASSUME Change(t) PROVE ~error'
  BY <1>8 DEF Change, GoOn
<1>9. ASSUME ChangeRaises(t) PROVE ~error'
  BY <1>9 DEF ChangeRaises, Leave
<1>10. ASSUME ReleaseOther(t) PROVE ~error'
  BY <1>10, OtherIsLocked DEF ReleaseOther, Unlock, GoOn
<1>11. ASSUME ReleaseOwn(t) PROVE ~error'
  BY <1>11, OwnIsLocked DEF ReleaseOwn, Unlock, GoOn
<1>12. ASSUME ReleaseMutex(t) PROVE ~error'
  BY <1>12 DEF ReleaseMutex, Unlock, Leave, MutexInv, Working
<1>13. QED BY <1>1, <1>2, <1>3, <1>4, <1>5, <1>6, <1>7, <1>8, <1>9, <1>10, <1>11, <1>12 DEF Step, InMutex

LEMMA InvInit == QInit => QInv
<1> SUFFICES ASSUME QInit PROVE QInv
  OBVIOUS
<1> USE QueueAssumption DEF QInit
<1>1. QTypeOK
  <2>1. queue \in Seq(Items) /\ Len(queue) = 0
    BY EmptySeq
  <2>2. was \in [Users -> BOOLEAN] /\ error \in BOOLEAN
    BY Zenon
  <2>3. QED BY <2>1, <2>2 DEF QTypeOK, Places, Locks
<1>2. FlowInv
  BY DEF FlowInv
<1>3. MutexInv
  BY DEF MutexInv, Working
<1>4. SemaInv
  <2>1. QEmpty /\ ~QFull
    <3>1. Len(queue) = 0 /\ maxsize \in Nat
      BY EmptySeq
    <3>2. QED BY <3>1 DEF QEmpty, QFull
  <2>2. \A t \in Users : at[t] = "idle"
    OBVIOUS
  <2>3. QED BY <2>1, <2>2 DEF SemaInv, Has, Hands, Limit, Semas
<1>5. QED BY <1>1, <1>2, <1>3, <1>4 DEF QInv

LEMMA StutterKeeps == ASSUME QInv, UNCHANGED qVars PROVE QInv'
BY DEF QInv, QTypeOK, FlowInv, MutexInv, SemaInv, Working, Limit, Has, Hands, QFull,
       QEmpty, AtOther, qVars, moving, useVars

LEMMA InvAlways == QSpec => []QInv
<1>1. QInv /\ [QNext]_qVars => QInv'
  <2> SUFFICES ASSUME QInv, [QNext]_qVars PROVE QInv'
    OBVIOUS
  <2>1. ASSUME QNext PROVE QInv'
    <3>1. UNCHANGED maxsize /\ \E t \in Users : Step(t)
      BY <2>1 DEF QNext, Step
    <3>2. QED BY <3>1, TypeStep, FlowStep, MutexStep, SemaStep, ErrorStep DEF QInv
  <2>2. QED BY <2>1, StutterKeeps
<1>2. QED BY <1>1, InvInit, PTL DEF QSpec

-----------------------------------------------------------------------------
(* No thread releases a lock of the queue that is not locked, whatever     *)
(* puts, gets and exceptions meet, and a queue never grows beyond its limit. *)
THEOREM ReleasesMatch == QSpec => []ReleasesAreMatched
<1>1. QInv => ReleasesAreMatched
  BY DEF QInv, ReleasesAreMatched
<1>2. QED BY <1>1, InvAlways, PTL

(* With nobody at work and no exception so far, fsema is locked exactly    *)
(* when the queue is full, esema exactly when it is empty, and the mutex   *)
(* is free.                                                                *)
THEOREM LocksAreRight == QSpec => []LocksTellTheLimits
<1>1. QInv => LocksTellTheLimits
  <2> SUFFICES ASSUME QInv, Quiet, failed = {}
               PROVE  locked = {l \in {"fsema"} : QFull} \cup {l \in {"esema"} : QEmpty}
    BY DEF LocksTellTheLimits
  <2>1. Working = {} /\ "mutex" \notin locked
    BY DEF Quiet, Working, QInv, MutexInv
  <2>2. \A l \in Semas : l \in locked <=> Limit(l)
    <3>1. \A t \in Users, l \in Semas : ~Has(t, l) /\ ~Hands(t, l)
      BY DEF Quiet, Has, Hands
    <3>2. QED BY <3>1 DEF QInv, SemaInv
  <2>3. locked \subseteq Semas
    BY <2>1 DEF QInv, QTypeOK, Locks, Semas
  <2>4. QED BY <2>2, <2>3 DEF Semas, Limit
<1>2. QED BY <1>1, InvAlways, PTL

-----------------------------------------------------------------------------
(* A put that reaches the list adds to the abstract queue, a get takes     *)
(* from it, and nothing else touches it.                                   *)
LEMMA StepIsFIFO ==
  ASSUME QInv, [QNext]_qVars PROVE [FIFO!Next]_<<{maxsize} \ {0}, queue, done>>
<1>1. ASSUME UNCHANGED maxsize, NEW t \in Users, Change(t) PROVE FIFO!Next
  <2>1. ASSUME _put(t) PROVE FIFO!Accept(item[t])
    <3>1. ~QFull
      BY <1>1, <2>1, ChangeFindsRoom DEF Change, _put
    <3>2. \A n \in {maxsize} \ {0} : Len(queue) < n
      BY <3>1, LenProperties, QueueAssumption DEF QFull, QInv, QTypeOK
    <3>3. QED BY <2>1, <3>2 DEF FIFO!Accept, _put
  <2>2. ASSUME _get(t) PROVE FIFO!Execute
    BY <2>2 DEF FIFO!Execute, _get
  <2>3. _put(t) => item[t] \in Items
    BY DEF _put, QInv, FlowInv
  <2>4. QED BY <1>1, <2>1, <2>2, <2>3 DEF Change, FIFO!Next
<1>2. ASSUME NEW t \in Users, Step(t), ~Change(t) PROVE UNCHANGED <<queue, done>>
  BY <1>2 DEF Step, InMutex, put, get, look, Call, AcquireSema, AcquireMutex, Acquire,
     RaiseLimit, TestOther, ChangeRaises, ReleaseOther, ReleaseOwn, ReleaseMutex
<1>3. CASE UNCHANGED qVars
  BY <1>3 DEF qVars, moving
<1>4. QED BY <1>1, <1>2, <1>3 DEF QNext, Step

(* Lib/Queue.py is a FIFO: what the puts appended comes out once and in    *)
(* their order, and never more wait than maxsize allows, for any number of *)
(* threads at any statement.                                               *)
THEOREM QueueIsFIFO == QSpec => ImplementsFIFO
<1>1. QInit => FIFO!Init
  <2>1. SUFFICES ASSUME QInit PROVE FIFO!Init
    OBVIOUS
  <2>2. maxsize \in Nat
    BY <2>1, QueueAssumption DEF QInit
  <2>3. {maxsize} \ {0} \subseteq Nat /\ \A m, n \in {maxsize} \ {0} : m = n
    BY <2>2
  <2>4. QED BY <2>1, <2>3 DEF QInit, FIFO!Init
<1>2. QInv /\ [QNext]_qVars => [FIFO!Next]_<<{maxsize} \ {0}, queue, done>>
  BY StepIsFIFO
<1>3. QED BY <1>1, <1>2, InvAlways, PTL DEF QSpec, ImplementsFIFO, FIFO!Spec
=============================================================================
