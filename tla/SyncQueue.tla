----------------------------- MODULE SyncQueue ------------------------------
(***************************************************************************)
(* The queue between threads of Lib/Queue.py, made of three locks: mutex   *)
(* guards the list, fsema is locked while the queue is full or a put is    *)
(* under way, esema while it is empty or a get is under way.  A put that   *)
(* leaves room releases fsema for the next put, and esema if the queue was *)
(* empty; a get does the same with the roles of the two exchanged.  Every  *)
(* statement is a step: other threads run between any two.                 *)
(***************************************************************************)
EXTENDS Naturals, Sequences, FiniteSets

CONSTANTS
  Users,         (* the threads that use the queue                          *)
  Items,
  NoItem,        (* what a thread that has none has at hand                 *)
  Sizes,         (* the limits a queue may be made with; 0 is none          *)
  Failers,       (* those whose _put and _get may raise an exception        *)
  Getter,        (* a thread that does nothing but get                      *)
  MaxPuts        (* bound: how many puts begin                              *)

ASSUME QueueAssumption ==
  /\ Sizes \subseteq Nat /\ MaxPuts \in Nat /\ NoItem \notin Items
  /\ Failers \subseteq Users /\ Getter \in Users \ Failers

VARIABLES
  maxsize,       (* self.maxsize                                            *)
  queue,         (* self.queue                                              *)
  locked,        (* the locks that are locked, of Locks                     *)
  at,            (* the statement each thread comes to next                 *)
  op,            (* "put", "get" or "look" (qsize, empty, full), or "none"  *)
  item,          (* the item each thread brings                             *)
  was,           (* its was_empty or was_full                               *)
  failed,        (* the threads that have left put or get by an exception   *)
                 (* other than Full and Empty                               *)
  error,         (* has release() found a lock unlocked?                    *)
  puts,          (* how many puts have begun                                *)
  done           (* history: the items that were got, in order              *)

useVars == <<at, op, item, was, failed>>
moving  == <<queue, locked, useVars, error, puts, done>>
qVars   == <<maxsize, moving>>

Locks  == {"mutex", "esema", "fsema"}
Places == {"idle", "sema", "mutex", "test", "change", "other", "own", "unlock"}

QEmpty == queue = <<>>
QFull  == maxsize > 0 /\ Len(queue) = maxsize

(* For either operation: the lock it waits for, the one it may hand on,    *)
(* and whether the queue is such that those who wait for them must wait.   *)
Own(o)     == IF o = "put" THEN "fsema" ELSE "esema"
Other(o)   == IF o = "put" THEN "esema" ELSE "fsema"
AtOwn(o)   == IF o = "put" THEN QFull ELSE QEmpty
AtOther(o) == IF o = "put" THEN QEmpty ELSE QFull

QInit ==
  /\ maxsize \in Sizes /\ queue = <<>> /\ locked = {"esema"}
  /\ at = [t \in Users |-> "idle"] /\ op = [t \in Users |-> "none"]
  /\ item = [t \in Users |-> NoItem] /\ was = [t \in Users |-> FALSE]
  /\ failed = {} /\ error = FALSE /\ puts = 0 /\ done = <<>>

-----------------------------------------------------------------------------
GoOn(t, place) == at' = [at EXCEPT ![t] = place]
Leave(t) == /\ at' = [at EXCEPT ![t] = "idle"]
            /\ op' = [op EXCEPT ![t] = "none"]
            /\ item' = [item EXCEPT ![t] = NoItem]
            /\ was' = [was EXCEPT ![t] = FALSE]

Call(t, o, place) ==
  /\ at[t] = "idle" /\ t \notin failed
  /\ GoOn(t, place) /\ op' = [op EXCEPT ![t] = o]
  /\ UNCHANGED <<queue, locked, was, failed, error, done>>

put(t, i) == /\ t # Getter /\ puts < MaxPuts /\ puts' = puts + 1
             /\ Call(t, "put", "sema")
             /\ item' = [item EXCEPT ![t] = i]
get(t)    == Call(t, "get", "sema") /\ UNCHANGED <<item, puts>>
look(t)   == t # Getter /\ Call(t, "look", "mutex") /\ UNCHANGED <<item, puts>>

(* lock.acquire() *)
Acquire(t, lock, place) ==
  /\ lock \notin locked /\ locked' = locked \cup {lock}
  /\ GoOn(t, place)
  /\ UNCHANGED <<queue, op, item, was, failed, error, puts, done>>

(* lock.release(), which raises an error when the lock is not locked *)
Unlock(lock) == /\ locked' = locked \ {lock}
                /\ error' = (error \/ lock \notin locked)

AcquireSema(t)  == at[t] = "sema" /\ Acquire(t, Own(op[t]), "mutex")

(* block = 0: raise Full, raise Empty *)
RaiseLimit(t) ==
  /\ at[t] = "sema" /\ Own(op[t]) \in locked
  /\ Leave(t)
  /\ UNCHANGED <<queue, locked, failed, error, puts, done>>

AcquireMutex(t) ==
  at[t] = "mutex" /\ Acquire(t, "mutex", IF op[t] = "look" THEN "unlock" ELSE "test")

(* Mutant: a get does not see that the queue was full. *)
TestOtherAfterwards(t) ==
  /\ at[t] = "test"
  /\ was' = [was EXCEPT ![t] = op[t] = "put" /\ QEmpty]
  /\ GoOn(t, "change")
  /\ UNCHANGED <<queue, locked, op, item, failed, error, puts, done>>

(* was_empty = self._empty(), was_full = self._full() *)
TestOther(t) ==
  /\ at[t] = "test"
  /\ was' = [was EXCEPT ![t] = AtOther(op[t])]
  /\ GoOn(t, "change")
  /\ UNCHANGED <<queue, locked, op, item, failed, error, puts, done>>

_put(t) == op[t] = "put" /\ queue' = Append(queue, item[t]) /\ UNCHANGED done

(* Mutant: the item that came last is taken. *)
_getLast(t) ==
  /\ op[t] = "get" /\ queue # <<>>
  /\ queue' = SubSeq(queue, 1, Len(queue) - 1)
  /\ done' = Append(done, queue[Len(queue)])

_get(t) == /\ op[t] = "get" /\ queue # <<>>
           /\ queue' = Tail(queue) /\ done' = Append(done, Head(queue))

Change(t) ==
  /\ at[t] = "change"
  /\ _put(t) \/ _get(t)
  /\ GoOn(t, "other")
  /\ UNCHANGED <<locked, op, item, was, failed, error, puts>>

(* An exception leaves put or get with the mutex and the own lock locked;  *)
(* self.queue[0] raises IndexError on an empty list in any case.           *)
ChangeRaises(t) ==
  /\ at[t] = "change"
  /\ t \in Failers \/ (op[t] = "get" /\ queue = <<>>)
  /\ failed' = failed \cup {t}
  /\ Leave(t)
  /\ UNCHANGED <<queue, locked, error, puts, done>>

(* Mutant: the other lock is released after every change. *)
ReleaseOtherAlways(t) ==
  /\ at[t] = "other"
  /\ Unlock(Other(op[t]))
  /\ GoOn(t, "own")
  /\ UNCHANGED <<queue, op, item, was, failed, puts, done>>

ReleaseOther(t) ==
  /\ at[t] = "other"
  /\ IF was[t] THEN Unlock(Other(op[t])) ELSE UNCHANGED <<locked, error>>
  /\ GoOn(t, "own")
  /\ UNCHANGED <<queue, op, item, was, failed, puts, done>>

(* Mutant: a put or get that finds the queue at its limit before the       *)
(* change, not after it, keeps its own lock.                               *)
ReleaseOwnUnlessWas(t) ==
  /\ at[t] = "own"
  /\ IF was[t] THEN UNCHANGED <<locked, error>> ELSE Unlock(Own(op[t]))
  /\ GoOn(t, "unlock")
  /\ UNCHANGED <<queue, op, item, was, failed, puts, done>>

ReleaseOwn(t) ==
  /\ at[t] = "own"
  /\ IF AtOwn(op[t]) THEN UNCHANGED <<locked, error>> ELSE Unlock(Own(op[t]))
  /\ GoOn(t, "unlock")
  /\ UNCHANGED <<queue, op, item, was, failed, puts, done>>

ReleaseMutex(t) ==
  /\ at[t] = "unlock"
  /\ Unlock("mutex")
  /\ Leave(t)
  /\ UNCHANGED <<queue, failed, puts, done>>

InMutex(t) == TestOther(t) \/ Change(t) \/ ChangeRaises(t) \/ ReleaseOther(t)
              \/ ReleaseOwn(t) \/ ReleaseMutex(t)

QNext == UNCHANGED maxsize /\ \E t \in Users :
  \/ \E i \in Items : put(t, i)
  \/ get(t) \/ look(t)
  \/ AcquireSema(t) \/ RaiseLimit(t) \/ AcquireMutex(t) \/ InMutex(t)

QSpec == QInit /\ [][QNext]_qVars

(* Threads go on; a lock that is released again and again is got by each   *)
(* that waits; the getter never stops.                                     *)
QFairness ==
  /\ \A t \in Users : /\ WF_moving(InMutex(t))
                      /\ SF_moving(AcquireMutex(t))
                      /\ SF_moving(AcquireSema(t))
  /\ WF_moving(get(Getter))

-----------------------------------------------------------------------------
(* Properties *)

QTypeOK ==
  /\ maxsize \in Sizes /\ queue \in Seq(Items) /\ (maxsize > 0 => Len(queue) <= maxsize)
  /\ locked \subseteq Locks
  /\ at \in [Users -> Places] /\ op \in [Users -> {"none", "put", "get", "look"}]
  /\ item \in [Users -> Items \cup {NoItem}] /\ was \in [Users -> BOOLEAN]
  /\ failed \subseteq Users /\ error \in BOOLEAN /\ puts \in 0 .. MaxPuts

(* No release finds its lock unlocked: a lock is handed on by exactly one  *)
(* thread, whatever puts and gets meet; all variables keep their types.    *)
ReleasesAreMatched == QTypeOK /\ ~error

(* With nobody between its first lock and its return, a thread that comes  *)
(* to put must wait exactly if the queue is full, and one that comes to    *)
(* get exactly if it is empty: neither lock is lost or handed on twice,    *)
(* and nobody waits without a reason.  A _put or _get that raises is the   *)
(* only thing that ends this.                                              *)
Quiet == \A t \in Users : at[t] \in {"idle", "sema"}
LocksTellTheLimits ==
  Quiet /\ failed = {} => locked = {l \in {"fsema"} : QFull} \cup {l \in {"esema"} : QEmpty}

(* What was put comes out once, in the order of the puts, and no put goes  *)
(* through while a queue that has a limit is at it, although the room for  *)
(* it is noted in the lock fsema and not looked at when the item is added. *)
FIFO == INSTANCE CallQueue WITH limit <- {maxsize} \ {0}
ImplementsFIFO == FIFO!Spec

(* A put that waits for room comes back, if the getter goes on and no      *)
(* exception has left the locks locked.                                    *)
PutReturns ==
  [](failed = {}) => \A t \in Users : op[t] = "put" ~> at[t] = "idle"
=============================================================================
