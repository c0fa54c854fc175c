----------------------------- MODULE Conditions -----------------------------
(***************************************************************************)
(* Lib/threading.py: a condition variable made of locks, with its lock     *)
(* (an RLock when a program uses it itself), and the semaphore and the     *)
(* event that are built on it.  A thread that waits appends a locked lock  *)
(* of its own to the list of waiters and acquires it once more; notify     *)
(* releases the locks of the first waiters.  A wait with a timeout gives   *)
(* up by polling and takes its lock out of the list without holding the    *)
(* lock of the condition.  Threads switch between any two statements; a    *)
(* waiter's lock is named by its thread, which has one at a time.          *)
(***************************************************************************)
EXTENDS Integers, Sequences, FiniteSets, SequencesExt

CONSTANTS
  Threads, NoThread,
  Kinds,         (* which of "condition", "semaphore" and "event" are made  *)
  MaxCount,      (* bound: how deep a thread acquires the RLock             *)
  MaxValue       (* bound: the value of the semaphore                       *)

ASSUME ConditionsAssumption ==
  /\ IsFiniteSet(Threads) /\ NoThread \notin Threads /\ MaxCount \in Nat \ {0} /\ MaxValue \in Nat
  /\ Kinds \subseteq {"condition", "semaphore", "event"}

VARIABLES
  kind,
  block,           (* is the lock of the condition, or of its RLock, locked? *)
  owner, count,    (* of the RLock; unused when the lock is a plain one     *)
  waiters,         (* self.__waiters                                        *)
  open,            (* the threads whose waiter lock is unlocked             *)
  value, flag,     (* of the semaphore and of the event                     *)
  at,              (* the statement each thread comes to next               *)
  op,              (* the call each thread is in                            *)
  timed,           (* does it wait with a timeout?                          *)
  slice,           (* the waiters it still has to notify                    *)
  saved,           (* the count that _release_save returned                 *)
  depth            (* history: acquires of the RLock without a release      *)

lockVars == <<block, owner, count>>
listVars == <<waiters, open>>
dataVars == <<value, flag>>
cVars == <<kind, lockVars, listVars, dataVars, at, op, timed, slice, saved, depth>>

Ops(k) == IF k = "condition" THEN {"use"}
          ELSE IF k = "semaphore" THEN {"P", "tryP", "V"} ELSE {"set", "clear", "wait"}

(* Where a thread has the lock of the condition. *)
Holding == {"note", "in", "take", "append", "save", "saved", "restore",
            "notify", "delist", "leave", "left"}
Places  == {"idle", "enter", "parked", "remove", "reenter"} \cup Holding

CInit ==
  /\ kind \in Kinds
  /\ block = FALSE /\ owner = NoThread /\ count = 0
  /\ waiters = <<>> /\ open = {}
  /\ value = 0 /\ flag = FALSE
  /\ at = [t \in Threads |-> "idle"] /\ op = [t \in Threads |-> "none"]
  /\ timed = [t \in Threads |-> FALSE] /\ slice = [t \in Threads |-> <<>>]
  /\ saved = [t \in Threads |-> 0] /\ depth = [t \in Threads |-> 0]

GoOn(t, place) == at' = [at EXCEPT ![t] = place]
Set(f, t, v)   == [f EXCEPT ![t] = v]

-----------------------------------------------------------------------------
(* The lock: __cond.acquire() and release(), of a Lock or an RLock         *)

Call(t, o) ==
  /\ at[t] = "idle" /\ o \in Ops(kind)
  /\ o = "V" => value + Cardinality({u \in Threads : op[u] = "V"}) < MaxValue
  /\ op' = Set(op, t, o) /\ GoOn(t, "enter")
  /\ UNCHANGED <<lockVars, listVars, dataVars, timed, slice, saved, depth>>

(* __block.acquire(), when the RLock is not its own. *)
Enter(t) ==
  /\ at[t] = "enter" /\ ~block
  /\ block' = TRUE
  /\ GoOn(t, IF kind = "condition" THEN "note" ELSE "in")
  /\ UNCHANGED <<owner, count, listVars, dataVars, op, timed, slice, saved, depth>>

(* __owner = me, __count = 1 *)
Note(t) ==
  /\ at[t] = "note"
  /\ owner' = t /\ count' = 1 /\ depth' = Set(depth, t, 1)
  /\ GoOn(t, "in")
  /\ UNCHANGED <<block, listVars, dataVars, op, timed, slice, saved>>

(* acquire() of the RLock by a thread that is its owner. *)
AcquireAgain(t) ==
  /\ at[t] = "in" /\ op[t] = "use" /\ owner = t /\ count < MaxCount
  /\ count' = count + 1 /\ depth' = Set(depth, t, depth[t] + 1)
  /\ UNCHANGED <<block, owner, listVars, dataVars, at, op, timed, slice, saved>>

(* release() of the RLock: the last one clears the owner, then unlocks. *)
ReleaseOnce(t) ==
  /\ at[t] = "in" /\ op[t] = "use" /\ owner = t
  /\ count' = count - 1 /\ depth' = Set(depth, t, depth[t] - 1)
  /\ IF count' = 0 THEN owner' = NoThread /\ GoOn(t, "left")
                   ELSE UNCHANGED <<owner, at>>
  /\ UNCHANGED <<block, listVars, dataVars, op, timed, slice, saved>>

Unblock(t) ==
  /\ at[t] \in {"left", "leave"}
  /\ block' = FALSE
  /\ GoOn(t, "idle") /\ op' = Set(op, t, "none")
  /\ timed' = Set(timed, t, FALSE)
  /\ UNCHANGED <<owner, count, listVars, dataVars, slice, saved, depth>>

-----------------------------------------------------------------------------
(* wait *)

(* Mutant: the lock of the waiter is not acquired beforehand. *)
AppendUnlocked(t) ==
  /\ at[t] = "append"
  /\ waiters' = Append(waiters, t) /\ open' = open \cup {t}
  /\ GoOn(t, "save")
  /\ UNCHANGED <<lockVars, dataVars, op, timed, slice, saved, depth>>

(* waiter = _allocate_lock(); waiter.acquire(); __waiters.append(waiter) *)
AppendWaiter(t) ==
  /\ at[t] = "append"
  /\ waiters' = Append(waiters, t) /\ UNCHANGED open
  /\ GoOn(t, "save")
  /\ UNCHANGED <<lockVars, dataVars, op, timed, slice, saved, depth>>

(* _release_save of an RLock keeps the count; a plain lock has none. *)
Save(t) ==
  /\ at[t] = "save"
  /\ IF kind = "condition"
     THEN saved' = Set(saved, t, count) /\ count' = 0 /\ owner' = NoThread
     ELSE UNCHANGED <<saved, count, owner>>
  /\ GoOn(t, "saved")
  /\ UNCHANGED <<block, listVars, dataVars, op, timed, slice, depth>>

Park(t) ==
  /\ at[t] = "saved"
  /\ block' = FALSE
  /\ GoOn(t, "parked")
  /\ UNCHANGED <<owner, count, listVars, dataVars, op, timed, slice, saved, depth>>

Woken(t) ==
  /\ at[t] = "parked" /\ t \in open
  /\ open' = open \ {t}
  /\ GoOn(t, "reenter")
  /\ UNCHANGED <<lockVars, waiters, dataVars, op, timed, slice, saved, depth>>

(* The last waiter.acquire(0) of the polling has failed, the time is up. *)
TimesOut(t) ==
  /\ at[t] = "parked" /\ timed[t] /\ t \notin open
  /\ GoOn(t, "remove")
  /\ UNCHANGED <<lockVars, listVars, dataVars, op, timed, slice, saved, depth>>

(* Mutant: the waiter that gave up stays in the list. *)
RemoveNone(t) ==
  /\ at[t] = "remove"
  /\ GoOn(t, "reenter")
  /\ UNCHANGED <<lockVars, listVars, dataVars, op, timed, slice, saved, depth>>

(* __waiters.remove(waiter); it may have been removed meanwhile *)
RemoveWaiter(t) ==
  /\ at[t] = "remove"
  /\ waiters' = RemoveFirst(waiters, t)
  /\ GoOn(t, "reenter")
  /\ UNCHANGED <<lockVars, open, dataVars, op, timed, slice, saved, depth>>

Reenter(t) ==
  /\ at[t] = "reenter" /\ ~block
  /\ block' = TRUE
  /\ GoOn(t, "restore")
  /\ UNCHANGED <<owner, count, listVars, dataVars, op, timed, slice, saved, depth>>

(* Mutant: the RLock comes back acquired once. *)
RestoreOnce(t) ==
  /\ at[t] = "restore"
  /\ IF kind = "condition" THEN count' = 1 /\ owner' = t
                           ELSE UNCHANGED <<count, owner>>
  /\ GoOn(t, IF op[t] = "wait" THEN "leave" ELSE "in")
  /\ open' = open \ {t}
  /\ UNCHANGED <<block, waiters, dataVars, op, timed, slice, saved, depth>>

(* _acquire_restore; the waiter's lock goes out of use.  Event.wait then   *)
(* leaves, the semaphore tests again.                                      *)
Restore(t) ==
  /\ at[t] = "restore"
  /\ IF kind = "condition" THEN count' = saved[t] /\ owner' = t
                           ELSE UNCHANGED <<count, owner>>
  /\ GoOn(t, IF op[t] = "wait" THEN "leave" ELSE "in")
  /\ open' = open \ {t}
  /\ UNCHANGED <<block, waiters, dataVars, op, timed, slice, saved, depth>>

-----------------------------------------------------------------------------
(* notify *)

(* waiters = __waiters[:n]; without any it returns at once. *)
Notify(t, n) ==
  /\ slice' = Set(slice, t, SubSeq(waiters, 1, IF n < Len(waiters) THEN n ELSE Len(waiters)))
  /\ GoOn(t, "notify")

(* for waiter in waiters: waiter.release() *)
ReleaseWaiter(t) ==
  /\ at[t] = "notify"
  /\ IF slice[t] = <<>>
     THEN GoOn(t, IF op[t] = "use" THEN "in" ELSE "leave") /\ UNCHANGED open
     ELSE open' = open \cup {Head(slice[t])} /\ GoOn(t, "delist")
  /\ UNCHANGED <<lockVars, waiters, dataVars, op, timed, slice, saved, depth>>

(* __waiters.remove(waiter); it may have removed itself *)
Delist(t) ==
  /\ at[t] = "delist"
  /\ waiters' = RemoveFirst(waiters, Head(slice[t]))
  /\ slice' = Set(slice, t, Tail(slice[t]))
  /\ GoOn(t, "notify")
  /\ UNCHANGED <<lockVars, open, dataVars, op, timed, saved, depth>>

-----------------------------------------------------------------------------
(* What is done with the lock held *)

(* A program waits, with a timeout or without, or notifies. *)
Use(t) ==
  /\ at[t] = "in" /\ op[t] = "use"
  /\ \/ /\ GoOn(t, "append") /\ UNCHANGED slice
        /\ \E b \in BOOLEAN : timed' = Set(timed, t, b)
     \/ /\ \E n \in 1 .. Cardinality(Threads) : Notify(t, n)
        /\ UNCHANGED timed
  /\ UNCHANGED <<lockVars, listVars, dataVars, op, saved, depth>>

(* Semaphore.acquire: while value == 0, wait or give up; else go on *)
TestValue(t) ==
  /\ at[t] = "in" /\ op[t] \in {"P", "tryP"}
  /\ GoOn(t, IF value > 0 THEN "take" ELSE IF op[t] = "P" THEN "append" ELSE "leave")
  /\ UNCHANGED <<lockVars, listVars, dataVars, op, timed, slice, saved, depth>>

TakeValue(t) ==
  /\ at[t] = "take"
  /\ value' = value - 1
  /\ GoOn(t, "leave")
  /\ UNCHANGED <<lockVars, listVars, flag, op, timed, slice, saved, depth>>

(* Mutant of V: only the waiter of an empty semaphore is notified. *)
VFromZero(t) ==
  /\ at[t] = "in" /\ op[t] = "V"
  /\ value' = value + 1
  /\ IF value = 0 THEN Notify(t, 1) ELSE GoOn(t, "leave") /\ UNCHANGED slice
  /\ UNCHANGED <<lockVars, listVars, flag, op, timed, saved, depth>>

(* Semaphore.release *)
V(t) ==
  /\ at[t] = "in" /\ op[t] = "V"
  /\ value' = value + 1
  /\ Notify(t, 1)
  /\ UNCHANGED <<lockVars, listVars, flag, op, timed, saved, depth>>

(* Mutant: Event.set notifies one waiter. *)
SetEventOne(t) ==
  /\ at[t] = "in" /\ op[t] = "set"
  /\ flag' = TRUE
  /\ Notify(t, 1)
  /\ UNCHANGED <<lockVars, listVars, value, op, timed, saved, depth>>

SetEvent(t) ==
  /\ at[t] = "in" /\ op[t] = "set"
  /\ flag' = TRUE
  /\ Notify(t, Len(waiters))
  /\ UNCHANGED <<lockVars, listVars, value, op, timed, saved, depth>>

ClearEvent(t) ==
  /\ at[t] = "in" /\ op[t] = "clear"
  /\ flag' = FALSE
  /\ GoOn(t, "leave")
  /\ UNCHANGED <<lockVars, listVars, value, op, timed, slice, saved, depth>>

WaitEvent(t) ==
  /\ at[t] = "in" /\ op[t] = "wait"
  /\ \E b \in BOOLEAN : timed' = Set(timed, t, b)
  /\ GoOn(t, IF flag THEN "leave" ELSE "append")
  /\ UNCHANGED <<lockVars, listVars, dataVars, op, slice, saved, depth>>

Proceed(t) ==
  \/ Note(t) \/ Unblock(t) \/ AppendWaiter(t) \/ Save(t) \/ Park(t)
  \/ Woken(t) \/ RemoveWaiter(t) \/ Restore(t) \/ ReleaseWaiter(t)
  \/ Delist(t) \/ TestValue(t) \/ TakeValue(t) \/ V(t) \/ SetEvent(t)
  \/ ClearEvent(t) \/ WaitEvent(t)

Lock(t) == Enter(t) \/ Reenter(t)

CNext == UNCHANGED kind /\ \E t \in Threads :
  \/ \E o \in {"use", "P", "tryP", "V", "set", "clear", "wait"} : Call(t, o)
  \/ Lock(t) \/ AcquireAgain(t) \/ ReleaseOnce(t) \/ TimesOut(t) \/ Use(t)
  \/ Proceed(t)

CSpec == CInit /\ [][CNext]_cVars

(* Threads go on, a program releases what it has acquired, and a lock that *)
(* is released again and again is got by each that waits for it.           *)
CMoving == <<lockVars, listVars, dataVars, at, op, timed, slice, saved, depth>>
CFairness == \A t \in Threads : /\ WF_CMoving(Proceed(t))
                                /\ SF_CMoving(Lock(t))
CFairSpec == CSpec /\ CFairness

-----------------------------------------------------------------------------
(* Properties *)

CTypeOK ==
  /\ kind \in Kinds /\ block \in BOOLEAN
  /\ owner \in Threads \cup {NoThread} /\ count \in 0 .. MaxCount
  /\ waiters \in Seq(Threads) /\ open \subseteq Threads
  /\ value \in 0 .. MaxValue /\ flag \in BOOLEAN
  /\ at \in [Threads -> Places] /\ timed \in [Threads -> BOOLEAN]
  /\ op \in [Threads -> Ops("condition") \cup Ops("semaphore") \cup Ops("event") \cup {"none"}]
  /\ slice \in [Threads -> Seq(Threads)]
  /\ saved \in [Threads -> 0 .. MaxCount] /\ depth \in [Threads -> 0 .. MaxCount]

(* One thread at a time is where the lock of the condition is needed,      *)
(* whoever comes back from a wait or from a timeout, and a thread that     *)
(* comes back has acquired the RLock as often as before the wait; no count *)
(* and no value leaves its range.                                          *)
MonitorHolds ==
  /\ CTypeOK
  /\ \A t, u \in Threads : at[t] \in Holding /\ at[u] \in Holding => t = u
  /\ block <=> \E t \in Threads : at[t] \in Holding
  /\ \A t \in Threads : at[t] = "in" /\ op[t] = "use" => owner = t /\ count = depth[t]

(* A thread that waits can still be notified: its lock is in the list once *)
(* or a notify is about to release it; and the list holds no lock of a     *)
(* thread that no longer waits once that thread has the lock again.        *)
WaitersAreListed ==
  /\ IsInjective(waiters)
  /\ \A t \in Threads :
       /\ at[t] = "parked" /\ t \notin open => t \in ToSet(waiters)
       /\ t \in ToSet(waiters) => at[t] \in {"save", "saved", "parked", "remove", "reenter"}

(* A notification goes to a thread that waits; only a thread that gives up *)
(* its wait after notify has chosen it can use one up without being woken. *)
OnlyTimeoutsWasteANotify ==
  \A t \in open :
    \/ at[t] = "parked"
    \/ timed[t] /\ at[t] \in {"remove", "reenter", "restore"}

(* When nothing of a semaphore is under way, no thread sleeps while the    *)
(* value would let it in: no release is lost on one that was late.         *)
Asleep(t) == at[t] = "parked" /\ t \notin open
NoReleaseIsLost ==
  kind = "semaphore" /\ (\A t \in Threads : at[t] = "idle" \/ Asleep(t))
    => value = 0 \/ \A t \in Threads : ~Asleep(t)

(* Every thread that waits for an event comes back when it is set and not  *)
(* cleared any more, with or without a timeout.                            *)
EventWakesAll ==
  <>[]flag => \A t \in Threads : op[t] = "wait" ~> at[t] = "idle"
=============================================================================
