---------------------------- MODULE PendingCalls ----------------------------
(***************************************************************************)
(* The ring of pending calls of the interpreter loop (Python/ceval.c).     *)
(* Registrars (signal handlers, I/O completion routines) run               *)
(* Py_AddPendingCall; the main thread runs the interpreter loop and        *)
(* Py_MakePendingCalls.  A step is one access to shared memory, so any     *)
(* access of one side may fall between any two of the other.  Registrars   *)
(* nest as interrupts do: one that starts while others are in progress     *)
(* runs to its return before they go on ("nested asynchronous registry     *)
(* calls", the race (1) of the code's comment); or, if Parallel, each is a *)
(* thread of its own ("any thread can schedule pending calls"), and they   *)
(* go on in any order.  The main thread is not held up by either.          *)
(***************************************************************************)
EXTENDS Integers, Sequences

CONSTANTS
  NPENDINGCALLS,   (* slots of the ring; 32 in the code                    *)
  Registrars,      (* the asynchronous contexts that register calls        *)
  Calls,           (* the (func, arg) pairs that are registered            *)
  NoCall,          (* what an unwritten slot and an idle registrar hold    *)
  Parallel,        (* do the registrars run beside each other, or nest?    *)
  MaxRegistry      (* bound: no registration starts after so many accepted *)

ASSUME PendingAssumption ==
  /\ NPENDINGCALLS \in Nat \ {0}
  /\ NoCall \notin Calls
  /\ Parallel \in BOOLEAN /\ MaxRegistry \in Nat

VARIABLES
  pendingcalls, pendingfirst, pendinglast, things_to_do,
  addbusy,         (* the static "busy" of Py_AddPendingCall               *)
  makebusy,        (* the static "busy" of Py_MakePendingCalls             *)
  nest,            (* the registrars in progress, the innermost last, when *)
                   (* they nest                                            *)
  at, call, i,     (* per registrar: next access, its call, its local i    *)
  main,            (* next access of the main thread                       *)
  current,         (* what Py_MakePendingCalls has read of the slot        *)
  running,         (* how many func(arg) are active on the main thread     *)
  accepted,        (* history: calls published in the ring, in order       *)
  executed         (* history: (func, arg) pairs called, in order          *)

queueVars == <<pendingcalls, pendingfirst, pendinglast, accepted>>
regVars   == <<nest, at, call, i>>
mainVars  == <<makebusy, main, current, running, executed>>
vars      == <<queueVars, things_to_do, addbusy, regVars, mainVars>>

Slots == 0 .. NPENDINGCALLS - 1
Next_(k) == (k + 1) % NPENDINGCALLS

Empty == [func |-> NoCall, arg |-> NoCall]

(* The points of Py_AddPendingCall, named for the access to come; those    *)
(* between "busy = 1" and "busy = 0" are its critical section.             *)
Critical == {"last", "first", "func", "arg", "publish", "signal", "release"}
Points   == {"idle", "test", "set"} \cup Critical
MainPoints == {"loop", "make", "setbusy", "clear", "fetch", "func", "arg",
               "advance", "done", "fail", "again"}

Init ==
  /\ pendingcalls = [s \in Slots |-> Empty]
  /\ pendingfirst = 0 /\ pendinglast = 0
  /\ things_to_do = 0 /\ addbusy = 0 /\ makebusy = 0
  /\ nest = <<>>
  /\ at = [r \in Registrars |-> "idle"]
  /\ call = [r \in Registrars |-> NoCall]
  /\ i = [r \in Registrars |-> 0]
  /\ main = "loop" /\ current = Empty /\ running = 0
  /\ accepted = <<>> /\ executed = <<>>

-----------------------------------------------------------------------------
(* Py_AddPendingCall *)

MayGoOn(r, point) ==
  at[r] = point /\ (Parallel \/ (nest # <<>> /\ nest[Len(nest)] = r))
Goto(r, point) == at' = [at EXCEPT ![r] = point] /\ UNCHANGED nest
Return(r) == /\ at' = [at EXCEPT ![r] = "idle"]
             /\ nest' = IF Parallel THEN nest ELSE SubSeq(nest, 1, Len(nest) - 1)

(* An event interrupts whatever runs and registers call c. *)
Start(r, c) ==
  /\ at[r] = "idle" /\ Len(accepted) < MaxRegistry
  /\ at' = [at EXCEPT ![r] = "test"]
  /\ nest' = IF Parallel THEN nest ELSE Append(nest, r)
  /\ call' = [call EXCEPT ![r] = c]
  /\ UNCHANGED <<queueVars, things_to_do, addbusy, i, mainVars>>

(* Mutant of TestBusy: wait for busy to be cleared instead of failing. *)
TestBusySpins(r) ==
  /\ MayGoOn(r, "test")
  /\ addbusy = 0
  /\ Goto(r, "set")
  /\ UNCHANGED <<queueVars, things_to_do, addbusy, call, i, mainVars>>

(* if (busy) return -1; *)
TestBusy(r) ==
  /\ MayGoOn(r, "test")
  /\ IF addbusy = 1 THEN Return(r) ELSE Goto(r, "set")
  /\ UNCHANGED <<queueVars, things_to_do, addbusy, call, i, mainVars>>

(* Mutant of SetBusy: the critical section is not marked. *)
SetBusyForgotten(r) ==
  /\ MayGoOn(r, "set")
  /\ Goto(r, "last")
  /\ UNCHANGED <<queueVars, things_to_do, addbusy, call, i, mainVars>>

(* busy = 1; *)
SetBusy(r) ==
  /\ MayGoOn(r, "set")
  /\ addbusy' = 1
  /\ Goto(r, "last")
  /\ UNCHANGED <<queueVars, things_to_do, call, i, mainVars>>

(* i = pendinglast; *)
ReadLast(r) ==
  /\ MayGoOn(r, "last")
  /\ i' = [i EXCEPT ![r] = pendinglast]
  /\ Goto(r, "first")
  /\ UNCHANGED <<queueVars, things_to_do, addbusy, call, mainVars>>

(* Mutant of TestFull: the ring is never found full. *)
TestFullDropped(r) ==
  /\ MayGoOn(r, "first")
  /\ Goto(r, "func")
  /\ UNCHANGED <<queueVars, things_to_do, addbusy, call, i, mainVars>>

(* if (j == pendingfirst) return -1, with busy left at 1 *)
TestFull(r) ==
  /\ MayGoOn(r, "first")
  /\ IF Next_(i[r]) = pendingfirst THEN Return(r) ELSE Goto(r, "func")
  /\ UNCHANGED <<queueVars, things_to_do, addbusy, call, i, mainVars>>

(* pendingcalls[i].func = func; *)
WriteFunc(r) ==
  /\ MayGoOn(r, "func")
  /\ pendingcalls' = [pendingcalls EXCEPT ![i[r]].func = call[r]]
  /\ Goto(r, "arg")
  /\ UNCHANGED <<pendingfirst, pendinglast, accepted, things_to_do, addbusy,
                 call, i, mainVars>>

(* pendingcalls[i].arg = arg; *)
WriteArg(r) ==
  /\ MayGoOn(r, "arg")
  /\ pendingcalls' = [pendingcalls EXCEPT ![i[r]].arg = call[r]]
  /\ Goto(r, "publish")
  /\ UNCHANGED <<pendingfirst, pendinglast, accepted, things_to_do, addbusy,
                 call, i, mainVars>>

(* pendinglast = j; *)
Publish(r) ==
  /\ MayGoOn(r, "publish")
  /\ pendinglast' = Next_(i[r])
  /\ accepted' = Append(accepted, call[r])
  /\ Goto(r, "signal")
  /\ UNCHANGED <<pendingcalls, pendingfirst, things_to_do, addbusy, call, i,
                 mainVars>>

(* things_to_do = 1; *)
SignalLoop(r) ==
  /\ MayGoOn(r, "signal")
  /\ things_to_do' = 1
  /\ Goto(r, "release")
  /\ UNCHANGED <<queueVars, addbusy, call, i, mainVars>>

(* busy = 0; return 0; *)
Release(r) ==
  /\ MayGoOn(r, "release")
  /\ addbusy' = 0
  /\ Return(r)
  /\ UNCHANGED <<queueVars, things_to_do, call, i, mainVars>>

Register(r) == \/ TestBusy(r) \/ SetBusy(r) \/ ReadLast(r) \/ TestFull(r)
               \/ WriteFunc(r) \/ WriteArg(r) \/ Publish(r)
               \/ SignalLoop(r) \/ Release(r)

-----------------------------------------------------------------------------
(* The interpreter loop and Py_MakePendingCalls.  At "loop" the thread is  *)
(* in an interpreter loop: the outer one when running = 0, one started by  *)
(* the pending call it executes otherwise.                                 *)

MainGoto(from, to) == main = from /\ main' = to
asyncVars == <<addbusy, regVars>>

(* if (things_to_do) Py_MakePendingCalls() *)
CheckThings ==
  /\ things_to_do = 1
  /\ MainGoto("loop", "make")
  /\ UNCHANGED <<queueVars, things_to_do, asyncVars, makebusy, current,
                 running, executed>>

(* if (busy) return 0; *)
TestMakeBusy ==
  /\ MainGoto("make", IF makebusy = 1 THEN "loop" ELSE "setbusy")
  /\ UNCHANGED <<queueVars, things_to_do, asyncVars, makebusy, current,
                 running, executed>>

(* busy = 1; *)
SetMakeBusy ==
  /\ MainGoto("setbusy", "clear")
  /\ makebusy' = 1
  /\ UNCHANGED <<queueVars, things_to_do, asyncVars, current, running,
                 executed>>

(* things_to_do = 0; *)
ClearThings ==
  /\ MainGoto("clear", "fetch")
  /\ things_to_do' = 0
  /\ UNCHANGED <<queueVars, asyncVars, makebusy, current, running, executed>>

(* i = pendingfirst; if (i == pendinglast) break; *)
Fetch ==
  /\ MainGoto("fetch", IF pendingfirst = pendinglast THEN "done" ELSE "func")
  /\ UNCHANGED <<queueVars, things_to_do, asyncVars, makebusy, current,
                 running, executed>>

(* func = pendingcalls[i].func; *)
ReadFunc ==
  /\ MainGoto("func", "arg")
  /\ current' = [current EXCEPT !.func = pendingcalls[pendingfirst].func]
  /\ UNCHANGED <<queueVars, things_to_do, asyncVars, makebusy, running,
                 executed>>

(* arg = pendingcalls[i].arg; *)
ReadArg ==
  /\ MainGoto("arg", "advance")
  /\ current' = [current EXCEPT !.arg = pendingcalls[pendingfirst].arg]
  /\ UNCHANGED <<queueVars, things_to_do, asyncVars, makebusy, running,
                 executed>>

(* pendingfirst = (i + 1) % NPENDINGCALLS; and enter func(arg) *)
Advance ==
  /\ MainGoto("advance", "loop")
  /\ pendingfirst' = Next_(pendingfirst)
  /\ running' = running + 1
  /\ executed' = Append(executed, current)
  /\ UNCHANGED <<pendingcalls, pendinglast, accepted, things_to_do,
                 asyncVars, makebusy, current>>

(* func(arg) returns: 0 goes on with the queue, -1 leaves it *)
CallReturns ==
  /\ running > 0
  /\ \/ MainGoto("loop", "fetch")
     \/ MainGoto("loop", "fail")
  /\ running' = running - 1
  /\ UNCHANGED <<queueVars, things_to_do, asyncVars, makebusy, current,
                 executed>>

(* Mutant of ClearMakeBusy: things_to_do is cleared after the drain. *)
ClearBothAfterDrain ==
  /\ \/ MainGoto("done", "loop")
     \/ MainGoto("fail", "again")
  /\ makebusy' = 0 /\ things_to_do' = 0
  /\ UNCHANGED <<queueVars, asyncVars, current, running, executed>>

(* busy = 0; return 0 on the empty queue, or the failure's busy = 0 *)
ClearMakeBusy ==
  /\ \/ MainGoto("done", "loop")
     \/ MainGoto("fail", "again")
  /\ makebusy' = 0
  /\ UNCHANGED <<queueVars, things_to_do, asyncVars, current, running,
                 executed>>

(* Mutant of SetAgain: the rest of the queue is forgotten. *)
SetAgainForgotten ==
  /\ MainGoto("again", "loop")
  /\ UNCHANGED <<queueVars, things_to_do, asyncVars, makebusy, current,
                 running, executed>>

(* things_to_do = 1; return -1, the exception goes to a handler that the  *)
(* interpreter loop runs                                                  *)
SetAgain ==
  /\ MainGoto("again", "loop")
  /\ things_to_do' = 1
  /\ UNCHANGED <<queueVars, asyncVars, makebusy, current, running, executed>>

MakePendingCalls ==
  \/ TestMakeBusy \/ SetMakeBusy \/ ClearThings \/ Fetch \/ ReadFunc
  \/ ReadArg \/ Advance \/ ClearMakeBusy \/ SetAgain

Next == \/ \E r \in Registrars : (\E c \in Calls : Start(r, c)) \/ Register(r)
        \/ CheckThings
        \/ MakePendingCalls
        \/ CallReturns

Spec == Init /\ [][Next]_vars

(* Handlers return: a storm of later handlers does not keep an interrupted *)
(* one from ever going on.  The interpreter loop turns.  A pending call    *)
(* ends although its own interpreter loop may look at things_to_do between *)
(* any two of its steps, hence the strong form.                            *)
Fairness ==
  /\ \A r \in Registrars : SF_vars(Register(r))
  /\ WF_vars(CheckThings)
  /\ WF_vars(MakePendingCalls)
  /\ SF_vars(CallReturns)

FairSpec == Spec /\ Fairness

-----------------------------------------------------------------------------
(* Properties *)

(* How many slots are in use, and the k-th of them, from the oldest.       *)
Used == IF pendinglast >= pendingfirst
        THEN pendinglast - pendingfirst
        ELSE pendinglast - pendingfirst + NPENDINGCALLS
SlotOf(k) == IF pendingfirst + k < NPENDINGCALLS
             THEN pendingfirst + k
             ELSE pendingfirst + k - NPENDINGCALLS
Pair(c) == [func |-> c, arg |-> c]

(* The variables have the values the code can give them; the local i of a  *)
(* registrar always indexes the array.                                     *)
TypeOK ==
  /\ pendingcalls \in [Slots -> [func : Calls \cup {NoCall},
                                 arg : Calls \cup {NoCall}]]
  /\ pendingfirst \in Slots /\ pendinglast \in Slots
  /\ things_to_do \in {0, 1} /\ addbusy \in {0, 1} /\ makebusy \in {0, 1}
  /\ nest \in Seq(Registrars)
  /\ at \in [Registrars -> Points]
  /\ call \in [Registrars -> Calls \cup {NoCall}]
  /\ i \in [Registrars -> Slots]
  /\ main \in MainPoints
  /\ current \in [func : Calls \cup {NoCall}, arg : Calls \cup {NoCall}]
  /\ running \in Nat
  /\ accepted \in Seq(Calls)
  /\ executed \in Seq([func : Calls \cup {NoCall}, arg : Calls \cup {NoCall}])

(* Nested asynchronous registrations never share the critical section of   *)
(* Py_AddPendingCall, though "busy" is tested and set in two accesses: the *)
(* one that comes between the two returns before the outer one goes on.    *)
(* The comment that calls the code unsafe against them is wrong in this;   *)
(* of registrations that run in parallel it is not mentioned and not true. *)
OneRegistrarInside ==
  \A r, s \in Registrars : at[r] \in Critical /\ at[s] \in Critical => r = s

(* Every call whose registration was published is executed or waits in the *)
(* ring, in the order of registration, its func with its own arg: no call  *)
(* is lost, duplicated, reordered or torn, however registrations nest and  *)
(* meet Py_MakePendingCalls.  So a registration "succeeds" when the answer *)
(* is 0, and what nesting costs is a refusal of the inner one.  When they  *)
(* run in parallel on two threads this does not hold.                      *)
NothingLost ==
  /\ Len(accepted) = Len(executed) + Used
  /\ \A k \in 1 .. Len(executed) : executed[k] = Pair(accepted[k])
  /\ \A k \in 0 .. Used - 1 :
       pendingcalls[SlotOf(k)] = Pair(accepted[Len(executed) + 1 + k])

(* While the interpreter loop runs and a call waits, things_to_do is set,  *)
(* or the registration that published it is about to set it, or a drain is *)
(* under way that will see it: a wakeup is never lost between the clearing *)
(* of the flag and the emptying of the ring.                               *)
NoLostWakeup ==
  pendingfirst # pendinglast /\ main \in {"loop", "make", "setbusy", "clear", "done"}
                             /\ running = 0
    => \/ things_to_do = 1
       \/ \E r \in Registrars : at[r] = "signal"

(* A pending call whose own interpreter loop finds things_to_do set does   *)
(* not start the next pending call inside itself.                          *)
OneCallAtATime == running <= 1

(* The ring implements the bounded queue that loses nothing.               *)
Waiting == [k \in 1 .. Used |-> pendingcalls[SlotOf(k - 1)]]
Queue == INSTANCE CallQueue WITH Items <- {Pair(c) : c \in Calls},
                                 limit <- {NPENDINGCALLS - 1},
                                 queue <- Waiting, done <- executed
ImplementsQueue == Queue!LiveSpec

(* Every registration comes to its return, whether it is accepted or not.  *)
RegistrationReturns ==
  \A r \in Registrars : at[r] # "idle" ~> at[r] = "idle"

(* "busy" of Py_AddPendingCall marks the critical section between the      *)
(* comments "Begin critical section" and "End critical section".  The code *)
(* leaves the section with busy still 1 when the queue is full, so this    *)
(* does not hold of it.                                                    *)
BusyMarksCriticalSection ==
  addbusy = 1 => \E r \in Registrars : at[r] \in Critical
=============================================================================
