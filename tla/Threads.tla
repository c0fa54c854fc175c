------------------------------ MODULE Threads ------------------------------
(***************************************************************************)
(* The interpreter lock, the states of the threads and the import lock     *)
(* (Python/ceval.c, pystate.c, import.c, Modules/threadmodule.c).  A       *)
(* thread runs Python code while it holds the interpreter lock and         *)
(* _PyThreadState_Current is its state.  It gives both up, in this order,  *)
(* to let others run, for a call that blocks, to wait for the import lock  *)
(* and for good; it takes them back in the opposite order.  What it does   *)
(* with the lock held is one step; where it has released the lock or has   *)
(* not taken it yet, the other threads may act between any two of its      *)
(* accesses.                                                               *)
(***************************************************************************)
EXTENDS Naturals, FiniteSets

CONSTANTS
  Threads,
  Main,       (* the thread that initialised the interpreter                *)
  NoThread,   (* NULL as a thread state, -1 as the owner of the import lock *)
  MaxLevel    (* bound: how deep the imports of a thread nest               *)

ASSUME ThreadsAssumption ==
  /\ Main \in Threads /\ NoThread \notin Threads /\ MaxLevel \in Nat \ {0}

VARIABLES
  interpreter_lock,    (* "none" until the first thread is started, then    *)
                       (* "free" or "held"; it does not know by whom        *)
  current,             (* _PyThreadState_Current                            *)
  states,              (* the list interp->tstate_head                      *)
  import_lock,         (* is it locked?                                     *)
  import_lock_thread, import_lock_level,
  pc,                  (* where each thread is, see Points                  *)
  goal,                (* what each thread gave up the interpreter lock for *)
  imports,             (* the calls of PyImport_ImportModuleEx of each that *)
                       (* are between lock_import and unlock_import         *)
  fatal,               (* has Py_FatalError been called?                    *)
  head,                (* the local p of zapthreads                         *)
  touched              (* history: has a thread linked or unlinked its      *)
                       (* state while or after Py_Finalize deletes them?    *)

lockVars   == <<interpreter_lock, current>>
importVars == <<import_lock, import_lock_thread, import_lock_level, imports>>
endVars    == <<states, head, touched>>
vars == <<lockVars, importVars, endVars, pc, goal, fatal>>

(* "releasing": the state is swapped out and the lock still held;  "away": *)
(* without it;  "wanting": about to take it;  "taken": with the lock, the  *)
(* state not yet swapped in;  "deleting": the lock given up for good;      *)
(* "zapping" to "freeing": the main thread at the end of Py_Finalize.      *)
Ends   == {"zapping", "zap", "testing", "freeing", "done"}
Points == {"absent", "boot", "run", "releasing", "away", "wanting", "taken",
           "deleting"} \cup Ends
Goals  == {"none", "switch", "block", "import", "end"}

Init ==
  /\ interpreter_lock = "none" /\ current = Main /\ states = {Main}
  /\ import_lock = FALSE /\ import_lock_thread = NoThread
  /\ import_lock_level = 0
  /\ pc = [t \in Threads |-> IF t = Main THEN "run" ELSE "absent"]
  /\ goal = [t \in Threads |-> "none"]
  /\ imports = [t \in Threads |-> 0]
  /\ fatal = FALSE /\ head = NoThread /\ touched = FALSE

Goto(t, point) == pc' = [pc EXCEPT ![t] = point]
FatalUnless(test) == fatal' = (fatal \/ ~test)

(* Py_Finalize has come to PyInterpreterState_Delete; it has freed the     *)
(* interpreter.                                                            *)
Finalizing == pc[Main] \in Ends
ended == pc[Main] = "done"

-----------------------------------------------------------------------------
(* Giving up the interpreter lock and taking it back *)

(* PyThreadState_Swap(NULL) and the check of what it answers: the loop and *)
(* PyEval_ReleaseThread insist on t, PyEval_SaveThread on any state.       *)
SwapOut(t, why) ==
  /\ current' = NoThread
  /\ FatalUnless(\/ current = t
                 \/ why \in {"block", "import"} /\ current # NoThread)
  /\ Goto(t, "releasing")
  /\ goal' = [goal EXCEPT ![t] = why]

(* The loop of the interpreter does it only when there is a lock. *)
GiveOthersAChance(t) ==
  /\ pc[t] = "run" /\ interpreter_lock # "none"
  /\ SwapOut(t, "switch")
  /\ UNCHANGED <<interpreter_lock, importVars, endVars>>

(* Py_BEGIN_ALLOW_THREADS before a call that may block. *)
BeginAllowThreads(t) ==
  /\ pc[t] = "run"
  /\ SwapOut(t, "block")
  /\ UNCHANGED <<interpreter_lock, importVars, endVars>>

After(why) == CASE why = "switch" -> "wanting"
                [] why = "end"    -> "deleting"
                [] OTHER          -> "away"

ReleaseLock(t) ==
  /\ pc[t] = "releasing"
  /\ interpreter_lock' = IF interpreter_lock = "none" THEN "none" ELSE "free"
  /\ Goto(t, After(goal[t]))
  /\ UNCHANGED <<current, goal, fatal, importVars, endVars>>

(* The call that blocks comes back. *)
CallReturns(t) ==
  /\ pc[t] = "away" /\ goal[t] = "block"
  /\ Goto(t, "wanting")
  /\ UNCHANGED <<lockVars, goal, fatal, importVars, endVars>>

(* Mutant: the thread that wants the lock does not wait for it. *)
AcquireLockAnyway(t) ==
  /\ pc[t] = "wanting"
  /\ interpreter_lock' = IF interpreter_lock = "none" THEN "none" ELSE "held"
  /\ Goto(t, "taken")
  /\ UNCHANGED <<current, goal, fatal, importVars, endVars>>

AcquireLock(t) ==
  /\ pc[t] = "wanting" /\ interpreter_lock # "held"
  /\ interpreter_lock' = IF interpreter_lock = "none" THEN "none" ELSE "held"
  /\ Goto(t, "taken")
  /\ UNCHANGED <<current, goal, fatal, importVars, endVars>>

(* PyThreadState_Swap(tstate).  PyEval_RestoreThread does not look at the  *)
(* old state; the loop and PyEval_AcquireThread insist that it is NULL.    *)
(* lock_import goes on to note the owner.                                  *)
SwapIn(t) ==
  /\ pc[t] = "taken"
  /\ current' = t
  /\ FatalUnless(goal[t] \in {"block", "import"} \/ current = NoThread)
  /\ Goto(t, "run") /\ goal' = [goal EXCEPT ![t] = "none"]
  /\ IF goal[t] = "import"
     THEN /\ import_lock_thread' = t /\ import_lock_level' = 1
          /\ imports' = [imports EXCEPT ![t] = 1]
          /\ UNCHANGED import_lock
     ELSE UNCHANGED importVars
  /\ UNCHANGED <<interpreter_lock, endVars>>

-----------------------------------------------------------------------------
(* The life of a thread *)

(* PyEval_InitThreads creates the lock and takes it for the caller.        *)
InitThreads ==
  interpreter_lock' = IF interpreter_lock = "none" THEN "held"
                                                   ELSE interpreter_lock

(* Mutant of start_new_thread: the lock is created free. *)
start_new_threadUnlocked(t, u) ==
  /\ pc[t] = "run" /\ pc[u] = "absent"
  /\ interpreter_lock' = IF interpreter_lock = "none" THEN "free"
                                                      ELSE interpreter_lock
  /\ \/ Goto(u, "boot")
     \/ UNCHANGED pc
  /\ UNCHANGED <<current, goal, fatal, importVars, endVars>>

(* start_new_thread; the system may be unable to start another thread.     *)
start_new_thread(t, u) ==
  /\ pc[t] = "run" /\ pc[u] = "absent"
  /\ InitThreads
  /\ \/ Goto(u, "boot")
     \/ UNCHANGED pc
  /\ UNCHANGED <<current, goal, fatal, importVars, endVars>>

(* PyThreadState_New, which links the state into the list of the           *)
(* interpreter although the thread does not hold the interpreter lock.     *)
(* There is memory for it.                                                 *)
NewState(t) ==
  /\ pc[t] = "boot"
  /\ states' = IF ended THEN states ELSE states \cup {t}
  /\ touched' = (touched \/ Finalizing)
  /\ Goto(t, "wanting") /\ goal' = [goal EXCEPT ![t] = "switch"]
  /\ UNCHANGED <<lockVars, fatal, importVars, head>>

(* The function of the thread returns; PyThreadState_Clear, then           *)
(* PyEval_ReleaseThread.  A call that is in an import has not returned.    *)
EndThread(t) ==
  /\ pc[t] = "run" /\ t # Main /\ imports[t] = 0
  /\ SwapOut(t, "end")
  /\ UNCHANGED <<interpreter_lock, importVars, endVars>>

(* PyThreadState_Delete, again without the interpreter lock.  A state that *)
(* zapthreads has freed, or that is in the list of an interpreter that is  *)
(* freed, is looked for in memory that may hold anything: "invalid         *)
(* tstate", or not.                                                        *)
DeleteState(t) ==
  /\ pc[t] = "deleting"
  /\ states' = IF ended THEN states ELSE states \ {t}
  /\ IF Finalizing
     THEN /\ touched' = TRUE
          /\ fatal' \in IF t \in states /\ ~ended THEN {fatal} ELSE BOOLEAN
     ELSE /\ FatalUnless(current # t /\ t \in states)
          /\ UNCHANGED touched
  /\ Goto(t, "done")
  /\ UNCHANGED <<lockVars, goal, importVars, head>>

(* Py_Finalize, once the modules are gone: the main thread swaps its state *)
(* out and keeps the interpreter lock for good.                            *)
Py_Finalize ==
  /\ pc[Main] = "run" /\ imports[Main] = 0
  /\ current' = NoThread
  /\ Goto(Main, "zapping")
  /\ UNCHANGED <<interpreter_lock, goal, fatal, importVars, endVars>>

(* while ((p = interp->tstate_head) != NULL), read without the mutex of    *)
(* the list.  Which state is the newest is left open.                      *)
zapthreads ==
  /\ pc[Main] = "zapping"
  /\ \/ states = {} /\ Goto(Main, "testing") /\ UNCHANGED head
     \/ head' \in states /\ Goto(Main, "zap")
  /\ UNCHANGED <<lockVars, goal, fatal, importVars, states, touched>>

(* PyThreadState_Delete(p), which the thread of p may have done already.   *)
ZapState ==
  /\ pc[Main] = "zap"
  /\ states' = states \ {head}
  /\ fatal' \in IF head \in states THEN {fatal} ELSE BOOLEAN
  /\ head' = NoThread
  /\ Goto(Main, "zapping")
  /\ UNCHANGED <<lockVars, goal, importVars, touched>>

(* if (interp->tstate_head != NULL) Py_FatalError("remaining threads")     *)
TestRemaining ==
  /\ pc[Main] = "testing"
  /\ FatalUnless(states = {})
  /\ Goto(Main, "freeing")
  /\ UNCHANGED <<lockVars, goal, importVars, endVars>>

(* PyMem_DEL(interp)                                                       *)
FreeInterpreter ==
  /\ pc[Main] = "freeing"
  /\ Goto(Main, "done")
  /\ UNCHANGED <<lockVars, goal, fatal, importVars, endVars>>

PyInterpreterState_Delete ==
  zapthreads \/ ZapState \/ TestRemaining \/ FreeInterpreter

-----------------------------------------------------------------------------
(* The import lock *)

Reenter(t) ==
  /\ import_lock_thread = t /\ import_lock_level < MaxLevel
  /\ import_lock_level' = import_lock_level + 1
  /\ imports' = [imports EXCEPT ![t] = @ + 1]
  /\ UNCHANGED <<import_lock, import_lock_thread, pc, goal, fatal, lockVars>>

(* Mutant: the owner alone tells whether the lock is free. *)
TakeFreeByOwner(t) ==
  /\ import_lock_thread = NoThread
  /\ import_lock' = TRUE
  /\ import_lock_thread' = t /\ import_lock_level' = 1
  /\ imports' = [imports EXCEPT ![t] = 1]
  /\ UNCHANGED <<pc, goal, fatal, lockVars>>

TakeFree(t) ==
  /\ import_lock_thread = NoThread /\ ~import_lock
  /\ import_lock' = TRUE
  /\ import_lock_thread' = t /\ import_lock_level' = 1
  /\ imports' = [imports EXCEPT ![t] = 1]
  /\ UNCHANGED <<pc, goal, fatal, lockVars>>

(* Mutant: the thread waits with the interpreter lock held. *)
WaitInside(t) ==
  /\ import_lock_thread # t
  /\ import_lock_thread # NoThread \/ import_lock
  /\ Goto(t, "away") /\ goal' = [goal EXCEPT ![t] = "import"]
  /\ UNCHANGED <<fatal, lockVars, importVars>>

LeaveToWait(t) ==
  /\ import_lock_thread # t
  /\ import_lock_thread # NoThread \/ import_lock
  /\ SwapOut(t, "import")
  /\ UNCHANGED <<interpreter_lock, importVars>>

lock_import(t) ==
  /\ pc[t] = "run"
  /\ Reenter(t) \/ TakeFree(t) \/ LeaveToWait(t)
  /\ UNCHANGED endVars

(* PyThread_acquire_lock(import_lock, 1), between SaveThread and Restore-  *)
(* Thread: nothing tells yet who has it.                                   *)
TakeImportLock(t) ==
  /\ pc[t] = "away" /\ goal[t] = "import" /\ ~import_lock
  /\ import_lock' = TRUE
  /\ Goto(t, "wanting")
  /\ UNCHANGED <<lockVars, goal, fatal, import_lock_thread, import_lock_level,
                 imports, endVars>>

unlock_import(t) ==
  /\ pc[t] = "run" /\ imports[t] > 0
  /\ FatalUnless(import_lock_thread = t)
  /\ imports' = [imports EXCEPT ![t] = @ - 1]
  /\ import_lock_level' = import_lock_level - 1
  /\ IF import_lock_level' = 0
     THEN import_lock_thread' = NoThread /\ import_lock' = FALSE
     ELSE UNCHANGED <<import_lock_thread, import_lock>>
  /\ UNCHANGED <<lockVars, endVars, pc, goal>>

Step(t) ==
  \/ GiveOthersAChance(t) \/ BeginAllowThreads(t) \/ ReleaseLock(t)
  \/ CallReturns(t) \/ AcquireLock(t) \/ SwapIn(t) \/ NewState(t)
  \/ EndThread(t) \/ DeleteState(t) \/ TakeImportLock(t)
  \/ lock_import(t) \/ unlock_import(t)
  \/ \E u \in Threads : start_new_thread(t, u)

(* The process is about to exit, or aborted; what waits for the lock waits *)
(* on.                                                                     *)
Exiting == ended \/ fatal

Next == \/ /\ ~fatal
           /\ \/ \E t \in Threads : Step(t)
              \/ Py_Finalize \/ PyInterpreterState_Delete
        \/ Exiting /\ UNCHANGED vars

Spec == Init /\ [][Next]_vars

(* The loop of the interpreter gives others a chance again and again, the  *)
(* lock of the system does not pass over one thread for ever, a call that  *)
(* blocks returns, and the code of a module that is imported ends,         *)
(* although its thread may let others run and import others meanwhile.     *)
Fairness ==
  \A t \in Threads : /\ WF_vars(\/ GiveOthersAChance(t) \/ ReleaseLock(t)
                                \/ CallReturns(t) \/ SwapIn(t))
                     /\ SF_vars(AcquireLock(t) \/ TakeImportLock(t))
                     /\ SF_vars(unlock_import(t))
                     /\ SF_vars(imports[t] = 1 /\ unlock_import(t))

FairSpec == Spec /\ Fairness

-----------------------------------------------------------------------------
(* Properties *)

TypeOK ==
  /\ interpreter_lock \in {"none", "free", "held"}
  /\ current \in Threads \cup {NoThread} /\ states \subseteq Threads
  /\ import_lock \in BOOLEAN
  /\ import_lock_thread \in Threads \cup {NoThread}
  /\ import_lock_level \in 0 .. MaxLevel
  /\ pc \in [Threads -> Points] /\ goal \in [Threads -> Goals]
  /\ imports \in [Threads -> 0 .. MaxLevel]
  /\ fatal \in BOOLEAN /\ head \in Threads \cup {NoThread}
  /\ touched \in BOOLEAN

Inside == {t \in Threads : pc[t] \in {"run", "releasing", "taken"}}

(* Once Py_Finalize deletes the states of the threads, no other thread     *)
(* gets the interpreter lock, so none goes on with a state that is freed;  *)
(* only the ends of t_bootstrap that run without the lock touch a state.   *)
EndKeepsOthersOut ==
  Finalizing => Inside = {} /\ current = NoThread

(* Until then, exactly one thread is between taking and releasing the      *)
(* interpreter lock when the lock is held and none when it is free, and    *)
(* the state that is current is that of the thread that runs: no thread    *)
(* ever works with the frame or the exception of another.                  *)
OneRuns ==
  /\ ~Finalizing => /\ \A t, u \in Inside : t = u
                    /\ interpreter_lock = "held" => Inside # {}
                    /\ interpreter_lock = "free" => Inside = {}
                    /\ \A t \in Threads : current = t <=> pc[t] = "run"
  /\ EndKeepsOthersOut

(* The checks of ceval.c, pystate.c and import.c that end in Py_FatalError *)
(* ("tstate mix-up", "orphan tstate", "not holding the import lock", ...)  *)
(* fail in one case only: a thread that begins or ends in t_bootstrap has  *)
(* linked or unlinked its state, without the interpreter lock, while or    *)
(* after Py_Finalize deletes the states ("the threads are all really dead  *)
(* (XXX famous last words)").                                              *)
NoFatalError == fatal => touched

(* Two threads never are inside imports at a time, although the owner of   *)
(* the import lock is noted only after the interpreter lock was taken back *)
(* and other threads run in between; the level counts the imports the      *)
(* owner is in, so the last of them releases the lock and none before.     *)
OneImporter ==
  \A t \in Threads : imports[t] > 0 =>
    /\ import_lock /\ import_lock_thread = t /\ import_lock_level = imports[t]
    /\ \A u \in Threads : imports[u] > 0 => u = t

(* A thread that waits for the import lock runs again, in its import, or   *)
(* Py_Finalize ends all threads: the owner can always get on, since nobody *)
(* waits for the import lock with the interpreter lock held.               *)
ImportGoesOn ==
  \A t \in Threads : goal[t] = "import" ~> imports[t] > 0 \/ Finalizing
=============================================================================
