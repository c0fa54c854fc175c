--------------------------- MODULE Threads_proofs ---------------------------
(***************************************************************************)
(* Proofs about Threads, for any number of threads and any depth of        *)
(* imports: one thread runs at a time, with its own state; one is inside   *)
(* imports; no check that ends in Py_FatalError fails; after Py_Finalize   *)
(* nobody gets the interpreter lock.                                       *)
(***************************************************************************)
EXTENDS Threads, TLAPS

(* The interpreter lock: as OneRuns and EndKeepsOthersOut say; besides,    *)
(* without a lock there is only the main thread, and the lock is not free  *)
(* once the main thread has come to the end of Py_Finalize.                *)
LockInv ==
  /\ \A t, u \in Inside : t = u
  /\ ~Finalizing => /\ interpreter_lock = "held" => Inside # {}
                    /\ interpreter_lock = "free" => Inside = {}
  /\ \A t \in Threads : current = t <=> pc[t] = "run"
  /\ interpreter_lock = "none" => \A t \in Threads \ {Main} : pc[t] = "absent"
  /\ Finalizing => Inside = {} /\ interpreter_lock # "free"

(* The list of states holds those of the threads that have made theirs and *)
(* not deleted it; the main thread keeps its own until Py_Finalize.  From  *)
(* then on a state that zapthreads has read is in the list, and none is    *)
(* once it found the list empty, unless a thread has come in between.      *)
StateInv ==
  /\ ~Finalizing => \A t \in Threads : t \in states <=> pc[t] \notin {"absent", "boot", "done"}
  /\ pc[Main] \notin {"absent", "boot", "deleting"}
  /\ \A t \in Threads \ {Main} : pc[t] \notin Ends \ {"done"}
  /\ goal[Main] # "end"
  /\ pc[Main] = "zap" => head \in states \/ touched
  /\ pc[Main] = "testing" => states = {} \/ touched

(* The import lock has been taken by a thread that has not noted it yet,   *)
(* or by the owner; there is one of both kinds together.                   *)
Pending == {t \in Threads : pc[t] \in {"wanting", "taken"} /\ goal[t] = "import"}
Holders == Pending \cup {t \in Threads : imports[t] > 0}

ImportInv ==
  /\ \A t, u \in Holders : t = u
  /\ Holders # {} => import_lock
  /\ \A t \in Threads : imports[t] > 0 =>
       import_lock_thread = t /\ import_lock_level = imports[t]
  /\ \A t \in Threads : import_lock_thread = t => imports[t] > 0

IInv == TypeOK /\ LockInv /\ StateInv /\ ImportInv /\ NoFatalError

(* Every variable keeps its type. *)
LEMMA TypeStep ==
  ASSUME IInv, NEW t \in Threads, Step(t) PROVE TypeOK'
<1> USE ThreadsAssumption DEF IInv, TypeOK, ImportInv, Finalizing, Ends, ended, Points, Goals, Goto, lockVars, importVars, endVars, FatalUnless
<1>1. CASE GiveOthersAChance(t)
  BY <1>1 DEF GiveOthersAChance, SwapOut
<1>2. CASE BeginAllowThreads(t)
  BY <1>2 DEF BeginAllowThreads, SwapOut
<1>3. CASE ReleaseLock(t)
  BY <1>3 DEF ReleaseLock, After
<1>4. CASE CallReturns(t)
  BY <1>4 DEF CallReturns
<1>5. CASE AcquireLock(t)
  BY <1>5 DEF AcquireLock
<1>6. CASE SwapIn(t)
  BY <1>6 DEF SwapIn
<1>7. CASE NewState(t)
  BY <1>7 DEF NewState
<1>8. CASE EndThread(t)
  BY <1>8 DEF EndThread, SwapOut
<1>9. CASE DeleteState(t)
  BY <1>9 DEF DeleteState
<1>10. CASE TakeImportLock(t)
  BY <1>10 DEF TakeImportLock
<1>11. ASSUME Reenter(t), UNCHANGED endVars PROVE TypeOK'
  BY <1>11 DEF Reenter
<1>12. ASSUME TakeFree(t), UNCHANGED endVars PROVE TypeOK'
  BY <1>12 DEF TakeFree
<1>13. ASSUME pc[t] = "run", LeaveToWait(t), UNCHANGED endVars PROVE TypeOK'
  BY <1>13 DEF LeaveToWait, SwapOut
<1>14. CASE unlock_import(t)
  <2>1. imports[t] \in 1 .. MaxLevel /\ import_lock_level = imports[t]
    BY <1>14 DEF unlock_import
  <2>2. /\ import_lock_level' \in 0 .. MaxLevel
        /\ imports' \in [Threads -> 0 .. MaxLevel]
    BY <1>14, <2>1 DEF unlock_import
  <2>3. import_lock' \in BOOLEAN /\ import_lock_thread' \in Threads \cup {NoThread}
    BY <1>14 DEF unlock_import
  <2>4. fatal' \in BOOLEAN
    BY <1>14 DEF unlock_import
  <2>5. QED BY <1>14, <2>2, <2>3, <2>4 DEF unlock_import
<1>15. ASSUME NEW u \in Threads, start_new_thread(t, u) PROVE TypeOK'
  BY <1>15 DEF start_new_thread, InitThreads
<1>16. CASE lock_import(t)
  BY <1>16, <1>11, <1>12, <1>13 DEF lock_import
<1> HIDE DEF TypeOK
<1>17. QED BY <1>1, <1>2, <1>3, <1>4, <1>5, <1>6, <1>7, <1>8, <1>9, <1>10, <1>14, <1>15, <1>16 DEF Step

(* A thread comes in only when the interpreter lock is free, or as the only one. *)
LEMMA LockStep ==
  ASSUME IInv, NEW t \in Threads, Step(t) PROVE LockInv'
<1> USE ThreadsAssumption DEF IInv, TypeOK, LockInv, Inside, Finalizing, Ends, ended, Points, Goals, Goto, lockVars, importVars, endVars, FatalUnless
<1>1. CASE GiveOthersAChance(t)
  BY <1>1 DEF GiveOthersAChance, SwapOut
<1>2. CASE BeginAllowThreads(t)
  BY <1>2 DEF BeginAllowThreads, SwapOut
<1>3. CASE ReleaseLock(t)
  BY <1>3 DEF ReleaseLock, After
<1>4. CASE CallReturns(t)
  BY <1>4 DEF CallReturns
<1>5. CASE AcquireLock(t)
  BY <1>5 DEF AcquireLock
<1>6. CASE SwapIn(t)
  BY <1>6 DEF SwapIn
<1>7. CASE NewState(t)
  BY <1>7 DEF NewState
<1>8. CASE EndThread(t)
  BY <1>8 DEF EndThread, SwapOut
<1>9. CASE DeleteState(t)
  <2>1. pc[Main] # "deleting" /\ pc[t] = "deleting" /\ t # Main
    BY <1>9 DEF DeleteState, StateInv
  <2>2. pc' = [pc EXCEPT ![t] = "done"] /\ UNCHANGED lockVars
    BY <1>9 DEF DeleteState
  <2>3. QED BY <2>1, <2>2
<1>10. CASE TakeImportLock(t)
  BY <1>10 DEF TakeImportLock
<1>11. ASSUME Reenter(t), UNCHANGED endVars PROVE LockInv'
  BY <1>11 DEF Reenter
<1>12. ASSUME TakeFree(t), UNCHANGED endVars PROVE LockInv'
  BY <1>12 DEF TakeFree
<1>13. ASSUME pc[t] = "run", LeaveToWait(t), UNCHANGED endVars PROVE LockInv'
  BY <1>13 DEF LeaveToWait, SwapOut
<1>14. CASE unlock_import(t)
  BY <1>14 DEF unlock_import
<1>15. ASSUME NEW u \in Threads, start_new_thread(t, u) PROVE LockInv'
  BY <1>15 DEF start_new_thread, InitThreads
<1>16. CASE lock_import(t)
  BY <1>16, <1>11, <1>12, <1>13 DEF lock_import
<1>17. QED BY <1>1, <1>2, <1>3, <1>4, <1>5, <1>6, <1>7, <1>8, <1>9, <1>10, <1>14, <1>15, <1>16 DEF Step

(* The list of states follows the threads. *)
LEMMA StateStep ==
  ASSUME IInv, NEW t \in Threads, Step(t) PROVE StateInv'
<1> USE ThreadsAssumption DEF IInv, TypeOK, StateInv, LockInv, Inside, Finalizing, Ends, ended, Points, Goals, Goto, lockVars, importVars, endVars, FatalUnless
<1>1. CASE GiveOthersAChance(t)
  BY <1>1 DEF GiveOthersAChance, SwapOut
<1>2. CASE BeginAllowThreads(t)
  BY <1>2 DEF BeginAllowThreads, SwapOut
<1>3. CASE ReleaseLock(t)
  BY <1>3 DEF ReleaseLock, After
<1>4. CASE CallReturns(t)
  BY <1>4 DEF CallReturns
<1>5. CASE AcquireLock(t)
  BY <1>5 DEF AcquireLock
<1>6. CASE SwapIn(t)
  BY <1>6 DEF SwapIn
<1>7. CASE NewState(t)
  BY <1>7 DEF NewState
<1>8. CASE EndThread(t)
  BY <1>8 DEF EndThread, SwapOut
<1>9. CASE DeleteState(t)
  BY <1>9 DEF DeleteState
<1>10. CASE TakeImportLock(t)
  BY <1>10 DEF TakeImportLock
<1>11. ASSUME Reenter(t), UNCHANGED endVars PROVE StateInv'
  BY <1>11 DEF Reenter
<1>12. ASSUME TakeFree(t), UNCHANGED endVars PROVE StateInv'
  BY <1>12 DEF TakeFree
<1>13. ASSUME pc[t] = "run", LeaveToWait(t), UNCHANGED endVars PROVE StateInv'
  BY <1>13 DEF LeaveToWait, SwapOut
<1>14. CASE unlock_import(t)
  BY <1>14 DEF unlock_import
<1>15. ASSUME NEW u \in Threads, start_new_thread(t, u) PROVE StateInv'
  BY <1>15 DEF start_new_thread, InitThreads
<1>16. CASE lock_import(t)
  BY <1>16, <1>11, <1>12, <1>13 DEF lock_import
<1>17. QED BY <1>1, <1>2, <1>3, <1>4, <1>5, <1>6, <1>7, <1>8, <1>9, <1>10, <1>14, <1>15, <1>16 DEF Step

(* The import lock is taken only when nobody holds it. *)
LEMMA ImportStep ==
  ASSUME IInv, NEW t \in Threads, Step(t) PROVE ImportInv'
<1> USE ThreadsAssumption DEF IInv, TypeOK, ImportInv, Holders, Pending, Ends, Points, Goals, Goto, lockVars, importVars, endVars, FatalUnless
<1>1. CASE GiveOthersAChance(t)
  BY <1>1 DEF GiveOthersAChance, SwapOut
<1>2. CASE BeginAllowThreads(t)
  BY <1>2 DEF BeginAllowThreads, SwapOut
<1>3. CASE ReleaseLock(t)
  BY <1>3 DEF ReleaseLock, After
<1>4. CASE CallReturns(t)
  BY <1>4 DEF CallReturns
<1>5. CASE AcquireLock(t)
  BY <1>5 DEF AcquireLock
<1>6. CASE SwapIn(t)
  BY <1>6 DEF SwapIn
<1>7. CASE NewState(t)
  BY <1>7 DEF NewState
<1>8. CASE EndThread(t)
  BY <1>8 DEF EndThread, SwapOut
<1>9. CASE DeleteState(t)
  BY <1>9 DEF DeleteState
<1>10. CASE TakeImportLock(t)
  BY <1>10 DEF TakeImportLock
<1>11. ASSUME Reenter(t), UNCHANGED endVars PROVE ImportInv'
  BY <1>11 DEF Reenter
<1>12. ASSUME TakeFree(t), UNCHANGED endVars PROVE ImportInv'
  BY <1>12 DEF TakeFree
<1>13. ASSUME pc[t] = "run", LeaveToWait(t), UNCHANGED endVars PROVE ImportInv'
  BY <1>13 DEF LeaveToWait, SwapOut
<1>14. CASE unlock_import(t)
  BY <1>14 DEF unlock_import
<1>15. ASSUME NEW u \in Threads, start_new_thread(t, u) PROVE ImportInv'
  BY <1>15 DEF start_new_thread, InitThreads
<1>16. CASE lock_import(t)
  BY <1>16, <1>11, <1>12, <1>13 DEF lock_import
<1>17. QED BY <1>1, <1>2, <1>3, <1>4, <1>5, <1>6, <1>7, <1>8, <1>9, <1>10, <1>14, <1>15, <1>16 DEF Step

(* None of the checks fails. *)
LEMMA FatalStep ==
  ASSUME IInv, NEW t \in Threads, Step(t) PROVE NoFatalError'
<1> USE ThreadsAssumption DEF IInv, TypeOK, LockInv, StateInv, ImportInv, Inside, Finalizing, Ends, ended, NoFatalError, Points, Goals, Goto, lockVars, importVars, endVars, FatalUnless
<1>1. CASE GiveOthersAChance(t)
  BY <1>1 DEF GiveOthersAChance, SwapOut
<1>2. CASE BeginAllowThreads(t)
  BY <1>2 DEF BeginAllowThreads, SwapOut
<1>3. CASE ReleaseLock(t)
  BY <1>3 DEF ReleaseLock, After
<1>4. CASE CallReturns(t)
  BY <1>4 DEF CallReturns
<1>5. CASE AcquireLock(t)
  BY <1>5 DEF AcquireLock
<1>6. CASE SwapIn(t)
  BY <1>6 DEF SwapIn
<1>7. CASE NewState(t)
  BY <1>7 DEF NewState
<1>8. CASE EndThread(t)
  BY <1>8 DEF EndThread, SwapOut
<1>9. CASE DeleteState(t)
  BY <1>9 DEF DeleteState
<1>10. CASE TakeImportLock(t)
  BY <1>10 DEF TakeImportLock
<1>11. ASSUME Reenter(t), UNCHANGED endVars PROVE NoFatalError'
  BY <1>11 DEF Reenter
<1>12. ASSUME TakeFree(t), UNCHANGED endVars PROVE NoFatalError'
  BY <1>12 DEF TakeFree
<1>13. ASSUME pc[t] = "run", LeaveToWait(t), UNCHANGED endVars PROVE NoFatalError'
  BY <1>13 DEF LeaveToWait, SwapOut
<1>14. CASE unlock_import(t)
  BY <1>14 DEF unlock_import
<1>15. ASSUME NEW u \in Threads, start_new_thread(t, u) PROVE NoFatalError'
  BY <1>15 DEF start_new_thread, InitThreads
<1>16. CASE lock_import(t)
  BY <1>16, <1>11, <1>12, <1>13 DEF lock_import
<1>17. QED BY <1>1, <1>2, <1>3, <1>4, <1>5, <1>6, <1>7, <1>8, <1>9, <1>10, <1>14, <1>15, <1>16 DEF Step

-----------------------------------------------------------------------------
(* Py_Finalize runs with the interpreter lock held, so nobody else is      *)
(* inside, and keeps it: nobody comes in.                                  *)
LEMMA FinalizeKeeps ==
  ASSUME IInv, Py_Finalize \/ PyInterpreterState_Delete PROVE IInv'
<1> USE ThreadsAssumption DEF IInv, TypeOK, Goto, importVars, lockVars, endVars, Ends, Points, FatalUnless
<1>1. CASE Py_Finalize
  <2> USE <1>1 DEF Py_Finalize
  <2>1. TypeOK'
    OBVIOUS
  <2>2. LockInv'
    BY DEF LockInv, Inside, Finalizing
  <2>3. StateInv'
    BY DEF StateInv, Finalizing
  <2>4. ImportInv'
    BY DEF ImportInv, Holders, Pending
  <2>5. NoFatalError'
    BY DEF NoFatalError
  <2>6. QED BY <2>1, <2>2, <2>3, <2>4, <2>5
<1>2. CASE PyInterpreterState_Delete
  <2> USE <1>2 DEF PyInterpreterState_Delete, zapthreads, ZapState, TestRemaining, FreeInterpreter
  <2>1. TypeOK'
    OBVIOUS
  <2>2. LockInv'
    <3>1. pc[Main] \in Ends /\ pc' = [pc EXCEPT ![Main] = pc'[Main]] /\ pc'[Main] \in Ends
      OBVIOUS
    <3>2. UNCHANGED <<interpreter_lock, current>>
      OBVIOUS
    <3>3. QED BY <3>1, <3>2 DEF LockInv, Inside, Finalizing
  <2>3. StateInv'
    BY DEF StateInv, Finalizing
  <2>4. ImportInv'
    BY DEF ImportInv, Holders, Pending
  <2>5. NoFatalError'
    BY DEF NoFatalError, StateInv
  <2>6. QED BY <2>1, <2>2, <2>3, <2>4, <2>5
<1>3. QED BY <1>1, <1>2

LEMMA StutterKeeps ==
  ASSUME IInv, UNCHANGED vars PROVE IInv'
BY DEF IInv, TypeOK, LockInv, StateInv, ImportInv, NoFatalError, Inside, Holders,
       Pending, Finalizing, vars, lockVars, importVars, endVars

LEMMA InvInit == Init => IInv
<1> SUFFICES ASSUME Init PROVE IInv
  OBVIOUS
<1> USE ThreadsAssumption DEF Init
<1>1. TypeOK
  <2>1. 0 \in 0 .. MaxLevel
    OBVIOUS
  <2>2. pc \in [Threads -> Points] /\ goal \in [Threads -> Goals]
    BY DEF Points, Goals, Ends
  <2>3. imports \in [Threads -> 0 .. MaxLevel] /\ import_lock_level \in 0 .. MaxLevel
    BY <2>1
  <2>4. import_lock \in BOOLEAN /\ fatal \in BOOLEAN /\ touched \in BOOLEAN
    BY Zenon
  <2>5. QED BY <2>2, <2>3, <2>4 DEF TypeOK
<1>2. LockInv
  BY DEF LockInv, Inside, Finalizing, Ends
<1>3. StateInv
  BY DEF StateInv, Finalizing, Ends
<1>4. ImportInv
  <2>1. \A t \in Threads : goal[t] # "import" /\ ~(imports[t] > 0)
    OBVIOUS
  <2>2. Holders = {}
    BY <2>1 DEF Holders, Pending
  <2>3. QED BY <2>1, <2>2 DEF ImportInv
<1>5. NoFatalError
  BY DEF NoFatalError
<1>6. QED BY <1>1, <1>2, <1>3, <1>4, <1>5 DEF IInv

LEMMA InvAlways == Spec => []IInv
<1>1. IInv /\ [Next]_vars => IInv'
  <2> SUFFICES ASSUME IInv, [Next]_vars PROVE IInv'
    OBVIOUS
  <2>1. ASSUME NEW t \in Threads, Step(t) PROVE IInv'
    BY <2>1, TypeStep, LockStep, StateStep, ImportStep, FatalStep DEF IInv
  <2>2. CASE Exiting /\ UNCHANGED vars
    BY <2>2, StutterKeeps
  <2>3. QED BY <2>1, <2>2, FinalizeKeeps, StutterKeeps DEF Next
<1>2. QED BY <1>1, InvInit, PTL DEF Spec

-----------------------------------------------------------------------------
(* Every variable has its type: the level of the import lock stays within  *)
(* the depth to which programs nest their imports.                         *)
THEOREM TypeCorrect == Spec => []TypeOK
BY InvAlways, PTL DEF IInv

(* One thread at a time is between taking and releasing the interpreter    *)
(* lock, and _PyThreadState_Current is the state of the thread that runs;  *)
(* once Py_Finalize deletes the states none is, whatever it was doing.     *)
THEOREM OneRunsAlways == Spec => []OneRuns
<1>1. IInv => EndKeepsOthersOut
  BY ThreadsAssumption DEF IInv, LockInv, TypeOK, EndKeepsOthersOut, Inside
<1>2. IInv => OneRuns
  BY <1>1 DEF IInv, LockInv, OneRuns
<1>3. QED BY <1>2, InvAlways, PTL

(* The checks of PyEval_AcquireThread, PyEval_ReleaseThread, PyEval_Save-  *)
(* Thread, the loop and unlock_import never fail, and those of             *)
(* PyThreadState_Delete and PyInterpreterState_Delete only when a thread   *)
(* has linked or unlinked its state after Py_Finalize began to delete the  *)
(* states.                                                                 *)
THEOREM NoFatalErrorAlways == Spec => []NoFatalError
BY InvAlways, PTL DEF IInv

(* Two threads are never inside imports at a time, and the owner and the   *)
(* level of the import lock are those of the one that is.                  *)
THEOREM OneImporterAlways == Spec => []OneImporter
<1>1. IInv => OneImporter
  BY DEF IInv, ImportInv, OneImporter, Holders
<1>2. QED BY <1>1, InvAlways, PTL
=============================================================================
