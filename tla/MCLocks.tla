------------------------------ MODULE MCLocks -------------------------------
(* Two places where locks are handed from thread to thread, each on its    *)
(* own: the interpreter lock with the import lock, and those of a queue.   *)
EXTENDS Threads, SyncQueue

VARIABLE part

mcVars == <<part, vars, qVars>>

MCInit == /\ part \in {"interpreter", "queue"}
          /\ Init /\ QInit
          /\ part = "interpreter" => maxsize = 0

(* The interpreter is checked for deadlock; the threads at a queue may all *)
(* be waiting, or be done with their puts.                                 *)
MCNext == /\ UNCHANGED part
          /\ \/ part = "interpreter" /\ Next /\ UNCHANGED qVars
             \/ part = "queue" /\ QNext /\ UNCHANGED vars
             \/ part = "queue" /\ UNCHANGED <<vars, qVars>>

MCFairSpec ==
  /\ MCInit /\ [][MCNext]_mcVars
  /\ (part = "interpreter" /\ Fairness) \/ (part = "queue" /\ QFairness)
=============================================================================
