----------------------------- MODULE MCWakeups ------------------------------
(* Two places where a wakeup must be neither lost nor given twice, each on *)
(* its own: the pending calls of signals, and the waiters of a condition,  *)
(* a semaphore or an event.                                                *)
EXTENDS Signals, Conditions

VARIABLE part

mcVars == <<part, vars, cVars>>

MCInit == /\ part \in {"signals", "waiters"}
          /\ Init /\ CInit
          /\ part = "signals" => kind = "condition"

MCNext == /\ UNCHANGED part
          /\ \/ part = "signals" /\ Next /\ UNCHANGED cVars
             \/ part = "waiters" /\ CNext /\ UNCHANGED vars

MCFairSpec ==
  /\ MCInit /\ [][MCNext]_mcVars
  /\ (part = "signals" /\ Fairness) \/ (part = "waiters" /\ CFairness)
=============================================================================
