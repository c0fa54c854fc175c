------------------------------ MODULE Signals -------------------------------
(***************************************************************************)
(* The delivery of signals to Python handlers (Modules/signalmodule.c).    *)
(* signal_handler notes the signal in Handlers[].tripped and is_tripped    *)
(* and registers PyErr_CheckSignals as a pending call; the interpreter     *)
(* calls PyErr_CheckSignals, from the ring or directly, which scans        *)
(* Handlers and runs the Python functions of the tripped ones.  A Python   *)
(* handler is code like any other: it may call PyErr_CheckSignals again,   *)
(* and be interrupted by further signals.                                  *)
(*                                                                         *)
(* A signal interrupts the scan between any two of its accesses to         *)
(* Handlers and is_tripped; signal_handler itself is not interrupted by    *)
(* the scan and is one step.  The ring of pending calls is reduced to the  *)
(* number of calls in it: PendingCalls shows that it loses none it took,   *)
(* and that a registration which finds it full is the last one accepted or *)
(* refused for that reason: "busy" stays set, and refuses all later ones.  *)
(* (One that interrupts another signal_handler is refused too, but then    *)
(* the call of the other comes after both signals were noted.)             *)
(***************************************************************************)
EXTENDS Integers, Sequences, FiniteSets

CONSTANTS
  NSIG,          (* signal numbers are 1 .. NSIG - 1                        *)
  SIGINT,
  RingSize,      (* the calls that the ring holds, one less than its slots  *)
  MaxArrivals,   (* bound: how often each signal arrives                    *)
  MaxScans       (* bound: how deep PyErr_CheckSignals nests                *)

ASSUME SignalsAssumption ==
  /\ NSIG \in Nat /\ NSIG > 1 /\ SIGINT \in 1 .. NSIG - 1
  /\ RingSize \in Nat /\ MaxArrivals \in Nat /\ MaxScans \in Nat

Numbers == 1 .. NSIG - 1

VARIABLES
  is_tripped,    (* is it different from 0?                                 *)
  tripped,       (* the signals with Handlers[].tripped                     *)
  calls,         (* the calls of PyErr_CheckSignals in the ring             *)
  busy,          (* was "busy" of Py_AddPendingCall left set?               *)
  pc,            (* where the interpreter is: "run", "test", "scan" or      *)
                 (* "handler", in the Python function of the last scan      *)
  scans,         (* the calls of PyErr_CheckSignals under way: the i of     *)
                 (* each and whether the ring called it                     *)
  arrived, handled,  (* history: how often each signal came and was handled *)
  overrun,       (* history: signals that came when a scan was past them    *)
  late           (* history: has a signal come with busy set?               *)

ringVars == <<calls, busy, late>>
vars == <<is_tripped, tripped, ringVars, pc, scans, arrived, handled, overrun>>

Init ==
  /\ is_tripped = FALSE /\ tripped = {}
  /\ calls = 0 /\ pc = "run" /\ scans = <<>>
  /\ arrived = [s \in Numbers |-> 0] /\ handled = [s \in Numbers |-> 0]
  /\ overrun = {} /\ busy = FALSE /\ late = FALSE

-----------------------------------------------------------------------------
(* signal_handler and PyErr_SetInterrupt *)

(* The scan number k has read Handlers[s] and will not read it again. *)
Passed(k, s) == \/ s < scans[k].i
                \/ s = scans[k].i /\ (pc = "handler" \/ k < Len(scans))

Trip(s) ==
  /\ arrived[s] < MaxArrivals
  /\ is_tripped' = TRUE
  /\ tripped' = tripped \cup {s}
  /\ overrun' = IF \E k \in DOMAIN scans : Passed(k, s)
                THEN overrun \cup {s} ELSE overrun
  /\ arrived' = [arrived EXCEPT ![s] = @ + 1]
  /\ UNCHANGED <<pc, scans, handled>>

(* Mutant: the pending call is not registered. *)
signal_handlerAlone(s) == Trip(s) /\ UNCHANGED ringVars

(* Py_AddPendingCall: refused when busy; when the ring is full, refused    *)
(* and busy from then on.                                                  *)
AddPendingCall ==
  /\ late' = (late \/ busy)
  /\ busy' = (busy \/ calls = RingSize)
  /\ calls' = IF busy' THEN calls ELSE calls + 1

(* The answer of Py_AddPendingCall is ignored. *)
signal_handler(s) == Trip(s) /\ AddPendingCall

-----------------------------------------------------------------------------
(* PyErr_CheckSignals *)

top    == scans[Len(scans)]
Outer  == SubSeq(scans, 1, Len(scans) - 1)
Enters(byCall) == /\ Len(scans) < MaxScans
                  /\ scans' = Append(scans, [i |-> 1, byCall |-> byCall])
                  /\ pc' = "test"
Leaves == /\ scans' = Outer
          /\ pc' = IF Outer = <<>> THEN "run" ELSE "handler"
Forget(s) == tripped' = tripped \ {s} /\ overrun' = overrun \ {s}

(* Py_MakePendingCalls, which does nothing inside another of its calls.    *)
RunPendingCall ==
  /\ pc \in {"run", "handler"} /\ calls > 0
  /\ \A k \in DOMAIN scans : ~scans[k].byCall
  /\ calls' = calls - 1
  /\ Enters(TRUE)
  /\ UNCHANGED <<busy, late, is_tripped, tripped, arrived, handled, overrun>>

(* From time.sleep, a file operation, long arithmetic. *)
CallDirectly ==
  /\ pc \in {"run", "handler"}
  /\ Enters(FALSE)
  /\ UNCHANGED <<is_tripped, tripped, ringVars, arrived, handled, overrun>>

TestIsTripped ==
  /\ pc = "test"
  /\ IF is_tripped THEN pc' = "scan" /\ UNCHANGED scans ELSE Leaves
  /\ UNCHANGED <<is_tripped, tripped, ringVars, arrived, handled, overrun>>

Advance == scans' = [scans EXCEPT ![Len(scans)].i = @ + 1]

SkipUntripped ==
  /\ pc = "scan" /\ top.i < NSIG /\ top.i \notin tripped
  /\ Advance
  /\ UNCHANGED <<is_tripped, tripped, ringVars, pc, arrived, handled, overrun>>

(* Mutant: tripped is reset when the handler has returned, not before. *)
CallHandlerFirst ==
  /\ pc = "scan" /\ top.i \in tripped
  /\ handled' = [handled EXCEPT ![top.i] = @ + 1]
  /\ pc' = "handler"
  /\ UNCHANGED <<is_tripped, tripped, ringVars, scans, arrived, overrun>>

CallHandler ==
  /\ pc = "scan" /\ top.i \in tripped
  /\ Forget(top.i)
  /\ handled' = [handled EXCEPT ![top.i] = @ + 1]
  /\ pc' = "handler"
  /\ UNCHANGED <<is_tripped, ringVars, scans, arrived>>

HandlerReturns ==
  /\ pc = "handler" /\ pc' = "scan"
  /\ Advance
  /\ UNCHANGED <<is_tripped, tripped, ringVars, arrived, handled, overrun>>

(* Mutant: a handler that fails ends the scan like one that returns. *)
HandlerFailsClears ==
  /\ pc = "handler" /\ Leaves
  /\ is_tripped' = FALSE
  /\ UNCHANGED <<tripped, ringVars, arrived, handled, overrun>>

(* return -1: is_tripped stays set for the signals not scanned. *)
HandlerFails ==
  /\ pc = "handler" /\ Leaves
  /\ UNCHANGED <<is_tripped, tripped, ringVars, arrived, handled, overrun>>

EndScan ==
  /\ pc = "scan" /\ top.i = NSIG
  /\ is_tripped' = FALSE
  /\ Leaves
  /\ UNCHANGED <<tripped, ringVars, arrived, handled, overrun>>

-----------------------------------------------------------------------------
(* The other places that reset Handlers[].tripped *)

(* PyOS_InterruptOccurred, for the prompt: it answers 1. *)
InterruptOccurred ==
  /\ pc \in {"run", "handler"} /\ SIGINT \in tripped
  /\ Forget(SIGINT)
  /\ handled' = [handled EXCEPT ![SIGINT] = @ + 1]
  /\ UNCHANGED <<is_tripped, ringVars, pc, scans, arrived>>

(* signal.signal(s, action) *)
signal_signal(s) ==
  /\ pc \in {"run", "handler"} /\ s \in tripped
  /\ Forget(s)
  /\ UNCHANGED <<is_tripped, ringVars, pc, scans, arrived, handled>>

CheckSignals == \/ TestIsTripped \/ SkipUntripped \/ CallHandler
                \/ EndScan

Next == \/ \E s \in Numbers : signal_handler(s) \/ signal_signal(s)
        \/ RunPendingCall \/ CallDirectly \/ CheckSignals
        \/ HandlerReturns \/ HandlerFails \/ InterruptOccurred

Spec == Init /\ [][Next]_vars

(* The interpreter goes on, a Python handler ends, and the loop of the     *)
(* interpreter comes to its pending calls again and again, whatever other  *)
(* calls of PyErr_CheckSignals the instructions between make.              *)
Fairness == /\ WF_vars(CheckSignals)
            /\ SF_vars(HandlerReturns \/ HandlerFails)
            /\ SF_vars(RunPendingCall)

-----------------------------------------------------------------------------
(* Properties *)

TypeOK ==
  /\ is_tripped \in BOOLEAN /\ tripped \subseteq Numbers
  /\ calls \in 0 .. RingSize
  /\ pc \in {"run", "test", "scan", "handler"}
  /\ scans \in Seq([i : 1 .. NSIG, byCall : BOOLEAN])
  /\ Len(scans) <= MaxScans /\ (pc = "run" <=> scans = <<>>)
  /\ pc \in {"handler"} => top.i \in Numbers
  /\ arrived \in [Numbers -> 0 .. MaxArrivals] /\ handled \in [Numbers -> Nat]
  /\ overrun \subseteq tripped /\ busy \in BOOLEAN /\ late \in BOOLEAN

(* A signal that is tripped while is_tripped is clear can only be one that *)
(* came when a scan was past its number: no other order of arrivals,       *)
(* nested scans and failing handlers forgets a signal.                     *)
OnlyOverrunsAreForgotten == ~is_tripped => tripped \subseteq overrun

(* A signal that came once is not handled twice, in nested scans either.   *)
HandledOncePerArrival == \A s \in Numbers : handled[s] <= arrived[s]

(* As long as no signal comes behind a scan and none after the ring was    *)
(* once found full, every signal is handled (or its handler is replaced),  *)
(* whatever nested calls and failing handlers use up the call that its     *)
(* arrival registered.  The first that finds the ring full is handled by   *)
(* the calls that fill it; those that come later are not registered at     *)
(* all, and wait until something else calls PyErr_CheckSignals.            *)
TrippedIsHandled ==
  [](overrun = {} /\ ~late) => \A s \in Numbers : s \in tripped ~> s \notin tripped
=============================================================================
