--------------------------- MODULE Signals_proofs ---------------------------
(***************************************************************************)
(* Proofs about Signals: every variable keeps its type; a signal is        *)
(* forgotten only when it came behind a scan, and no arrival is handled    *)
(* twice, for any number of signals, arrivals and nested scans.            *)
(***************************************************************************)
EXTENDS Signals, SequenceTheorems, TLAPS

Scan == [i : 1 .. NSIG, byCall : BOOLEAN]

(* A call of PyErr_CheckSignals is pushed on top of the others, or the top *)
(* one ends: the others stay as they are.                                  *)
LEMMA Entering ==
  ASSUME scans \in Seq(Scan), NEW b \in BOOLEAN, Enters(b)
  PROVE  /\ scans' \in Seq(Scan) /\ Len(scans') = Len(scans) + 1
         /\ Len(scans') <= MaxScans /\ pc' = "test"
         /\ scans'[Len(scans')].i = 1
         /\ \A k \in 1 .. Len(scans) : scans'[k] = scans[k]
<1> DEFINE new == [i |-> 1, byCall |-> b]
<1>1. new \in Scan /\ new.i = 1
  BY SignalsAssumption DEF Scan
<1>2. Len(scans) < MaxScans /\ scans' = Append(scans, new) /\ pc' = "test"
  BY DEF Enters
<1>3. Len(scans) \in Nat /\ MaxScans \in Nat
  BY LenProperties, SignalsAssumption
<1> HIDE DEF new
<1>4. /\ scans' \in Seq(Scan) /\ Len(scans') = Len(scans) + 1
      /\ \A k \in 1 .. Len(scans) : scans'[k] = scans[k]
      /\ scans'[Len(scans) + 1] = new
  BY <1>1, <1>2, AppendProperties
<1>5. QED BY <1>1, <1>2, <1>3, <1>4

LEMMA Leaving ==
  ASSUME scans \in Seq(Scan), scans # <<>>, Leaves
  PROVE  /\ scans' \in Seq(Scan) /\ Len(scans') = Len(scans) - 1
         /\ pc' = IF scans' = <<>> THEN "run" ELSE "handler"
         /\ \A k \in 1 .. Len(scans') : scans'[k] = scans[k]
<1>1. Len(scans) \in Nat /\ Len(scans) > 0 /\ scans \in [1 .. Len(scans) -> Scan]
  BY EmptySeq, LenProperties
<1> DEFINE n == Len(scans) - 1
<1>2. n \in Nat /\ \A k \in 1 .. n : scans[k] \in Scan
  BY <1>1
<1>3. scans' = SubSeq(scans, 1, n) /\ pc' = IF scans' = <<>> THEN "run" ELSE "handler"
  BY DEF Leaves, Outer
<1> HIDE DEF n
<1>4. /\ SubSeq(scans, 1, n) \in Seq(Scan)
      /\ Len(SubSeq(scans, 1, n)) = IF 1 <= n THEN n - 1 + 1 ELSE 0
      /\ \A k \in 1 .. n - 1 + 1 : SubSeq(scans, 1, n)[k] = scans[1 + k - 1]
  BY <1>2, SubSeqProperties
<1>5. Len(scans') = n /\ \A k \in 1 .. n : scans'[k] = scans[k]
  BY <1>2, <1>3, <1>4
<1>6. QED BY <1>3, <1>4, <1>5 DEF n

LEMMA Advancing ==
  ASSUME scans \in Seq(Scan), scans # <<>>, top.i < NSIG, Advance
  PROVE  /\ scans' \in Seq(Scan) /\ Len(scans') = Len(scans)
         /\ scans'[Len(scans)].i = top.i + 1
         /\ \A k \in 1 .. Len(scans) - 1 : scans'[k] = scans[k]
<1> DEFINE n == Len(scans)
           new == [top EXCEPT !.i = @ + 1]
<1>1. n \in Nat /\ n > 0 /\ scans \in [1 .. n -> Scan]
  BY EmptySeq, LenProperties
<1>2. top \in Scan /\ top.i + 1 \in 1 .. NSIG
  <2>1. scans[n] \in Scan
    BY <1>1
  <2>2. QED BY <2>1, SignalsAssumption DEF top, Scan
<1>3. new \in Scan /\ new.i = top.i + 1
  BY <1>2 DEF Scan
<1>4. scans' = [scans EXCEPT ![n] = new]
  BY DEF Advance, top
<1> HIDE DEF n, new
<1>5. /\ scans' \in Seq(Scan) /\ Len(scans') = Len(scans)
      /\ \A k \in 1 .. n : scans'[k] = IF k = n THEN new ELSE scans[k]
  <2>1. n \in 1 .. Len(scans)
    BY <1>1 DEF n
  <2>2. QED BY <1>3, <1>4, <2>1, ExceptSeq DEF n
<1>6. /\ scans'[n].i = top.i + 1
      /\ \A k \in 1 .. n - 1 : scans'[k] = scans[k]
  BY <1>1, <1>3, <1>5
<1>7. QED BY <1>5, <1>6 DEF n

LEMMA TopIsScan ==
  ASSUME scans \in Seq(Scan)
  PROVE  /\ Len(scans) \in Nat /\ (scans = <<>> <=> Len(scans) = 0)
         /\ \A k \in 1 .. Len(scans) : scans[k] \in Scan /\ scans[k].i \in 1 .. NSIG
         /\ scans # <<>> => top.i \in 1 .. NSIG
<1>1. Len(scans) \in Nat /\ scans \in [1 .. Len(scans) -> Scan]
  BY LenProperties
<1>2. scans = <<>> <=> Len(scans) = 0
  BY EmptySeq
<1>3. \A k \in 1 .. Len(scans) : scans[k] \in Scan /\ scans[k].i \in 1 .. NSIG
  BY <1>1 DEF Scan
<1>4. QED BY <1>1, <1>2, <1>3 DEF top

-----------------------------------------------------------------------------
(* The inductive invariant: the nesting of the scans, the types of the     *)
(* rest, what is noted about a signal that is not overrun, and the counts. *)

FlowInv ==
  /\ scans \in Seq(Scan) /\ Len(scans) <= MaxScans
  /\ pc \in {"run", "test", "scan", "handler"}
  /\ pc = "run" <=> scans = <<>>
  /\ pc = "handler" => top.i \in Numbers
  /\ \A k \in 1 .. Len(scans) - 1 : scans[k].i \in Numbers

DataInv ==
  /\ is_tripped \in BOOLEAN /\ tripped \subseteq Numbers
  /\ calls \in 0 .. RingSize
  /\ arrived \in [Numbers -> 0 .. MaxArrivals] /\ handled \in [Numbers -> Nat]
  /\ overrun \subseteq tripped /\ busy \in BOOLEAN /\ late \in BOOLEAN

(* A signal that is not overrun keeps is_tripped set, and every scan under *)
(* way has yet to come to it.                                              *)
SeenInv ==
  \A s \in tripped \ overrun :
    is_tripped /\ \A k \in 1 .. Len(scans) : ~Passed(k, s)

CountInv ==
  \A s \in Numbers : handled[s] + (IF s \in tripped THEN 1 ELSE 0) <= arrived[s]

SignalsInv == FlowInv /\ DataInv /\ SeenInv /\ CountInv

LEMMA InvMeansType == FlowInv /\ DataInv => TypeOK
BY DEF FlowInv, DataInv, TypeOK, Scan

(* A call begins: the one it nests in waits in its handler. *)
LEMMA FlowEnters ==
  ASSUME FlowInv, SeenInv, pc \in {"run", "handler"}, NEW b \in BOOLEAN, Enters(b),
         UNCHANGED <<is_tripped, tripped, overrun>>, tripped \subseteq Numbers
  PROVE  FlowInv' /\ SeenInv'
<1>1. /\ scans' \in Seq(Scan) /\ Len(scans') = Len(scans) + 1
      /\ Len(scans') <= MaxScans /\ pc' = "test" /\ scans'[Len(scans')].i = 1
      /\ \A k \in 1 .. Len(scans) : scans'[k] = scans[k]
  BY Entering DEF FlowInv
<1>2. Len(scans) \in Nat /\ (scans = <<>> <=> Len(scans) = 0)
  BY TopIsScan DEF FlowInv
<1>3. scans' # <<>>
  BY <1>1, <1>2, EmptySeq
<1>4. \A k \in 1 .. Len(scans') - 1 : scans'[k].i \in Numbers
  <2>1. SUFFICES ASSUME NEW k \in 1 .. Len(scans) PROVE scans[k].i \in Numbers
    BY <1>1, <1>2
  <2>2. CASE k = Len(scans)
    BY <1>2, <2>2 DEF FlowInv, top
  <2>3. CASE k # Len(scans)
    BY <1>2, <2>3 DEF FlowInv
  <2>4. QED BY <2>2, <2>3
<1>5. FlowInv'
  BY <1>1, <1>3, <1>4 DEF FlowInv
<1>6. SeenInv'
  <2>1. SUFFICES ASSUME NEW s \in tripped \ overrun, NEW k \in 1 .. Len(scans')
                 PROVE  is_tripped /\ ~Passed(k, s)'
    BY DEF SeenInv
  <2>2. is_tripped /\ \A j \in 1 .. Len(scans) : ~Passed(j, s)
    BY DEF SeenInv
  <2>3. s \in Nat /\ s >= 1
    BY SignalsAssumption DEF Numbers
  <2>4. CASE k = Len(scans')
    BY <1>1, <1>2, <2>2, <2>3, <2>4 DEF Passed
  <2>5. CASE k # Len(scans')
    <3>1. k \in 1 .. Len(scans) /\ scans'[k] = scans[k]
      BY <1>1, <1>2, <2>5
    <3>2. pc = "handler"
      BY <1>2, <3>1 DEF FlowInv
    <3>3. ~(s < scans[k].i) /\ s # scans[k].i
      BY <2>2, <3>1, <3>2 DEF Passed
    <3>4. QED BY <2>2, <3>1, <3>3 DEF Passed
  <2>6. QED BY <2>4, <2>5
<1>7. QED BY <1>5, <1>6

(* A call ends: the one it was nested in is in its handler again. *)
LEMMA FlowLeaves ==
  ASSUME FlowInv, scans # <<>>, Leaves
  PROVE  FlowInv' /\ \A k \in 1 .. Len(scans'), s \in Numbers : Passed(k, s)' => Passed(k, s)
<1>1. /\ scans' \in Seq(Scan) /\ Len(scans') = Len(scans) - 1
      /\ pc' = IF scans' = <<>> THEN "run" ELSE "handler"
      /\ \A k \in 1 .. Len(scans') : scans'[k] = scans[k]
  BY Leaving DEF FlowInv
<1>2. Len(scans) \in Nat /\ Len(scans) > 0 /\ MaxScans \in Nat
  BY TopIsScan, SignalsAssumption DEF FlowInv
<1>3. scans' = <<>> <=> Len(scans') = 0
  BY <1>1, EmptySeq
<1>4. \A k \in 1 .. Len(scans') : scans'[k].i \in Numbers
  BY <1>1, <1>2 DEF FlowInv
<1>5. pc' = "handler" => scans'[Len(scans')].i \in Numbers
  BY <1>1, <1>2, <1>3, <1>4
<1>6. FlowInv'
  BY <1>1, <1>2, <1>3, <1>4, <1>5 DEF FlowInv, top
<1>7. \A k \in 1 .. Len(scans'), s \in Numbers : Passed(k, s)' => Passed(k, s)
  BY <1>1, <1>2 DEF Passed
<1>8. QED BY <1>6, <1>7

(* The scan on top goes on to the next number. *)
LEMMA FlowAdvances ==
  ASSUME FlowInv, pc \in {"scan", "handler"}, pc' = "scan", top.i < NSIG, Advance
  PROVE  /\ FlowInv'
         /\ \A k \in 1 .. Len(scans'), s \in Numbers :
              Passed(k, s)' => Passed(k, s) \/ s = top.i
         /\ Len(scans') = Len(scans)
<1>1. scans # <<>> /\ Len(scans) \in Nat /\ Len(scans) > 0
  BY TopIsScan DEF FlowInv
<1>2. /\ scans' \in Seq(Scan) /\ Len(scans') = Len(scans)
      /\ scans'[Len(scans)].i = top.i + 1
      /\ \A k \in 1 .. Len(scans) - 1 : scans'[k] = scans[k]
  BY <1>1, Advancing DEF FlowInv
<1>3. scans' # <<>>
  BY <1>1, <1>2, EmptySeq
<1>4. FlowInv'
  BY <1>1, <1>2, <1>3 DEF FlowInv
<1>5. top.i \in Nat
  BY <1>1, TopIsScan DEF FlowInv
<1>6. ASSUME NEW k \in 1 .. Len(scans'), NEW s \in Numbers, Passed(k, s)'
      PROVE  Passed(k, s) \/ s = top.i
  <2>1. s \in Nat
    BY SignalsAssumption DEF Numbers
  <2>2. CASE k = Len(scans)
    BY <1>2, <1>5, <1>6, <2>1, <2>2 DEF Passed, top
  <2>3. CASE k # Len(scans)
    <3>1. k \in 1 .. Len(scans) - 1 /\ scans'[k] = scans[k] /\ k < Len(scans)
      BY <1>1, <1>2, <2>3
    <3>2. QED BY <1>6, <3>1, <1>2 DEF Passed
  <2>4. QED BY <2>2, <2>3
<1>7. QED BY <1>2, <1>4, <1>6

LEMMA InvInit == Init => SignalsInv
<1> SUFFICES ASSUME Init PROVE SignalsInv
  OBVIOUS
<1>1. scans = <<>> /\ scans \in Seq(Scan) /\ Len(scans) = 0
  BY EmptySeq DEF Init
<1>2. FlowInv
  BY <1>1, SignalsAssumption DEF Init, FlowInv
<1>3. DataInv
  <2>1. 0 \in 0 .. RingSize /\ 0 \in 0 .. MaxArrivals /\ 0 \in Nat
    BY SignalsAssumption
  <2>2. /\ arrived \in [Numbers -> 0 .. MaxArrivals] /\ handled \in [Numbers -> Nat]
    BY <2>1 DEF Init
  <2>3. QED BY <2>1, <2>2 DEF Init, DataInv
<1>4. SeenInv /\ CountInv
  BY DEF Init, SeenInv, CountInv
<1>5. QED BY <1>2, <1>3, <1>4 DEF SignalsInv

LEMMA InvNext == SignalsInv /\ [Next]_vars => SignalsInv'
<1> SUFFICES ASSUME SignalsInv, [Next]_vars PROVE SignalsInv'
  OBVIOUS
<1> USE DEF ringVars
<1>0. /\ FlowInv /\ DataInv /\ SeenInv /\ CountInv
      /\ Len(scans) \in Nat /\ tripped \subseteq Numbers
      /\ RingSize \in Nat /\ MaxArrivals \in Nat /\ NSIG \in Nat
  BY TopIsScan, SignalsAssumption DEF SignalsInv, FlowInv, DataInv
<1>1. ASSUME NEW s \in Numbers, signal_handler(s) PROVE SignalsInv'
  <2>1. /\ is_tripped' = TRUE /\ tripped' = tripped \cup {s}
        /\ overrun' = IF \E k \in DOMAIN scans : Passed(k, s)
                      THEN overrun \cup {s} ELSE overrun
        /\ arrived[s] < MaxArrivals /\ arrived' = [arrived EXCEPT ![s] = @ + 1]
        /\ UNCHANGED <<pc, scans, handled>>
        /\ calls' = IF busy \/ calls = RingSize THEN calls ELSE calls + 1
        /\ busy' = (busy \/ calls = RingSize) /\ late' = (late \/ busy)
    BY <1>1 DEF signal_handler, Trip, AddPendingCall
  <2>2. FlowInv'
    BY <1>0, <2>1 DEF FlowInv, top
  <2>3. DataInv'
    BY <1>0, <2>1 DEF DataInv
  <2>4. SeenInv'
    <3>1. SUFFICES ASSUME NEW t \in tripped' \ overrun', NEW k \in 1 .. Len(scans)
                   PROVE  ~Passed(k, t)
      BY <2>1 DEF SeenInv, Passed
    <3>2. DOMAIN scans = 1 .. Len(scans)
      BY <1>0, LenProperties DEF FlowInv
    <3>3. CASE t \in tripped \ overrun
      BY <1>0, <3>3 DEF SeenInv
    <3>4. CASE t \notin tripped \ overrun
      BY <2>1, <3>1, <3>2, <3>4
    <3>5. QED BY <3>3, <3>4
  <2>5. CountInv'
    BY <1>0, <2>1 DEF CountInv, DataInv
  <2>6. QED BY <2>2, <2>3, <2>4, <2>5 DEF SignalsInv
<1>2. ASSUME NEW s \in Numbers, pc \in {"run", "handler"}, Forget(s), s \in tripped,
             UNCHANGED <<is_tripped, ringVars, pc, scans, arrived>>,
             handled' \in {handled, [handled EXCEPT ![s] = @ + 1]}
      PROVE  SignalsInv'
  <2>1. tripped' = tripped \ {s} /\ overrun' = overrun \ {s}
    BY <1>2 DEF Forget
  <2>2. FlowInv'
    BY <1>0, <1>2 DEF FlowInv, top
  <2>3. DataInv'
    BY <1>0, <1>2, <2>1 DEF DataInv
  <2>4. SeenInv'
    BY <1>0, <1>2, <2>1 DEF SeenInv, Passed
  <2>5. CountInv'
    BY <1>0, <1>2, <2>1 DEF CountInv, DataInv
  <2>6. QED BY <2>2, <2>3, <2>4, <2>5 DEF SignalsInv
<1>3. CASE RunPendingCall
  <2>1. /\ pc \in {"run", "handler"} /\ Enters(TRUE) /\ calls > 0 /\ calls' = calls - 1
        /\ UNCHANGED <<busy, late, is_tripped, tripped, arrived, handled, overrun>>
    BY <1>3 DEF RunPendingCall
  <2>2. FlowInv' /\ SeenInv'
    BY <1>0, <2>1, FlowEnters
  <2>3. DataInv' /\ CountInv'
    BY <1>0, <2>1 DEF DataInv, CountInv
  <2>4. QED BY <2>2, <2>3 DEF SignalsInv
<1>4. CASE CallDirectly
  <2>1. /\ pc \in {"run", "handler"} /\ Enters(FALSE)
        /\ UNCHANGED <<is_tripped, tripped, ringVars, arrived, handled, overrun>>
    BY <1>4 DEF CallDirectly
  <2>2. FlowInv' /\ SeenInv'
    BY <1>0, <2>1, FlowEnters
  <2>3. DataInv' /\ CountInv'
    BY <1>0, <2>1 DEF DataInv, CountInv
  <2>4. QED BY <2>2, <2>3 DEF SignalsInv
<1>5. ASSUME scans # <<>>, Leaves, UNCHANGED <<tripped, ringVars, arrived, handled, overrun>>,
             \/ is_tripped' = is_tripped
             \/ is_tripped' = FALSE /\ tripped \subseteq overrun
      PROVE  SignalsInv'
  <2>1. /\ FlowInv'
        /\ \A k \in 1 .. Len(scans'), s \in Numbers : Passed(k, s)' => Passed(k, s)
        /\ Len(scans') <= Len(scans)
    BY <1>0, <1>5, FlowLeaves, Leaving DEF FlowInv
  <2>2. DataInv' /\ CountInv'
    BY <1>0, <1>5 DEF DataInv, CountInv
  <2>3. Len(scans') \in Nat
    BY <2>1, LenProperties DEF FlowInv
  <2>4. SeenInv'
    BY <1>0, <1>5, <2>1, <2>3 DEF SeenInv
  <2>5. QED BY <2>1, <2>2, <2>4 DEF SignalsInv
<1>6. CASE TestIsTripped
  <2>1. /\ pc = "test" /\ IF is_tripped THEN pc' = "scan" /\ UNCHANGED scans ELSE Leaves
        /\ UNCHANGED <<is_tripped, tripped, ringVars, arrived, handled, overrun>>
        /\ scans # <<>>
    BY <1>0, <1>6 DEF TestIsTripped, FlowInv
  <2>2. CASE ~is_tripped
    BY <1>5, <2>1, <2>2
  <2>3. CASE is_tripped
    <3>1. FlowInv'
      BY <1>0, <2>1, <2>3 DEF FlowInv
    <3>2. DataInv' /\ CountInv'
      BY <1>0, <2>1 DEF DataInv, CountInv
    <3>3. SeenInv'
      BY <1>0, <2>1, <2>3 DEF SeenInv, Passed
    <3>4. QED BY <3>1, <3>2, <3>3 DEF SignalsInv
  <2>4. QED BY <2>2, <2>3
<1>7. ASSUME pc \in {"scan", "handler"}, pc' = "scan", top.i < NSIG, Advance,
             UNCHANGED <<is_tripped, tripped, ringVars, arrived, handled, overrun>>,
             pc = "scan" => top.i \notin tripped
      PROVE  SignalsInv'
  <2>1. /\ FlowInv' /\ Len(scans') = Len(scans)
        /\ \A k \in 1 .. Len(scans'), s \in Numbers :
             Passed(k, s)' => Passed(k, s) \/ s = top.i
    BY <1>0, <1>7, FlowAdvances
  <2>2. DataInv' /\ CountInv'
    BY <1>0, <1>7 DEF DataInv, CountInv
  <2>3. Len(scans) \in 1 .. Len(scans)
    BY <1>0, <1>7, TopIsScan DEF FlowInv
  <2>4. pc = "handler" => Passed(Len(scans), top.i)
    BY DEF Passed, top
  <2>5. top.i \notin tripped \ overrun
    BY <1>0, <1>7, <2>3, <2>4 DEF SeenInv
  <2>6. SeenInv'
    BY <1>0, <1>7, <2>1, <2>5 DEF SeenInv
  <2>7. QED BY <2>1, <2>2, <2>6 DEF SignalsInv
<1>8. CASE SkipUntripped
  BY <1>7, <1>8 DEF SkipUntripped
<1>9. CASE HandlerReturns
  <2>1. top.i < NSIG
    BY <1>0, <1>9 DEF HandlerReturns, FlowInv, Numbers
  <2>2. QED BY <1>7, <1>9, <2>1 DEF HandlerReturns
<1>10. CASE HandlerFails
  <2>1. scans # <<>>
    BY <1>0, <1>10 DEF HandlerFails, FlowInv
  <2>2. QED BY <1>5, <1>10, <2>1 DEF HandlerFails
<1>11. CASE EndScan
  <2>1. scans # <<>> /\ top.i = NSIG /\ pc = "scan"
    BY <1>0, <1>11 DEF EndScan, FlowInv
  <2>2. Len(scans) \in 1 .. Len(scans)
    BY <1>0, <2>1, TopIsScan DEF FlowInv
  <2>3. \A s \in Numbers : Passed(Len(scans), s)
    BY <1>0, <2>1 DEF Passed, top, Numbers
  <2>4. tripped \subseteq overrun
    BY <1>0, <2>2, <2>3 DEF SeenInv
  <2>5. QED BY <1>5, <1>11, <2>1, <2>4 DEF EndScan
<1>12. CASE CallHandler
  <2>1. /\ pc = "scan" /\ pc' = "handler" /\ top.i \in tripped
        /\ tripped' = tripped \ {top.i} /\ overrun' = overrun \ {top.i}
        /\ handled' = [handled EXCEPT ![top.i] = @ + 1]
        /\ UNCHANGED <<is_tripped, ringVars, scans, arrived>>
    BY <1>12 DEF CallHandler, Forget
  <2>2. top.i \in Numbers /\ scans # <<>>
    BY <1>0, <2>1 DEF FlowInv
  <2>3. FlowInv'
    BY <1>0, <2>1, <2>2 DEF FlowInv, top
  <2>4. DataInv'
    BY <1>0, <2>1, <2>2 DEF DataInv
  <2>5. CountInv'
    BY <1>0, <2>1, <2>2 DEF CountInv, DataInv
  <2>6. SeenInv'
    <3>1. ASSUME NEW s \in tripped' \ overrun', NEW k \in 1 .. Len(scans')
          PROVE  is_tripped' /\ ~Passed(k, s)'
      <4>1. s \in tripped \ overrun /\ s # top.i /\ k \in 1 .. Len(scans)
        BY <2>1
      <4>2. is_tripped /\ ~Passed(k, s)
        BY <1>0, <4>1 DEF SeenInv
      <4>3. CASE k = Len(scans)
        BY <2>1, <4>1, <4>2, <4>3 DEF Passed, top
      <4>4. CASE k # Len(scans)
        <5>1. k < Len(scans)
          BY <1>0, <4>1, <4>4 DEF FlowInv
        <5>2. QED BY <2>1, <4>2, <5>1 DEF Passed
      <4>5. QED BY <4>3, <4>4
    <3>2. 1 \in 1 .. Len(scans')
      BY <1>0, <2>1, <2>2 DEF FlowInv
    <3>3. QED BY <3>1, <3>2 DEF SeenInv, Passed
  <2>7. QED BY <2>3, <2>4, <2>5, <2>6 DEF SignalsInv
<1>13. CASE InterruptOccurred
  <2>1. SIGINT \in Numbers
    BY SignalsAssumption DEF Numbers
  <2>2. QED BY <1>2, <1>13, <2>1 DEF InterruptOccurred
<1>14. ASSUME NEW s \in Numbers, signal_signal(s) PROVE SignalsInv'
  BY <1>2, <1>14 DEF signal_signal
<1>15. CASE UNCHANGED vars
  BY <1>0, <1>15 DEF vars, SignalsInv, FlowInv, DataInv, SeenInv, CountInv, Passed, top
<1>16. QED
  BY <1>1, <1>3, <1>4, <1>6, <1>8, <1>9, <1>10, <1>11, <1>12, <1>13, <1>14, <1>15
     DEF Next, CheckSignals

LEMMA InvAlways == Spec => []SignalsInv
<1>1. QED BY InvInit, InvNext, PTL DEF Spec

(* Every variable keeps its type; the index of a scan stays in Handlers,   *)
(* however deep PyErr_CheckSignals nests.                                  *)
THEOREM TypeCorrectness == Spec => []TypeOK
<1>1. SignalsInv => TypeOK
  BY InvMeansType DEF SignalsInv
<1>2. QED BY <1>1, InvAlways, PTL

(* The only signals that is_tripped forgets are those that came behind a   *)
(* scan.                                                                   *)
THEOREM OnlyOverrunsAreLost == Spec => []OnlyOverrunsAreForgotten
<1>1. SignalsInv => OnlyOverrunsAreForgotten
  BY DEF SignalsInv, SeenInv, OnlyOverrunsAreForgotten
<1>2. QED BY <1>1, InvAlways, PTL

(* No arrival of a signal is handled twice. *)
THEOREM NothingIsHandledTwice == Spec => []HandledOncePerArrival
<1>1. SignalsInv => HandledOncePerArrival
  <2>1. SUFFICES ASSUME SignalsInv, NEW s \in Numbers
                 PROVE  handled[s] <= arrived[s]
    BY DEF HandledOncePerArrival
  <2>2. handled[s] \in Nat /\ arrived[s] \in Nat
    BY <2>1, SignalsAssumption DEF SignalsInv, DataInv
  <2>3. QED BY <2>1, <2>2 DEF SignalsInv, CountInv
<1>2. QED BY <1>1, InvAlways, PTL
=============================================================================
