----------------------------- MODULE CallQueue ------------------------------
(***************************************************************************)
(* What a queue promises, the pending calls of Python/ceval.c and the one  *)
(* between threads of Lib/Queue.py: what was accepted waits and is taken   *)
(* one by one, in the order it came, each exactly once; no more wait at a  *)
(* time than the queue was made for; what waits is taken in the end.       *)
(***************************************************************************)
EXTENDS Naturals, Sequences

CONSTANT Items        (* what can be accepted                                *)

VARIABLES limit,      (* {n} if at most n can wait, {} if any number can     *)
          queue,      (* accepted and not yet taken                          *)
          done        (* taken, in order                                     *)

Init == /\ limit \subseteq Nat /\ \A m, n \in limit : m = n
        /\ queue = <<>> /\ done = <<>>

Accept(c) == /\ \A n \in limit : Len(queue) < n
             /\ queue' = Append(queue, c)
             /\ UNCHANGED done

Execute == /\ queue # <<>>
           /\ done' = Append(done, Head(queue))
           /\ queue' = Tail(queue)

Next == UNCHANGED limit /\ ((\E c \in Items : Accept(c)) \/ Execute)

Spec == Init /\ [][Next]_<<limit, queue, done>>
LiveSpec == Spec /\ WF_<<limit, queue, done>>(UNCHANGED limit /\ Execute)
=============================================================================
