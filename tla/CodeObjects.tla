------------------------------ MODULE CodeObjects ------------------------------
(***************************************************************************)
(* What the compiler and the interpreter have to agree on: how deep blocks *)
(* may nest in a function (Include/frameobject.h), and what the compiler   *)
(* hands over (PyCode_New in Python/compile.c).                            *)
(***************************************************************************)
EXTENDS Naturals

CONSTANT CO_MAXBLOCKS  (* blocks a function may nest, and a frame has room for *)

ASSUME BlocksAssumption == CO_MAXBLOCKS \in Nat \ {0}

(* The code object made of what the compiler has when it ends.             *)
PyCode_New(c) ==
  [code |-> c.code, stacksize |-> c.maxstacklevel, firstlineno |-> c.firstlineno, lnotab |-> c.lnotab]
=============================================================================
