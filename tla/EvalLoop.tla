------------------------------- MODULE EvalLoop -------------------------------
(***************************************************************************)
(* One call of the interpreter (eval_code2 in Python/ceval.c with the      *)
(* stack of blocks of Objects/frameobject.c): it executes the code of one  *)
(* of Programs, an instruction a step.  What an operation on objects does  *)
(* is not modelled but whether it succeeds.  A jump asks the object on top *)
(* of the stack whether it is true, which is an operation as well: it can  *)
(* fail, and the same object may answer otherwise when it is asked again.  *)
(* log keeps the operations and their outcomes in order.                   *)
(***************************************************************************)
EXTENDS StackShapes

CONSTANTS
  Programs,      (* the trees of the functions that are executed            *)
  Compiled(_),   (* what the compiler has made of a function when it ends   *)
  MaxEvents(_)   (* bound: how many operations on objects a function gets to *)

VARIABLES
  program, co,   (* the function and its code object                        *)
  next_instr, stack,
  f_blockstack,  (* of the frame: type, handler and level of each block     *)
  why, retval,   (* how the frame has ended, "NOT" before; and its value    *)
  curexc,        (* the exception that is on its way; None if there is none *)
  exc_type,      (* of the thread: the exception caught last                *)
  f_exc_type,    (* of the frame: what exc_type was before; NULL if unknown *)
  entry_exc,     (* history: exc_type when the frame was entered            *)
  fatal,         (* was Py_FatalError called?                               *)
  log            (* history: the operations on objects and their outcomes   *)

codeVars == <<program, co>>
errVars  == <<curexc, exc_type, f_exc_type, entry_exc>>
evalVars == <<codeVars, next_instr, stack, f_blockstack, why, retval, errVars, fatal, log>>

None == <<"None">>
NULL == <<"NULL">>

(* What is on the value stack: objects, the None that starts a 'finally',  *)
(* the reason to end a block, the three parts of an exception.  Whether an *)
(* object is true is known of constants and of what a comparison gives     *)
(* (Py_True or Py_False); the others have to be asked.                     *)
Object(id, truth) == [kind |-> "object", id |-> id, truth |-> truth]
Constant(id)      == Object(id, IF id \in {None, <<"false">>} THEN "false" ELSE "true")
Mark(kind, id)    == [kind |-> kind, id |-> id, truth |-> "asked"]

(* Functions with an error have no code and are not executed.  The thread  *)
(* may have caught an exception in a frame further out.                    *)
EvalInit ==
  /\ program \in Programs
  /\ LET c == Compiled(program) IN c.errors = 0 /\ co = PyCode_New(c)
  /\ next_instr = 0 /\ stack = <<>> /\ f_blockstack = <<>>
  /\ why = "NOT" /\ retval = NULL /\ curexc = None
  /\ exc_type \in {None, <<"outer">>} /\ f_exc_type = NULL /\ entry_exc = exc_type
  /\ fatal = FALSE /\ log = <<>>

-----------------------------------------------------------------------------
(* Instructions *)

At(op)     == why = "NOT" /\ ~fatal /\ co.code[next_instr + 1].op = op
oparg      == co.code[next_instr + 1].arg
label      == co.code[next_instr + 1].id
After      == NextAddr(co.code, next_instr)
TOP        == Last(stack)
Below(n)   == Dropped(stack, n)

Goes(next, values) ==
  /\ next_instr' = next /\ stack' = values
  /\ UNCHANGED <<codeVars, f_blockstack, why, retval, errVars, fatal>>

(* Mutant: what the thread caught before is kept at every catch.           *)
CatchInAlways(exc) ==
  /\ exc_type' = exc
  /\ f_exc_type' = exc_type

(* set_exc_info: what the thread caught before this frame did is kept. *)
CatchIn(exc) ==
  /\ exc_type' = exc
  /\ f_exc_type' = IF f_exc_type = NULL THEN exc_type ELSE f_exc_type

(* reset_exc_info, at the end of the frame. *)
LeaveFrame(reason, value) ==
  /\ why' = reason /\ retval' = (IF reason = "RETURN" THEN value ELSE NULL)
  /\ stack' = <<>> /\ f_blockstack' = <<>>
  /\ exc_type' = (IF f_exc_type # NULL THEN f_exc_type ELSE exc_type)
  /\ f_exc_type' = NULL
  /\ UNCHANGED next_instr

(* The value stack that the handler of a block finds. *)
HandlerStack(block, values, reason, value, exc) ==
  LET base == DownTo(values, block.b_level) IN
  CASE block.b_type = "SETUP_LOOP" -> base
    [] reason = "EXCEPTION" -> base \o <<Mark("tb", exc), Mark("val", exc), Mark("exc", exc)>>
    [] reason = "RETURN"    -> base \o <<value, Mark("why", <<reason>>)>>
    [] OTHER                -> base \o <<Mark("why", <<reason>>)>>

(* An exception or a pseudo exception unwinds the stack of blocks to the   *)
(* next that handles it.                                                   *)
Unwind(reason, values, value, exc) ==
  LET handlers == {i \in DOMAIN f_blockstack : Handles(f_blockstack[i], reason)}
      block    == f_blockstack[Max(handlers)]
  IN /\ IF handlers = {} THEN LeaveFrame(reason, value) /\ curexc' = exc
        ELSE /\ f_blockstack' = SubSeq(f_blockstack, 1, Max(handlers) - 1)
             /\ stack' = HandlerStack(block, values, reason, value, exc)
             /\ next_instr' = block.b_handler
             /\ curexc' = None
             /\ IF block.b_type = "SETUP_EXCEPT" THEN CatchIn(exc) ELSE UNCHANGED <<exc_type, f_exc_type>>
             /\ UNCHANGED <<why, retval>>
     /\ UNCHANGED <<codeVars, entry_exc, fatal>>

Raise(exc, values) == Unwind("EXCEPTION", values, NULL, exc)

-----------------------------------------------------------------------------
(* Operations on objects *)

(* What an operation gives: an object of which it is known whether it is   *)
(* true (of an index, whether the loop goes on), an object that has to be  *)
(* asked, or an error.                                                     *)
Outcomes(op) ==
  IF op \in {"COMPARE_OP", "EXC_MATCH", "FOR_LOOP", "IS_TRUE"} THEN {"true", "false", "error"}
  ELSE {"asked", "error"}
Event(op, id, out) == [op |-> op, id |-> id, out |-> out]
Records(op, id, out) ==
  /\ Len(log) < MaxEvents(program)
  /\ log' = Append(log, Event(op, id, out))

(* LOAD_CONST alone cannot fail. *)
ObjectOp(op) ==
  /\ At(op)
  /\ IF op = "LOAD_CONST"
     THEN Goes(After, Append(stack, Constant(label))) /\ UNCHANGED log
     ELSE \E out \in Outcomes(op) :
            /\ Records(op, label, out)
            /\ IF out = "error" THEN Raise(<<op>> \o label, Below(Pops(op, oparg)))
               ELSE Goes(After, Below(Pops(op, oparg))
                                \o [i \in 1 .. Pushes(op, oparg) |-> Object(label, out)])

-----------------------------------------------------------------------------
(* Operations on the stack, jumps and blocks *)

StackOp(op) ==
  /\ At(op)
  /\ Goes(After, Shuffled(op, stack))
  /\ UNCHANGED log

Jump(op) ==
  /\ At(op)
  /\ Goes(IF op = "JUMP_FORWARD" THEN After + oparg ELSE oparg, stack)
  /\ UNCHANGED log

(* Mutant: an object that cannot say whether it is true counts as false.   *)
TestedOrFalse(op, answer) ==
  Goes(IF (answer = "true") = (op = "JUMP_IF_TRUE") THEN After + oparg ELSE After, stack)

(* PyObject_IsTrue has answered, or failed. *)
Tested(op, answer) ==
  IF answer = "error" THEN Raise(<<"IS_TRUE">> \o TOP.id, stack)
  ELSE Goes(IF (answer = "true") = (op = "JUMP_IF_TRUE") THEN After + oparg ELSE After, stack)

JumpIf(op) ==
  /\ At(op)
  /\ IF TOP.truth = "asked"
     THEN \E answer \in Outcomes("IS_TRUE") : Records("IS_TRUE", TOP.id, answer) /\ Tested(op, answer)
     ELSE Tested(op, TOP.truth) /\ UNCHANGED log

(* The sequence and the index are followed by the item, or both are gone.  *)
FOR_LOOP ==
  /\ At("FOR_LOOP")
  /\ \E out \in Outcomes("FOR_LOOP") :
       /\ Records("FOR_LOOP", label, out)
       /\ CASE out = "error" -> Raise(<<"FOR_LOOP">> \o label, Below(2))
            [] out = "true"  -> Goes(After, Append(stack, Object(label, "asked")))
            [] out = "false" -> Goes(After + oparg, Below(2))

(* PyFrame_BlockSetup *)
Setup(op) ==
  /\ At(op)
  /\ IF Len(f_blockstack) >= CO_MAXBLOCKS
     THEN fatal' = TRUE /\ UNCHANGED <<f_blockstack, next_instr>>
     ELSE /\ f_blockstack' = Append(f_blockstack, [b_type |-> op, b_handler |-> After + oparg,
                                                   b_level |-> Len(stack)])
          /\ next_instr' = After /\ UNCHANGED fatal
  /\ UNCHANGED <<codeVars, stack, why, retval, errVars, log>>

POP_BLOCK ==
  /\ At("POP_BLOCK")
  /\ IF f_blockstack = <<>>
     THEN fatal' = TRUE /\ UNCHANGED <<f_blockstack, stack, next_instr>>
     ELSE /\ f_blockstack' = Front(f_blockstack)
          /\ stack' = DownTo(stack, Last(f_blockstack).b_level)
          /\ next_instr' = After /\ UNCHANGED fatal
  /\ UNCHANGED <<codeVars, why, retval, errVars, log>>

BREAK_LOOP   == At("BREAK_LOOP") /\ Unwind("BREAK", stack, NULL, None) /\ UNCHANGED log
RETURN_VALUE == At("RETURN_VALUE") /\ Unwind("RETURN", Below(1), TOP, None) /\ UNCHANGED log

(* do_raise: without arguments it is the exception caught last. *)
RAISE_VARARGS ==
  /\ At("RAISE_VARARGS")
  /\ LET exc == IF oparg > 0 THEN <<"raise">> \o stack[Len(stack) - oparg + 1].id
                ELSE IF exc_type = None THEN <<"TypeError">> ELSE exc_type
     IN Raise(exc, Below(oparg))
  /\ UNCHANGED log

(* What the 'finally' interrupted goes on: an exception, a pseudo          *)
(* exception, or nothing.                                                  *)
END_FINALLY ==
  /\ At("END_FINALLY")
  /\ CASE TOP.kind = "why" /\ TOP.id = <<"RETURN">> -> Unwind("RETURN", Below(2), stack[Len(stack) - 1], None)
       [] TOP.kind = "why" /\ TOP.id = <<"BREAK">>  -> Unwind("BREAK", Below(1), NULL, None)
       [] TOP.kind = "exc" -> Raise(TOP.id, Below(3))
       [] TOP.kind = "object" /\ TOP.id = None -> Goes(After, Below(1))
       [] OTHER            -> Raise(<<"'finally' pops bad exception">>, Below(1))
  /\ UNCHANGED log

EvalNext ==
  \/ \E op \in ObjectOps : ObjectOp(op)
  \/ \E op \in StackOps : StackOp(op)
  \/ \E op \in Jumps : Jump(op)
  \/ \E op \in CondJumps : JumpIf(op)
  \/ \E op \in Setups : Setup(op)
  \/ FOR_LOOP \/ POP_BLOCK \/ BREAK_LOOP \/ RETURN_VALUE \/ RAISE_VARARGS \/ END_FINALLY

EvalSpec == EvalInit /\ [][EvalNext]_evalVars

-----------------------------------------------------------------------------
(* The shape of the frame. *)
KindOf(value) == IF value.kind = "why" THEN value.id[1] ELSE value.kind
KindsOf(values) == [i \in 1 .. Len(values) |-> KindOf(values[i])]
FrameShape == Shape(next_instr, KindsOf(stack), f_blockstack)

(* Neither stack of the frame holds more than it has room for, which       *)
(* nothing but the compiler sees to: values as many as it counted, blocks  *)
(* as many as it lets a function nest.  Neither runs empty, the values     *)
(* that a block found below it stay, and no operand is taken for an        *)
(* instruction.                                                            *)
StacksFit == ~fatal /\ (why = "NOT" => Fits(co, FrameShape))

(* A frame leaves the exception that its thread caught last as it was,     *)
(* however many exceptions it caught itself.                               *)
CaughtIsRestored == why # "NOT" => exc_type = entry_exc
=============================================================================
