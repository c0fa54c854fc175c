------------------------------- MODULE Compiling ------------------------------
(***************************************************************************)
(* The compiler (Python/compile.c): from the tree of a function to its     *)
(* code, the size of the value stack it says it needs and the table of its *)
(* line numbers.  struct compiling is a record c, and each com_ function   *)
(* an operator from one such record to the next.  Code is addressed by     *)
(* bytes, as jumps are: an instruction with an argument takes three.  A    *)
(* node of the tree is a record with its kind k and its parts by name;     *)
(* tables of constants, names and locals are left out, and an instruction  *)
(* carries the name of the part of the program it came from.               *)
(***************************************************************************)
EXTENDS CodeObjects, Integers, SequencesExt

CONSTANTS
  ArgRange,        (* how many values the argument of an instruction has    *)
  ByteRange,       (* how many values a byte of the line table has          *)
  Py_OptimizeFlag  (* python -O: no SET_LINENO and no assert                *)

ASSUME CompilerAssumption ==
  /\ ArgRange \in Nat \ {0} /\ ByteRange \in Nat \ {0, 1}
  /\ Py_OptimizeFlag \in BOOLEAN

com_init ==
  [code |-> <<>>, block |-> <<>>, loops |-> 0, begin |-> 0, infunction |-> FALSE,
   stacklevel |-> 0, maxstacklevel |-> 0, errors |-> 0,
   lineno |-> 0, firstlineno |-> 0, last_addr |-> 0, last_line |-> 0, lnotab |-> <<>>]

com_error(c) == [c EXCEPT !.errors = @ + 1]
ErrorIf(c, wrong) == IF wrong THEN com_error(c) ELSE c

-----------------------------------------------------------------------------
(* The stack of blocks and the level of the value stack *)

block_push(c, type) ==
  IF Len(c.block) >= CO_MAXBLOCKS THEN com_error(c)
  ELSE [c EXCEPT !.block = Append(@, type)]

block_pop(c, type) ==
  LET bad == c.block = <<>> \/ Last(c.block) # type IN
  ErrorIf([c EXCEPT !.block = IF @ = <<>> THEN @ ELSE Front(@)], bad /\ c.errors = 0)

com_push(c, n) ==
  LET level == c.stacklevel + n IN
  [c EXCEPT !.stacklevel = level, !.maxstacklevel = IF level > @ THEN level ELSE @]

com_pop(c, n) == [c EXCEPT !.stacklevel = IF @ < n THEN 0 ELSE @ - n]

-----------------------------------------------------------------------------
(* The table of line numbers *)

TruncTo(x) == IF x > ByteRange - 1 THEN ByteRange - 1 ELSE x

(* One pair of bytes for each round of the loop of com_set_lineno.         *)
RECURSIVE LnotabPairs(_, _)
LnotabPairs(addr, line) ==
  IF addr <= 0 /\ line <= 0 THEN <<>>
  ELSE <<[addr |-> TruncTo(addr) % ByteRange, line |-> TruncTo(line) % ByteRange]>>
       \o LnotabPairs(addr - TruncTo(addr), line - TruncTo(line))

(* Mutant: the address the last pair is for is forgotten.                  *)
SetLinenoNoAddr(c, lineno) ==
  IF c.firstlineno = 0
  THEN [c EXCEPT !.lineno = lineno, !.firstlineno = lineno, !.last_line = lineno]
  ELSE [c EXCEPT !.lineno = lineno, !.last_line = lineno,
                 !.lnotab = @ \o LnotabPairs(Len(c.code) - c.last_addr, lineno - c.last_line)]

com_set_lineno(c, lineno) ==
  IF c.firstlineno = 0
  THEN [c EXCEPT !.lineno = lineno, !.firstlineno = lineno, !.last_line = lineno]
  ELSE [c EXCEPT !.lineno = lineno, !.last_addr = Len(c.code), !.last_line = lineno,
                 !.lnotab = @ \o LnotabPairs(Len(c.code) - c.last_addr, lineno - c.last_line)]

(* PyCode_Addr2Line: the line of the instruction at address addrq. *)
RECURSIVE LineFrom(_, _, _, _)
LineFrom(lnotab, addrq, addr, line) ==
  IF lnotab = <<>> \/ addr + Head(lnotab).addr > addrq THEN line
  ELSE LineFrom(Tail(lnotab), addrq, addr + Head(lnotab).addr, line + Head(lnotab).line)

PyCode_Addr2Line(co, addrq) == LineFrom(co.lnotab, addrq, 0, co.firstlineno)

-----------------------------------------------------------------------------
(* Emitting code *)

(* The opcode at an address, the instruction it stands for, and the line   *)
(* the compiler took it to be on; the bytes of an argument hold nothing.   *)
Instr(c, op, arg, id) == [op |-> op, arg |-> arg, id |-> id, line |-> c.lineno]
ArgBytes == LET byte == [op |-> "ARG", arg |-> 0, id |-> <<>>, line |-> 0] IN <<byte, byte>>

AddByte(c, op, id) == [c EXCEPT !.code = Append(@, Instr(c, op, 0, id))]
com_addbyte(c, op) == AddByte(c, op, <<op>>)

(* com_addint refuses an argument of which the high byte is no byte.       *)
AddOparg(c, op, arg, id) ==
  ErrorIf([c EXCEPT !.code = @ \o <<Instr(c, op, arg, id)>> \o ArgBytes], arg >= ArgRange)

com_addoparg(c, op, arg) ==
  LET known == IF op = "SET_LINENO" THEN com_set_lineno(c, arg) ELSE c IN
  IF op = "SET_LINENO" /\ Py_OptimizeFlag THEN known ELSE AddOparg(known, op, arg, <<op>>)

com_addopname(c, op, id) == AddOparg(c, op, 0, id)

(* The address of the argument of the instruction that is emitted next. *)
Here(c) == Len(c.code) + 1

(* Forward references to one place are chained through their arguments.    *)
com_addfwref(c, op, anchors) ==
  AddOparg(c, op, IF anchors = {} THEN 0 ELSE Here(c) - Max(anchors), <<op>>)

(* Every jump in the chain is made to point here, as far as two bytes      *)
(* reach.                                                                  *)
com_backpatch(c, anchors) ==
  LET target == Len(c.code)
      fill(anchor, code) == [code EXCEPT ![anchor].arg = (target - (anchor + 2)) % ArgRange]
  IN [c EXCEPT !.code = FoldSet(fill, @, anchors)]

(* An operation that takes n values and gives one. *)
Reduce(c, op, n) == com_pop(com_addbyte(c, op), n - 1)
Build(c, op, n) == com_pop(com_addoparg(c, op, n), n - 1)
PopTop(c) == com_pop(com_addbyte(c, "POP_TOP"), 1)
LoadConst(c, id) == com_push(com_addopname(c, "LOAD_CONST", id), 1)
LoadNone(c) == LoadConst(c, <<"None">>)

-----------------------------------------------------------------------------
(* Expressions *)

RECURSIVE com_parts(_, _)
RECURSIVE com_assign(_, _, _)
RECURSIVE jcompile(_)

Statements == {"expr", "del", "print", "pass", "break", "continue", "return", "raise", "import",
               "exec", "assert", "if", "while", "for", "except", "finally", "def", "class"}

(* A statement begins with the number of its line.  (It is written such    *)
(* that TLC computes c before the node, not where the node first needs it: *)
(* a long function would take more stack than TLC has.)                    *)
com_node(c, n) ==
  CHOOSE r \in {com_parts(IF n.k \in Statements THEN com_addoparg(d, "SET_LINENO", n.line) ELSE d, n) : d \in {c}} :
    TRUE

ComAll(c, nodes) == FoldLeft(LAMBDA d, n : com_node(d, n), c, nodes)

(* com_term, com_arith_expr, com_shift_expr, com_and_expr, com_xor_expr,   *)
(* com_expr and the exponent of com_power: operators of two operands, from *)
(* the left.                                                               *)
com_binary(c, n) ==
  FoldLeft(LAMBDA d, e : Reduce(com_node(d, e), "BINARY", 2), com_node(c, Head(n.es)), Tail(n.es))

(* What is done before a comparison that is not the last of a chain.       *)
ChainValue(c) == com_addbyte(com_push(com_addbyte(c, "DUP_TOP"), 1), "ROT_THREE")

RECURSIVE CompareFrom(_, _, _, _)
CompareFrom(c, es, id, anchors) ==
  LET c1 == com_node(c, Head(es))
      more == Len(es) > 1
      c2 == com_pop(com_addopname(IF more THEN ChainValue(c1) ELSE c1, "COMPARE_OP", id), 1)
  IN IF more
     THEN CompareFrom(PopTop(com_addfwref(c2, "JUMP_IF_FALSE", anchors)), Tail(es), id,
                      anchors \cup {Here(c2)})
     ELSE IF anchors = {} THEN c2
     ELSE LET c3 == com_backpatch(com_addfwref(c2, "JUMP_FORWARD", {}), anchors) IN
          com_backpatch(com_addbyte(com_addbyte(c3, "ROT_TWO"), "POP_TOP"), {Here(c2)})

com_comparison(c, n) == CompareFrom(com_node(c, Head(n.es)), Tail(n.es), n.id, {})

(* com_and_test, com_test: the value of an operand that decides is the     *)
(* value of the whole.                                                     *)
RECURSIVE BoolFrom(_, _, _, _)
BoolFrom(c, es, jump, anchors) ==
  LET c1 == com_node(c, Head(es)) IN
  IF Len(es) = 1 THEN com_backpatch(c1, anchors)
  ELSE BoolFrom(PopTop(com_addfwref(c1, jump, anchors)), Tail(es), jump, anchors \cup {Here(c1)})

com_boolop(c, n) == BoolFrom(c, n.es, IF n.k = "and" THEN "JUMP_IF_FALSE" ELSE "JUMP_IF_TRUE", {})

com_dictmaker(c, n) ==
  FoldLeft(LAMBDA d, item :
             LET d1 == com_node(com_push(com_addbyte(d, "DUP_TOP"), 1), item.value)
                 d2 == com_node(com_addbyte(d1, "ROT_TWO"), item.key)
             IN com_pop(com_addbyte(d2, "STORE_SUBSCR"), 3),
           com_push(com_addoparg(c, "BUILD_MAP", 0), 1), n.items)

(* Arguments on other lines than the one before get a line number. *)
RECURSIVE ArgsFrom(_, _, _)
ArgsFrom(c, args, line) ==
  IF args = <<>> THEN c
  ELSE LET a == Head(args)
           c1 == IF a.line = line THEN c ELSE com_addoparg(c, "SET_LINENO", a.line)
           c2 == IF a.keyword THEN LoadConst(c1, <<"keyword">>) ELSE c1
       IN ArgsFrom(com_node(c2, a.e), Tail(args), a.line)

com_call_function(c, n) ==
  LET na == Cardinality({i \in DOMAIN n.args : ~n.args[i].keyword})
      nk == Len(n.args) - na
      c1 == IF n.args = <<>> THEN c ELSE ArgsFrom(c, n.args, Head(n.args).line)
  IN com_pop(com_addoparg(c1, "CALL_FUNCTION", na + 2 * nk), na + 2 * nk)

OrNone(c, e) == IF e = <<>> THEN LoadNone(c) ELSE com_node(c, Head(e))

com_sliceobj(c, n) == Build(FoldLeft(OrNone, c, n.parts), "BUILD_SLICE", Len(n.parts))

(* What is done with the item or the slice: it is loaded, stored or        *)
(* deleted.  The simple slice takes its bounds from the stack.             *)
com_slice(c, n, op) == com_pop(com_addoparg(ComAll(c, n.bounds), op, Len(n.bounds)), Len(n.bounds))

com_subscriptlist(c, n, assigning) ==
  LET slice == CASE assigning = "APPLY" -> "SLICE" [] assigning = "ASSIGN" -> "STORE_SLICE"
                 [] OTHER -> "DELETE_SLICE"
      subscr == CASE assigning = "APPLY" -> "BINARY_SUBSCR" [] assigning = "ASSIGN" -> "STORE_SUBSCR"
                  [] OTHER -> "DELETE_SUBSCR"
      more == CASE assigning = "APPLY" -> 0 [] assigning = "ASSIGN" -> 2 [] OTHER -> 1
      subs == ComAll(c, n.subs)
  IN IF n.k = "slice" THEN com_pop(com_slice(c, n, slice), more)
     ELSE com_pop(com_addbyte(IF Len(n.subs) = 1 THEN subs ELSE Build(subs, "BUILD_TUPLE", Len(n.subs)),
                              subscr), more + 1)

(* A function without errors becomes a code object; one with errors makes  *)
(* the function around it fail as well.                                    *)
icompile(c, n) == ErrorIf(c, jcompile(n).errors > 0)

MakeFunction(c, n) ==
  com_pop(com_addoparg(LoadConst(icompile(ComAll(c, n.defaults), n), <<"code">>),
                       "MAKE_FUNCTION", Len(n.defaults)), Len(n.defaults))

com_expr(c, n) ==
  CASE n.k = "name"    -> com_push(com_addopname(c, "LOAD_NAME", n.id), 1)
    [] n.k = "const"   -> LoadConst(c, n.id)
    [] n.k = "binary"  -> com_binary(c, n)
    [] n.k = "unary"   -> com_addbyte(com_node(c, n.e), "UNARY")
    [] n.k = "compare" -> com_comparison(c, n)
    [] n.k \in {"and", "or"} -> com_boolop(c, n)
    [] n.k = "tuple"   -> IF n.es = <<>> THEN com_push(com_addoparg(c, "BUILD_TUPLE", 0), 1)
                          ELSE Build(ComAll(c, n.es), "BUILD_TUPLE", Len(n.es))
    [] n.k = "list"    -> IF n.es = <<>> THEN com_push(com_addoparg(c, "BUILD_LIST", 0), 1)
                          ELSE Build(ComAll(c, n.es), "BUILD_LIST", Len(n.es))
    [] n.k = "dict"    -> com_dictmaker(c, n)
    [] n.k = "call"    -> com_call_function(com_node(c, n.f), n)
    [] n.k = "attr"    -> com_addbyte(com_node(c, n.e), "LOAD_ATTR")
    [] n.k \in {"subscr", "slice"} -> com_subscriptlist(com_node(c, n.e), n, "APPLY")
    [] n.k = "sliceobj" -> com_sliceobj(c, n)
    [] n.k = "lambda"  -> MakeFunction(c, n)

-----------------------------------------------------------------------------
(* Assignment and deletion *)

UnpackTo(c, n, assigning) ==
  LET c1 == IF assigning = "ASSIGN"
            THEN com_push(com_addoparg(c, "UNPACK", Len(n.es)), Len(n.es) - 1) ELSE c
  IN FoldLeft(LAMBDA d, t : com_assign(d, t, assigning), c1, n.es)

com_assign(c, n, assigning) ==
  CASE n.k = "name" ->
         IF assigning = "ASSIGN" THEN com_pop(com_addopname(c, "STORE_NAME", n.id), 1)
         ELSE com_addopname(c, "DELETE_NAME", n.id)
    [] n.k \in {"tuple", "list"} /\ n.es # <<>> -> UnpackTo(c, n, assigning)
    [] n.k = "attr" ->
         IF assigning = "ASSIGN" THEN com_pop(com_addbyte(com_node(c, n.e), "STORE_ATTR"), 2)
         ELSE com_pop(com_addbyte(com_node(c, n.e), "DELETE_ATTR"), 1)
    [] n.k \in {"subscr", "slice"} -> com_subscriptlist(com_node(c, n.e), n, assigning)
    [] OTHER -> com_error(c)

(* The value is stored from left to right, a copy in all targets but the   *)
(* last.                                                                   *)
com_expr_stmt(c, n) ==
  LET c1 == com_node(c, n.e)
      assign(d, i) ==
        com_assign(IF i < Len(n.targets) THEN com_push(com_addbyte(d, "DUP_TOP"), 1) ELSE d,
                   n.targets[i], "ASSIGN")
  IN IF n.targets = <<>> THEN PopTop(c1)
     ELSE FoldLeft(assign, c1, [i \in DOMAIN n.targets |-> i])

-----------------------------------------------------------------------------
(* Simple statements *)

com_assert_stmt(c, n) ==
  IF Py_OptimizeFlag THEN c
  ELSE LET c1 == com_push(com_addopname(c, "LOAD_GLOBAL", <<"__debug__">>), 1)
           c2 == com_node(PopTop(com_addfwref(c1, "JUMP_IF_FALSE", {})), n.e)
           c3 == com_push(com_addopname(PopTop(com_addfwref(c2, "JUMP_IF_TRUE", {})),
                                        "LOAD_GLOBAL", <<"AssertionError">>), 1)
           i  == 1 + Len(n.message)
           c4 == com_pop(com_addoparg(ComAll(c3, n.message), "RAISE_VARARGS", i), i)
       IN com_addbyte(com_backpatch(c4, {Here(c1), Here(c2)}), "POP_TOP")

com_print_stmt(c, n) ==
  com_addbyte(FoldLeft(LAMBDA d, e : com_pop(com_addbyte(com_node(d, e), "PRINT_ITEM"), 1), c, n.es),
              "PRINT_NEWLINE")

com_return_stmt(c, n) ==
  com_pop(com_addbyte(OrNone(ErrorIf(c, ~c.infunction), n.e), "RETURN_VALUE"), 1)

com_raise_stmt(c, n) ==
  com_pop(com_addoparg(ComAll(c, n.es), "RAISE_VARARGS", Len(n.es)), Len(n.es))

(* 'from' imports names one by one; 'import' stores one module after the other. *)
com_import_stmt(c, n) ==
  IF n.from
  THEN PopTop(FoldLeft(LAMBDA d, id : com_addopname(d, "IMPORT_FROM", id),
                       com_push(com_addopname(c, "IMPORT_NAME", <<"module">>), 1), n.names))
  ELSE FoldLeft(LAMBDA d, id : com_pop(com_addopname(
                  com_push(com_addopname(d, "IMPORT_NAME", id), 1), "STORE_NAME", id), 1),
                c, n.names)

com_exec_stmt(c, n) ==
  LET c1 == OrNone(com_node(c, n.e), n.in)
      c2 == IF Len(n.in) < 2 THEN com_push(com_addbyte(c1, "DUP_TOP"), 1) ELSE com_node(c1, n.in[2])
  IN com_pop(com_addbyte(c2, "EXEC_STMT"), 3)

com_break_stmt(c) == com_addbyte(ErrorIf(c, c.loops = 0), "BREAK_LOOP")

(* Mutant: the loop need not be the innermost block. *)
ContinueAnywhere(c) ==
  IF Contains(c.block, "SETUP_LOOP") THEN com_addoparg(c, "JUMP_ABSOLUTE", c.begin) ELSE com_error(c)

com_continue_stmt(c) ==
  IF c.block # <<>> /\ Last(c.block) = "SETUP_LOOP"
  THEN com_addoparg(c, "JUMP_ABSOLUTE", c.begin) ELSE com_error(c)

com_funcdef(c, n) == com_pop(com_addopname(MakeFunction(c, n), "STORE_NAME", n.id), 1)

(* BUILD_CLASS leaves the class, which STORE_NAME takes; com_classdef pops *)
(* 2 of the 3 that it pushed.                                              *)
com_classdef(c, n) ==
  LET c1 == LoadConst(c, <<"class name">>)
      c2 == IF n.bases = <<>> THEN com_push(com_addoparg(c1, "BUILD_TUPLE", 0), 1)
            ELSE Build(ComAll(c1, n.bases), "BUILD_TUPLE", Len(n.bases))
      c3 == LoadConst(icompile(c2, n), <<"code">>)
      c4 == com_addoparg(com_addoparg(c3, "MAKE_FUNCTION", 0), "CALL_FUNCTION", 0)
  IN com_addopname(Reduce(c4, "BUILD_CLASS", 3), "STORE_NAME", n.id)

-----------------------------------------------------------------------------
(* Compound statements *)

(* A test that is always false is not compiled, and what it guards is not. *)
is_constant_false(e) == e.k = "const" /\ ~e.true

RECURSIVE IfFrom(_, _, _, _)
IfFrom(c, n, i, anchors) ==
  IF i > Len(n.arms) THEN com_backpatch(ComAll(c, n.orelse), anchors)
  ELSE IF is_constant_false(n.arms[i].test) THEN IfFrom(c, n, i + 1, anchors)
  ELSE LET c1 == IF i = 1 THEN c ELSE com_addoparg(c, "SET_LINENO", n.arms[i].line)
           c2 == com_node(c1, n.arms[i].test)
           c3 == com_node(PopTop(com_addfwref(c2, "JUMP_IF_FALSE", {})), n.arms[i].body)
           c4 == com_backpatch(com_addfwref(c3, "JUMP_FORWARD", anchors), {Here(c2)})
       IN IfFrom(com_addbyte(c4, "POP_TOP"), n, i + 1, anchors \cup {Here(c3)})

com_if_stmt(c, n) == IfFrom(c, n, 1, {})

(* The body, the jump back, and the place to leave the loop from. *)
LoopBody(c, n, begin, exit) ==
  LET c1 == com_node([c EXCEPT !.loops = @ + 1], n.body)
      c2 == com_addoparg([c1 EXCEPT !.loops = @ - 1], "JUMP_ABSOLUTE", c1.begin)
  IN com_backpatch([c2 EXCEPT !.begin = begin], {exit})

(* The block ends before the 'else', and a 'break' goes behind it. *)
LoopEnd(c, n, break) ==
  com_backpatch(ComAll(block_pop(com_addbyte(c, "POP_BLOCK"), "SETUP_LOOP"), n.orelse), {break})

com_while_stmt(c, n) ==
  LET c1 == block_push(com_addfwref(c, "SETUP_LOOP", {}), "SETUP_LOOP")
      c2 == com_node(com_addoparg([c1 EXCEPT !.begin = Len(c1.code)], "SET_LINENO", n.line), n.test)
      c3 == LoopBody(PopTop(com_addfwref(c2, "JUMP_IF_FALSE", {})), n, c.begin, Here(c2))
  IN LoopEnd(com_addbyte(c3, "POP_TOP"), n, Here(c))

com_for_stmt(c, n) ==
  LET c1 == block_push(com_addfwref(c, "SETUP_LOOP", {}), "SETUP_LOOP")
      c2 == LoadConst(com_node(c1, n.e), <<"index">>)
      c3 == com_addoparg([c2 EXCEPT !.begin = Len(c2.code)], "SET_LINENO", n.line)
      c4 == com_assign(com_push(AddOparg(c3, "FOR_LOOP", 0, n.id), 1), n.target, "ASSIGN")
  IN LoopEnd(com_pop(LoopBody(c4, n, c.begin, Here(c3)), 2), n, Here(c))

(* One clause, entered with traceback, value and exception on the stack;   *)
(* a clause with an expression may not match, and the next is tried.       *)
ClauseTest(c, h) ==
  com_pop(com_addopname(com_node(com_push(com_addbyte(c, "DUP_TOP"), 1), Head(h.test)), "EXC_MATCH", h.id), 1)

ClauseBody(c, h) ==
  com_node(PopTop(IF h.target = <<>> THEN PopTop(PopTop(c))
                  ELSE com_assign(PopTop(c), Head(h.target), "ASSIGN")), h.body)

RECURSIVE HandlersFrom(_, _, _)
HandlersFrom(c, clauses, ends) ==
  IF clauses = <<>> THEN [c |-> c, ends |-> ends]
  ELSE LET h  == Head(clauses)
           c1 == com_addoparg(com_push(c, 3), "SET_LINENO", h.line)
           c2 == IF h.test = <<>> THEN c1 ELSE ClauseTest(c1, h)
           c3 == ClauseBody(IF h.test = <<>> THEN c2 ELSE PopTop(com_addfwref(c2, "JUMP_IF_FALSE", {})), h)
           c4 == com_addfwref(c3, "JUMP_FORWARD", ends)
           c5 == IF h.test = <<>> THEN ErrorIf(c4, Len(clauses) > 1)
                 ELSE com_addbyte(com_backpatch(c4, {Here(c2)}), "POP_TOP")
       IN HandlersFrom(c5, Tail(clauses), ends \cup {Here(c3)})

com_try_except(c, n) ==
  LET c1 == block_push(com_addfwref(c, "SETUP_EXCEPT", {}), "SETUP_EXCEPT")
      c2 == block_pop(com_addbyte(com_node(c1, n.body), "POP_BLOCK"), "SETUP_EXCEPT")
      c3 == com_backpatch(com_addfwref(c2, "JUMP_FORWARD", {}), {Here(c)})
      h  == HandlersFrom(c3, n.handlers, {})
      c4 == com_backpatch(com_addbyte(h.c, "END_FINALLY"), {Here(c2)})
  IN com_backpatch(ComAll(c4, n.orelse), h.ends)

(* Mutant: the stack is said to hold the one item that the code pushes. *)
TryFinallyOne(c, n) ==
  LET c1 == block_push(com_addfwref(c, "SETUP_FINALLY", {}), "SETUP_FINALLY")
      c2 == block_pop(com_addbyte(com_node(c1, n.body), "POP_BLOCK"), "SETUP_FINALLY")
      c3 == LoadNone(block_push(c2, "END_FINALLY"))
      c4 == com_addoparg(com_backpatch(c3, {Here(c)}), "SET_LINENO", n.finalline)
  IN com_pop(block_pop(com_addbyte(com_node(c4, n.final), "END_FINALLY"), "END_FINALLY"), 1)

com_try_finally(c, n) ==
  LET c1 == block_push(com_addfwref(c, "SETUP_FINALLY", {}), "SETUP_FINALLY")
      c2 == block_pop(com_addbyte(com_node(c1, n.body), "POP_BLOCK"), "SETUP_FINALLY")
      c3 == com_addopname(block_push(c2, "END_FINALLY"), "LOAD_CONST", <<"None">>)
      c4 == com_addoparg(com_backpatch(com_push(c3, 3), {Here(c)}), "SET_LINENO", n.finalline)
  IN com_pop(block_pop(com_addbyte(com_node(c4, n.final), "END_FINALLY"), "END_FINALLY"), 3)

com_stmt(c, n) ==
  CASE n.k = "expr"     -> com_expr_stmt(c, n)
    [] n.k = "del"      -> com_assign(c, n.target, "DELETE")
    [] n.k = "print"    -> com_print_stmt(c, n)
    [] n.k = "pass"     -> c
    [] n.k = "break"    -> com_break_stmt(c)
    [] n.k = "continue" -> com_continue_stmt(c)
    [] n.k = "return"   -> com_return_stmt(c, n)
    [] n.k = "raise"    -> com_raise_stmt(c, n)
    [] n.k = "import"   -> com_import_stmt(c, n)
    [] n.k = "exec"     -> com_exec_stmt(c, n)
    [] n.k = "assert"   -> com_assert_stmt(c, n)
    [] n.k = "if"       -> com_if_stmt(c, n)
    [] n.k = "while"    -> com_while_stmt(c, n)
    [] n.k = "for"      -> com_for_stmt(c, n)
    [] n.k = "except"   -> com_try_except(c, n)
    [] n.k = "finally"  -> com_try_finally(c, n)
    [] n.k = "def"      -> com_funcdef(c, n)
    [] n.k = "class"    -> com_classdef(c, n)

com_parts(c, n) ==
  CASE n.k = "suite"        -> ComAll(c, n.stmts)
    [] n.k \in Statements   -> com_stmt(c, n)
    [] OTHER                -> com_expr(c, n)

-----------------------------------------------------------------------------
(* A function, a lambda expression, the body of a class *)

(* What is left on the stack is returned: None, the value, the names. *)
ResultOf(c, n) ==
  CASE n.k = "def"    -> LoadNone([c EXCEPT !.infunction = FALSE])
    [] n.k = "lambda" -> c
    [] n.k = "class"  -> com_push(com_addbyte(c, "LOAD_LOCALS"), 1)

jcompile(n) ==
  LET c == com_addoparg([com_init EXCEPT !.infunction = n.k = "def"], "SET_LINENO", n.line)
  IN com_pop(com_addbyte(ResultOf(com_node(c, n.body), n), "RETURN_VALUE"), 1)
=============================================================================
