------------------------------ MODULE Statements ------------------------------
(***************************************************************************)
(* What a function means, as a definition over its tree that knows neither *)
(* code nor stacks: in which order its operations are executed, where it   *)
(* goes on after each outcome, and how it ends.  A run s takes outcomes    *)
(* from the front of a log (s.rest); s.how is "NORMAL" while it goes on,   *)
(* the way it is left by a statement, "WAITING" when the log is used up    *)
(* and "DIFFERENT" when the log has another operation than the tree.  An   *)
(* operand of 'and' or 'or' and the condition of a statement are asked     *)
(* whether they are true each on its own, so that an object which is both  *)
(* is asked twice.                                                         *)
(***************************************************************************)
EXTENDS EvalLoop, Compiling

Begin(caught, events) ==
  [how |-> "NORMAL", val |-> Constant(None), holds |-> FALSE, caught |-> caught, rest |-> events]

Goes_on(s)       == s.how = "NORMAL"
Leave(s, how)    == IF Goes_on(s) THEN [s EXCEPT !.how = how] ELSE s
Throw(s, exc)    == IF Goes_on(s) THEN [s EXCEPT !.how = "EXCEPTION", !.val = Object(exc, "asked")] ELSE s
Value(s, val)    == IF Goes_on(s) THEN [s EXCEPT !.val = val] ELSE s

Ask(s, op, id) ==
  IF ~Goes_on(s) THEN s
  ELSE IF s.rest = <<>> THEN [s EXCEPT !.how = "WAITING"]
  ELSE LET e == Head(s.rest) IN
       IF e.op # op \/ e.id # id THEN [s EXCEPT !.how = "DIFFERENT"]
       ELSE IF e.out = "error" THEN Throw([s EXCEPT !.rest = Tail(@)], <<op>> \o id)
       ELSE [s EXCEPT !.rest = Tail(@), !.val = Object(id, e.out)]

(* Is the value true?  Those of which it is not known are asked.           *)
IsTrue(s) ==
  LET answer == IF s.val.truth = "asked" THEN Ask(s, "IS_TRUE", s.val.id) ELSE s IN
  IF ~Goes_on(answer) THEN answer
  ELSE [answer EXCEPT !.val = s.val, !.holds = answer.val.truth = "true"]

Do(s, op) == Ask(s, op, <<op>>)

-----------------------------------------------------------------------------
(* Expressions: operands from the left, what need not be known is not      *)
(* computed, and of a pair of a dictionary the value comes first.          *)

RECURSIVE EvalNode(_, _)
RECURSIVE EvalChain(_, _, _)
RECURSIVE EvalBool(_, _, _)

Eval(s, n) == IF Goes_on(s) THEN EvalNode(s, n) ELSE s

EvalAll(s, es) == FoldLeft(LAMBDA r, e : Eval(r, e), s, es)

EvalChain(s, es, id) ==
  LET r == Ask(Eval(s, Head(es)), "COMPARE_OP", id) IN
  IF Len(es) > 1 /\ Goes_on(r) /\ r.val.truth = "true" THEN EvalChain(r, Tail(es), id) ELSE r

(* Goes on while the operands are equal to the value that does not decide. *)
EvalBool(s, es, same) ==
  IF Len(es) = 1 THEN Eval(s, Head(es))
  ELSE LET r == IsTrue(Eval(s, Head(es))) IN
       IF Goes_on(r) /\ r.holds = same THEN EvalBool(r, Tail(es), same) ELSE r

Subscripts(s, n) ==
  IF n.k = "slice" THEN EvalAll(s, n.bounds)
  ELSE IF Len(n.subs) = 1 THEN EvalAll(s, n.subs) ELSE Do(EvalAll(s, n.subs), "BUILD_TUPLE")

EvalPair(s, item) == Do(Eval(Eval(s, item.value), item.key), "STORE_SUBSCR")

EvalNode(s, n) ==
  CASE n.k = "name"     -> Ask(s, "LOAD_NAME", n.id)
    [] n.k = "const"    -> Value(s, Constant(n.id))
    [] n.k = "binary"   -> FoldLeft(LAMBDA r, e : Do(Eval(r, e), "BINARY"), Eval(s, Head(n.es)), Tail(n.es))
    [] n.k = "unary"    -> Do(Eval(s, n.e), "UNARY")
    [] n.k = "compare"  -> EvalChain(Eval(s, Head(n.es)), Tail(n.es), n.id)
    [] n.k = "and"      -> EvalBool(s, n.es, TRUE)
    [] n.k = "or"       -> EvalBool(s, n.es, FALSE)
    [] n.k = "tuple"    -> Do(EvalAll(s, n.es), "BUILD_TUPLE")
    [] n.k = "list"     -> Do(EvalAll(s, n.es), "BUILD_LIST")
    [] n.k = "dict"     -> Value(FoldLeft(EvalPair, Do(s, "BUILD_MAP"), n.items), Object(<<"BUILD_MAP">>, "asked"))
    [] n.k = "call"     -> Do(EvalAll(Eval(s, n.f), [i \in DOMAIN n.args |-> n.args[i].e]), "CALL_FUNCTION")
    [] n.k = "attr"     -> Do(Eval(s, n.e), "LOAD_ATTR")
    [] n.k = "subscr"   -> Do(Subscripts(Eval(s, n.e), n), "BINARY_SUBSCR")
    [] n.k = "slice"    -> Do(Subscripts(Eval(s, n.e), n), "SLICE")
    [] n.k = "sliceobj" -> Do(FoldLeft(EvalAll, s, n.parts), "BUILD_SLICE")
    [] n.k = "lambda"   -> Do(EvalAll(s, n.defaults), "MAKE_FUNCTION")

(* What a target does with the value that is stored in it or is deleted.   *)
RECURSIVE Put(_, _, _)
Put(s, n, verb) ==
  CASE n.k = "name"            -> Ask(s, verb \o "_NAME", n.id)
    [] n.k \in {"tuple", "list"} ->
         FoldLeft(LAMBDA r, t : Put(r, t, verb), IF verb = "STORE" THEN Do(s, "UNPACK") ELSE s, n.es)
    [] n.k = "attr"            -> Do(Eval(s, n.e), verb \o "_ATTR")
    [] n.k = "subscr"          -> Do(Subscripts(Eval(s, n.e), n), verb \o "_SUBSCR")
    [] n.k = "slice"           -> Do(Subscripts(Eval(s, n.e), n), verb \o "_SLICE")

-----------------------------------------------------------------------------
(* Statements *)

RECURSIVE ExecNode(_, _)
RECURSIVE ExecWhile(_, _)
RECURSIVE ExecFor(_, _)
RECURSIVE ExecIf(_, _, _)
RECURSIVE ExecHandlers(_, _, _)

Exec(s, n) == IF Goes_on(s) THEN ExecNode(s, n) ELSE s

ExecAll(s, stmts) == FoldLeft(LAMBDA r, n : Exec(r, n), s, stmts)

ExecIf(s, n, i) ==
  IF i > Len(n.arms) THEN ExecAll(s, n.orelse)
  ELSE LET r == IsTrue(Eval(s, n.arms[i].test)) IN
       IF ~Goes_on(r) THEN r
       ELSE IF r.holds THEN Exec(r, n.arms[i].body) ELSE ExecIf(r, n, i + 1)

(* 'break' ends a loop without its 'else', 'continue' its body.            *)
AfterBody(r, Again(_)) ==
  CASE r.how \in {"NORMAL", "CONTINUE"} -> Again([r EXCEPT !.how = "NORMAL"])
    [] r.how = "BREAK"                  -> [r EXCEPT !.how = "NORMAL"]
    [] OTHER                            -> r

ExecWhile(s, n) ==
  LET r == IsTrue(Eval(s, n.test)) IN
  IF ~Goes_on(r) THEN r
  ELSE IF ~r.holds THEN ExecAll(r, n.orelse)
  ELSE AfterBody(Exec(r, n.body), LAMBDA t : ExecWhile(t, n))

ExecFor(s, n) ==
  LET r == Ask(s, "FOR_LOOP", n.id) IN
  IF ~Goes_on(r) THEN r
  ELSE IF r.val.truth = "false" THEN ExecAll(r, n.orelse)
  ELSE AfterBody(Exec(Put(r, n.target, "STORE"), n.body), LAMBDA t : ExecFor(t, n))

(* The first clause that matches handles the exception. *)
ExecHandlers(s, clauses, exc) ==
  IF clauses = <<>> THEN Throw(s, exc)
  ELSE LET h == Head(clauses)
           r == IF h.test = <<>> THEN s
                ELSE Ask(Eval(s, Head(h.test)), "EXC_MATCH", h.id)
       IN IF ~Goes_on(r) THEN r
          ELSE IF h.test # <<>> /\ r.val.truth = "false" THEN ExecHandlers(r, Tail(clauses), exc)
          ELSE Exec(FoldLeft(LAMBDA t, target : Put(t, target, "STORE"), r, h.target), h.body)

ExecExcept(s, n) ==
  LET r == Exec(s, n.body) IN
  CASE r.how = "EXCEPTION" ->
         ExecHandlers([r EXCEPT !.how = "NORMAL", !.caught = r.val.id], n.handlers, r.val.id)
    [] r.how = "NORMAL" -> ExecAll(r, n.orelse)
    [] OTHER -> r

(* A 'finally' is executed whichever way its body is left, once, and the   *)
(* body is then left that way unless the 'finally' leaves another way.     *)
ExecFinally(s, n) ==
  LET r == Exec(s, n.body)
      f == Exec([r EXCEPT !.how = "NORMAL"], n.final)
  IN IF r.how \in {"WAITING", "DIFFERENT"} THEN r
     ELSE IF Goes_on(f) THEN [f EXCEPT !.how = r.how, !.val = r.val] ELSE f

ExecRaise(s, n) ==
  IF n.es = <<>> THEN Throw(s, IF s.caught = None THEN <<"TypeError">> ELSE s.caught)
  ELSE LET first == Eval(s, Head(n.es)) IN
       Throw(EvalAll(first, Tail(n.es)), <<"raise">> \o first.val.id)

ExecAssert(s, n) ==
  LET d == IsTrue(Ask(s, "LOAD_GLOBAL", <<"__debug__">>))
      r == IsTrue(Eval(d, n.e))
      t == EvalAll(Ask(r, "LOAD_GLOBAL", <<"AssertionError">>), n.message)
  IN IF Py_OptimizeFlag THEN s
     ELSE IF ~Goes_on(d) \/ ~d.holds THEN d
     ELSE IF Goes_on(r) /\ ~r.holds THEN Throw(t, <<"raise", "AssertionError">>) ELSE r

ExecImport(s, n) ==
  IF n.from
  THEN FoldLeft(LAMBDA r, id : Ask(r, "IMPORT_FROM", id), Ask(s, "IMPORT_NAME", <<"module">>), n.names)
  ELSE FoldLeft(LAMBDA r, id : Ask(Ask(r, "IMPORT_NAME", id), "STORE_NAME", id), s, n.names)

ExecClass(s, n) ==
  LET r == Do(EvalAll(s, n.bases), "BUILD_TUPLE") IN
  Ask(Do(Do(Do(r, "MAKE_FUNCTION"), "CALL_FUNCTION"), "BUILD_CLASS"), "STORE_NAME", n.id)

ExecNode(s, n) ==
  CASE n.k = "suite"    -> ExecAll(s, n.stmts)
    [] n.k = "expr"     -> FoldLeft(LAMBDA r, t : Put(r, t, "STORE"), Eval(s, n.e), n.targets)
    [] n.k = "del"      -> Put(s, n.target, "DELETE")
    [] n.k = "print"    -> Do(FoldLeft(LAMBDA r, e : Do(Eval(r, e), "PRINT_ITEM"), s, n.es), "PRINT_NEWLINE")
    [] n.k = "pass"     -> s
    [] n.k = "break"    -> Leave(s, "BREAK")
    [] n.k = "continue" -> Leave(s, "CONTINUE")
    [] n.k = "return"   -> Leave(EvalAll(Value(s, Constant(None)), n.e), "RETURN")
    [] n.k = "raise"    -> ExecRaise(s, n)
    [] n.k = "import"   -> ExecImport(s, n)
    [] n.k = "exec"     -> Do(EvalAll(Eval(s, n.e), n.in), "EXEC_STMT")
    [] n.k = "assert"   -> ExecAssert(s, n)
    [] n.k = "if"       -> ExecIf(s, n, 1)
    [] n.k = "while"    -> ExecWhile(s, n)
    [] n.k = "for"      -> ExecFor(Eval(s, n.e), n)
    [] n.k = "except"   -> ExecExcept(s, n)
    [] n.k = "finally"  -> ExecFinally(s, n)
    [] n.k = "def"      -> Ask(Do(EvalAll(s, n.defaults), "MAKE_FUNCTION"), "STORE_NAME", n.id)
    [] n.k = "class"    -> ExecClass(s, n)

-----------------------------------------------------------------------------
(* Properties *)

Meaning == Exec(Begin(entry_exc, log), program.body)

(* What was executed is all that the meaning asks for, and it ends alike.  *)
Agrees(m) ==
  /\ m.rest = <<>> /\ m.how \notin {"DIFFERENT", "BREAK", "CONTINUE"}
  /\ why = "RETURN" => \/ m.how = "NORMAL" /\ retval.id = None
                       \/ m.how = "RETURN" /\ retval.id = m.val.id
  /\ why = "EXCEPTION" => m.how = "EXCEPTION" /\ curexc = m.val.id

(* The code, interpreted, does what the function means: the operations     *)
(* that its tree asks for, in this order and no others, whatever fails; a  *)
(* 'finally' is not skipped, not repeated, and what it interrupted is not  *)
(* lost; and the function ends the way it must, with the value or the      *)
(* exception that is the right one.                                        *)
CodeMeansProgram == Agrees(Meaning)

(* The shapes that are reached from those in new, as far as the stacks fit. *)
RECURSIVE Reached(_, _)
Reached(shapes, new) ==
  IF new = {} THEN shapes
  ELSE LET all == shapes \cup new IN
       Reached(all, UNION {Steps(co.code, s) : s \in {r \in new : Fits(co, r)}} \ all)

(* However often the loops of a function go round and whatever fails in    *)
(* it, the stacks fit: what they can look like at each address comes from  *)
(* the code alone (StacksAlwaysFit).                                       *)
CodeHasStackMap == next_instr = 0 => IsStackMap(co, Reached({}, {FirstShape}))

(* The code of the lines goes up, and each has less than a byte counts.    *)
Instructions == {a \in DOMAIN co.code : co.code[a].op # "ARG"}
LinesAscend(I) == \A a, b \in I : a < b => co.code[a].line <= co.code[b].line
LinesAreShort(I) ==
  LET ofLine(l) == {a \in I : co.code[a].line = l}
      starts == {Min(ofLine(l)) : l \in {co.code[a].line : a \in I}}
  IN \A s, t \in starts : s < t /\ (\A u \in starts : u <= s \/ u >= t) => t - s < ByteRange

(* Line numbers are found again: the table of the function that is entered *)
(* gives each instruction the line that the compiler was at, if no line    *)
(* comes after a later one (as that of a loop whose header is a call over  *)
(* several lines does) and none but the last has too much code.            *)
LinesAreFound ==
  LET I == Instructions IN
  next_instr = 0 /\ LinesAscend(I) /\ LinesAreShort(I) =>
    \A a \in I : PyCode_Addr2Line(co, a - 1) = co.code[a].line
=============================================================================
