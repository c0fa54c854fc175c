--------------------------- MODULE ExpressionTrees ----------------------------
(***************************************************************************)
(* Functions with every kind of expression in every place of another, and  *)
(* every kind of simple statement, at the top of a function and where the  *)
(* stack already holds a sequence, an index and what 'finally' waits with. *)
(***************************************************************************)
EXTENDS Naturals, Sequences

Name(a)  == [k |-> "name", id |-> <<a>>]
(* A name that is asked whether it is true. *)
Test(a)  == [k |-> "name", id |-> <<a, "t">>]
Const(b) == [k |-> "const", id |-> <<IF b THEN "true" ELSE "false">>, true |-> b]
Arg(e, keyword, line) == [e |-> e, keyword |-> keyword, line |-> line]

SliceBounds(x) == {<<>>, <<x>>, <<Name("lo"), x>>}
Parts(x)       == {<<<<>>, <<x>>>>, <<<<Name("lo")>>, <<>>, <<x>>>>}

(* The places in a target where an expression stands. *)
Places(x) ==
  [k : {"attr"}, e : {x}]
  \cup [k : {"slice"}, e : {Name("o")}, bounds : SliceBounds(x)]
  \cup [k : {"subscr"}, e : {Name("o")}, subs : {<<x>>, <<Name("i"), x>>}]
  \cup [k : {"subscr"}, e : {Name("o")}, subs : {<<[k |-> "sliceobj", parts |-> q]>> : q \in Parts(x)}]
Target(x) == {Name("v")} \cup Places(x)

(* Every kind of expression with x as its last operand or its first. *)
With(x) ==
  Places(x)
  \cup [k : {"binary"}, es : {<<Name("a"), x>>, <<x, Name("b"), Name("c")>>}]
  \cup [k : {"unary"}, e : {x}]
  \cup [k : {"compare"}, id : {<<"cmp">>}, es : {<<x, Name("b")>>, <<Name("a"), Name("b"), x>>}]
  \cup [k : {"and", "or"}, es : {<<Test("a"), Test("b"), x>>}]
  \cup [k : {"tuple", "list"}, es : {<<>>, <<Name("a"), x>>}]
  \cup [k : {"dict"}, items : {<<>>, <<[key |-> x, value |-> Name("b")], [key |-> Name("c"), value |-> x]>>}]
  \cup [k : {"call"}, f : {Name("g")}, args : {<<>>, <<Arg(Name("a"), FALSE, 4), Arg(Name("b"), TRUE, 4), Arg(x, TRUE, 5)>>}]
  \cup [k : {"lambda"}, line : {4}, id : {<<"lambda">>}, defaults : {<<Name("a"), x>>}, body : {Name("l")}]

Leaf == Name("x")
Deep == UNION {With(x) : x \in With(Leaf)}

ExprAt(line, e) == [k |-> "expr", line |-> line, e |-> e, targets |-> <<>>]
Expr(e, targets) == [k |-> "expr", line |-> 4, e |-> e, targets |-> targets]
Function(line, id, defaults, body) ==
  [k |-> "def", line |-> line, id |-> <<id>>, defaults |-> defaults, body |-> body]

(* Every kind of simple statement, with x where an expression stands. *)
StatementsWith(x) ==
  {Expr(x, ts) : ts \in {<<>>} \cup {<<t>> : t \in Target(x)} \cup {<<t, Name("w")>> : t \in Target(x)}}
  \cup {Expr(x, <<[k |-> "tuple", es |-> <<Name("v"), [k |-> "list", es |-> <<t, Name("w")>>]>>]>>) : t \in Target(x)}
  \cup [k : {"del"}, line : {4}, target : Target(x) \cup [k : {"tuple"}, es : {<<Name("v"), t>> : t \in Target(x)}]]
  \cup [k : {"print"}, line : {4}, es : {<<>>, <<Name("a"), x>>}]
  \cup [k : {"return"}, line : {4}, e : {<<>>, <<x>>}]
  \cup [k : {"raise"}, line : {4}, es : {<<x>>, <<Name("a"), x>>, <<Name("a"), Name("b"), x>>}]
  \cup [k : {"exec"}, line : {4}, e : {Name("a")}, in : {<<>>, <<x>>, <<Name("b"), x>>}]
  \cup [k : {"assert"}, line : {4}, e : {Test("a"), [k |-> "or", es |-> <<Test("a"), x>>]}, message : {<<>>, <<x>>}]
  \cup [k : {"import"}, line : {4}, from : BOOLEAN, names : {<<<<"m">>, <<"n">>>>}]
  \cup [k : {"pass"}, line : {4}]
  \cup {Function(4, "g", <<Name("a"), x>>, Expr(Leaf, <<>>)), Function(4, "g", <<>>, [k |-> "break", line |-> 4])}
  \cup [k : {"if"}, line : {4}, orelse : {<<ExprAt(7, Name("e"))>>},
        arms : {<<[line |-> 4, test |-> Const(FALSE), body |-> Expr(Name("d"), <<>>)],
                  [line |-> 5, test |-> [k |-> "and", es |-> <<Test("a"), x>>], body |-> ExprAt(5, Name("b"))],
                  [line |-> 6, test |-> Const(TRUE), body |-> ExprAt(6, x)]>>}]
  \cup [k : {"except"}, line : {4}, body : {Expr(x, <<>>)}, orelse : {<<>>},
        handlers : {<<[line |-> 5, id |-> <<"m1">>, test |-> <<x>>, target |-> <<t>>, body |-> ExprAt(5, Name("h"))],
                      [line |-> 6, id |-> <<"m2">>, test |-> <<Name("E")>>, target |-> <<>>, body |-> ExprAt(6, x)],
                      [line |-> 7, id |-> <<"m3">>, test |-> ts, target |-> <<>>, body |-> ExprAt(7, x)]>> :
                    t \in Target(x), ts \in {<<>>, <<x>>}}]
  \cup [k : {"class"}, line : {4}, id : {<<"C">>}, bases : {<<x, Name("b")>>, <<Name("a"), x>>},
        body : {Expr(Leaf, <<>>)}]

ThenEnd(n) == [k |-> "suite", stmts |-> <<n, ExprAt(8, Name("end"))>>]

InLoop(n) ==
  [k |-> "for", line |-> 2, id |-> <<"for">>, e |-> Name("s"), target |-> Name("v"), body |-> n, orelse |-> <<>>]
InFinally(n) ==
  [k |-> "finally", line |-> 3, finalline |-> 4, body |-> [k |-> "pass", line |-> 3], final |-> n]

Bodies ==
  StatementsWith(Leaf) \cup {Expr(e, <<>>) : e \in Deep}
  \cup {InLoop(InFinally(n)) : n \in StatementsWith([k |-> "binary", es |-> <<Name("a"), Leaf>>])}

(* Lines that the table is not made for: n operands on one of them, and a  *)
(* loop of which the header goes on on the next.                           *)
LongLine(n) == Expr([k |-> "binary", es |-> [i \in 1 .. n |-> Name("a")]], <<>>)
LongHeader ==
  [InLoop(ExprAt(4, Name("b"))) EXCEPT
     !.e = [k |-> "call", f |-> Name("g"), args |-> <<Arg(Name("a"), FALSE, 2), Arg(Name("b"), FALSE, 3)>>]]

ExpressionPrograms ==
  {Function(1, "f", <<>>, ThenEnd(n)) : n \in Bodies \cup {LongLine(3), LongLine(18), LongHeader}}
=============================================================================
