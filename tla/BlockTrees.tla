------------------------------ MODULE BlockTrees ------------------------------
(***************************************************************************)
(* Functions of loops, conditions and 'try' statements that are nested in  *)
(* each other, with the six ways to leave a statement in every place.  The *)
(* names of a function are the places they stand at.                       *)
(***************************************************************************)
EXTENDS Naturals, Sequences

CONSTANT Depth    (* how deep the statements of the functions are nested    *)

Name(p)    == [k |-> "name", id |-> p]
Test(p)    == Name(Append(p, "t"))
Simple(p)  == [k : {"expr"}, line : {1}, e : {Name(p)}, targets : {<<>>}]
Leaves(p)  ==
  Simple(p) \cup [k : {"return"}, line : {1}, e : {<<Name(p)>>}]
  \cup [k : {"raise"}, line : {1}, es : {<<Name(p)>>, <<>>}]
  \cup [k : {"break", "continue"}, line : {1}]

At_(p, part) == Append(p, part)
NoElse == {<<>>}
Else(S) == {<<n>> : n \in S}
Clause(p, tests, S) ==
  [line : {1}, id : {At_(p, "m")}, test : tests, target : {<<>>}, body : S]

(* Each statement has one part that is nested deeper, and leaves.          *)
RECURSIVE Nested(_, _)
Nested(d, p) ==
  IF d = 0 THEN Leaves(p)
  ELSE LET In(part)   == Nested(d - 1, At_(p, part))
           Leaf(part) == Leaves(At_(p, part))
           One(part)  == Simple(At_(p, part))
           Loop(body, orelse) == [k : {"while"}, line : {1}, test : {Test(p)}, body : body, orelse : orelse]
           If(body, orelse) ==
             [k : {"if"}, line : {1}, arms : {<<[line |-> 1, test |-> Test(p), body |-> b]>> : b \in body},
              orelse : orelse]
           Except(body, tests, handler, orelse) ==
             [k : {"except"}, line : {1}, body : body,
              handlers : {<<h>> : h \in Clause(p, tests, handler)}, orelse : orelse]
           Finally(body, final) == [k : {"finally"}, line : {1}, finalline : {1}, body : body, final : final]
       IN Leaves(p)
          \cup Loop(In("b"), NoElse) \cup Loop(Leaf("b"), Else(In("e")))
          \cup If(In("b"), Else(One("e")))
          \cup Except(In("b"), {<<>>}, Leaf("h"), NoElse)
          \cup Except(One("b"), {<<>>, <<Name(At_(p, "c"))>>}, In("h"), Else(One("e")))
          \cup Except(One("b"), {<<>>}, One("h"), Else(In("e")))
          \cup Finally(In("b"), Leaf("f")) \cup Finally(Leaf("b"), In("f"))

(* Statements in one another without branches, which need as many blocks   *)
(* as a frame has, or more.                                                *)
RECURSIVE Tower(_, _)
Tower(d, p) ==
  IF d = 0 THEN Simple(p)
  ELSE LET In == Tower(d - 1, At_(p, "b"))
           Top(part) == CHOOSE n \in Simple(At_(p, part)) : TRUE
       IN [k : {"while"}, line : {1}, test : {Test(p)}, body : In, orelse : NoElse]
          \cup [k : {"except"}, line : {1}, body : In, orelse : NoElse,
                handlers : {<<h>> : h \in Clause(p, {<<>>}, {Top("h")})}]
          \cup [k : {"except"}, line : {1}, body : {Top("h")}, orelse : NoElse,
                handlers : {<<h>> : h \in Clause(p, {<<>>}, In)}]
          \cup [k : {"finally"}, line : {1}, finalline : {1}, body : In, final : {Top("f")}]
          \cup [k : {"finally"}, line : {1}, finalline : {1}, body : {Top("f")}, final : In]

(* In a loop with an 'else', so that all ways out of it can be told apart. *)
BlockPrograms ==
  {[k |-> "def", line |-> 1, id |-> <<"blocks">>, defaults |-> <<>>, body |->
     [k |-> "suite", stmts |->
       <<[k |-> "for", line |-> 1, id |-> <<"i">>, e |-> [k |-> "const", id |-> <<"s">>, true |-> TRUE],
          target |-> Name(<<"v">>), body |-> n,
          orelse |-> <<[k |-> "expr", line |-> 1, e |-> Name(<<"else">>), targets |-> <<>>]>>],
         [k |-> "expr", line |-> 1, e |-> Name(<<"end">>), targets |-> <<>>]>>]] :
   n \in Nested(Depth, <<"b">>) \cup Tower(Depth + 1, <<"b">>)}
=============================================================================
