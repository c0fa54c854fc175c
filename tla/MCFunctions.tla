----------------------------- MODULE MCFunctions -----------------------------
(* Functions of nested statements, and functions of nested expressions; and *)
(* beside them a table of line numbers.  A behaviour is one of the two; the *)
(* other stays at its beginning (the function is then the shortest).        *)
EXTENDS Statements, LineTable

CONSTANTS Depth, BlockEvents, ExpressionEvents

VARIABLE part

Blocks == INSTANCE BlockTrees
Expressions == INSTANCE ExpressionTrees

MCPrograms == Blocks!BlockPrograms \cup Expressions!ExpressionPrograms
MCMaxEvents(p) == IF p.id = <<"blocks">> THEN BlockEvents ELSE ExpressionEvents

Shortest == Expressions!Function(1, "f", <<>>, Expressions!ThenEnd([k |-> "pass", line |-> 4]))

MCInit == /\ LineInit
          /\ \/ part = "functions" /\ EvalInit
             \/ part = "lines" /\ program = Shortest /\ exc_type = None /\ EvalInit

MCNext == /\ UNCHANGED part
          /\ \/ part = "functions" /\ EvalNext /\ UNCHANGED lineVars
             \/ part = "lines" /\ LineNext /\ UNCHANGED evalVars

MCSpec == MCInit /\ [][MCNext]_<<part, evalVars, lineVars>>
=============================================================================
