------------------------------ MODULE StackShapes ------------------------------
(***************************************************************************)
(* What an instruction does to the value stack and to the stack of blocks  *)
(* (Python/ceval.c), and code that is executed without looking at objects: *)
(* a shape is the address, the kind of each value on the stack and the     *)
(* blocks.  A shape has a step for each outcome of its instruction, so a   *)
(* function has finitely many shapes, however long it is executed; a set   *)
(* of them that all its steps stay in is a stack map of its code.          *)
(***************************************************************************)
EXTENDS CodeObjects, Integers, SequencesExt

(* Values are taken off the end of s: n of them, or those above level.     *)
Dropped(s, n) == SubSeq(s, 1, Len(s) - n)
DownTo(s, level) == IF Len(s) > level THEN SubSeq(s, 1, level) ELSE s

ObjectOps ==
  {"LOAD_CONST", "LOAD_NAME", "LOAD_GLOBAL", "LOAD_LOCALS", "BUILD_MAP", "IMPORT_NAME", "IMPORT_FROM",
   "DELETE_NAME", "PRINT_NEWLINE", "UNARY", "LOAD_ATTR", "STORE_NAME", "DELETE_ATTR", "PRINT_ITEM",
   "UNPACK", "BINARY", "COMPARE_OP", "EXC_MATCH", "BINARY_SUBSCR", "STORE_ATTR", "DELETE_SUBSCR",
   "STORE_SUBSCR", "EXEC_STMT", "BUILD_CLASS", "BUILD_TUPLE", "BUILD_LIST", "BUILD_SLICE", "SLICE",
   "DELETE_SLICE", "CALL_FUNCTION", "MAKE_FUNCTION", "STORE_SLICE"}
StackOps == {"POP_TOP", "DUP_TOP", "ROT_TWO", "ROT_THREE", "SET_LINENO"}
Jumps     == {"JUMP_FORWARD", "JUMP_ABSOLUTE"}
CondJumps == {"JUMP_IF_FALSE", "JUMP_IF_TRUE"}
Setups    == {"SETUP_LOOP", "SETUP_EXCEPT", "SETUP_FINALLY"}

Pops(op, arg) ==
  CASE op \in {"LOAD_CONST", "LOAD_NAME", "LOAD_GLOBAL", "LOAD_LOCALS", "BUILD_MAP", "IMPORT_NAME",
               "IMPORT_FROM", "DELETE_NAME", "PRINT_NEWLINE"} -> 0
    [] op \in {"UNARY", "LOAD_ATTR", "STORE_NAME", "DELETE_ATTR", "PRINT_ITEM", "UNPACK"} -> 1
    [] op \in {"BINARY", "COMPARE_OP", "EXC_MATCH", "BINARY_SUBSCR", "STORE_ATTR", "DELETE_SUBSCR"} -> 2
    [] op \in {"STORE_SUBSCR", "EXEC_STMT", "BUILD_CLASS"} -> 3
    [] op \in {"BUILD_TUPLE", "BUILD_LIST", "BUILD_SLICE"} -> arg
    [] op \in {"SLICE", "DELETE_SLICE", "CALL_FUNCTION", "MAKE_FUNCTION"} -> arg + 1
    [] op = "STORE_SLICE" -> arg + 2

Pushes(op, arg) ==
  CASE op \in {"STORE_NAME", "STORE_ATTR", "STORE_SUBSCR", "STORE_SLICE", "DELETE_NAME", "DELETE_ATTR",
               "DELETE_SUBSCR", "DELETE_SLICE", "PRINT_ITEM", "PRINT_NEWLINE", "EXEC_STMT", "IMPORT_FROM"} -> 0
    [] op = "UNPACK" -> arg
    [] OTHER -> 1

ROT_TWO(s)   == Dropped(s, 2) \o <<s[Len(s)], s[Len(s) - 1]>>
ROT_THREE(s) == Dropped(s, 3) \o <<s[Len(s)], s[Len(s) - 2], s[Len(s) - 1]>>

Shuffled(op, s) ==
  CASE op = "POP_TOP"    -> Dropped(s, 1)
    [] op = "DUP_TOP"    -> Append(s, Last(s))
    [] op = "ROT_TWO"    -> ROT_TWO(s)
    [] op = "ROT_THREE"  -> ROT_THREE(s)
    [] op = "SET_LINENO" -> s

HasArgAt(code, addr) == addr + 2 <= Len(code) /\ code[addr + 2].op = "ARG"
NextAddr(code, addr) == addr + (IF HasArgAt(code, addr) THEN 3 ELSE 1)

Handles(block, reason) ==
  \/ block.b_type = "SETUP_LOOP" /\ reason = "BREAK"
  \/ block.b_type = "SETUP_FINALLY"
  \/ block.b_type = "SETUP_EXCEPT" /\ reason = "EXCEPTION"

-----------------------------------------------------------------------------
(* Shapes *)

Shape(next, kinds, blocks) == [next |-> next, kinds |-> kinds, blocks |-> blocks]
FirstShape == Shape(0, <<>>, <<>>)

(* What the handler of a block finds above the values the block found.     *)
FoundBy(block, reason, value) ==
  CASE block.b_type = "SETUP_LOOP" -> <<>>
    [] reason = "EXCEPTION" -> <<"tb", "val", "exc">>
    [] reason = "RETURN"    -> <<value, "RETURN">>
    [] OTHER                -> <<reason>>

(* The shape in which the next handler goes on; none if the frame is left. *)
Unwound(s, reason, kinds, value) ==
  LET handlers == {i \in DOMAIN s.blocks : Handles(s.blocks[i], reason)}
      block    == s.blocks[Max(handlers)]
  IN IF handlers = {} THEN {}
     ELSE {Shape(block.b_handler, DownTo(kinds, block.b_level) \o FoundBy(block, reason, value),
                 SubSeq(s.blocks, 1, Max(handlers) - 1))}

Raised(s, kinds) == Unwound(s, "EXCEPTION", kinds, "object")

(* An object that ends a 'finally' may be the None that it was begun with. *)
EndedFinally(s, after) ==
  CASE Last(s.kinds) = "RETURN" -> Unwound(s, "RETURN", Dropped(s.kinds, 2), s.kinds[Len(s.kinds) - 1])
    [] Last(s.kinds) = "BREAK"  -> Unwound(s, "BREAK", Dropped(s.kinds, 1), "object")
    [] Last(s.kinds) = "exc"    -> Raised(s, Dropped(s.kinds, 3))
    [] OTHER -> {Shape(after, Dropped(s.kinds, 1), s.blocks)} \cup Raised(s, Dropped(s.kinds, 1))

Steps(code, s) ==
  LET op    == code[s.next + 1].op
      arg   == code[s.next + 1].arg
      after == NextAddr(code, s.next)
      Goes_(next, kinds) == {Shape(next, kinds, s.blocks)}
  IN CASE op \in ObjectOps ->
            Goes_(after, Dropped(s.kinds, Pops(op, arg)) \o [i \in 1 .. Pushes(op, arg) |-> "object"])
            \cup (IF op = "LOAD_CONST" THEN {} ELSE Raised(s, Dropped(s.kinds, Pops(op, arg))))
       [] op \in StackOps        -> Goes_(after, Shuffled(op, s.kinds))
       [] op = "JUMP_FORWARD"    -> Goes_(after + arg, s.kinds)
       [] op = "JUMP_ABSOLUTE"   -> Goes_(arg, s.kinds)
       [] op \in CondJumps       -> Goes_(after, s.kinds) \cup Goes_(after + arg, s.kinds) \cup Raised(s, s.kinds)
       [] op = "FOR_LOOP"        -> Goes_(after, Append(s.kinds, "object"))
                                    \cup Goes_(after + arg, Dropped(s.kinds, 2)) \cup Raised(s, Dropped(s.kinds, 2))
       [] op \in Setups          -> {Shape(after, s.kinds, Append(s.blocks,
                                       [b_type |-> op, b_handler |-> after + arg, b_level |-> Len(s.kinds)]))}
       [] op = "POP_BLOCK"       -> {Shape(after, DownTo(s.kinds, Last(s.blocks).b_level), Front(s.blocks))}
       [] op = "BREAK_LOOP"      -> Unwound(s, "BREAK", s.kinds, "object")
       [] op = "RETURN_VALUE"    -> Unwound(s, "RETURN", Dropped(s.kinds, 1), Last(s.kinds))
       [] op = "RAISE_VARARGS"   -> Raised(s, Dropped(s.kinds, arg))
       [] op = "END_FINALLY"     -> EndedFinally(s, after)

-----------------------------------------------------------------------------
(* Stacks that fit *)

(* How many values the next instruction takes or looks at. *)
Operands(op, arg, kinds) ==
  CASE op \in ObjectOps -> Pops(op, arg)
    [] op \in {"POP_TOP", "DUP_TOP", "JUMP_IF_FALSE", "JUMP_IF_TRUE", "RETURN_VALUE"} -> 1
    [] op \in {"ROT_TWO", "FOR_LOOP"} -> 2
    [] op = "ROT_THREE" -> 3
    [] op = "RAISE_VARARGS" -> arg
    [] op = "END_FINALLY" -> IF kinds = <<>> THEN 1
                             ELSE CASE Last(kinds) = "exc" -> 3 [] Last(kinds) = "RETURN" -> 2 [] OTHER -> 1
    [] OTHER -> 0

(* The next byte is an instruction; the stacks have no more than there is  *)
(* room for, the instruction has its operands, and neither it nor what is  *)
(* unwound when it fails takes a value that was there before a block.      *)
Fits(co, s) ==
  /\ s.next + 1 \in DOMAIN co.code
  /\ LET op  == co.code[s.next + 1].op
         arg == co.code[s.next + 1].arg
         n   == Operands(op, arg, s.kinds)
     IN /\ op # "ARG" /\ arg \in Nat
        /\ n <= Len(s.kinds) /\ Len(s.kinds) <= co.stacksize
        /\ \A i \in DOMAIN s.blocks : s.blocks[i].b_level + n <= Len(s.kinds)
        /\ op \in Setups => Len(s.blocks) < CO_MAXBLOCKS
        /\ op = "POP_BLOCK" => s.blocks # <<>>
  /\ \A i, j \in DOMAIN s.blocks : i < j => s.blocks[i].b_level <= s.blocks[j].b_level

IsStackMap(co, S) ==
  FirstShape \in S /\ \A s \in S : Fits(co, s) /\ Steps(co.code, s) \subseteq S
=============================================================================
