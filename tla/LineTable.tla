------------------------------- MODULE LineTable -------------------------------
(***************************************************************************)
(* The table of line numbers (Python/compile.c), byte by byte: what        *)
(* com_set_lineno writes while a function is compiled, one pair of bytes a *)
(* step, and how PyCode_Addr2Line reads it, one pair a step.  (Compiling   *)
(* does each in one go, for the functions that it compiles; here lines and *)
(* code come in any order and amount.)                                     *)
(***************************************************************************)
EXTENDS Integers, Sequences

CONSTANTS
  ByteValues,  (* how many values a byte has                                *)
  MaxLine,    (* bound: the last line                                      *)
  MaxCode,    (* bound: bytes of code                                      *)
  MaxPairs    (* bound: when the table has so many no other line is begun  *)

ASSUME LineAssumption ==
  ByteValues \in Nat \ {0, 1} /\ MaxLine \in Nat /\ MaxCode \in Nat /\ MaxPairs \in Nat

VARIABLES
  phase,      (* "emit" code, write the "table", "ended", "read" it, "found" *)
  c_lines,    (* history: for each byte of code the line it was emitted for *)
  c_lineno, c_firstlineno, c_last_addr, c_last_line,
  c_lnotab,   (* pairs of bytes: how far address and line go on            *)
  begins,     (* history: the address and the line that each pair goes on  *)
              (* from, and those behind the last                           *)
  incr_addr, incr_line,         (* of com_set_lineno: what is left to write *)
  exact,      (* history: no line came after a later one, and no later line *)
              (* after more code than a byte counts                        *)
  addrq, nth, addr, line          (* of PyCode_Addr2Line: nth is the next pair *)

emitVars  == <<c_lines, c_lineno, c_firstlineno, exact>>
tableVars == <<c_last_addr, c_last_line, c_lnotab, begins, incr_addr, incr_line>>
readVars  == <<addrq, nth, addr, line>>
lineVars  == <<phase, emitVars, tableVars, readVars>>

c_nexti == Len(c_lines)
Lines   == 0 .. MaxLine

LineInit ==
  /\ phase = "emit" /\ c_lines = <<>>
  /\ c_lineno = 0 /\ c_firstlineno = 0 /\ c_last_addr = 0 /\ c_last_line = 0
  /\ c_lnotab = <<>> /\ begins = <<[addr |-> 0, line |-> 0]>>
  /\ incr_addr = 0 /\ incr_line = 0 /\ exact = TRUE
  /\ addrq = 0 /\ nth = 1 /\ addr = 0 /\ line = 0

-----------------------------------------------------------------------------
(* Writing *)

(* com_set_lineno.  The first call only sets the line that the table       *)
(* starts from; but a module begins with line 0, which is as if there was  *)
(* none.                                                                   *)
BeginLine(lineno) ==
  /\ phase = "emit" /\ Len(c_lnotab) < MaxPairs
  /\ c_lineno' = lineno
  /\ IF c_firstlineno = 0
     THEN /\ c_firstlineno' = lineno /\ c_last_line' = lineno
          /\ begins' = <<[addr |-> 0, line |-> lineno]>>
          /\ UNCHANGED <<phase, exact, c_last_addr, incr_addr, incr_line>>
     ELSE /\ incr_addr' = c_nexti - c_last_addr /\ incr_line' = lineno - c_last_line
          /\ exact' = (exact /\ incr_line' >= 0 /\ (incr_line' > 0 => incr_addr' < ByteValues))
          /\ phase' = "table"
          /\ UNCHANGED <<c_firstlineno, c_last_addr, c_last_line, begins>>
  /\ UNCHANGED <<c_lines, c_lnotab, readVars>>

Truncated(x) == IF x > ByteValues - 1 THEN ByteValues - 1 ELSE x

AddPair ==
  LET pair == [addr |-> Truncated(incr_addr), line |-> Truncated(incr_line) % ByteValues]
      from == begins[Len(begins)]
  IN /\ phase = "table" /\ (incr_addr > 0 \/ incr_line > 0)
     /\ c_lnotab' = Append(c_lnotab, pair)
     /\ begins' = Append(begins, [addr |-> from.addr + pair.addr, line |-> from.line + pair.line])
     /\ UNCHANGED <<phase, emitVars, c_last_addr, c_last_line, readVars>>

(* Mutant: what does not fit in a byte is not left for the next pair.      *)
AddPairOnce == AddPair /\ incr_addr' = 0 /\ incr_line' = 0

(* com_add_lnotab, in the loop of com_set_lineno. *)
com_add_lnotab ==
  /\ AddPair
  /\ incr_addr' = incr_addr - Truncated(incr_addr)
  /\ incr_line' = incr_line - Truncated(incr_line)

(* The loop ends. *)
LineSet ==
  /\ phase = "table" /\ incr_addr <= 0 /\ incr_line <= 0
  /\ phase' = "emit" /\ c_last_addr' = c_nexti /\ c_last_line' = c_lineno
  /\ UNCHANGED <<emitVars, c_lnotab, begins, incr_addr, incr_line, readVars>>

(* com_addbyte, for an instruction of size bytes. *)
EmitCode(size) ==
  /\ phase = "emit" /\ c_nexti + size <= MaxCode
  /\ c_lines' = c_lines \o [k \in 1 .. size |-> c_lineno]
  /\ UNCHANGED <<phase, c_lineno, c_firstlineno, exact, tableVars, readVars>>

End ==
  /\ phase = "emit" /\ c_lines # <<>> /\ phase' = "ended"
  /\ UNCHANGED <<emitVars, tableVars, readVars>>

-----------------------------------------------------------------------------
(* Reading *)

Addr2Line(q) ==
  /\ phase = "ended" /\ phase' = "read"
  /\ addrq' = q /\ nth' = 1 /\ addr' = 0 /\ line' = c_firstlineno
  /\ UNCHANGED <<emitVars, tableVars>>

(* The search goes on with a pair that does not begin behind the address.  *)
ReadPair ==
  /\ phase = "read" /\ nth <= Len(c_lnotab) /\ addr + c_lnotab[nth].addr <= addrq
  /\ addr' = addr + c_lnotab[nth].addr /\ line' = line + c_lnotab[nth].line /\ nth' = nth + 1
  /\ UNCHANGED <<phase, addrq, emitVars, tableVars>>

LineFound ==
  /\ phase = "read" /\ (nth <= Len(c_lnotab) => addr + c_lnotab[nth].addr > addrq)
  /\ phase' = "found"
  /\ UNCHANGED <<emitVars, tableVars, readVars>>

LineNext ==
  \/ \E lineno \in Lines : BeginLine(lineno)
  \/ \E size \in {1, 3} : EmitCode(size)
  \/ \E q \in 0 .. c_nexti - 1 : Addr2Line(q)
  \/ com_add_lnotab \/ LineSet \/ End \/ ReadPair \/ LineFound

LineSpec == LineInit /\ [][LineNext]_lineVars

-----------------------------------------------------------------------------
(* Each byte of code that has a line (com_set_lineno) has it in the table  *)
(* (PyCode_Addr2Line), however much code and how many lines there are and  *)
(* however they are interleaved, as long as lines do not go back and each  *)
(* later line comes after less code than a byte counts.                    *)
LinesAreRight == phase = "found" /\ exact /\ c_lines[addrq + 1] # 0 => line = c_lines[addrq + 1]
================================================================================
