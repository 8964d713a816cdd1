---------------------------- MODULE SemanticRules ----------------------------
(***************************************************************************)
(* What the semantic analyzer (Analyzer.cpp) looks for in a loaded OIR     *)
(* file, as operators on its symbols and its instructions.                 *)
(***************************************************************************)
EXTENDS OIRContainer

CONSTANT Handle     \* the names of the form "(...)"

(* Opcodes whose symbol id must be in the table.  RELOCATE's operand must  *)
(* be there too; every other opcode passes unchecked.                      *)
Checked ==
  {"DEF_VAR", "CAPTURE", "RELOCATE", "ASSIGN", "PIPE", "IGNORE", "ZONE_WRITE",
   "FLOW_FEED", "CALL", "HARD_LOCK", "CATCH_ERR"}

(* The ids that traverseOIR hands to checkSymbolExists; 0 means "none".    *)
CheckedIds(instr) ==
  IF instr.op \notin Checked THEN <<>>
  ELSE IF instr.op = "RELOCATE" THEN <<instr.symbolId, instr.operandId>>
  ELSE <<instr.symbolId>>

Known(syms) == {syms[i].id : i \in DOMAIN syms}

(* A2000, once for each id of the instruction that is not in the table.    *)
Undefined(syms, instr) ==
  {j \in DOMAIN CheckedIds(instr) : CheckedIds(instr)[j] \notin Known(syms) \union {0}}

(* The third pass: a symbol is tracked if some DEF_VAR defines it and it is*)
(* a variable, and it is used if anything but a DEF_VAR mentions it.       *)
Tracked(syms, code) ==
  {i \in DOMAIN syms :
     /\ syms[i].prefix = VAR /\ syms[i].id # 0
     /\ \E k \in DOMAIN code : code[k].op = "DEF_VAR" /\ code[k].symbolId = syms[i].id}

Used(code) ==
  UNION {{code[k].symbolId, code[k].operandId} :
           k \in {k \in DOMAIN code : code[k].op # "DEF_VAR"}}

Unused(syms, code) == {i \in Tracked(syms, code) : syms[i].id \notin Used(code)}

(* W0011 for a handle, W0010 for any other variable.                       *)
Warning(sym) == [code |-> IF sym.name \in Handle THEN "W0011" ELSE "W0010", id |-> sym.id]

Warnings(syms, code) == {Warning(syms[i]) : i \in Unused(syms, code)}

(* The verdict on a whole stream.                                          *)
Resolved(syms, code) == \A k \in DOMAIN code : Undefined(syms, code[k]) = {}

=============================================================================
