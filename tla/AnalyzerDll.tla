----------------------------- MODULE AnalyzerDll -----------------------------
(***************************************************************************)
(* The Analyzer DLL behind its C-ABI (analyzer_main.cpp): the error list it*)
(* keeps in a global, OIRReader::load as the loop over records that it is, *)
(* and Analyzer::analyze as its passes over what load() published.         *)
(*                                                                         *)
(* The process that loaded the DLL may call nxf_init_analyzer and          *)
(* nxf_analyze_oir in any order.  A file does not change during a call     *)
(* here; OccPipeline models the case that it does.                         *)
(***************************************************************************)
EXTENDS SemanticRules

CONSTANTS
  Files,       \* the files a call can be given: [image, size]
  Nothing,     \* the reader has published nothing
  MaxCalls     \* bound: calls in the life of the process

(* The records of a file.                                                  *)
FileSymbol == [id : Nat, prefix : Nat, name : Name, end : Nat]
FileInstruction == [op : STRING, symbolId : Nat, operandId : Nat]

(* A file is at most its image; its records follow one another; and its    *)
(* code offset is the end of the symbol table, lies inside a record, or is *)
(* no offset into the file at all.                                         *)
ASSUME FilesAssumption ==
  /\ \A f \in Files :
       /\ f.image.symbols \in Seq(FileSymbol) /\ f.image.code \in Seq(FileInstruction)
       /\ f.image.codeOffset \in Nat /\ f.size \in 0..ImageBytes(f.image)
       /\ \A i, j \in 1..Len(f.image.symbols) :
            i <= j => f.image.symbols[i].end <= f.image.symbols[j].end
       /\ \A n \in 0..(Len(f.image.symbols) - 1) :
            f.image.codeOffset # HeaderSize + TableBytes(f.image.symbols, n)
              \/ f.image.codeOffset \notin HeaderSize..f.size
  /\ MaxCalls \in Nat

VARIABLES
  pc,          \* "idle", or where the call is
  file,        \* the file of the call; Nothing when it cannot be opened
  nsym,        \* parsedSymbols holds this many records
  ncode,       \* parsedInstructions holds this many
  published,   \* what the reader exposes: Nothing, or [symbols, code]
  idx,         \* currentInstrIdx
  errors,      \* g_analyzerErrors.errorCount
  warnings,    \* the warnings of the last call
  ret,         \* what it returned
  before,      \* history: the error count when the call began
  calls        \* calls so far

vars == <<pc, file, nsym, ncode, published, idx, errors, warnings, ret, before, calls>>

Init ==
  /\ pc = "idle" /\ file = Nothing /\ nsym = 0 /\ ncode = 0 /\ published = Nothing
  /\ idx = 0 /\ errors = 0 /\ warnings = {} /\ ret = 0 /\ before = 0 /\ calls = 0

(* nxf_init_analyzer.                                                      *)
InitAnalyzer ==
  /\ pc = "idle" /\ calls < MaxCalls
  /\ errors' = 0 /\ calls' = calls + 1
  /\ UNCHANGED <<pc, file, nsym, ncode, published, idx, warnings, ret, before>>

(* nxf_analyze_oir: a reader of its own, which starts out empty.           *)
AnalyzeOir(f) ==
  /\ pc = "idle" /\ calls < MaxCalls
  /\ pc' = "open" /\ file' = f /\ published' = Nothing
  /\ nsym' = 0 /\ ncode' = 0 /\ idx' = 0 /\ warnings' = {}
  /\ before' = errors /\ calls' = calls + 1
  /\ UNCHANGED <<errors, ret>>

-------------------------------------------------------------------------------
(* OIRReader::load.                                                        *)

Return(r) == pc' = "idle" /\ ret' = r

(* fail(): one error, and the call is over.                                *)
LoadFails ==
  /\ errors' = errors + 1 /\ Return(1)
  /\ UNCHANGED <<file, nsym, ncode, published, idx, warnings, before, calls>>

HeaderOk == file # Nothing /\ HeaderAccepted(file.image, file.size)

(* A0001, or a check of the header.                                        *)
HeaderFails ==
  /\ pc = "open" /\ ~HeaderOk
  /\ LoadFails

ReadHeader ==
  /\ pc = "open" /\ HeaderOk
  /\ pc' = "symbols"
  /\ UNCHANGED <<file, nsym, ncode, published, idx, errors, warnings, ret, before, calls>>

(* Where the next symbol record starts.                                    *)
Position == HeaderSize + TableBytes(file.image.symbols, nsym)
AtCode   == Position = file.image.codeOffset
InBounds == nsym < Len(file.image.symbols)
            /\ HeaderSize + TableBytes(file.image.symbols, nsym + 1) <= file.image.codeOffset

FreshId_Unsearched == TRUE

FreshId ==
  \A j \in 1..nsym : file.image.symbols[j].id # file.image.symbols[nsym + 1].id

RecordOk ==
  LET s == file.image.symbols[nsym + 1]
  IN  /\ NameLen[s.name] <= MaxSymbolName
      /\ s.id # 0 /\ FreshId
      /\ s.prefix \in Prefix

(* A0008, A0009: the record crosses the code offset; A0009..A0011: it is   *)
(* not valid.                                                              *)
SymbolFails ==
  /\ pc = "symbols" /\ ~AtCode
  /\ ~(InBounds /\ RecordOk)
  /\ LoadFails

ReadSymbol ==
  /\ pc = "symbols" /\ ~AtCode /\ InBounds /\ RecordOk
  /\ nsym' = nsym + 1
  /\ UNCHANGED <<pc, file, ncode, published, idx, errors, warnings, ret, before, calls>>

SymbolsEnd ==
  /\ pc = "symbols" /\ AtCode
  /\ pc' = "code"
  /\ UNCHANGED <<file, nsym, ncode, published, idx, errors, warnings, ret, before, calls>>

ReadInstruction ==
  /\ pc = "code" /\ ncode < InstructionCount(file.image, file.size)
  /\ ncode' = ncode + 1
  /\ UNCHANGED <<pc, file, nsym, published, idx, errors, warnings, ret, before, calls>>

(* Published only after the entire file has been read.                     *)
Publish ==
  /\ pc = "code" /\ ncode = InstructionCount(file.image, file.size)
  /\ published' = [symbols |-> SubSeq(file.image.symbols, 1, nsym),
                   code |-> SubSeq(file.image.code, 1, ncode)]
  /\ pc' = "traverse"
  /\ UNCHANGED <<file, nsym, ncode, idx, errors, warnings, ret, before, calls>>

-------------------------------------------------------------------------------
(* Analyzer::analyze.                                                      *)

(* traverseOIR: the next instruction; it goes on after an error.           *)
Traverse_StopAtFirst ==
  /\ pc = "traverse" /\ idx < Len(published.code)
  /\ idx' = IF Undefined(published.symbols, published.code[idx + 1]) = {} THEN idx + 1
            ELSE Len(published.code)
  /\ errors' = errors + Cardinality(Undefined(published.symbols, published.code[idx + 1]))
  /\ UNCHANGED <<pc, file, nsym, ncode, published, warnings, ret, before, calls>>

Traverse_UncheckedStays ==
  /\ pc = "traverse" /\ idx < Len(published.code)
  /\ idx' = IF CheckedIds(published.code[idx + 1]) = <<>> THEN idx ELSE idx + 1
  /\ errors' = errors + Cardinality(Undefined(published.symbols, published.code[idx + 1]))
  /\ UNCHANGED <<pc, file, nsym, ncode, published, warnings, ret, before, calls>>

Traverse ==
  /\ pc = "traverse" /\ idx < Len(published.code)
  /\ idx' = idx + 1
  /\ errors' = errors + Cardinality(Undefined(published.symbols, published.code[idx + 1]))
  /\ UNCHANGED <<pc, file, nsym, ncode, published, warnings, ret, before, calls>>

Verdict_OwnErrors == IF errors > before THEN 1 ELSE 0
Verdict_Count == errors

Verdict == IF errors > 0 THEN 1 ELSE 0

(* The third pass, which only warns, and the verdict.                      *)
Finish ==
  /\ pc = "traverse" /\ idx = Len(published.code)
  /\ warnings' = Warnings(published.symbols, published.code)
  /\ Return(Verdict)
  /\ UNCHANGED <<file, nsym, ncode, published, idx, errors, before, calls>>

Load == \/ HeaderFails \/ ReadHeader \/ SymbolFails \/ ReadSymbol \/ SymbolsEnd
        \/ ReadInstruction \/ Publish

Next ==
  \/ InitAnalyzer
  \/ \E f \in Files \union {Nothing} : AnalyzeOir(f)
  \/ Load
  \/ Traverse \/ Finish

(* A call that was started runs to its end.                                *)
Spec == Init /\ [][Next]_vars /\ WF_vars(Load \/ Traverse \/ Finish)

-------------------------------------------------------------------------------
(* Properties.                                                             *)

(* The type invariant.                                                     *)
TypeOK ==
  /\ pc \in {"idle", "open", "symbols", "code", "traverse"}
  /\ file \in Files \union {Nothing}
  /\ nsym \in Nat /\ ncode \in Nat /\ idx \in Nat
  /\ errors \in Nat /\ before \in Nat /\ ret \in {0, 1} /\ calls \in 0..MaxCalls

Accepted == file # Nothing /\ Loads(file.image, file.size)

Whole(f) == [symbols |-> f.image.symbols, code |-> PublishedCode(f.image, f.size)]

(* The loops of load(), with their exits in the middle, accept exactly the *)
(* files of the container format, and expose all of such a file or nothing *)
(* of any other: never an array that was read in part.                     *)
PublicationIsAtomic ==
  /\ published # Nothing => Accepted /\ published = Whole(file)
  /\ pc = "idle" /\ Accepted => published = Whole(file)

References(code) == {k \in DOMAIN code : code[k].op \in Checked}
                      \X {"symbolId", "operandId"}

(* The ids of a stream that must be in the table and are not.              *)
Dangling(syms, code) ==
  {r \in References(code) :
     /\ r[2] = "symbolId" \/ code[r[1]].op = "RELOCATE"
     /\ code[r[1]][r[2]] # 0
     /\ \A i \in DOMAIN syms : syms[i].id # code[r[1]][r[2]]}

(* All errors of a file are shown at once: when a call that loaded its file*)
(* returns, it has added one error for every dangling reference.           *)
AllErrorsReported ==
  [][pc = "traverse" /\ pc' = "idle" =>
       errors' - before = Cardinality(Dangling(published.symbols, published.code))]_vars

(* The verdict in terms of the file: 0 exactly when the file loads, nothing*)
(* dangles, and no call since the last nxf_init_analyzer left an error in  *)
(* the global list: a clean file is rejected after a bad one.              *)
VerdictExplained ==
  [][pc # "idle" /\ pc' = "idle" =>
       (ret' = 0 <=> /\ before = 0 /\ Accepted
                     /\ Dangling(file.image.symbols, PublishedCode(file.image, file.size)) = {})]_vars

(* Every call returns.                                                     *)
CallsReturn == pc # "idle" ~> pc = "idle"

=============================================================================
