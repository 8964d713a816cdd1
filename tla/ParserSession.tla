---------------------------- MODULE ParserSession -----------------------------
(***************************************************************************)
(* The Parser DLL behind its C-ABI (OIR_Generator.cpp): one session with   *)
(* its error list and its OIRWriter, and the .oir file it saves to.        *)
(*                                                                         *)
(* A caller creates a session, then parses sources and saves in any order  *)
(* and any number of times, then destroys it; the process can die between  *)
(* any two steps.  NexusParser is represented by what it does to its       *)
(* writer and its error list: it adds symbols, emits instructions that     *)
(* refer to them, and records errors.  The file outlives the session.      *)
(***************************************************************************)
EXTENDS OIRContainer

CONSTANTS
  Config,      \* what nxf_create_session gets: target, mode, and whether
               \* the output path is non-empty
  Op,          \* the opcodes
  Emission,    \* the (opcode, prefix) pairs the parser emits a symbol with
  NoFile,      \* there is no file at the output path
  MaxErrors,   \* bound: errors recorded in one session
  MaxCode      \* bound: instructions emitted in one session

ASSUME SessionAssumption ==
  /\ Config \subseteq [target : Target, mode : {0, 1}, path : BOOLEAN]
  /\ Emission \subseteq [op : Op, prefix : Prefix]
  /\ MaxErrors \in Nat /\ MaxCode \in Nat

VARIABLES
  open,       \* the session exists
  config,     \* what it was created with
  phase,      \* "idle", or inside nxf_parse_source / OIRWriter::save
  errors,     \* ErrorList::errorCount
  syms,       \* OIRWriter::symTable
  code,       \* OIRWriter::codeStream
  file,       \* NoFile, or an image and how much of it is on the disk
  ret,        \* what the last call returned
  failed      \* history: some call that was given its arguments returned 1

vars == <<open, config, phase, errors, syms, code, file, ret, failed>>

File(img, size) == [image |-> img, size |-> size]

Init ==
  /\ open = FALSE /\ config \in Config /\ phase = "idle" /\ errors = 0
  /\ syms = <<>> /\ code = <<>> /\ file = NoFile /\ ret = 0 /\ failed = FALSE

(* A call that was given its arguments returns r.                          *)
Return(r) == phase' = "idle" /\ ret' = r /\ failed' = (failed \/ r = 1)

-------------------------------------------------------------------------------
(* Sessions.                                                               *)

(* nxf_create_session: a new writer and an empty error list.               *)
CreateSession(c) ==
  /\ ~open
  /\ open' = TRUE /\ config' = c
  /\ UNCHANGED <<phase, errors, syms, code, file, ret, failed>>

(* The memory of the session is gone.                                      *)
EndSession ==
  /\ open' = FALSE /\ phase' = "idle" /\ errors' = 0 /\ syms' = <<>> /\ code' = <<>>
  /\ ret' = 0 /\ failed' = FALSE
  /\ UNCHANGED <<config, file>>

(* nxf_destroy_session.                                                    *)
DestroySession == open /\ phase = "idle" /\ EndSession

(* The process dies in the middle of a call: whatever reached the file     *)
(* stays there.                                                            *)
Crash == open /\ phase # "idle" /\ EndSession

-------------------------------------------------------------------------------
(* nxf_parse_file and nxf_parse_source.                                    *)

Idle == open /\ phase = "idle"

(* The source or the path is NULL: 1, before anything is looked at, and the*)
(* error list is left as it was.                                           *)
NullArgument ==
  /\ Idle
  /\ ret' = 1
  /\ UNCHANGED <<open, config, phase, errors, syms, code, file, failed>>

(* L0001: the source file cannot be opened.                                *)
ParseFileMissing ==
  /\ Idle /\ errors < MaxErrors
  /\ errors' = errors + 1
  /\ Return(1)
  /\ UNCHANGED <<open, config, syms, code, file>>

(* The lexer runs over the whole source and records n errors; the parser   *)
(* starts only if the session's list is empty, earlier parses included.    *)
LexErrors_Cleared(n) == n
LexErrors(n) == errors + n

LexThenParse(n) ==
  /\ Idle /\ LexErrors(n) <= MaxErrors
  /\ errors' = LexErrors(n)
  /\ IF errors' > 0 THEN Return(1) ELSE phase' = "parsing" /\ UNCHANGED <<ret, failed>>
  /\ UNCHANGED <<open, config, syms, code, file>>

(* OIRWriter::addSymbol: the table is searched by name alone.              *)
HasName(name) == \E i \in DOMAIN syms : syms[i].name = name
TableFull     == Len(syms) >= MaxU32
NewId         == Len(syms) + 1

SymbolId(name) ==
  IF HasName(name) THEN syms[CHOOSE i \in DOMAIN syms : syms[i].name = name].id
  ELSE IF TableFull THEN 0 ELSE NewId

AddSymbol_NoSearch(prefix, name) == Append(syms, Symbol(syms, NewId, prefix, name))

AddSymbol(prefix, name) ==
  IF HasName(name) \/ TableFull THEN syms
  ELSE Append(syms, Symbol(syms, NewId, prefix, name))

(* P0001, the id space is used up, and P0009, a position that does not fit *)
(* the record: the instruction is not appended.                            *)
EmitErrors(name, inRange) ==
  (IF ~HasName(name) /\ TableFull THEN 1 ELSE 0) + (IF inRange THEN 0 ELSE 1)

Emitted(instr, inRange) == IF inRange THEN Append(code, instr) ELSE code

Parsing == open /\ phase = "parsing" /\ Len(code) < MaxCode

(* addSymbol, then emit(op, raw, sid, line, col).                          *)
ParserEmit(e, name, inRange) ==
  /\ Parsing /\ errors + EmitErrors(name, inRange) <= MaxErrors
  /\ syms' = AddSymbol(e.prefix, name)
  /\ code' = Emitted(Instruction(e.op, SymbolId(name), 0), inRange)
  /\ errors' = errors + EmitErrors(name, inRange)
  /\ UNCHANGED <<open, config, phase, file, ret, failed>>

(* addSymbol(target), then emitWithOperand with the id of the handle, which*)
(* parseHandleExpression added before (parseRelocate).                     *)
ParserRelocate(op, handle, name, inRange) ==
  /\ Parsing /\ HasName(handle) /\ errors + EmitErrors(name, inRange) <= MaxErrors
  /\ syms' = AddSymbol(VAR, name)
  /\ code' = Emitted(Instruction(op, SymbolId(handle), SymbolId(name)), inRange)
  /\ errors' = errors + EmitErrors(name, inRange)
  /\ UNCHANGED <<open, config, phase, file, ret, failed>>

(* emit without a symbol.                                                  *)
ParserEmitPlain(op) ==
  /\ Parsing
  /\ code' = Append(code, Instruction(op, 0, 0))
  /\ UNCHANGED <<open, config, phase, errors, syms, file, ret, failed>>

(* A syntax error: recorded, and the parser goes on.                       *)
ParserError ==
  /\ open /\ phase = "parsing" /\ errors < MaxErrors
  /\ errors' = errors + 1
  /\ UNCHANGED <<open, config, phase, syms, code, file, ret, failed>>

ParseResult_Zero == 0
ParseResult_Count == errors
ParseResult == IF errors > 0 THEN 1 ELSE 0

ParseDone ==
  /\ open /\ phase = "parsing"
  /\ Return(ParseResult)
  /\ UNCHANGED <<open, config, errors, syms, code, file>>

-------------------------------------------------------------------------------
(* nxf_save_oir and OIRWriter::save.                                       *)

SessionImage == Image(config.target, config.mode, syms, code)

MaySave == errors = 0
CanWrite == config.path /\ Writable(config.target, config.mode, syms, code)

(* Errors are present: nothing is written.                                 *)
SaveRefused ==
  /\ Idle /\ ~MaySave
  /\ Return(1)
  /\ UNCHANGED <<open, config, errors, syms, code, file>>

(* P0002..P0006, found before the file is touched, and P0007, the file can *)
(* not be opened, which may also happen when everything else is right.     *)
SaveRejected ==
  /\ Idle /\ MaySave /\ errors < MaxErrors
  /\ errors' = errors + 1
  /\ Return(1)
  /\ UNCHANGED <<open, config, syms, code, file>>

SaveOpen ==
  /\ Idle /\ MaySave /\ CanWrite
  /\ file' = File(SessionImage, 0)
  /\ phase' = "saving"
  /\ UNCHANGED <<open, config, errors, syms, code, ret, failed>>

(* The stream hands its buffer to the system in pieces.  Where in a record *)
(* a piece ends makes no difference to a reader, so one point inside each  *)
(* record stands for all.                                                  *)
RecordEnds(img) ==
  {HeaderSize + TableBytes(img.symbols, k) : k \in 0..Len(img.symbols)}
    \union {CodeOffset(img.symbols) + InstructionSize * k : k \in 0..Len(img.code)}

WriteEnds(img) == RecordEnds(img) \union {e - 1 : e \in RecordEnds(img)}

SaveWrite(n) ==
  /\ open /\ phase = "saving"
  /\ n \in (file.size + 1)..ImageBytes(file.image)
  /\ file' = [file EXCEPT !.size = n]
  /\ UNCHANGED <<open, config, phase, errors, syms, code, ret, failed>>

(* P0008: a write, the flush or the close failed; the file is removed, or, *)
(* if the removal fails too, which nobody looks at, stays as it is.        *)
SaveFails ==
  /\ open /\ phase = "saving" /\ errors < MaxErrors
  /\ errors' = errors + 1 /\ file' \in {NoFile, file}
  /\ Return(1)
  /\ UNCHANGED <<open, config, syms, code>>

SaveDone ==
  /\ open /\ phase = "saving" /\ file.size = ImageBytes(file.image)
  /\ Return(0)
  /\ UNCHANGED <<open, config, errors, syms, code, file>>

-------------------------------------------------------------------------------
ParserStep ==
  \/ \E e \in Emission, n \in Name, r \in BOOLEAN : ParserEmit(e, n, r)
  \/ \E op \in Op, h, n \in Name, r \in BOOLEAN : ParserRelocate(op, h, n, r)
  \/ \E op \in Op : ParserEmitPlain(op)
  \/ ParserError \/ ParseDone

SaveStep ==
  \/ SaveRefused \/ SaveRejected \/ SaveOpen \/ SaveFails \/ SaveDone
  \/ phase = "saving" /\ \E n \in WriteEnds(file.image) : SaveWrite(n)

Next ==
  \/ \E c \in Config : CreateSession(c)
  \/ DestroySession \/ Crash \/ NullArgument \/ ParseFileMissing
  \/ \E n \in 0..MaxErrors : LexThenParse(n)
  \/ ParserStep
  \/ SaveStep

Spec == Init /\ [][Next]_vars

-------------------------------------------------------------------------------
(* Properties.                                                             *)

SymbolRec ==
  [id : Nat, prefix : Prefix, name : Name, end : Nat]

InstructionRec == [op : Op, symbolId : Nat, operandId : Nat]

ImageRec ==
  [magic : {"OIR2"}, version : {2}, mode : {0, 1}, target : Target,
   symbolOffset : Nat, codeOffset : Nat,
   symbols : Seq(SymbolRec), code : Seq(InstructionRec)]

ASSUME NoFileAssumption == NoFile \notin [image : ImageRec, size : Nat]

(* The type invariant: the session and the file hold what their            *)
(* declarations say.                                                       *)
TypeOK ==
  /\ open \in BOOLEAN /\ config \in Config
  /\ phase \in {"idle", "parsing", "saving"}
  /\ errors \in 0..MaxErrors /\ ret \in {0, 1} /\ failed \in BOOLEAN
  /\ syms \in Seq(SymbolRec) /\ code \in Seq(InstructionRec)
  /\ file = NoFile \/ file \in [image : ImageRec, size : Nat]

Complete == file # NoFile /\ file.size = ImageBytes(file.image)

(* What the writer finishes, the reader accepts, and it publishes exactly  *)
(* the symbols and the instructions that were saved: the two sides check   *)
(* their limits (name length, target length, 32-bit sizes, unique ids)     *)
(* separately.                                                             *)
SavedFileLoads ==
  Complete => /\ Loads(file.image, file.size)
              /\ PublishedSymbols(file.image) = file.image.symbols
              /\ PublishedCode(file.image, file.size) = file.image.code

(* A save that was cut short by a crash can be accepted by the reader, for *)
(* no field says how many instructions there are.  If it is, the whole     *)
(* symbol table is there and only instructions at the end are missing.     *)
TruncationLosesOnlyTail ==
  file # NoFile /\ ~Complete /\ Loads(file.image, file.size) =>
    /\ PublishedSymbols(file.image) = file.image.symbols
    /\ \E k \in 0..(Len(file.image.code) - 1) :
         /\ PublishedCode(file.image, file.size) = SubSeq(file.image.code, 1, k)
         /\ file.size = file.image.codeOffset + InstructionSize * k

(* Across all parses of a session the symbol ids are dense, no two symbols *)
(* share a name, and every id in the stream is 0 or names a symbol.        *)
IdsResolve ==
  /\ \A i \in DOMAIN syms : syms[i].id = i
  /\ \A i, j \in DOMAIN syms : syms[i].name = syms[j].name => i = j
  /\ \A i \in DOMAIN code :
       {code[i].symbolId, code[i].operandId} \subseteq 0..Len(syms)

(* Between calls, the error list is non-empty exactly when some call that  *)
(* was given its arguments has told its caller: none of them hides an error*)
(* it recorded, and none reports failure without a diagnostic.  A NULL     *)
(* source or path is the one failure that leaves no diagnostic.            *)
ErrorsAreReported == Idle => (failed <=> errors > 0)

(* A session in which a call with its arguments has failed never touches   *)
(* the file again: the list is never cleared, so a later clean parse does  *)
(* not lift it.  (A call refused for a NULL argument does not count: a save*)
(* after it goes ahead.)                                                   *)
FailedSessionIsSilent == [][open /\ failed /\ open' => file' = file]_vars

=============================================================================
