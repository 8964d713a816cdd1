----------------------------- MODULE OIRContainer -----------------------------
(***************************************************************************)
(* The OIR2 binary container that the Parser DLL writes and the Analyzer   *)
(* DLL reads: the sizes of its records, the conditions under which         *)
(* OIRWriter::save agrees to write a symbol table and an instruction       *)
(* stream, and the conditions under which OIRReader::load publishes what a *)
(* file holds.                                                             *)
(*                                                                         *)
(* A file is an image (the fields as OIRWriter lays them out) together     *)
(* with the number of bytes of it that are on the disk: an interrupted     *)
(* save leaves a prefix of the image.  Integers are little-endian on both  *)
(* sides, so only their range matters here.  Target and symbol names reach *)
(* the writer through C strings, so none holds a NUL byte.                 *)
(***************************************************************************)
EXTENDS Integers, Sequences, FiniteSets

CONSTANTS
  Name, NameLen,       \* the symbol names of the source; their lengths in bytes
  Target, TargetLen,   \* the target ids; their lengths in bytes
  MaxU32               \* std::numeric_limits<uint32_t>::max(); small in TLC's runs

ASSUME ContainerAssumption ==
  /\ NameLen \in [Name -> Nat]
  /\ TargetLen \in [Target -> Nat]
  /\ MaxU32 \in Nat

HeaderSize      == 48
SymbolFixed     == 13     \* id(4) prefix(1) typeId(4) flags(2) nameLen(2)
InstructionSize == 16     \* op(1) type(1) symbol(4) operand(4) line(4) col(2)
MaxSymbolName   == 1024
MaxTarget       == 31     \* the target field has 32 bytes, one for the NUL

VAR == 1
CONST == 2
FUNC == 3
NT == 4
GROUP == 5
RULE == 6
EXTERN == 7
Prefix == VAR..EXTERN

(* An OIRInstruction, without the fields nothing reads.                    *)
Instruction(op, sym, opd) == [op |-> op, symbolId |-> sym, operandId |-> opd]

-------------------------------------------------------------------------------
(* Byte layout.  An OIRSymbol also carries `end', the sum of the sizes of  *)
(* its record and of all before it: save() accumulates it, and load() meets*)
(* it as its read position.                                                *)

TableBytes(syms, k) == IF k = 0 THEN 0 ELSE syms[k].end

Symbol(syms, id, prefix, name) ==
  [id |-> id, prefix |-> prefix, name |-> name,
   end |-> TableBytes(syms, Len(syms)) + SymbolFixed + NameLen[name]]

CodeOffset(syms) == HeaderSize + TableBytes(syms, Len(syms))

(* What save() puts into the file, field by field.                         *)
Image(target, mode, syms, code) ==
  [magic |-> "OIR2", version |-> 2, mode |-> mode, target |-> target,
   symbolOffset |-> HeaderSize, codeOffset |-> CodeOffset(syms),
   symbols |-> syms, code |-> code]

ImageBytes(img) == CodeOffset(img.symbols) + InstructionSize * Len(img.code)

-------------------------------------------------------------------------------
(* OIRWriter::save, before it opens the file.  A definition whose name has *)
(* an underscore is a wrong version of the one after it: the runs reject it*)

TargetWritable(target) == TargetLen[target] <= MaxTarget

SymbolWritable_AnyLength(s) == s.id # 0 /\ s.prefix \in Prefix

SymbolWritable(s) ==
  s.id # 0 /\ NameLen[s.name] <= MaxSymbolName /\ s.prefix \in Prefix

(* The offsets have 32 bits: the whole file must fit (P0005, P0006).       *)
OffsetsFit(syms, code) ==
  /\ TableBytes(syms, Len(syms)) <= MaxU32 - HeaderSize
  /\ InstructionSize * Len(code) <= MaxU32 - CodeOffset(syms)

Writable(target, mode, syms, code) ==
  /\ mode \in {0, 1} /\ TargetWritable(target)
  /\ \A i \in DOMAIN syms : SymbolWritable(syms[i])
  /\ OffsetsFit(syms, code)

-------------------------------------------------------------------------------
(* OIRReader::load.                                                        *)

(* Everything it checks before the symbol table: A0003 (size), A0002,      *)
(* A0004, A0005, A0006, A0007.  A target of MaxTarget bytes still leaves   *)
(* room for the terminator.                                                *)
HeaderAccepted_AnyTail(img, size) ==
  /\ size \in HeaderSize..MaxU32
  /\ img.codeOffset \in img.symbolOffset..size

HeaderAccepted(img, size) ==
  /\ size \in HeaderSize..MaxU32
  /\ img.magic = "OIR2" /\ img.version = 2 /\ img.mode \in {0, 1}
  /\ TargetLen[img.target] <= MaxTarget
  /\ img.symbolOffset = HeaderSize
  /\ img.codeOffset \in img.symbolOffset..size
  /\ (size - img.codeOffset) % InstructionSize = 0

(* One symbol record, given the records before it: A0009, A0010, A0011.    *)
RecordAccepted(syms, i) ==
  /\ NameLen[syms[i].name] <= MaxSymbolName
  /\ syms[i].id # 0
  /\ \A j \in 1..(i - 1) : syms[j].id # syms[i].id
  /\ syms[i].prefix \in Prefix

(* The symbol loop ends after n records exactly when record n ends at the  *)
(* code offset; a record that crosses it is cut (A0008).                   *)
EndsAfter(img, n) ==
  /\ HeaderSize + TableBytes(img.symbols, n) = img.codeOffset
  /\ \A i \in 1..n : RecordAccepted(img.symbols, i)

Loads(img, size) ==
  /\ HeaderAccepted(img, size)
  /\ \E n \in 0..Len(img.symbols) : EndsAfter(img, n)

(* The count is derived from the file size: there is no count field.       *)
InstructionCount(img, size) == (size - img.codeOffset) \div InstructionSize

(* What load() publishes of a file it accepts.                             *)
PublishedSymbols(img) ==
  SubSeq(img.symbols, 1,
         CHOOSE n \in 0..Len(img.symbols) : EndsAfter(img, n))

PublishedCode(img, size) == SubSeq(img.code, 1, InstructionCount(img, size))

=============================================================================
