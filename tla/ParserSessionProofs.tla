------------------------- MODULE ParserSessionProofs -------------------------
(***************************************************************************)
(* What the runs of ParserSession check on a small instance, proved for    *)
(* every set of names and configurations and every value of the bounds.    *)
(***************************************************************************)
EXTENDS ParserSession, TLAPS

-------------------------------------------------------------------------------
(* The inductive invariant.                                                *)

(* A symbol table as addSymbol builds it: id = position, names unique, and *)
(* the records laid out one after the other.                               *)
TableInv(s) ==
  /\ \A i \in 1..Len(s) : s[i].id = i /\ s[i].end > 0
  /\ \A i, j \in 1..Len(s) : s[i].name = s[j].name => i = j
  /\ \A i, j \in 1..Len(s) : i < j => s[i].end < s[j].end

CodeInv(c, n) ==
  \A i \in 1..Len(c) : c[i].symbolId \in 0..n /\ c[i].operandId \in 0..n

(* Whatever is in the file was checked by save() before.                   *)
ImageInv(img) ==
  /\ img.symbolOffset = HeaderSize /\ img.codeOffset = CodeOffset(img.symbols)
  /\ TableInv(img.symbols)
  /\ CodeInv(img.code, Len(img.symbols))
  /\ Writable(img.target, img.mode, img.symbols, img.code)

FileInv ==
  file # NoFile => ImageInv(file.image) /\ file.size \in 0..ImageBytes(file.image)

(* A parse starts, and a save opens the file, only in a session without an *)
(* error so far.                                                           *)
PhaseInv ==
  /\ phase = "saving" => errors = 0 /\ file # NoFile
  /\ phase # "idle" => ~failed
  /\ open /\ phase = "idle" => (failed <=> errors > 0)
  /\ ~open => phase = "idle" /\ errors = 0 /\ ~failed

IInv ==
  TypeOK /\ TableInv(syms) /\ CodeInv(code, Len(syms)) /\ FileInv /\ PhaseInv

-------------------------------------------------------------------------------
(* Operators.                                                              *)

(* addSymbol keeps the table well formed, never shortens it, and returns   *)
(* 0 or the id of an entry.                                                *)
LEMMA AddSymbolLemma ==
  ASSUME syms \in Seq(SymbolRec), TableInv(syms),
         NEW p \in Prefix, NEW n \in Name
  PROVE  /\ AddSymbol(p, n) \in Seq(SymbolRec)
         /\ TableInv(AddSymbol(p, n))
         /\ Len(AddSymbol(p, n)) \in Nat /\ Len(AddSymbol(p, n)) >= Len(syms)
         /\ SymbolId(n) \in 0..Len(AddSymbol(p, n))
<1> DEFINE new == Symbol(syms, NewId, p, n)
<1>1. Len(syms) \in Nat /\ DOMAIN syms = 1..Len(syms)
  OBVIOUS
<1>0. \A i \in 1..Len(syms) : syms[i].end \in Nat /\ syms[i].end > 0 /\ syms[i].id = i
  <2>1. \A i \in 1..Len(syms) : syms[i] \in SymbolRec
    OBVIOUS
  <2> QED  BY <2>1 DEF SymbolRec, TableInv
<1>2. TableBytes(syms, Len(syms)) \in Nat
      /\ \A i \in 1..Len(syms) : syms[i].end <= TableBytes(syms, Len(syms))
  <2>1. CASE Len(syms) = 0
    BY <2>1 DEF TableBytes
  <2>2. CASE Len(syms) # 0
    <3>1. Len(syms) \in 1..Len(syms)
      BY <1>1, <2>2
    <3> QED  BY <1>0, <1>1, <2>2, <3>1 DEF TableBytes, TableInv
  <2> QED  BY <2>1, <2>2
<1>3. new \in SymbolRec /\ new.id = Len(syms) + 1 /\ new.name = n
      /\ new.end \in Nat /\ new.end > TableBytes(syms, Len(syms))
  BY <1>1, <1>2, ContainerAssumption DEF Symbol, SymbolRec, NewId, SymbolFixed
<1>4. CASE HasName(n)
  <2>1. PICK i \in 1..Len(syms) :
          i = (CHOOSE k \in DOMAIN syms : syms[k].name = n)
    BY <1>4, <1>1 DEF HasName
  <2>2. SymbolId(n) = i
    BY <1>4, <2>1 DEF SymbolId, TableInv
  <2> QED  BY <1>1, <1>4, <2>1, <2>2 DEF AddSymbol
<1>5. CASE ~HasName(n) /\ TableFull
  BY <1>1, <1>5 DEF AddSymbol, SymbolId
<1>6. CASE ~HasName(n) /\ ~TableFull
  <2> DEFINE s2 == Append(syms, new)
  <2>1. AddSymbol(p, n) = s2
    BY <1>6 DEF AddSymbol
  <2> HIDE DEF new
  <2>2. s2 \in Seq(SymbolRec) /\ Len(s2) = Len(syms) + 1
        /\ s2[Len(syms) + 1] = new /\ \A i \in 1..Len(syms) : s2[i] = syms[i]
    BY <1>1, <1>3
  <2>3. SymbolId(n) = Len(syms) + 1
    BY <1>6 DEF SymbolId, NewId
  <2> HIDE DEF s2
  <2>4. TableInv(s2)
    <3>1. \A i \in 1..Len(s2) : s2[i].id = i /\ s2[i].end > 0
      BY <1>0, <1>1, <1>2, <1>3, <2>2
    <3>2. \A i \in 1..Len(syms) : s2[i].name # n
      BY <1>1, <1>6, <2>2 DEF HasName
    <3>3. \A i, j \in 1..Len(s2) : s2[i].name = s2[j].name => i = j
      BY <1>1, <1>3, <2>2, <3>2 DEF TableInv
    <3>4. \A i, j \in 1..Len(s2) : i < j => s2[i].end < s2[j].end
      <4> SUFFICES ASSUME NEW i \in 1..Len(s2), NEW j \in 1..Len(s2), i < j
                   PROVE  s2[i].end < s2[j].end
        OBVIOUS
      <4>1. i \in 1..Len(syms) /\ s2[i] = syms[i] /\ syms[i].end \in Nat
        BY <1>0, <1>1, <1>3, <2>2
      <4>2. CASE j \in 1..Len(syms)
        BY <4>1, <4>2, <2>2 DEF TableInv
      <4>3. CASE j = Len(syms) + 1
        BY <4>1, <4>3, <1>1, <1>2, <1>3, <2>2
      <4> QED  BY <4>2, <4>3, <1>1, <2>2
    <3> QED  BY <3>1, <3>3, <3>4 DEF TableInv
  <2> QED  BY <1>1, <2>1, <2>2, <2>3, <2>4
<1> QED  BY <1>4, <1>5, <1>6

(* The writer and the file are unchanged: what is left to show is the      *)
(* control state.                                                          *)
LEMMA SameData ==
  ASSUME IInv, UNCHANGED <<syms, code, file>>,
         open' \in BOOLEAN, config' \in Config, phase' \in {"idle", "parsing", "saving"},
         errors' \in 0..MaxErrors, ret' \in {0, 1}, failed' \in BOOLEAN, PhaseInv'
  PROVE  IInv'
BY DEF IInv, TypeOK, FileInv

(* A call that changes neither returns 1 exactly when the list holds an    *)
(* error.                                                                  *)
LEMMA ReturnLemma ==
  ASSUME IInv, open, NEW r \in {0, 1}, Return(r), errors' \in 0..MaxErrors,
         errors <= errors', r = 1 <=> errors' > 0,
         UNCHANGED <<open, config, syms, code, file>>
  PROVE  IInv'
<1>1. phase' = "idle" /\ ret' = r /\ (failed' <=> failed \/ r = 1) /\ failed' \in BOOLEAN
  BY DEF Return
<1>2. errors \in Nat /\ errors' \in Nat
  BY SessionAssumption DEF IInv, TypeOK
<1>3. failed => errors > 0
  BY DEF IInv, PhaseInv, TypeOK
<1>4. failed' <=> errors' > 0
  BY <1>1, <1>2, <1>3
<1>5. PhaseInv'
  BY <1>1, <1>4 DEF PhaseInv
<1> QED  BY <1>1, <1>5, SameData DEF IInv, TypeOK

(* The same when the stream grows by an instruction whose ids are in range *)
(* and the table grows by addSymbol.                                       *)
LEMMA EmitLemma ==
  ASSUME IInv, NEW p \in Prefix, NEW n \in Name, NEW op \in Op, NEW r \in BOOLEAN,
         NEW a \in 0..Len(AddSymbol(p, n)), NEW b \in 0..Len(AddSymbol(p, n)),
         open /\ phase = "parsing",
         errors + EmitErrors(n, r) <= MaxErrors, errors' = errors + EmitErrors(n, r),
         syms' = AddSymbol(p, n), code' = Emitted(Instruction(op, a, b), r),
         UNCHANGED <<open, config, phase, file, ret, failed>>
  PROVE  IInv'
<1>1. /\ syms' \in Seq(SymbolRec) /\ TableInv(syms')
      /\ Len(syms') \in Nat /\ Len(syms') >= Len(syms) /\ Len(syms) \in Nat
  BY AddSymbolLemma DEF IInv, TypeOK
<1>2. EmitErrors(n, r) \in Nat
  BY DEF EmitErrors
<1>3. errors' \in 0..MaxErrors
  BY <1>2, SessionAssumption DEF IInv, TypeOK
<1>4. code' \in Seq(InstructionRec) /\ CodeInv(code', Len(syms'))
  <2> DEFINE i == Instruction(op, a, b)
  <2>1. i \in InstructionRec /\ i.symbolId \in 0..Len(syms') /\ i.operandId \in 0..Len(syms')
    BY <1>1 DEF Instruction, InstructionRec
  <2>2. code \in Seq(InstructionRec) /\ CodeInv(code, Len(syms'))
    BY <1>1 DEF IInv, TypeOK, CodeInv
  <2> HIDE DEF i
  <2>3. Append(code, i) \in Seq(InstructionRec) /\ CodeInv(Append(code, i), Len(syms'))
    <3>1. Append(code, i) \in Seq(InstructionRec) /\ Len(Append(code, i)) = Len(code) + 1
          /\ Len(code) \in Nat
          /\ \A k \in 1..Len(code) : Append(code, i)[k] = code[k]
          /\ Append(code, i)[Len(code) + 1] = i
      BY <2>1, <2>2
    <3> QED  BY <2>1, <2>2, <3>1 DEF CodeInv
  <2> QED  BY <2>2, <2>3 DEF Emitted, i
<1>5. PhaseInv'
  BY <1>2 DEF IInv, PhaseInv
<1> QED  BY <1>1, <1>3, <1>4, <1>5 DEF IInv, TypeOK, FileInv

(* The initial states satisfy the invariant.                               *)
LEMMA InitInv == Init => IInv
<1> SUFFICES ASSUME Init PROVE IInv
  OBVIOUS
<1>1. TypeOK
  <2>1. <<>> \in Seq(SymbolRec) /\ <<>> \in Seq(InstructionRec)
    OBVIOUS
  <2>2. 0 \in 0..MaxErrors
    BY SessionAssumption
  <2> QED  BY <2>1, <2>2 DEF Init, TypeOK
<1>2. TableInv(syms) /\ CodeInv(code, Len(syms))
  BY DEF Init, TableInv, CodeInv
<1> QED  BY <1>1, <1>2 DEF Init, IInv, FileInv, PhaseInv

(* The file starts as an image that passed every check of save().          *)
LEMMA SaveOpenInv == IInv /\ SaveOpen => IInv'
<1> SUFFICES ASSUME IInv, SaveOpen PROVE IInv'
  OBVIOUS
<1> DEFINE img == SessionImage
<1>1. /\ file' = [image |-> img, size |-> 0] /\ phase' = "saving"
      /\ UNCHANGED <<open, config, errors, syms, code, ret, failed>>
      /\ errors = 0 /\ open /\ phase = "idle"
      /\ Writable(config.target, config.mode, syms, code)
  BY DEF SaveOpen, File, MaySave, CanWrite, Idle
<1>2. TableBytes(syms, Len(syms)) \in Nat
  <2>1. Len(syms) \in Nat /\ (Len(syms) # 0 => syms[Len(syms)] \in SymbolRec)
    BY DEF IInv, TypeOK
  <2> QED  BY <2>1 DEF TableBytes, SymbolRec
<1>3. CodeOffset(syms) \in Nat
  BY <1>2 DEF CodeOffset, HeaderSize
<1>4. /\ img.symbols = syms /\ img.code = code /\ img.symbolOffset = HeaderSize
      /\ img.target = config.target /\ img.mode = config.mode
      /\ img.codeOffset = CodeOffset(syms)
  BY DEF SessionImage, Image
<1>5. img \in ImageRec
  <2>1. config.target \in Target /\ config.mode \in {0, 1}
    BY SessionAssumption DEF IInv, TypeOK
  <2>2. syms \in Seq(SymbolRec) /\ code \in Seq(InstructionRec)
    BY DEF IInv, TypeOK
  <2> QED  BY <2>1, <2>2, <1>3 DEF SessionImage, Image, ImageRec, HeaderSize
<1>6. ImageBytes(img) \in Nat
  <2>1. Len(code) \in Nat
    BY DEF IInv, TypeOK
  <2> QED  BY <1>3, <1>4, <2>1 DEF ImageBytes, InstructionSize
<1> HIDE DEF img
<1>7. FileInv'
  BY <1>1, <1>4, <1>6 DEF IInv, FileInv, ImageInv
<1>8. TypeOK'
  BY <1>1, <1>5 DEF IInv, TypeOK
<1>9. PhaseInv'
  <2>1. file' # NoFile
    BY NoFileAssumption, <1>1, <1>5
  <2> QED  BY <1>1, <2>1 DEF IInv, PhaseInv
<1> QED  BY <1>1, <1>7, <1>8, <1>9 DEF IInv

(* A piece of the image is written.                                        *)
LEMMA SaveWriteInv ==
  ASSUME IInv, NEW n, SaveWrite(n)  PROVE IInv'
<1>1. /\ phase = "saving" /\ file # NoFile /\ file \in [image : ImageRec, size : Nat]
      /\ n \in (file.size + 1)..ImageBytes(file.image)
      /\ file' = [file EXCEPT !.size = n]
      /\ ImageInv(file.image) /\ file.size \in 0..ImageBytes(file.image)
  BY DEF IInv, SaveWrite, PhaseInv, FileInv, TypeOK
<1>2. ImageBytes(file.image) \in Nat
  <2> DEFINE img == file.image
  <2>1. img \in ImageRec
    BY <1>1
  <2>2. img.codeOffset \in Nat /\ Len(img.code) \in Nat
    BY <2>1 DEF ImageRec
  <2> QED  BY <1>1, <2>2 DEF ImageInv, ImageBytes, InstructionSize
<1>3. n \in Nat /\ n \in 0..ImageBytes(file.image)
  BY <1>1, <1>2
<1>4. file' \in [image : ImageRec, size : Nat] /\ file'.image = file.image /\ file'.size = n
  BY <1>1, <1>3
<1>5. file' # NoFile
  BY <1>4, NoFileAssumption
<1> QED  BY <1>1, <1>3, <1>4, <1>5 DEF IInv, SaveWrite, TypeOK, FileInv, PhaseInv

(* Every step keeps the invariant.                                         *)
LEMMA NextInv == IInv /\ [Next]_vars => IInv'
<1> SUFFICES ASSUME IInv, [Next]_vars PROVE IInv'
  OBVIOUS
<1> USE SessionAssumption
<1>1. ASSUME NEW c \in Config, CreateSession(c) PROVE IInv'
  BY <1>1, SameData DEF CreateSession, IInv, TypeOK, PhaseInv
<1>2. ASSUME EndSession PROVE IInv'
  <2>1. <<>> \in Seq(SymbolRec) /\ <<>> \in Seq(InstructionRec)
    OBVIOUS
  <2>2. 0 \in 0..MaxErrors
    BY SessionAssumption
  <2>3. TypeOK'
    BY <1>2, <2>1, <2>2 DEF EndSession, IInv, TypeOK
  <2>4. TableInv(syms') /\ CodeInv(code', Len(syms'))
    BY <1>2 DEF EndSession, TableInv, CodeInv
  <2> QED  BY <1>2, <2>3, <2>4 DEF EndSession, IInv, FileInv, PhaseInv
<1>3. CASE DestroySession
  BY <1>2, <1>3 DEF DestroySession
<1>4. CASE Crash
  BY <1>2, <1>4 DEF Crash
<1>5. CASE ParseFileMissing
  <2>1. errors' \in 0..MaxErrors /\ errors' > 0 /\ errors <= errors'
    BY <1>5 DEF ParseFileMissing, IInv, TypeOK
  <2> QED  BY <1>5, <2>1, ReturnLemma DEF ParseFileMissing, Idle
<1>6. ASSUME NEW n \in 0..MaxErrors, LexThenParse(n) PROVE IInv'
  <2>1. errors' \in 0..MaxErrors /\ errors <= errors'
    BY <1>6 DEF LexThenParse, LexErrors, IInv, TypeOK
  <2>2. CASE errors' > 0
    BY <1>6, <2>1, <2>2, ReturnLemma DEF LexThenParse, Idle
  <2>3. CASE ~(errors' > 0)
    <3>1. errors = 0 /\ errors' = 0 /\ open /\ phase = "idle" /\ phase' = "parsing"
          /\ UNCHANGED <<open, config, syms, code, file, ret, failed>>
      BY <1>6, <2>1, <2>3 DEF LexThenParse, Idle, IInv, TypeOK
    <3>2. ~failed
      BY <3>1 DEF IInv, PhaseInv
    <3> QED  BY <2>1, <3>1, <3>2, SameData DEF IInv, TypeOK, PhaseInv
  <2> QED  BY <2>2, <2>3
<1>7. ASSUME NEW e \in Emission, NEW n \in Name, NEW r \in BOOLEAN, ParserEmit(e, n, r)
      PROVE  IInv'
  <2>1. e.prefix \in Prefix /\ e.op \in Op
    OBVIOUS
  <2>2. SymbolId(n) \in 0..Len(AddSymbol(e.prefix, n)) /\ 0 \in 0..Len(AddSymbol(e.prefix, n))
    BY <2>1, AddSymbolLemma DEF IInv, TypeOK
  <2> QED  BY <1>7, <2>1, <2>2, EmitLemma DEF ParserEmit, Parsing
<1>8. ASSUME NEW op \in Op, NEW h \in Name, NEW n \in Name, NEW r \in BOOLEAN,
             ParserRelocate(op, h, n, r)
      PROVE  IInv'
  <2>1. VAR \in Prefix
    BY DEF VAR, EXTERN, Prefix
  <2>2. /\ AddSymbol(VAR, n) \in Seq(SymbolRec) /\ Len(AddSymbol(VAR, n)) >= Len(syms)
        /\ SymbolId(n) \in 0..Len(AddSymbol(VAR, n))
    BY <2>1, AddSymbolLemma DEF IInv, TypeOK
  <2>3. SymbolId(h) \in 0..Len(AddSymbol(VAR, n))
    <3>1. AddSymbol(VAR, h) = syms
      BY <1>8 DEF ParserRelocate, AddSymbol
    <3>2. SymbolId(h) \in 0..Len(syms) /\ Len(syms) \in Nat
      BY <2>1, <3>1, AddSymbolLemma DEF IInv, TypeOK
    <3> QED  BY <2>2, <3>2
  <2> QED  BY <1>8, <2>1, <2>2, <2>3, EmitLemma DEF ParserRelocate, Parsing
<1>9. ASSUME NEW op \in Op, ParserEmitPlain(op) PROVE IInv'
  <2> DEFINE i == Instruction(op, 0, 0)
  <2>1. code \in Seq(InstructionRec) /\ Len(syms) \in Nat /\ CodeInv(code, Len(syms))
    BY DEF IInv, TypeOK
  <2>2. i \in InstructionRec /\ i.symbolId \in 0..Len(syms) /\ i.operandId \in 0..Len(syms)
    BY <2>1 DEF Instruction, InstructionRec
  <2> HIDE DEF i
  <2>3. Append(code, i) \in Seq(InstructionRec) /\ Len(Append(code, i)) = Len(code) + 1
        /\ Len(code) \in Nat
        /\ \A k \in 1..Len(code) : Append(code, i)[k] = code[k]
        /\ Append(code, i)[Len(code) + 1] = i
    BY <2>1, <2>2
  <2>4. CodeInv(Append(code, i), Len(syms))
    BY <2>1, <2>2, <2>3 DEF CodeInv
  <2>5. /\ code' = Append(code, i)
        /\ UNCHANGED <<open, config, phase, errors, syms, file, ret, failed>>
    BY <1>9 DEF ParserEmitPlain, i
  <2> QED  BY <2>3, <2>4, <2>5 DEF IInv, TypeOK, FileInv, PhaseInv
<1>10. CASE ParserError
  BY <1>10, SameData DEF ParserError, IInv, TypeOK, PhaseInv
<1>11. CASE ParseDone
  <2>1. errors \in 0..MaxErrors /\ errors' = errors /\ errors <= errors'
    BY <1>11 DEF ParseDone, IInv, TypeOK
  <2>2. ParseResult \in {0, 1} /\ (ParseResult = 1 <=> errors > 0)
    BY DEF ParseResult
  <2> QED  BY <1>11, <2>1, <2>2, ReturnLemma DEF ParseDone
<1>12. CASE SaveRefused
  <2>1. errors' \in 0..MaxErrors /\ errors <= errors' /\ errors' > 0
    BY <1>12 DEF SaveRefused, MaySave, IInv, TypeOK
  <2> QED  BY <1>12, <2>1, ReturnLemma DEF SaveRefused, Idle
<1>13. CASE SaveRejected
  <2>1. errors' \in 0..MaxErrors /\ errors <= errors' /\ errors' > 0
    BY <1>13 DEF SaveRejected, IInv, TypeOK
  <2> QED  BY <1>13, <2>1, ReturnLemma DEF SaveRejected, Idle
<1>14. CASE SaveFails
  <2>1. errors' \in 0..MaxErrors
    BY <1>14 DEF SaveFails, IInv, TypeOK
  <2>2. errors' > 0
    BY <1>14 DEF SaveFails, IInv, TypeOK
  <2>3. /\ open /\ phase' = "idle" /\ ret' = 1 /\ (failed' <=> failed \/ 1 = 1)
        /\ failed' \in BOOLEAN /\ file' \in {NoFile, file} /\ UNCHANGED <<open, config, syms, code>>
    BY <1>14 DEF SaveFails, Return
  <2>4. failed' = TRUE
    BY <2>3
  <2> QED  BY <2>1, <2>2, <2>3, <2>4 DEF IInv, TypeOK, FileInv, PhaseInv
<1>15. CASE SaveDone
  <2>1. errors' \in 0..MaxErrors /\ errors <= errors' /\ errors' = 0
    BY <1>15 DEF SaveDone, IInv, TypeOK, PhaseInv
  <2>2. open /\ Return(0) /\ UNCHANGED <<open, config, syms, code, file>>
    BY <1>15 DEF SaveDone
  <2>3. 0 \in {0, 1} /\ (0 = 1 <=> errors' > 0)
    BY <2>1
  <2> QED  BY <2>1, <2>2, <2>3, ReturnLemma
<1>16. CASE NullArgument
  <2>1. ret' \in {0, 1} /\ UNCHANGED <<open, config, phase, errors, syms, code, file, failed>>
    BY <1>16 DEF NullArgument
  <2> QED  BY <2>1, SameData DEF IInv, TypeOK, PhaseInv
<1>17. CASE UNCHANGED vars
  BY <1>17 DEF vars, IInv, TypeOK, FileInv, PhaseInv
<1> QED
  BY <1>1, <1>3, <1>4, <1>5, <1>6, <1>7, <1>8, <1>9, <1>10, <1>11, <1>12, <1>13,
     <1>14, <1>15, <1>16, <1>17, SaveOpenInv, SaveWriteInv
  DEF Next, ParserStep, SaveStep

(* Every reachable state satisfies the invariant.                          *)
THEOREM Invariance == Spec => []IInv
<1>1. Init => IInv
  BY InitInv
<1>2. IInv /\ [Next]_vars => IInv'
  BY NextInv
<1> QED  BY <1>1, <1>2, PTL DEF Spec

-------------------------------------------------------------------------------
(* What follows from it.                                                   *)

(* Type correctness.                                                       *)
THEOREM TypeCorrect == Spec => []TypeOK
<1>1. IInv => TypeOK
  BY DEF IInv
<1> QED  BY <1>1, Invariance, PTL

(* Ids stay dense and unique, and the stream refers to nothing else.       *)
THEOREM SymbolsResolve == Spec => []IdsResolve
<1>1. IInv => IdsResolve
  <2> SUFFICES ASSUME IInv PROVE IdsResolve
    OBVIOUS
  <2>1. DOMAIN syms = 1..Len(syms) /\ DOMAIN code = 1..Len(code)
    BY DEF IInv, TypeOK
  <2> QED  BY <2>1 DEF IInv, IdsResolve, TableInv, CodeInv
<1> QED  BY <1>1, Invariance, PTL

(* No call hides an error it recorded, and none that was given its         *)
(* arguments fails without one.                                            *)
THEOREM NoHiddenErrors == Spec => []ErrorsAreReported
<1>1. IInv => ErrorsAreReported
  BY DEF IInv, PhaseInv, ErrorsAreReported, Idle
<1> QED  BY <1>1, Invariance, PTL

(* Once a call that was given its arguments has failed, the session leaves *)
(* the file alone.                                                         *)
THEOREM SilentAfterFailure == Spec => FailedSessionIsSilent
<1>1. IInv /\ [Next]_vars => [open /\ failed /\ open' => file' = file]_vars
  <2> SUFFICES ASSUME IInv, Next, open, failed, open' PROVE file' = file
    BY DEF vars
  <2>1. phase = "idle" /\ errors > 0 /\ errors \in Nat
    BY DEF IInv, PhaseInv, TypeOK
  <2>2. ~SaveOpen
    <3>1. SaveOpen => errors = 0
      BY DEF SaveOpen, MaySave
    <3> QED  BY <2>1, <3>1
  <2>3. ~SaveFails
    BY <2>1 DEF SaveFails
  <2>4. phase # "saving"
    BY <2>1
  <2> QED
    BY <2>2, <2>3, <2>4 DEF Next, ParserStep, SaveStep, CreateSession, DestroySession, Crash,
       EndSession, NullArgument, ParseFileMissing, LexThenParse, ParserEmit, ParserRelocate,
       ParserEmitPlain, ParserError, ParseDone, SaveRefused, SaveRejected, SaveDone
<1> QED  BY <1>1, Invariance, PTL DEF Spec, FailedSessionIsSilent

-------------------------------------------------------------------------------
(* The reader and the file.                                                *)

(* The reader's symbol loop can only end at the end of the whole table: the*)
(* records' end offsets grow, and the last of them is the code offset.     *)
LEMMA WholeTable ==
  ASSUME NEW img \in ImageRec, ImageInv(img), NEW n \in 0..Len(img.symbols)
  PROVE  EndsAfter(img, n) <=> n = Len(img.symbols)
<1> DEFINE s == img.symbols
<1>1. s \in Seq(SymbolRec) /\ TableInv(s) /\ Len(s) \in Nat /\ DOMAIN s = 1..Len(s)
  BY DEF ImageRec, ImageInv
<1>2. \A i \in 1..Len(s) : s[i].end \in Nat /\ s[i].end > 0 /\ s[i].id = i
                          /\ s[i].id \in Nat
  <2>1. \A i \in 1..Len(s) : s[i] \in SymbolRec
    BY <1>1
  <2> QED  BY <1>1, <2>1 DEF SymbolRec, TableInv
<1>3. img.codeOffset = HeaderSize + TableBytes(s, Len(s))
  BY DEF ImageInv, CodeOffset
<1>4. ASSUME n = Len(s) PROVE EndsAfter(img, n)
  <2>1. \A i \in 1..Len(s) : SymbolWritable(s[i])
    BY <1>1 DEF ImageInv, Writable
  <2>2. \A i \in 1..n : RecordAccepted(s, i)
    BY <1>1, <1>2, <1>4, <2>1 DEF SymbolWritable, RecordAccepted
  <2> QED  BY <1>3, <1>4, <2>2 DEF EndsAfter
<1>5. ASSUME n # Len(s) PROVE TableBytes(s, n) # TableBytes(s, Len(s))
                              /\ TableBytes(s, n) \in Nat /\ TableBytes(s, Len(s)) \in Nat
  <2>1. Len(s) \in 1..Len(s) /\ n < Len(s)
    BY <1>1, <1>5
  <2>2. CASE n = 0
    BY <1>2, <2>1, <2>2 DEF TableBytes
  <2>3. CASE n # 0
    <3>1. n \in 1..Len(s)
      BY <2>3
    <3>2. s[n].end < s[Len(s)].end
      BY <1>1, <2>1, <3>1 DEF TableInv
    <3> QED  BY <1>2, <2>1, <2>3, <3>1, <3>2 DEF TableBytes
  <2> QED  BY <2>2, <2>3
<1>6. ASSUME n # Len(s) PROVE ~EndsAfter(img, n)
  BY <1>3, <1>5, <1>6 DEF EndsAfter, HeaderSize
<1> QED  BY <1>4, <1>6

(* Hence what it publishes of the table is the table.                      *)
LEMMA WholeTablePublished ==
  ASSUME NEW img \in ImageRec, ImageInv(img)
  PROVE  PublishedSymbols(img) = img.symbols
<1>1. Len(img.symbols) \in 0..Len(img.symbols) /\ img.symbols \in Seq(SymbolRec)
  BY DEF ImageRec
<1>2. (CHOOSE n \in 0..Len(img.symbols) : EndsAfter(img, n)) = Len(img.symbols)
  BY <1>1, WholeTable
<1>3. SubSeq(img.symbols, 1, Len(img.symbols)) = img.symbols
  BY <1>1
<1> QED  BY <1>2, <1>3 DEF PublishedSymbols

(* The numbers in a saved image.                                           *)
LEMMA ImageNumbers ==
  ASSUME NEW img \in ImageRec, ImageInv(img)
  PROVE  /\ Len(img.code) \in Nat /\ img.codeOffset \in Nat
         /\ img.codeOffset >= HeaderSize
         /\ ImageBytes(img) = img.codeOffset + InstructionSize * Len(img.code)
         /\ ImageBytes(img) \in HeaderSize..MaxU32
<1>1. Len(img.code) \in Nat /\ img.codeOffset \in Nat /\ Len(img.symbols) \in Nat
      /\ (Len(img.symbols) # 0 => img.symbols[Len(img.symbols)] \in SymbolRec)
  BY DEF ImageRec
<1>2. TableBytes(img.symbols, Len(img.symbols)) \in Nat
  BY <1>1 DEF TableBytes, SymbolRec
<1>3. img.codeOffset = CodeOffset(img.symbols) /\ OffsetsFit(img.symbols, img.code)
  BY DEF ImageInv, Writable
<1> QED
  BY <1>1, <1>2, <1>3, ContainerAssumption
  DEF CodeOffset, OffsetsFit, ImageBytes, HeaderSize, InstructionSize

(* The reader accepts what the writer completes, and publishes all of it.  *)
THEOREM WriterReaderAgree == Spec => []SavedFileLoads
<1>1. IInv => SavedFileLoads
  <2> SUFFICES ASSUME IInv, Complete
               PROVE  /\ Loads(file.image, file.size)
                      /\ PublishedSymbols(file.image) = file.image.symbols
                      /\ PublishedCode(file.image, file.size) = file.image.code
    BY DEF SavedFileLoads
  <2> DEFINE img == file.image
  <2>1. img \in ImageRec /\ ImageInv(img) /\ file.size = ImageBytes(img)
    BY DEF IInv, TypeOK, FileInv, Complete
  <2>2. Len(img.symbols) \in 0..Len(img.symbols)
    BY <2>1 DEF ImageRec
  <2>3. EndsAfter(img, Len(img.symbols))
    BY <2>1, <2>2, WholeTable
  <2>4. HeaderAccepted(img, file.size)
    <3>1. img.magic = "OIR2" /\ img.version = 2 /\ img.mode \in {0, 1}
      BY <2>1 DEF ImageRec
    <3>2. TargetLen[img.target] <= MaxTarget /\ img.symbolOffset = HeaderSize
      BY <2>1 DEF ImageInv, Writable, TargetWritable
    <3>3. /\ file.size \in HeaderSize..MaxU32 /\ img.codeOffset \in HeaderSize..file.size
          /\ (file.size - img.codeOffset) % InstructionSize = 0
      <4> DEFINE n == Len(img.code)
                 o == img.codeOffset
                 b == ImageBytes(img)
      <4> HIDE DEF n, o, b
      <4>1. /\ n \in Nat /\ o \in Nat /\ o >= HeaderSize
            /\ b = o + InstructionSize * n /\ b \in HeaderSize..MaxU32
        BY <2>1, ImageNumbers DEF n, o, b
      <4>2. o \in HeaderSize..b /\ b - o = InstructionSize * n
        BY <4>1, ContainerAssumption DEF HeaderSize, InstructionSize
      <4>3. (b - o) % InstructionSize = 0
        BY <4>1, <4>2 DEF InstructionSize
      <4> QED  BY <2>1, <4>1, <4>2, <4>3 DEF n, o, b
    <3> QED  BY <3>1, <3>2, <3>3 DEF HeaderAccepted
  <2>5. InstructionCount(img, file.size) = Len(img.code)
    BY <2>1, ImageNumbers DEF InstructionCount, HeaderSize, InstructionSize
  <2>6. SubSeq(img.code, 1, Len(img.code)) = img.code
    BY <2>1 DEF ImageRec
  <2> QED
    BY <2>1, <2>2, <2>3, <2>4, <2>5, <2>6, WholeTablePublished DEF Loads, PublishedCode
<1> QED  BY <1>1, Invariance, PTL

(* Sizes that the reader's division splits into whole records.             *)
LEMMA WholeRecords ==
  ASSUME NEW size \in Nat, NEW off \in Nat, NEW len \in Nat, NEW k, off <= size,
         size < off + 16 * len, (size - off) % 16 = 0, k = (size - off) \div 16
  PROVE  k \in 0..(len - 1) /\ size = off + 16 * k
<1> DEFINE d == size - off
<1>1. d \in Nat /\ d % 16 = 0 /\ k = d \div 16 /\ d < 16 * len /\ size = off + d
  OBVIOUS
<1> HIDE DEF d
<1>2. k \in Nat /\ d = 16 * k
  BY <1>1
<1> QED  BY <1>1, <1>2

(* If the reader accepts an interrupted save, only instructions at the end *)
(* of the stream are missing.                                              *)
THEOREM OnlyTailIsLost == Spec => []TruncationLosesOnlyTail
<1>1. IInv => TruncationLosesOnlyTail
  <2> SUFFICES ASSUME IInv, file # NoFile, ~Complete, Loads(file.image, file.size)
               PROVE  /\ PublishedSymbols(file.image) = file.image.symbols
                      /\ \E k \in 0..(Len(file.image.code) - 1) :
                           /\ PublishedCode(file.image, file.size)
                                = SubSeq(file.image.code, 1, k)
                           /\ file.size = file.image.codeOffset + InstructionSize * k
    BY DEF TruncationLosesOnlyTail
  <2> DEFINE img == file.image
             k == InstructionCount(img, file.size)
  <2>1. img \in ImageRec /\ ImageInv(img) /\ file.size \in 0..ImageBytes(img)
        /\ file.size # ImageBytes(img)
    BY DEF IInv, TypeOK, FileInv, Complete
  <2>2. img.codeOffset \in HeaderSize..file.size /\ file.size \in Nat
        /\ (file.size - img.codeOffset) % InstructionSize = 0
    BY <2>1, ImageNumbers DEF Loads, HeaderAccepted, ImageInv, HeaderSize
  <2>3. k \in 0..(Len(img.code) - 1) /\ file.size = img.codeOffset + InstructionSize * k
    <3>1. /\ Len(img.code) \in Nat /\ img.codeOffset \in Nat
          /\ ImageBytes(img) = img.codeOffset + 16 * Len(img.code)
          /\ ImageBytes(img) \in Nat
      <4>1. img \in ImageRec /\ ImageInv(img)
        BY <2>1
      <4> HIDE DEF img
      <4> QED  BY <4>1, ImageNumbers DEF InstructionSize, HeaderSize
    <3>2. /\ img.codeOffset <= file.size /\ file.size < img.codeOffset + 16 * Len(img.code)
          /\ (file.size - img.codeOffset) % 16 = 0
      BY <2>1, <2>2, <3>1 DEF InstructionSize
    <3>3. k = (file.size - img.codeOffset) \div 16
      BY DEF InstructionCount, InstructionSize
    <3>4. file.size \in Nat
      BY <2>2
    <3> DEFINE off == img.codeOffset
               len == Len(img.code)
               size == file.size
    <3>5. /\ size \in Nat /\ off \in Nat /\ len \in Nat /\ off <= size
          /\ size < off + 16 * len /\ (size - off) % 16 = 0 /\ k = (size - off) \div 16
      BY <3>1, <3>2, <3>3, <3>4
    <3> HIDE DEF k, img, off, len, size
    <3>6. k \in 0..(len - 1) /\ size = off + 16 * k
      BY <3>5, WholeRecords
    <3> QED  BY <3>6 DEF off, len, size, InstructionSize
  <2> QED  BY <2>1, <2>3, WholeTablePublished DEF PublishedCode
<1> QED  BY <1>1, Invariance, PTL

=============================================================================
