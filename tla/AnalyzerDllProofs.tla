-------------------------- MODULE AnalyzerDllProofs --------------------------
(***************************************************************************)
(* What the run of AnalyzerDll checks on a set of good, cut and damaged    *)
(* files, proved for every set of files and any number of calls.           *)
(***************************************************************************)
EXTENDS AnalyzerDll, FiniteSetTheorems, SequenceTheorems, TLAPS

-------------------------------------------------------------------------------
(* The inductive invariant.                                                *)

(* Where load() has got to in the file, and that it has checked all before.*)
LoadInv ==
  /\ pc # "idle" /\ pc # "open" =>
       /\ HeaderOk /\ nsym \in 0..Len(file.image.symbols)
       /\ \A i \in 1..nsym : RecordAccepted(file.image.symbols, i)
  /\ pc \in {"open", "symbols"} => ncode = 0
  /\ pc = "open" => nsym = 0
  /\ pc = "code" => AtCode /\ ncode <= InstructionCount(file.image, file.size)

(* What is exposed, at every step.                                         *)
PublishedInv ==
  /\ pc \in {"open", "symbols", "code"} => published = Nothing
  /\ pc = "traverse" => Accepted /\ published = Whole(file)
  /\ PublicationIsAtomic

(* The dangling references of the first k instructions.                    *)
DanglingTo(k) == {r \in Dangling(published.symbols, published.code) : r[1] <= k}

(* The pass over the instructions has counted all it has been through.     *)
CountInv ==
  /\ pc \in {"open", "symbols", "code"} => errors = before /\ idx = 0
  /\ pc = "traverse" =>
       /\ idx \in 0..Len(published.code)
       /\ IsFiniteSet(DanglingTo(idx)) /\ errors = before + Cardinality(DanglingTo(idx))

IInv == TypeOK /\ LoadInv /\ PublishedInv /\ CountInv

-------------------------------------------------------------------------------
(* Files.                                                                  *)

(* When the records read end at the code offset, there are no others, and  *)
(* the instructions counted from the size are all in the image.            *)
LEMMA WholeTable ==
  ASSUME NEW f \in Files, HeaderAccepted(f.image, f.size),
         NEW n \in 0..Len(f.image.symbols),
         HeaderSize + TableBytes(f.image.symbols, n) = f.image.codeOffset
  PROVE  /\ n = Len(f.image.symbols) /\ SubSeq(f.image.symbols, 1, n) = f.image.symbols
         /\ InstructionCount(f.image, f.size) \in 0..Len(f.image.code)
<1> DEFINE s == f.image.symbols
           c == f.image.code
           off == f.image.codeOffset
           size == f.size
<1>1. /\ s \in Seq(FileSymbol) /\ c \in Seq(FileInstruction)
      /\ off \in Nat /\ size \in 0..ImageBytes(f.image)
      /\ \A k \in 0..(Len(s) - 1) : off # HeaderSize + TableBytes(s, k)
                                    \/ off \notin HeaderSize..size
  BY FilesAssumption
<1>2. off \in HeaderSize..size
  BY DEF HeaderAccepted
<1>3. n = Len(s) /\ Len(s) \in Nat /\ Len(c) \in Nat
  BY <1>1, <1>2
<1>4. SubSeq(s, 1, n) = s
  BY <1>1, <1>3, SubSeqFull
<1>5. size \in Int /\ size - off <= 16 * Len(c) /\ off <= size
  <2>1. ImageBytes(f.image) = off + 16 * Len(c)
    BY <1>3 DEF ImageBytes, CodeOffset, InstructionSize
  <2> QED  BY <1>1, <1>2, <1>3, <2>1
<1>6. InstructionCount(f.image, f.size) = (size - off) \div 16
  BY DEF InstructionCount, InstructionSize
<1> HIDE DEF s, c, off, size
<1>7. (size - off) \div 16 \in 0..Len(c)
  BY <1>1, <1>3, <1>5
<1> QED  BY <1>3, <1>4, <1>6, <1>7 DEF s, c

(* In a file of the format, the record after any number of records is      *)
(* there, ends by the code offset and is accepted.                         *)
LEMMA NextRecord ==
  ASSUME NEW f \in Files, Loads(f.image, f.size), NEW n \in 0..Len(f.image.symbols),
         HeaderSize + TableBytes(f.image.symbols, n) # f.image.codeOffset
  PROVE  /\ n < Len(f.image.symbols)
         /\ HeaderSize + TableBytes(f.image.symbols, n + 1) <= f.image.codeOffset
         /\ RecordAccepted(f.image.symbols, n + 1)
<1> DEFINE s == f.image.symbols
<1>1. PICK m \in 0..Len(s) : EndsAfter(f.image, m)
  BY DEF Loads
<1>2. m = Len(s)
  BY <1>1, WholeTable DEF Loads, EndsAfter
<1>3. s \in Seq(FileSymbol) /\ \A i, j \in 1..Len(s) : i <= j => s[i].end <= s[j].end
  BY FilesAssumption
<1>4. Len(s) \in Nat /\ n \in Nat /\ n # Len(s)
  BY <1>1, <1>2, <1>3 DEF EndsAfter
<1>5. n + 1 \in 1..Len(s) /\ Len(s) \in 1..Len(s) /\ n + 1 <= Len(s)
  BY <1>4
<1>6. s[n + 1].end \in Nat /\ s[Len(s)].end \in Nat /\ s[n + 1].end <= s[Len(s)].end
  <2>1. s[n + 1] \in FileSymbol /\ s[Len(s)] \in FileSymbol
    BY <1>3, <1>5
  <2>2. s[n + 1].end <= s[Len(s)].end
    BY <1>3, <1>5
  <2> QED  BY <2>1, <2>2 DEF FileSymbol
<1>7. TableBytes(s, n + 1) = s[n + 1].end /\ TableBytes(s, m) = s[Len(s)].end
  BY <1>2, <1>4, <1>5 DEF TableBytes
<1>8. HeaderSize + s[Len(s)].end = f.image.codeOffset
  BY <1>1, <1>7 DEF EndsAfter
<1>9. HeaderSize + s[n + 1].end <= f.image.codeOffset
  <2> DEFINE x == s[n + 1].end
             y == s[Len(s)].end
  <2>1. x \in Nat /\ y \in Nat /\ x <= y /\ f.image.codeOffset = 48 + y
    BY <1>6, <1>8 DEF HeaderSize
  <2> HIDE DEF x, y
  <2>2. 48 + x <= 48 + y
    BY <2>1
  <2> QED  BY <2>1, <2>2 DEF x, HeaderSize
<1>10. RecordAccepted(s, n + 1)
  BY <1>1, <1>2, <1>5 DEF EndsAfter
<1> QED  BY <1>4, <1>5, <1>7, <1>9, <1>10

-------------------------------------------------------------------------------
(* References.                                                             *)

(* The references of one instruction that are not in the table.            *)
DanglingAt(syms, code, k) == {r \in Dangling(syms, code) : r[1] = k}

(* An instruction has two ids.                                             *)
LEMMA UndefinedFinite ==
  ASSUME NEW syms, NEW instr
  PROVE  IsFiniteSet(Undefined(syms, instr)) /\ Cardinality(Undefined(syms, instr)) \in Nat
<1>1. Undefined(syms, instr) \subseteq {1} \union {2}
  BY DEF Undefined, CheckedIds
<1>2. IsFiniteSet({1} \union {2})
  BY FS_Singleton, FS_AddElement
<1>3. IsFiniteSet(Undefined(syms, instr))
  BY <1>1, <1>2, FS_Subset
<1> QED  BY <1>3, FS_CardinalityType

(* checkSymbolExists finds as many as there are, no more than two.         *)
LEMMA UndefinedCounts ==
  ASSUME NEW syms, NEW code, NEW k \in DOMAIN code
  PROVE  /\ IsFiniteSet(Undefined(syms, code[k])) /\ IsFiniteSet(DanglingAt(syms, code, k))
         /\ Cardinality(Undefined(syms, code[k])) \in Nat
         /\ Cardinality(DanglingAt(syms, code, k)) = Cardinality(Undefined(syms, code[k]))
<1> DEFINE U == Undefined(syms, code[k])
           D == DanglingAt(syms, code, k)
           a == <<k, "symbolId">>
           b == <<k, "operandId">>
<1>1. U \subseteq {1, 2}
  BY DEF Undefined, CheckedIds
<1>2. D \subseteq {a, b}
  BY DEF DanglingAt, Dangling, References
<1>3. (1 \in U) <=> (a \in D)
  BY DEF Undefined, CheckedIds, Known, DanglingAt, Dangling, References
<1>4. (2 \in U) <=> (b \in D)
  BY DEF Undefined, CheckedIds, Known, DanglingAt, Dangling, References
<1>5. a # b
  OBVIOUS
<1>6. ASSUME NEW x, NEW y, x # y
      PROVE  IsFiniteSet({x, y}) /\ Cardinality({x, y}) = 2
  <2>1. IsFiniteSet({x}) /\ Cardinality({x}) = 1
    BY FS_Singleton
  <2>2. {x, y} = {x} \union {y}
    OBVIOUS
  <2> QED  BY <1>6, <2>1, <2>2, FS_AddElement
<1> HIDE DEF U, D, a, b
<1> SUFFICES /\ IsFiniteSet(U) /\ IsFiniteSet(D)
             /\ Cardinality(U) \in Nat /\ Cardinality(D) = Cardinality(U)
  BY DEF U, D
<1>7. CASE 1 \in U /\ 2 \in U
  <2>1. U = {1, 2} /\ D = {a, b}
    BY <1>1, <1>2, <1>3, <1>4, <1>7
  <2>2. IsFiniteSet({1, 2}) /\ Cardinality({1, 2}) = 2
    <3>1. 1 # 2
      OBVIOUS
    <3> QED  BY <1>6, <3>1, Zenon
  <2>3. IsFiniteSet({a, b}) /\ Cardinality({a, b}) = 2
    BY <1>5, <1>6
  <2> QED  BY <2>1, <2>2, <2>3
<1>8. CASE 1 \in U /\ 2 \notin U
  <2>1. U = {1} /\ D = {a}
    BY <1>1, <1>2, <1>3, <1>4, <1>8
  <2>2. IsFiniteSet({1}) /\ Cardinality({1}) = 1 /\ IsFiniteSet({a}) /\ Cardinality({a}) = 1
    BY FS_Singleton
  <2> QED  BY <2>1, <2>2
<1>9. CASE 1 \notin U /\ 2 \in U
  <2>1. U = {2} /\ D = {b}
    BY <1>1, <1>2, <1>3, <1>4, <1>9
  <2>2. IsFiniteSet({2}) /\ Cardinality({2}) = 1 /\ IsFiniteSet({b}) /\ Cardinality({b}) = 1
    BY FS_Singleton
  <2> QED  BY <2>1, <2>2
<1>10. CASE 1 \notin U /\ 2 \notin U
  <2>1. U = {} /\ D = {}
    BY <1>1, <1>2, <1>3, <1>4, <1>10
  <2> QED  BY <2>1, FS_EmptySet
<1> QED  BY <1>7, <1>8, <1>9, <1>10

-------------------------------------------------------------------------------
(* Types.                                                                  *)

LEMMA TypeStep == ASSUME TypeOK, [Next]_vars PROVE TypeOK'
<1>1. CASE UNCHANGED vars
  BY <1>1 DEF vars, TypeOK
<1>2. CASE InitAnalyzer
  BY <1>2, FilesAssumption DEF InitAnalyzer, TypeOK
<1>3. ASSUME NEW f \in Files \union {Nothing}, AnalyzeOir(f) PROVE TypeOK'
  BY <1>3, FilesAssumption DEF AnalyzeOir, TypeOK
<1>4. CASE HeaderFails \/ SymbolFails
  BY <1>4 DEF HeaderFails, SymbolFails, LoadFails, Return, TypeOK
<1>5. CASE ReadHeader \/ ReadSymbol \/ SymbolsEnd \/ ReadInstruction \/ Publish
  BY <1>5 DEF ReadHeader, ReadSymbol, SymbolsEnd, ReadInstruction, Publish, TypeOK
<1>6. CASE Traverse
  <2>1. Cardinality(Undefined(published.symbols, published.code[idx + 1])) \in Nat
    BY UndefinedFinite
  <2> QED  BY <1>6, <2>1 DEF Traverse, TypeOK
<1>7. CASE Finish
  BY <1>7 DEF Finish, Return, Verdict, TypeOK
<1> QED  BY <1>1, <1>2, <1>3, <1>4, <1>5, <1>6, <1>7 DEF Next, Load

-------------------------------------------------------------------------------
(* Loading.                                                                *)

LEMMA LoadStep == ASSUME TypeOK, LoadInv, [Next]_vars PROVE LoadInv'
<1>1. CASE UNCHANGED vars
  BY <1>1 DEF vars, LoadInv, HeaderOk, AtCode, Position
<1>2. CASE InitAnalyzer \/ Finish \/ HeaderFails \/ SymbolFails
  BY <1>2 DEF InitAnalyzer, Finish, HeaderFails, SymbolFails, LoadFails, Return, LoadInv
<1>3. ASSUME NEW f \in Files \union {Nothing}, AnalyzeOir(f) PROVE LoadInv'
  BY <1>3 DEF AnalyzeOir, LoadInv
<1>4. CASE ReadHeader
  <2>1. file \in Files /\ file.image.symbols \in Seq(FileSymbol)
    BY <1>4, FilesAssumption DEF ReadHeader, HeaderOk, TypeOK
  <2>2. 0 \in 0..Len(file.image.symbols)
    BY <2>1
  <2> QED  BY <1>4, <2>2 DEF ReadHeader, HeaderOk, LoadInv
<1>5. CASE ReadSymbol
  <2>1. /\ pc = "symbols" /\ pc' = pc /\ nsym' = nsym + 1 /\ file' = file /\ ncode' = ncode
        /\ nsym < Len(file.image.symbols) /\ RecordOk /\ HeaderOk
        /\ nsym \in 0..Len(file.image.symbols) /\ file \in Files
        /\ file.image.symbols \in Seq(FileSymbol)
    BY <1>5, FilesAssumption DEF ReadSymbol, InBounds, LoadInv, HeaderOk, TypeOK
  <2>2. RecordAccepted(file.image.symbols, nsym + 1)
    <3>1. (nsym + 1) - 1 = nsym
      BY <2>1
    <3> QED  BY <2>1, <3>1 DEF RecordOk, FreshId, RecordAccepted
  <2>3. \A i \in 1..nsym' : RecordAccepted(file.image.symbols, i)
    <3>1. \A i \in 1..nsym : RecordAccepted(file.image.symbols, i)
      BY <2>1 DEF LoadInv
    <3>2. \A i \in 1..nsym' : i \in 1..nsym \/ i = nsym + 1
      BY <2>1
    <3> QED  BY <2>2, <3>1, <3>2
  <2>4. nsym' \in 0..Len(file.image.symbols)
    BY <2>1
  <2> QED  BY <2>1, <2>3, <2>4 DEF LoadInv, HeaderOk
<1>6. CASE SymbolsEnd
  <2>1. file \in Files /\ HeaderOk /\ nsym \in 0..Len(file.image.symbols) /\ AtCode
        /\ ncode = 0
    BY <1>6 DEF SymbolsEnd, LoadInv, HeaderOk, TypeOK
  <2>2. InstructionCount(file.image, file.size) >= 0
    BY <2>1, WholeTable DEF HeaderOk, AtCode, Position
  <2> QED  BY <1>6, <2>1, <2>2 DEF SymbolsEnd, LoadInv, HeaderOk, AtCode, Position
<1>7. CASE ReadInstruction
  <2>1. file \in Files /\ HeaderOk /\ nsym \in 0..Len(file.image.symbols) /\ AtCode
    BY <1>7 DEF ReadInstruction, LoadInv, HeaderOk, TypeOK
  <2>2. InstructionCount(file.image, file.size) \in Nat
    BY <2>1, WholeTable DEF HeaderOk, AtCode, Position
  <2>3. ncode' <= InstructionCount(file.image, file.size)
    BY <1>7, <2>2 DEF ReadInstruction, TypeOK
  <2> QED  BY <1>7, <2>3 DEF ReadInstruction, LoadInv, HeaderOk, AtCode, Position
<1>8. CASE Publish \/ Traverse
  BY <1>8 DEF Publish, Traverse, LoadInv, HeaderOk
<1> QED  BY <1>1, <1>2, <1>3, <1>4, <1>5, <1>6, <1>7, <1>8 DEF Next, Load

(* The loop of load() at the code offset has read a file of the format.    *)
LEMMA AtCodeAccepts ==
  ASSUME TypeOK, LoadInv, pc \in {"symbols", "code"}, AtCode
  PROVE  /\ file \in Files /\ Accepted
         /\ SubSeq(file.image.symbols, 1, nsym) = file.image.symbols
         /\ InstructionCount(file.image, file.size) \in 0..Len(file.image.code)
<1>1. /\ file \in Files /\ file # Nothing /\ HeaderAccepted(file.image, file.size)
      /\ nsym \in 0..Len(file.image.symbols)
      /\ \A i \in 1..nsym : RecordAccepted(file.image.symbols, i)
      /\ HeaderSize + TableBytes(file.image.symbols, nsym) = file.image.codeOffset
  BY DEF LoadInv, HeaderOk, TypeOK, AtCode, Position
<1>2. Accepted
  BY <1>1 DEF Accepted, Loads, EndsAfter
<1> QED  BY <1>1, <1>2, WholeTable

(* What a file of the format publishes is a sequence of its instructions.  *)
LEMMA WholeCode ==
  ASSUME NEW f \in Files, Loads(f.image, f.size)
  PROVE  /\ Whole(f).code \in Seq(FileInstruction) /\ Len(Whole(f).code) \in Nat
         /\ DOMAIN Whole(f).code = 1..Len(Whole(f).code)
<1> DEFINE c == f.image.code
           n == InstructionCount(f.image, f.size)
<1>1. c \in Seq(FileInstruction)
  BY FilesAssumption
<1>2. n \in 0..Len(c)
  BY WholeTable DEF Loads, EndsAfter
<1>3. Whole(f).code = SubSeq(c, 1, n)
  BY DEF Whole, PublishedCode
<1> HIDE DEF c, n
<1>4. SubSeq(c, 1, n) \in Seq(FileInstruction)
  <2>1. 1 \in Int /\ n \in Int /\ \A i \in 1..n : c[i] \in FileInstruction
    BY <1>1, <1>2
  <2> QED  BY <2>1, SubSeqProperties
<1> QED  BY <1>3, <1>4

(* Wherever load() gives up, the file is none of the format.               *)
LEMMA FailureRejects ==
  ASSUME TypeOK, LoadInv, HeaderFails \/ SymbolFails PROVE ~Accepted
<1>1. CASE HeaderFails
  BY <1>1 DEF HeaderFails, HeaderOk, Accepted, Loads
<1>2. CASE SymbolFails
  <2> SUFFICES ASSUME Accepted PROVE FALSE
    OBVIOUS
  <2>1. /\ file \in Files /\ Loads(file.image, file.size)
        /\ nsym \in 0..Len(file.image.symbols)
        /\ HeaderSize + TableBytes(file.image.symbols, nsym) # file.image.codeOffset
    BY <1>2 DEF SymbolFails, LoadInv, Accepted, TypeOK, AtCode, Position
  <2>2. /\ InBounds /\ RecordAccepted(file.image.symbols, nsym + 1)
    BY <2>1, NextRecord DEF InBounds
  <2>3. (nsym + 1) - 1 = nsym
    BY DEF TypeOK
  <2>4. RecordOk
    BY <2>2, <2>3 DEF RecordAccepted, RecordOk, FreshId
  <2> QED  BY <1>2, <2>2, <2>4 DEF SymbolFails
<1> QED  BY <1>1, <1>2

LEMMA PublishedStep ==
  ASSUME TypeOK, LoadInv, PublishedInv, [Next]_vars PROVE PublishedInv'
<1>1. ASSUME UNCHANGED <<file, published>>,
             pc' \in {"open", "symbols", "code"} => pc \in {"open", "symbols", "code"},
             pc' = "traverse" => pc = "traverse",
             pc' = "idle" /\ Accepted => pc \in {"idle", "traverse"}
      PROVE  PublishedInv'
  BY <1>1 DEF PublishedInv, PublicationIsAtomic, Accepted, Whole
<1>2. CASE UNCHANGED vars \/ InitAnalyzer
  BY <1>1, <1>2 DEF vars, InitAnalyzer
<1>3. ASSUME NEW f \in Files \union {Nothing}, AnalyzeOir(f) PROVE PublishedInv'
  BY <1>3 DEF AnalyzeOir, PublishedInv, PublicationIsAtomic
<1>4. CASE HeaderFails \/ SymbolFails
  BY <1>1, <1>4, FailureRejects DEF HeaderFails, SymbolFails, LoadFails, Return
<1>5. CASE ReadHeader \/ ReadSymbol \/ SymbolsEnd \/ ReadInstruction \/ Traverse \/ Finish
  BY <1>1, <1>5 DEF ReadHeader, ReadSymbol, SymbolsEnd, ReadInstruction, Traverse, Finish,
                    Return
<1>6. CASE Publish
  <2>1. /\ pc = "code" /\ pc' = "traverse" /\ file' = file /\ AtCode
        /\ ncode = InstructionCount(file.image, file.size)
        /\ published' = [symbols |-> SubSeq(file.image.symbols, 1, nsym),
                         code |-> SubSeq(file.image.code, 1, ncode)]
    BY <1>6 DEF Publish, LoadInv
  <2>2. Accepted /\ published' = Whole(file)
    BY <2>1, AtCodeAccepts DEF Whole, PublishedCode
  <2> QED  BY <2>1, <2>2 DEF PublishedInv, PublicationIsAtomic, Accepted, Whole
<1> QED  BY <1>2, <1>3, <1>4, <1>5, <1>6 DEF Next, Load

-------------------------------------------------------------------------------
(* Counting.                                                               *)

LEMMA CountStep ==
  ASSUME TypeOK, LoadInv, PublishedInv, CountInv, [Next]_vars PROVE CountInv'
<1>1. CASE UNCHANGED vars \/ InitAnalyzer
  BY <1>1 DEF vars, InitAnalyzer, CountInv, DanglingTo
<1>2. ASSUME NEW f \in Files \union {Nothing}, AnalyzeOir(f) PROVE CountInv'
  BY <1>2 DEF AnalyzeOir, CountInv
<1>3. CASE HeaderFails \/ SymbolFails \/ Finish
  BY <1>3 DEF HeaderFails, SymbolFails, LoadFails, Finish, Return, CountInv
<1>4. CASE ReadHeader \/ ReadSymbol \/ SymbolsEnd \/ ReadInstruction
  BY <1>4 DEF ReadHeader, ReadSymbol, SymbolsEnd, ReadInstruction, CountInv
<1>5. CASE Publish
  <2>1. /\ pc = "code" /\ pc' = "traverse" /\ idx' = 0 /\ errors' = before /\ before' = before
        /\ AtCode /\ before \in Nat
    BY <1>5 DEF Publish, CountInv, LoadInv, TypeOK
  <2>2. /\ DOMAIN published'.code = 1..Len(published'.code) /\ Len(published'.code) \in Nat
    BY <1>5, <2>1, AtCodeAccepts, WholeCode DEF Publish, Accepted, Whole, PublishedCode
  <2>3. DanglingTo(idx)' = {}
    <3>1. ASSUME NEW r \in DanglingTo(idx)' PROVE FALSE
      <4>1. r[1] \in DOMAIN published'.code /\ r[1] <= 0
        BY <2>1, <3>1 DEF DanglingTo, Dangling, References
      <4> QED  BY <2>2, <4>1
    <3> QED  BY <3>1
  <2>4. /\ IsFiniteSet(DanglingTo(idx)') /\ Cardinality(DanglingTo(idx)') = 0
    BY <2>3, FS_EmptySet
  <2>5. idx' \in 0..Len(published'.code) /\ errors' = before' + Cardinality(DanglingTo(idx)')
    BY <2>1, <2>2, <2>4
  <2> QED  BY <2>1, <2>4, <2>5 DEF CountInv
<1>6. CASE Traverse
  <2> DEFINE k == idx + 1
             A == DanglingTo(idx)
             B == DanglingAt(published.symbols, published.code, k)
             u == Cardinality(Undefined(published.symbols, published.code[k]))
  <2>1. /\ pc = "traverse" /\ pc' = "traverse" /\ published' = published /\ idx' = k
        /\ before' = before /\ errors' = errors + u /\ idx < Len(published.code)
        /\ idx \in 0..Len(published.code) /\ errors \in Nat /\ before \in Nat
        /\ IsFiniteSet(A) /\ errors = before + Cardinality(A)
    BY <1>6 DEF Traverse, CountInv, TypeOK
  <2>2. /\ DOMAIN published.code = 1..Len(published.code) /\ Len(published.code) \in Nat
    BY <2>1, WholeCode DEF PublishedInv, Accepted, TypeOK
  <2>3. k \in 1..Len(published.code) /\ k \in DOMAIN published.code /\ k \in Nat
    BY <2>1, <2>2
  <2>4. IsFiniteSet(B) /\ u \in Nat /\ Cardinality(B) = u
    BY <2>3, UndefinedCounts
  <2>5. DanglingTo(k) = A \union B
    <3>1. \A r \in Dangling(published.symbols, published.code) : r[1] \in 1..Len(published.code)
      BY <2>2 DEF Dangling, References
    <3>2. \A r \in Dangling(published.symbols, published.code) :
            r[1] <= k <=> r[1] <= idx \/ r[1] = k
      BY <2>1, <3>1
    <3> QED  BY <3>2 DEF DanglingTo, DanglingAt
  <2>6. A \cap B = {}
    BY <2>1 DEF DanglingTo, DanglingAt
  <2> HIDE DEF k, A, B, u
  <2>7. /\ IsFiniteSet(DanglingTo(k))
        /\ Cardinality(DanglingTo(k)) = Cardinality(A) + u
    <3>1. /\ IsFiniteSet(A \cup B)
          /\ Cardinality(A \cup B) = Cardinality(A) + Cardinality(B) - Cardinality({})
      BY <2>1, <2>4, <2>6, FS_Union
    <3>2. Cardinality(A) \in Nat /\ Cardinality({}) = 0
      BY <2>1, FS_CardinalityType, FS_EmptySet
    <3> QED  BY <2>4, <2>5, <3>1, <3>2
  <2>8. DanglingTo(idx)' = DanglingTo(k)
    BY <2>1 DEF DanglingTo
  <2>9. errors' = before + Cardinality(DanglingTo(k))
    <3>1. Cardinality(A) \in Nat
      BY <2>1, FS_CardinalityType
    <3> QED  BY <2>1, <2>4, <2>7, <3>1
  <2>10. idx' \in 0..Len(published'.code)
    BY <2>1, <2>2, <2>3
  <2> QED  BY <2>1, <2>7, <2>8, <2>9, <2>10 DEF CountInv
<1> QED  BY <1>1, <1>2, <1>3, <1>4, <1>5, <1>6 DEF Next, Load

-------------------------------------------------------------------------------
(* Theorems.                                                               *)

(* The inductive invariant of the DLL.                                     *)
THEOREM Invariance == Spec => []IInv
<1>1. Init => IInv
  BY FilesAssumption DEF Init, IInv, TypeOK, LoadInv, PublishedInv, PublicationIsAtomic, CountInv,
                         Accepted
<1>2. IInv /\ [Next]_vars => IInv'
  BY TypeStep, LoadStep, PublishedStep, CountStep DEF IInv
<1> QED  BY <1>1, <1>2, PTL DEF Spec

(* Every variable keeps its type.                                          *)
THEOREM TypeCorrect == Spec => []TypeOK
<1>1. IInv => TypeOK
  BY DEF IInv
<1> QED  BY <1>1, Invariance, PTL

(* OIRReader::load accepts exactly the files of the container format and   *)
(* exposes all of such a file or nothing, wherever it gives up.            *)
THEOREM LoadIsAtomic == Spec => []PublicationIsAtomic
<1>1. IInv => PublicationIsAtomic
  BY DEF IInv, PublishedInv
<1> QED  BY <1>1, Invariance, PTL

(* When the pass ends it has counted the whole stream.                     *)
LEMMA FinishCounts ==
  ASSUME IInv, Finish
  PROVE  LET D == Dangling(published.symbols, published.code)
         IN  /\ IsFiniteSet(D) /\ errors = before + Cardinality(D)
             /\ errors' - before = Cardinality(D)
<1> DEFINE D == Dangling(published.symbols, published.code)
<1>1. /\ pc = "traverse" /\ idx = Len(published.code) /\ errors' = errors /\ before \in Nat
      /\ IsFiniteSet(DanglingTo(idx)) /\ errors = before + Cardinality(DanglingTo(idx))
  BY DEF Finish, IInv, CountInv, TypeOK
<1>2. DOMAIN published.code = 1..Len(published.code) /\ Len(published.code) \in Nat
  BY <1>1, WholeCode DEF IInv, PublishedInv, Accepted, TypeOK
<1>3. DanglingTo(idx) = D
  <2>1. \A r \in D : r[1] \in DOMAIN published.code
    BY DEF Dangling, References
  <2>2. \A r \in D : r[1] <= idx
    BY <1>1, <1>2, <2>1
  <2> QED  BY <2>2 DEF DanglingTo
<1> HIDE DEF D
<1>4. Cardinality(D) \in Nat
  BY <1>1, <1>3, FS_CardinalityType
<1>5. /\ IsFiniteSet(D) /\ errors = before + Cardinality(D)
      /\ errors' - before = Cardinality(D)
  BY <1>1, <1>3, <1>4
<1> QED  BY <1>5 DEF D

(* traverseOIR goes on after an error: the pass adds one error to the list *)
(* for every dangling reference, however many instructions there are.      *)
THEOREM EveryErrorReported == Spec => AllErrorsReported
<1>1. ASSUME IInv, [Next]_vars
      PROVE  [pc = "traverse" /\ pc' = "idle" =>
                errors' - before = Cardinality(Dangling(published.symbols, published.code))]_vars
  <2>1. CASE UNCHANGED vars
    BY <2>1
  <2>2. CASE pc = "traverse" /\ pc' = "idle"
    <3>1. Finish
      BY <1>1, <2>2 DEF Next, InitAnalyzer, AnalyzeOir, Load, HeaderFails, ReadHeader, SymbolFails,
                       ReadSymbol, SymbolsEnd, ReadInstruction, Publish, Traverse, vars
    <3> QED  BY <1>1, <3>1, FinishCounts
  <2> QED  BY <2>2
<1> QED  BY <1>1, Invariance, PTL DEF Spec, AllErrorsReported

(* nxf_analyze_oir returns 0 exactly for a file of the format in which     *)
(* nothing dangles, called with an empty error list.                       *)
THEOREM VerdictMeansFile == Spec => VerdictExplained
<1>1. ASSUME IInv, [Next]_vars
      PROVE  [pc # "idle" /\ pc' = "idle" =>
               (ret' = 0 <=> /\ before = 0 /\ Accepted
                             /\ Dangling(file.image.symbols,
                                         PublishedCode(file.image, file.size)) = {})]_vars
  <2>1. CASE UNCHANGED vars
    BY <2>1
  <2>2. CASE pc # "idle" /\ pc' = "idle"
    <3>1. Finish \/ HeaderFails \/ SymbolFails
      BY <1>1, <2>2 DEF Next, InitAnalyzer, AnalyzeOir, Load, ReadHeader, ReadSymbol, SymbolsEnd,
                       ReadInstruction, Publish, Traverse, vars
    <3>2. CASE HeaderFails \/ SymbolFails
      <4>1. ret' = 1 /\ ~Accepted
        BY <1>1, <3>2, FailureRejects DEF HeaderFails, SymbolFails, LoadFails, Return, IInv
      <4> QED  BY <4>1
    <3>3. CASE Finish
      <4> DEFINE D == Dangling(published.symbols, published.code)
      <4>1. Accepted /\ published = Whole(file) /\ before \in Nat
            /\ ret' = Verdict /\ errors' = errors
        BY <1>1, <3>3 DEF Finish, Return, IInv, PublishedInv, TypeOK
      <4>2. D = Dangling(file.image.symbols, PublishedCode(file.image, file.size))
        BY <4>1 DEF Whole
      <4>3. IsFiniteSet(D) /\ errors = before + Cardinality(D)
        BY <1>1, <3>3, <4>1, FinishCounts
      <4> HIDE DEF D
      <4>4. Cardinality(D) \in Nat /\ (Cardinality(D) = 0 <=> D = {})
        BY <4>3, FS_CardinalityType, FS_EmptySet
      <4>5. ret' = 0 <=> before = 0 /\ D = {}
        BY <4>1, <4>3, <4>4 DEF Verdict
      <4> QED  BY <4>1, <4>2, <4>5
    <3> QED  BY <3>1, <3>2, <3>3
  <2> QED  BY <2>2
<1> QED  BY <1>1, Invariance, PTL DEF Spec, VerdictExplained

=============================================================================
