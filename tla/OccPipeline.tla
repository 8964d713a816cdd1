----------------------------- MODULE OccPipeline -----------------------------
(***************************************************************************)
(* occ (main.cpp): the pipeline manager.  Every process runs the same      *)
(* straight line once: target, Parser DLL, parse, save, Analyzer DLL,      *)
(* analyse.  All of them write and read one file, "intermediate.oir" in    *)
(* the working directory, and any of them can be killed at any step.       *)
(*                                                                         *)
(* The file system is POSIX's: a directory entry leads to an inode, an     *)
(* open descriptor keeps its inode, truncating on open empties the inode   *)
(* for everyone, a write past the end leaves a hole, and remove() takes    *)
(* only the entry away.  Everything is counted in records: the header,     *)
(* then symbol records and instruction records, which have the same size   *)
(* when the names have three letters, so that what two writers put into    *)
(* one inode lies on record boundaries.                                    *)
(***************************************************************************)
EXTENDS Integers, Sequences, FiniteSets

CONSTANTS
  Proc,        \* the occ processes
  Program,     \* what a source can be: [parse, syms, code], see below
  Input,       \* how the target is found: "exists", "typed", "eof"
  None,        \* no inode
  MaxLive      \* bound: processes running at the same time

(* `parse' is how the parse of a program goes: it ends without an error, it*)
(* records errors, or it never returns (which sources do that is the       *)
(* subject of NexusParser).  `syms' is the number of its symbols and `code'*)
(* what its instructions refer to: a symbol or nothing (0), under one of   *)
(* the eleven opcodes whose id the analyzer checks or under another one.   *)
ASSUME PipelineAssumption ==
  /\ \A g \in Program :
       /\ g.parse \in {"clean", "errors", "endless"} /\ g.syms \in Nat
       /\ g.code \in Seq([kind : {"checked", "plain"}, id : 0..g.syms])
  /\ Input \subseteq {"exists", "typed", "eof"}
  /\ Proc \cap {None, "none", "partial"} = {} /\ MaxLive \in Nat

VARIABLES
  program,     \* the source each process compiles
  input,       \* where its target name comes from
  pc,          \* where each process is
  errors,      \* its error list is not empty
  pos,         \* records it has written
  dir,         \* the inode "intermediate.oir" leads to
  inode,       \* the records in each inode (named by the process that made it)
  fd,          \* the inode each process has open
  size,        \* the file size its reader saw
  got          \* the records its reader has parsed

vars == <<program, input, pc, errors, pos, dir, inode, fd, size, got>>

Hole == [by |-> None, kind |-> "hole", val |-> 0]
Record(p, kind, val) == [by |-> p, kind |-> kind, val |-> val]

(* What p saves.  The header carries the code offset.                      *)
OirOf(p) ==
  <<Record(p, "header", program[p].syms + 1)>>
    \o [i \in 1..program[p].syms |-> Record(p, "sym", i)]
    \o [i \in 1..Len(program[p].code) |->
          Record(p, program[p].code[i].kind, program[p].code[i].id)]

Ended   == {"ok", "fail", "dead"}
Live(p) == pc[p] \notin Ended \union {"new"}

Init ==
  /\ program \in [Proc -> Program] /\ input \in [Proc -> Input]
  /\ pc = [p \in Proc |-> "new"] /\ errors = [p \in Proc |-> FALSE]
  /\ pos = [p \in Proc |-> 0] /\ dir = None
  /\ inode = [p \in Proc |-> <<>>] /\ fd = [p \in Proc |-> None]
  /\ size = [p \in Proc |-> 0] /\ got = [p \in Proc |-> <<>>]

Goto(p, l) == pc' = [pc EXCEPT ![p] = l]
fileVars   == <<pos, dir, inode, fd>>
readVars   == <<size, got>>
inputVars  == <<program, input>>

(* Leaving main(), by a return or by being killed.                         *)
Leave(p, l) ==
  /\ Goto(p, l)
  /\ fd' = [fd EXCEPT ![p] = None]
  /\ UNCHANGED <<inputVars, errors, pos, dir, inode, size, got>>

-------------------------------------------------------------------------------
(* Arguments, target, Parser DLL.                                          *)

Start(p) ==
  /\ pc[p] = "new" /\ Cardinality({q \in Proc : Live(q)}) < MaxLive
  /\ Goto(p, "target")
  /\ UNCHANGED <<inputVars, errors, fileVars, readVars>>

(* The prompt repeats until the target file exists; at the end of the input*)
(* the name never changes again.                                           *)
PickTarget_SamePath(p) ==
  /\ pc[p] = "target"
  /\ IF input[p] = "exists" THEN Goto(p, "parser") ELSE UNCHANGED pc
  /\ UNCHANGED <<inputVars, errors, fileVars, readVars>>

PickTarget(p) ==
  /\ pc[p] = "target"
  /\ CASE input[p] = "exists" -> Goto(p, "parser") /\ UNCHANGED input
       [] input[p] = "typed"  -> input' = [input EXCEPT ![p] = "exists"] /\ UNCHANGED pc
       [] input[p] = "eof"    -> UNCHANGED <<pc, input>>
  /\ UNCHANGED <<program, errors, fileVars, readVars>>

(* A DLL, or one of its functions, is missing: exit 1.                     *)
NoDll(p) == pc[p] \in {"parser", "analyzer"} /\ Leave(p, "fail")

(* The Parser DLL is there: nxf_create_session.                            *)
CreateSession(p) ==
  /\ pc[p] = "parser"
  /\ Goto(p, "parsing")
  /\ UNCHANGED <<inputVars, errors, fileVars, readVars>>

(* nxf_parse_file, whose result is not looked at.  A parse that never      *)
(* returns leaves the process where it is until somebody kills it.         *)
Parse(p) ==
  /\ pc[p] = "parsing" /\ program[p].parse # "endless"
  /\ errors' = [errors EXCEPT ![p] = program[p].parse = "errors"]
  /\ Goto(p, "check")
  /\ UNCHANGED <<inputVars, fileVars, readVars>>

HasErrors_Never(p) == FALSE
HasErrors(p) == errors[p]

StopOnErrors(p) == pc[p] = "check" /\ HasErrors(p) /\ Leave(p, "fail")

GoOnToSave(p) ==
  /\ pc[p] = "check" /\ ~HasErrors(p)
  /\ Goto(p, "save")
  /\ UNCHANGED <<inputVars, errors, fileVars, readVars>>

-------------------------------------------------------------------------------
(* nxf_save_oir.                                                           *)

SaveRejected_Ignored(p) ==
  /\ pc[p] = "save"
  /\ Goto(p, "analyzer")
  /\ UNCHANGED <<inputVars, errors, fileVars, readVars>>

(* The writer refuses, or the file cannot be opened.                       *)
SaveRejected(p) == pc[p] = "save" /\ Leave(p, "fail")

SaveOpen(p) ==
  /\ pc[p] = "save" /\ ~HasErrors(p)
  /\ LET n == IF dir = None THEN p ELSE dir
     IN  /\ dir' = n
         /\ fd' = [fd EXCEPT ![p] = n]
         /\ inode' = [inode EXCEPT ![n] = <<>>]
  /\ Goto(p, "write")
  /\ UNCHANGED <<inputVars, errors, pos, readVars>>

(* `new' written over `old' from position n on.                            *)
Overlay(old, new, n) ==
  [i \in 1..(IF Len(old) > n + Len(new) THEN Len(old) ELSE n + Len(new)) |->
     IF i > n /\ i <= n + Len(new) THEN new[i - n]
     ELSE IF i <= Len(old) THEN old[i] ELSE Hole]

(* The stream hands the next records to the system.                        *)
SaveWrite(p) ==
  /\ pc[p] = "write"
  /\ \E k \in (pos[p] + 1)..Len(OirOf(p)) :
       /\ inode' = [inode EXCEPT ![fd[p]] =
                      Overlay(@, SubSeq(OirOf(p), pos[p] + 1, k), pos[p])]
       /\ pos' = [pos EXCEPT ![p] = k]
  /\ UNCHANGED <<inputVars, pc, errors, dir, fd, readVars>>

(* P0008: whatever the entry leads to by now is removed, unless that fails *)
(* as well, which nobody looks at.                                         *)
SaveFails(p) ==
  /\ pc[p] = "write"
  /\ dir' \in {None, dir}
  /\ Goto(p, "fail")
  /\ fd' = [fd EXCEPT ![p] = None]
  /\ UNCHANGED <<inputVars, errors, pos, inode, readVars>>

AllWritten_Unflushed(p) == pos[p] > 0
AllWritten(p) == pos[p] = Len(OirOf(p))

SaveDone_LeftOpen(p) ==
  /\ pc[p] = "write" /\ AllWritten(p)
  /\ Goto(p, "analyzer")
  /\ UNCHANGED <<inputVars, errors, fileVars, readVars>>

SaveDone(p) ==
  /\ pc[p] = "write" /\ AllWritten(p)
  /\ Goto(p, "analyzer")
  /\ fd' = [fd EXCEPT ![p] = None]
  /\ UNCHANGED <<inputVars, errors, pos, dir, inode, readVars>>

-------------------------------------------------------------------------------
(* nxf_init_analyzer, nxf_analyze_oir.                                     *)

(* A0001.                                                                  *)
NoOir(p) == pc[p] = "analyzer" /\ dir = None /\ Leave(p, "fail")

ReadOpen(p) ==
  /\ pc[p] = "analyzer" /\ dir # None
  /\ fd' = [fd EXCEPT ![p] = dir]
  /\ size' = [size EXCEPT ![p] = Len(inode[dir])]
  /\ Goto(p, "read")
  /\ UNCHANGED <<inputVars, errors, pos, dir, inode, got>>

(* The record the reader takes next, if it is (still) there.               *)
Content(p)  == inode[fd[p]]
NextAt(p)   == Len(got[p]) + 1
Readable(p) == NextAt(p) <= Len(Content(p))

(* Record i is read as the header, as a symbol or as an instruction, by the*)
(* offset in the header.  An instruction read as a symbol has prefix 0 and *)
(* a hole has id 0; as instructions both are opcodes nobody checks.        *)
RecordOk(p, r) ==
  IF NextAt(p) = 1 THEN r.kind = "header" /\ r.val <= size[p]
  ELSE NextAt(p) <= got[p][1].val => r.kind = "sym"

ReadRecord(p) ==
  /\ pc[p] = "read" /\ (got[p] = <<>> \/ NextAt(p) <= size[p])
  /\ Readable(p) /\ RecordOk(p, Content(p)[NextAt(p)])
  /\ got' = [got EXCEPT ![p] = Append(@, Content(p)[NextAt(p)])]
  /\ UNCHANGED <<inputVars, pc, errors, fileVars, size>>

ReadFails(p) ==
  /\ pc[p] = "read" /\ (got[p] = <<>> \/ NextAt(p) <= size[p])
  /\ ~(Readable(p) /\ RecordOk(p, Content(p)[NextAt(p)]))
  /\ Leave(p, "fail")

(* What the reader publishes.                                              *)
Symbols(p) == SubSeq(got[p], 2, got[p][1].val)
Code(p)    == SubSeq(got[p], got[p][1].val + 1, Len(got[p]))

(* traverseOIR looks the id up for eleven opcodes and passes over the rest.*)
Resolves_OneTooMany(syms, r) == r.kind = "checked" => r.val <= Len(syms) + 1

Resolves(syms, r) ==
  r.kind = "checked" => r.val = 0 \/ \E i \in DOMAIN syms : syms[i].val = r.val

AnalysisOk(p) == \A i \in DOMAIN Code(p) : Resolves(Symbols(p), Code(p)[i])

Analyse(p) ==
  /\ pc[p] = "read" /\ got[p] # <<>> /\ Len(got[p]) = size[p]
  /\ Leave(p, IF AnalysisOk(p) THEN "ok" ELSE "fail")

-------------------------------------------------------------------------------
Crash(p) == Live(p) /\ Leave(p, "dead")

Save(p) == SaveRejected(p) \/ SaveOpen(p) \/ SaveWrite(p) \/ SaveFails(p) \/ SaveDone(p)
Read(p) == NoOir(p) \/ ReadOpen(p) \/ ReadRecord(p) \/ ReadFails(p) \/ Analyse(p)

Step(p) ==
  \/ PickTarget(p) \/ NoDll(p) \/ CreateSession(p) \/ Parse(p)
  \/ StopOnErrors(p) \/ GoOnToSave(p) \/ Save(p) \/ Read(p)

Next == \E p \in Proc : Start(p) \/ Step(p) \/ Crash(p)

(* A running process is scheduled again; nothing makes anybody start one.  *)
Spec == Init /\ [][Next]_vars /\ \A p \in Proc : WF_vars(Step(p))

-------------------------------------------------------------------------------
(* Properties.                                                             *)

Location ==
  {"new", "target", "parser", "parsing", "check", "save", "write", "analyzer", "read"}
    \union Ended

(* The type invariant; a descriptor is open just while a stream is.        *)
TypeOK ==
  /\ program \in [Proc -> Program] /\ input \in [Proc -> Input \union {"exists"}]
  /\ pc \in [Proc -> Location] /\ errors \in [Proc -> BOOLEAN]
  /\ \A p \in Proc : pos[p] \in 0..Len(OirOf(p)) /\ size[p] \in Nat
  /\ dir \in Proc \union {None}
  /\ \A p \in Proc : fd[p] \in IF pc[p] \in {"write", "read"} THEN Proc ELSE {None}

Clean(p) == program[p].parse = "clean"

(* Exit status 0 means that the program given on the command line was      *)
(* analysed, all of it and nothing else, whatever earlier compilations     *)
(* left behind when they failed or were killed.                            *)
AnalysedOwn == \A p \in Proc : pc[p] = "ok" => got[p] = OirOf(p)

(* A source with errors neither writes, truncates nor removes the artefact:*)
(* two checks, one in main and one behind the ABI, stand before it.        *)
DirtyProgramTouchesNothing ==
  [][\A p \in Proc : pc'[p] # pc[p] /\ ~Clean(p) => UNCHANGED <<dir, inode>>]_vars

Dangles(p, r) == r.kind \in {"checked", "plain"} /\ r.val > Len(Symbols(p))

(* Whatever others do to the file while it is read, a compilation that     *)
(* exits with 0 had a clean source and analysed a table with dense ids.    *)
(* Its stream may still name symbols that the table lacks, but only in an  *)
(* instruction whose id the analyzer does not check and which another      *)
(* process wrote than the header: what one process wrote never dangles.    *)
AcceptedIsSound ==
  \A p \in Proc : pc[p] = "ok" =>
    /\ Clean(p)
    /\ \A i \in DOMAIN Symbols(p) : Symbols(p)[i].kind = "sym" /\ Symbols(p)[i].val = i
    /\ \A i \in DOMAIN Code(p) :
         Dangles(p, Code(p)[i]) => /\ Code(p)[i].kind = "plain"
                                   /\ Code(p)[i].by # got[p][1].by

(* A compilation ends, unless its target does not exist and its input ends,*)
(* or its parse never returns: nothing in the rest of the pipeline waits.  *)
Terminates ==
  \A p \in Proc :
    Live(p) /\ input[p] # "eof" /\ program[p].parse # "endless" ~> ~Live(p)

(* What the file holds, to CompileSpec.                                    *)
HeldOir == {p \in Proc : inode[dir] = OirOf(p)}
Artefact ==
  IF dir = None THEN "none"
  ELSE IF HeldOir = {} THEN "partial" ELSE CHOOSE p \in HeldOir : TRUE
Status ==
  [p \in Proc |-> IF pc[p] \in {"fail", "dead"} THEN "failed"
                  ELSE IF Live(p) THEN "running" ELSE pc[p]]

Promise == INSTANCE CompileSpec WITH
  NoArtefact <- "none", Partial <- "partial", clean <- [p \in Proc |-> Clean(p)],
  status <- Status, artefact <- Artefact

(* One compilation at a time, occ keeps the promise of CompileSpec: a      *)
(* success leaves its own whole OIR, and whatever else happens, kills and  *)
(* failed removals included, a compilation turns the artefact only into a  *)
(* partial one, its own or none, and one whose source is not clean leaves  *)
(* it as it found it.                                                      *)
KeepsPromise == Promise!Spec

=============================================================================
