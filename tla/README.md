# OMNI-CORE / NexusFlow: formal models

Specifications of the NexusFlow compiler: TLA+ modules translated from the
source, TLC configurations that check them on small instances, and proofs for
TLAPS. Paths below are relative to `src/omnicore-sdk/` unless they start with
`src/docs`. The C tree is the directory `src - c - 28-01-26/` there.

## 1. The system

`occ` compiles a `.nxf` source. It loads two DLLs one after the other and
passes the program between them in a file:

```
 occ (src/occ/main.cpp)
  |  LoadLibrary / GetProcAddress, C-ABI
  +--> Parser DLL (src/parser)    nxf_create_session, nxf_parse_file,
  |       lexer -> NexusParser -> OIRWriter         nxf_save_oir
  |                                   |
  |                        "intermediate.oir" in the working directory
  |                                   |
  +--> Analyzer DLL (src/analyzer)  nxf_init_analyzer, nxf_analyze_oir,
          OIRReader -> Analyzer passes         nxf_get_analyzer_errors
```

An older compiler in C (`src - c - 28-01-26/`) is one process up to its code
generator: `main.c` parses, checks the tree (`semantic.c`), has
`parser_save_ir` write it to `<name>.oir` and calls `codegen_run` of
codegen.dll, which reads the tree back from that file (`ast.c` on both sides).

The design rule of the C++ tree is in the header of `OIRError.hpp` and
`OIR_Generator.cpp`: every error is collected, all are shown at once, and an
OIR file is written only if there are none.

| Component | State it keeps | Operations | Interacts through |
|---|---|---|---|
| OIR format (`OIRWriter.hpp`, `OIRReader.hpp`) | none: a header, a symbol table, instructions to the end of the file | sizes, save checks, load checks | the file |
| Parser DLL session (`OIR_Generator.cpp`, `OIRError.hpp`, `OIRWriter.hpp`) | error list, symbol table and name index, instruction stream, whether the last save succeeded | create, parse source, parse file, save, destroy, queries | C-ABI calls of occ; callbacks of the parser into the writer |
| Lexer (`Lexer.hpp`, `Token.hpp`) | position, line and column in the text | next token by a table of operators in order, then words, numbers, literals | `nxf_parse_source` hands its tokens to the parser if it has reported nothing |
| NexusParser (`NexusParser.cpp`) | position in the tokens; the call stack with the symbol ids each active function holds | one parse function per construct, `synchronize` after an error | `addSymbol` and `emit` of the writer, `add` of the error list |
| Analyzer DLL (`Analyzer.cpp`, `OIRReader.hpp`, `SymbolTable.hpp`) | a global error list that outlives calls; per call a reader and two tables | init, analyze, get errors | C-ABI calls of occ; the file |
| occ (`src/occ/main.cpp`) | where it is; the target name | target prompt, load, parse, save, analyze | one file name for every process in a directory |
| Type system (`TypeSystem.hpp`) | none | type compatibility | nothing calls it |
| C: lexer (`parser/lexer.c`) | position in the text | next token, one case per first symbol | `advance` of the parser calls it |
| C: driver and parser (`main.c`, `parser/parser.c`) | current and previous token, `ast_root`, error flag and list, panic mode; the call stack with the list each active function builds | one parse function per construct; lex, parse, check, save, generate, destroy in `main.c` | `ast_create`; the tree; function calls of the driver |
| C: tree (`parser/ast.h`, `parser/ast.c`) | none: nodes in the heap, linked by `next` and by their members | create, write, read, destroy | `parser.c` and `codegen.c` call it; the `.oir` archive |
| C: semantic check (`parser/semantic.c`) | symbol table, scope depth, return type of the current function, errors | one case per node type of `semantic_check` | the tree; `main.c` generates code only without errors |
| C: code generator (`codegen/codegen.c`) | target configuration, label counters | read the archive, emit assembly | the archive |

Data, documents and build files (targets, message files, editor assets, the
runtime, optimiser and linker specifications) have no behaviour of their own.

### What is hard here, and what makes each part correct

* **Format.** Writer and reader were written apart and share no code for the
  limits (a name of 1024 bytes, a target of 31, 32-bit offsets). Correct:
  what one finishes the other accepts, with the same content; and of a file
  that a dead process left half written, the reader must not accept something
  that is not a prefix of the program.
* **Session.** Parses and saves come in any order and any of them may fail,
  a save in two places with different leftovers. Correct: a failure is never
  forgotten, nothing is written after one, and the ids that instructions carry
  resolve in the table.
* **Lexer.** Forty operators are tried in the order of a table, a word takes a
  colon and puts it back. Correct: the longest operator is taken, nothing of
  the source is lost, and every token carries the place where it stands.
* **Parser.** Recovery after an error jumps in the middle of nested constructs.
  Correct: every opening instruction gets its closing one, ids kept across
  nested constructs stay valid, and every loop ends.
* **Analyzer.** A load fails in the middle; errors accumulate in a global.
  Correct: no partial publication, no error lost, the verdict is about the
  files since the last init.
* **occ.** Two processes share one file name, each may be killed at any point,
  and the prompt repeats. Correct: success is about one's own program; what is
  accepted has a table that is whole and no reference the analyzer should have
  missed; it ends if its input and its parse do.
* **C tree.** Four switches over the node type say how large a node is, what is
  written, read and freed, and each casts to a struct of its own choice; no
  write is checked. Correct: what is read is what was written, of a cut archive
  it is a part of that, and whatever was read is destroyed once and completely.
* **C lexer and parser.** Operators share prefixes; a parse function that fails
  returns NULL to callers that link, unwrap or join what they got; lists are
  built through a tail pointer. Correct: the longest operator is taken, a NULL
  comes with an error, the tree of an accepted program is what the source says,
  once, grouped as arithmetic groups, and the parse ends.
* **C code generator.** A stack machine: operands wait on the stack while the
  other one is computed. Correct: at each instruction the two operands are where
  it takes them from, and the stack is left as it was.
* **C semantic check.** One list is the symbol table of all scopes; scopes are
  left by depth, and the return type is a field saved around functions.
  Correct: a name means what the lexical structure says, at every point.

The list with lines and properties is `hazards` in `PROJECT.json`.

## 2. The modules

| Module | Models | State | Actions and operators, and the code they stand for |
|---|---|---|---|
| `OIRContainer` | the format | none | `Writable` = the checks of `OIRWriter::save`; `Image` = the file it writes, as records with sizes; `Loads`, `PublishedSymbols`, `PublishedCode` = `OIRReader::load` |
| `ParserSession` | one `NxfSessionState` | `open`, `config`, `phase` (the call in progress), `errors`, `syms`, `code`, `file`; histories `ret`, `failed` | `CreateSession`, `DestroySession`; `NullArgument`, `ParseFileMissing`, `LexThenParse`, `ParserEmit`, `ParserRelocate`, `ParserEmitPlain`, `ParserError`, `ParseDone` = `nxf_parse_file` and `nxf_parse_source` (with `addSymbol` and `emit` of the writer); `SaveRefused`, `SaveRejected`, `SaveOpen`, `SaveWrite`, `SaveFails`, `SaveDone` = `nxf_save_oir`; `Crash` = the process dies |
| `ParserSessionProofs` | - | - | theorems about `ParserSession` |
| `NexusLexer` | `Lexer.hpp`, keywords of `Token.hpp` | `source`, `at` (`pos`, `line`, `col`), `tokens`, `reported` | `Blank`, `LineComment`, `BlockComment`, `EndOfSource` = `tokenize` and what it skips; `Operator` over the table `OperatorRows`, `Word` = `lexWord`, `Number`, `String`, `Char`, `Single`, `Unknown` = the cases of `nextToken` |
| `NexusFrontEnd` | `nxf_parse_source` | those of the two it composes | `Lex` = `tokenize`; `HandOver` = the tokens go to the parser; `LexErrors` = the return without a parse; then the steps of `NexusParser` |
| `NexusParser` | `NexusParser.cpp` | `toks`, `cur` (position, last id, error flag, symbols, instructions), `stack` | one action per parse function, run up to its next call |
| `NexusFrontEndProofs` | - | - | theorems about `NexusFrontEnd`, `NexusLexer` and `NexusParser` |
| `SemanticRules` | the rules of `Analyzer.cpp` | none | `Resolved`, `Warnings`: shared by `AnalyzerDll` and `NexusParser` |
| `AnalyzerDll` | the DLL | `errors` (the global list), `pc`, `file`, `nsym`, `ncode`, `published`, `idx`, `warnings` | `InitAnalyzer`, `AnalyzeOir`; `ReadHeader`, `ReadSymbol`, `ReadInstruction`, `Publish` and the failures = `OIRReader::load`; `Traverse` = `traverseOIR`, one instruction at a time; `Finish` = third pass and verdict |
| `AnalyzerDllProofs` | - | - | theorems about `AnalyzerDll` |
| `CompileSpec` | what `occ` promises | `status` of each compilation, and whose OIR `artefact` is | abstract specification, see 4 |
| `OccPipeline` | several `occ` processes over a POSIX directory | per process `pc`, `errors`, `fd`, `pos`, `size`, `got`; `dir` and `inode` | one action per call of `main()`: `PickTarget`, `NoDll`, `CreateSession`, `Parse` (which an endless source never leaves), `StopOnErrors`, the `Save...` and `Read...` steps, `Analyse`; `Crash` |
| `OccPipelineProofs` | - | - | theorems about `OccPipeline`, the refinement among them |
| `AstNodes` | `ast.h`, `get_node_size`, `ast_create` | none | `Members` = the structs, `Allocated` and `StructOf` = the struct a type is allocated as, `Blank` = a node of `ast_create` |
| `AstArchive` | `ast.c` and its callers after the parse | `phase` (the call main is in), `program`, `loaded` (the two trees), `archive`, `in`, `opened`, `full`, `todo` (the recursion), `freed` | `Open`, `OpenFails`, `Saved` = `parser_save_ir`; `WriteNode`, `WriteScalar` = `ast_serialize_recursive` over `WriteView`; `CodegenRun`, `NoCodegen`, `Loaded` = `codegen_run`; `ReadNode`, `ReadScalar` = `ast_deserialize_recursive` over `ReadView`; `DestroyNode`, `Free`, `Destroyed` = `ast_destroy` over `FreeView`; `WildPointer` = access beyond a node; `DiskFills` = the environment |
| `AstArchiveProofs` | - | - | theorems about `AstArchive` |
| `SemanticScopes` | `semantic.c` | `ast`, `todo` (the recursion), `slots`, `depth`, `funcType` = the fields of `SemanticContext`, `errors`; history `seen` | one action per case of `semantic_check` and one per rest of a case after the checks it calls (`Initialized`, `ExitScope`, `Restore`, `Returned`, `Called`, `RangeVariable`) |
| `SemanticScopesProofs` | - | - | theorems about `SemanticScopes` |
| `CLexer` | `lexer.c` | `text`, `pos`, `toks` | `NextToken` = `lexer_next_token`, one disjunct per case: what is skipped, names and prefixes with `IdentifierType` = `identifier_type`, numbers, strings, characters, operators (`Longest` = the nested `match` calls), error tokens |
| `CParser` | `parser.c` and the calls of `main.c` around it | `cur` (tokens `at` and `prev`, node returned, `bad` = `had_error`, the heap `nodes`, `crash`, `asm`; histories `parens`, `lost`), `stack` | one action per parse function and one per rest of it after a call; `Link`, `Argument` = the two kinds of lists; `Unwrap`, `Label` = labels; `NewTypeFreed` = the branch that reads a freed name; `Compile`, `SemanticErrors`, `DestroyTree`, `DestroyJunk` = `main.c` |
| `CParserProofs` | - | - | theorems about `CParser` |
| `CParserOwners` | - | - | a theorem about `CParser`, on those of `CParserProofs` |
| `CCodegen` | `codegen.c` | none | `Code` = `codegen_node`, `Combine` = `codegen_binary`; `Runs` executes the instructions of a function and says of each register and stack slot which node's code computed it |

`MC...` modules give the constants small values; each `.cfg` names the
properties of one run.

Correspondences worth knowing when reading the code beside the models:

* `ParserSession` takes from lexer and parser only what they do to the session:
  any number of lexical errors, any sequence of `addSymbol`, `emit` and error
  calls. `NexusParser` is where the actual sequence comes from. Names and
  targets are abstracted to identity and length, records to their sizes.
* In `NexusLexer` a symbol of a source is a character or a part of a word that the
  lexer never looks into, and is one column wide. A token's place is what
  `makeToken` gets; `from` and `next`, the symbols it was made from, are for the
  properties only. `source`, `at` and `tokens` belong to the lexer of one call and
  its error list is `reported`. The parser run starts some calls in the second
  stage, with given tokens, where only those matter.
* In `NexusParser` the C++ stack is `stack`: a frame is the rest of an active
  function with the id and path it still needs. An expression counts only by
  where `getExprRaw` stops. Of the error list only its emptiness is kept.
  Lines and columns fit their 16 bits; the instruction that does not is
  the case `~inRange` of `ParserSession`'s `ParserEmit`, and its recorded error keeps the file
  from being written.
* In `OccPipeline` the parser and the analyzer's passes are single steps, the
  file accesses are not: opening truncates, records are written one at a time,
  the reader takes the size once and then reads record by record. Whether a
  parse ends is a fact of the program (`parse`), since `NexusParser` has sources
  whose parse does not; such a process stays in `nxf_parse_file` until it is
  killed. An instruction is of one of the eleven opcodes whose id
  `Analyzer.cpp:91-177` looks up (`checked`) or of another one (`plain`), and
  only the former can fail the analysis. `remove()` after a failed save may
  fail as well, in `ParserSession` too.
* `NexusParser`'s tokens have the line the lexer gave them, for `lookAheadFor`
  stops at the end of the line. Tokens that are given as such are on one line.
* In `AstArchive` a scalar holds the name of its member or zero: that decides
  whether a switch took it from the right place. A number, a string with its
  length and a node's type are one token each in the archive, line and col
  together. A full disk cuts the archive between two of them or inside one: of
  that one a `Part` is in the file, which as a type or a string reads as nothing
  and as a number as whatever the bytes that are there make. A load
  beyond a node yields any number, and a pointer that is NULL or leads astray
  (`WildPointer`, the process dies); a store beyond it is lost or kills the
  process. Line numbers are all different in the model, so a node that was
  read can be recognised.
* `CLexer` makes all tokens before `CParser` starts: the lexer has no input from
  the parser. A text is a sequence of symbols, where a word is one symbol; lines
  and columns are left out. `CParser` keeps of the error list whether it is
  empty, which also stands for `panic_mode`: the latter only keeps messages off
  the list. Nodes are those of `AstNodes`, so a store into a member a node does
  not have is seen (`Put`, `Lose`), and so is one over a node that hangs there.
  `lost` records what the parser drops, under the name of the reason. Some of it the
  parser passes over or parses and keeps in no node: a token in a body that is no `field`,
  `variant` or `member`, the counts of a rolling `retry`, what it parsed of an
  `unpack`, a `place` and a `listener` that have no member to go to, the `not` of a
  command. The rest are pointers, under the name of the member: `next`, `args` and
  `catch_block` (section 6), overwritten or without room in the struct. `ReadsBack` compares tree and source where
  nothing is in `lost`, says that no other pointer gets there, and when these
  three do; so a part that is dropped without a mark would be seen.
  `OneOwner` excludes two owners always, but a node without an owner only where
  `lost` is empty: of a source with any of these losses it does not say which nodes leak.
  A process that follows a NULL pointer, or frees a name twice, ends
  (`Crash`); one that destroys an `ast_root` that was never set ends or goes on. The pass of `semantic_check`
  is a choice between errors and none; it is `SemanticScopes`. Between the parse
  and the code stands the archive, which is `AstArchive`; here the code is
  generated from the tree itself.
* `CCodegen` says of an instruction which one it is and for which node. Every
  literal loads 0, as in the program, so numbers would tell nothing apart: the
  machine keeps of each register and stack slot the node whose code computed it.
* In `SemanticScopes` the errors are a set of code and node; their order and
  texts are left out. The fields of a struct or an enum are checked in one
  step: between them the code checks inline types, which have no name and
  declare nothing. The properties compute scopes from the tree alone
  (`Enclosing`, `Declares`), and the check must agree with them.

## 3. The runs

| Run | Instance and bounds | What it shows |
|---|---|---|
| `session` | a short name, one at the length limit and one beyond it, targets likewise, a file bound that one long name and two instructions reach exactly, 2 errors, 2 instructions | the properties of a session over every order of parses, refused calls, failed saves and deaths; one more symbol, error or instruction repeats a case that two already give |
| `analyzer` | whole, cut and damaged files, among them those of `tests/oir_reader_tests.cpp`; 3 calls | publication, reporting and verdict; three calls are an init, a file with errors and a file without in any order |
| `parser` | a sample of every construct and every source one token away (a token removed, or replaced by any of 27 words), over 10,000 sources; 24 instructions; lexer and parser together on the text of every sample, with blanks and as dense as possible, on every text of one or two of 29 symbols, of three of 13 operator symbols and of three of 16 symbols of words, numbers, comments and literals | no operator is cut short, nothing is lost, places are exact; nesting, resolvable ids, and that a parse which does not end is in one of three known loops |
| `occ_sequential` | 2 processes, never both running; 4 programs: two clean ones of different sizes, one with errors, one whose parse never returns | `OccPipeline` implements `CompileSpec` |
| `occ_concurrent` | the same, both at once; the larger program has a checked and an unchecked instruction with an id beyond the table of the smaller one | what remains true in a shared directory |
| `ast_archive` | one program per construct the C parser builds, 38 in all: the node between the root and a sibling, all members set, every child a list of one or two; an older archive under the name | the four switches agree on every type but the two of section 6; archives cut between two tokens and inside each, and both destructions, of every program |
| `semantic_scopes` | 356 programs over two names: blocks, nested functions with and without a name, loops of every kind, all pairs of declarations that may not repeat, and the other scopes | names resolve lexically; two names and two nested scopes make every case of same scope, outer scope and unknown |
| `c_parser` | 33 sources with every construct, each of them with every one word missing and cut off behind every word; 17 more for what that does not reach; every operator, and every choice of two of ten operators, one per level and kind, with and without parentheses; every text of up to three operator symbols | the tree of an accepted source says what the source says, once; a NULL has an error; operands are in place; the only endless loop is the label of a tuple |
| `occ_shared_oir`, `parser_hang`, `params_warned` | the smallest instance with the case | each violates one statement of the code's own documents: section 6 |

`MaxCode` of the parser hides nothing: a parser that reached it would be neither
done nor stuck, and `HangsOnlyThere` would fail. Two processes suffice for `occ` because a third one
could only do to the file what the second does.

For the texts of `parser`: no operator has more than three symbols, and no case of
the lexer looks further than one symbol behind what it has read.

For `c_parser`: three symbols are the longest
operator, so all choices of three show every order of the `match` calls; a longer text of them is a sequence
of such tokens. Precedence relates two operators at a time, and ten represent
all levels. A word missing makes every `consume` fail once, and a cut makes every
function meet the end of the file.

`CHECK_DEADLOCK FALSE` is set in every run: a session is destroyed, a sequence
of analyzer calls is finite, processes exit and a parse returns. That they
return when they should is stated as a property (`CallsReturn`, `Terminates`,
`HangsOnlyThere`).

### The properties

* Session: `SavedFileLoads` (a finished file is accepted and gives back what
  was saved), `TruncationLosesOnlyTail` (a cut file that is accepted has the
  whole table and lacks only instructions at the end), `IdsResolve`,
  `ErrorsAreReported` (the list is empty exactly when no call with its arguments has
  failed), `FailedSessionIsSilent` (after such a failure the file is not touched).
  Neither holds of the calls refused for a NULL argument (section 6).
* Lexer: `LongestMatch` (where an operator was taken no longer one fits, and no
  word begins or ends inside another), `NothingSkipped` (each token is its own text,
  and what lies between two is blank, comment or reported), `PositionsExact` (a
  token carries the line and column of its first symbol).
* Parser: `WellNested` (every function, type, loop and branch that is open in the
  stream is closed by an active function, innermost first, at every moment and
  in a broken source too), `CleanParsePassesAnalysis` (the analyzer's id checks
  never reject what the parser emits without an error), `HangsOnlyThere`.
* Analyzer: `PublicationIsAtomic`, `AllErrorsReported`, `VerdictExplained`,
  `CallsReturn`.
* C tree: `RoundTrip` (what codegen reads is what the parser built, except the
  token type of a literal, which is not written), `TruncationSpoilsOneNumber`
  (a cut archive reads as the program with parts missing and at most one number
  wrong, the one the cut is in), `NoUseAfterFree`,
  `NothingLeaks`, `Terminates`.
* C semantic check: `ResolvesLexically` (the table holds exactly the names in
  scope), `InnermostWins`, `ScopesBalanced`, `ReturnTypeIsEnclosing`.
* C lexer, parser and code: `LongestOperator` (the tokens of any text are what a
  longest match over the list of spellings gives), `NullMeansError` (a NULL is
  followed only in a program with an error, and without one no node lacks a
  part it needs), `OneOwner` (no node of an accepted tree is freed twice or
  forgotten), `ReadsBack` (an accepted tree has the words and operators of the source in order),
  `GroupsByPrecedence`, `OperandsInPlace` (at each arithmetic instruction the left
  operand's result is in `rax` and the right one's in `rbx`, and a function returns with its
  result and an empty stack; it does not speak of numbers), `HangsOnlyInTupleLabels`.
* occ: `AnalysedOwn`, `AcceptedIsSound` (whatever others write meanwhile, exit status 0
  means a clean source and a table with dense ids; an id that the table lacks is
  in an instruction the analyzer does not check and which another process wrote than
  the header), `DirtyProgramTouchesNothing`, `Terminates` (a compilation whose input
  and whose parse end, ends), and `KeepsPromise`, the refinement.

### Fairness

Weak fairness is assumed of what has begun and of nothing else. A call that has
entered a DLL runs to its return (one thread, no waiting), so each step inside
a call is weakly fair; no call has to be made, no process started and no
process killed. In `OccPipeline` a started process is scheduled for ever
unless it is killed; `Terminates` excludes, in its formula, a process at the
end of its standard input, whose prompt repeats for ever, and one whose parse never
returns: which sources those are is `HangsOnlyThere`. The parser is one
function call, and with the lexer before it another, so `NexusParser` has weak
fairness of `Next` and `NexusFrontEnd` of `FrontNext`; so are
`semantic_check` and, in `CParser`, the whole run of the C compiler. In `AstArchive` the steps of the process are weakly fair
together, that the disk fills is not.

## 4. Abstraction and refinement

`CompileSpec` says what a user who runs `occ` again and again in a directory may
rely on: a compilation that succeeds leaves the whole OIR of its own program. One
that fails or is killed leaves the file as it found it, no file, a partial one,
or, if it fails after its save (no Analyzer DLL, a rejection, a kill), the whole
OIR of its own program; so a file being there says nothing of success. It never
turns the file into the OIR of another program, and a compilation of a
source that is not clean never touches it. `OccPipeline` with one live process at a
time refines it (`KeepsPromise`, with the mapping at the end of
that module; checked by TLC for two processes and proved for any number, see 5);
with two at the same time it does not, which is what `occ_shared_oir` shows.

## 5. What is proved

Each table lists the theorems of a module; the lemmas they rest on are in the
same module. All of them are proved for every value of the constants that
satisfies the assumptions named below it, and TLC evaluates these assumptions in
the runs.

### `ParserSessionProofs`

For every set of names and targets with any lengths, every sequence of parses
and every file bound:

| Theorem | Statement |
|---|---|
| `Invariance` | `Spec => []IInv` |
| `TypeCorrect` | `Spec => []TypeOK` |
| `SymbolsResolve` | `Spec => []IdsResolve` |
| `NoHiddenErrors` | `Spec => []ErrorsAreReported` |
| `SilentAfterFailure` | `Spec => FailedSessionIsSilent` |
| `WriterReaderAgree` | `Spec => []SavedFileLoads` |
| `OnlyTailIsLost` | `Spec => []TruncationLosesOnlyTail` |

They assume `ContainerAssumption`, `SessionAssumption` and `NoFileAssumption`:
lengths and bounds are natural numbers, what a session is created with is made
of them, and the marker for "no file" is not a file.

The properties are not inductive. That a written file loads needs what the
checks established when the save began (`Writable` of the tables as they still
are), that the tables do not change while a save runs, and that the records
already in the file are the first ones of the image; `IInv` adds these to the
type invariant and to `IdsResolve`. `WholeTable`, `WholeTablePublished`,
`ImageNumbers` and `WholeRecords` then say what the reader makes of a prefix of
an image: at which counts the header accepts it, that the table is whole, and
that what is published is a prefix of the instructions.

### `NexusFrontEndProofs`: the parser

For every text, every sequence of tokens and every bound on the instructions, of
`FrontSpec`:

| Theorem | Statement |
|---|---|
| `Invariance` | `FrontSpec => []FrontInv` |
| `TypeCorrect` | `FrontSpec => []TypeOK` |
| `Nested` | `FrontSpec => []WellNested` |
| `IdsAlwaysResolve` | `FrontSpec => [](Resolved(cur.syms, cur.code) /\ CleanParsePassesAnalysis)` |

They assume `SourcesAssumption`, that a source is a sequence of tokens, each with a
line.
`IdsAlwaysResolve` says more than the run checks: the ids resolve while the parse
goes on, and in a source with errors.

`FrontInv` says that the tokens end with EOF and the cursor is on one of them
(`Source`, `Good`: so `peek` never leaves the vector), that ids are dense and each
id of an instruction or a frame is in the table, and that the active functions, in the
order of the stack, close what the stream has open. The last part is
`WellNested` in a form that a single step disturbs in one place only: `After(open, ops)`
is what is due after the instructions `ops`, a frame counts as the
instruction it will emit, and After of a concatenation is After of After
(`AfterConcat`, an induction over the length by a least counterexample). A parse function
that opens nothing may push only frames that leave every `open` as it is
(`Even`), one that opens `op` frames that close it (`Shuts`). Each of the 65
actions is then one of five shapes (`CalmThen`, `CalmAgain`, `OpenThen`, `ActThen`,
`StepKeeps`): the lemmas from `Helpers` to `Leaving` name the cursor it ends with
and its frames, and the helpers on the cursor have the frame rules `Steady`, `Leads` and
`Opens`. For the six kinds of loops it is `LoopKindBegins` that says the
instruction pushed in front, whichever it is, is one that `LOOP_END` closes.

### `NexusFrontEndProofs`: the lexer

For every text:

| Theorem | Statement |
|---|---|
| `LexerInvariance` | `FrontSpec => []LexInv` |
| `PlacesAreExact` | `FrontSpec => []PositionsExact` |
| `NothingIsLost` | `FrontSpec => []NothingSkipped` |
| `LongestWins` | `FrontSpec => []LongestMatch` |

They assume `TextsAssumption`, that a text is a sequence of symbols. `LongestWins` also
assumes `LettersAssumption`: what `isalpha` and `isdigit` accept is no blank, `#`, quote or
single-character token. Nothing is assumed of `isxdigit`.

`LexInv` says that the lexer's line and column are those of its position
(`AtPlace`), and what the two properties say of the last token. `Place(p)` counts
the line ends before `p` (`PlaceNext`, `AdvancePlace`: `advance` goes from one place to the next);
a lookahead of any length ends at a place (`AdvanceToPlace`), and what
`lexWord` puts back by hand is one again, for a colon is no line end
(`PutsBack`). With that, a step is of one of two shapes: it passes over symbols that
need not be in a token (`MoveKeeps`), or it makes a token whose text is what it
passes over (`YieldKeeps`). The least of some positions, the text of some symbols
and the end of a string exist by a least counterexample each (`FirstIs`,
`TextExists`, `EndsExist`).

`LongestMatch` needs `Border`, which holds between two tokens: a position with a
letter or digit on either side is one where the last token, a number, a character or
`!listen`, has ended inside a word. A string, for one, may end at a quote, a line end or the
end of the source only (`EndsClose`), and a comment at the last two or a `#`. For
operators the table decides: `!listen`, of two symbols, is before the rows of three, but no
other row has its second symbol, and every row of three is before those of two
(`OperatorLengths`), so the first that fits is the longest. No row's type is that of
a word (`OperatorTypes`).

### `AnalyzerDllProofs`

For every set of files and any number of calls:

| Theorem | Statement |
|---|---|
| `Invariance` | `Spec => []IInv` |
| `TypeCorrect` | `Spec => []TypeOK` |
| `LoadIsAtomic` | `Spec => []PublicationIsAtomic` |
| `EveryErrorReported` | `Spec => AllErrorsReported` |
| `VerdictMeansFile` | `Spec => VerdictExplained` |

They assume `ContainerAssumption` and `FilesAssumption`: a file is not larger
than its image, its records follow one another, and its code offset is the end of its symbol
table, lies inside a record or is no offset into the file at all. (An offset at a
record's boundary inside the table would have the rest of the table read as
instructions, whose bytes the model does not have.)

`IInv` says how far `load()` has got and that it has checked all before
(`LoadInv`), what is exposed at each step (`PublishedInv`), and that the error list
has grown by the dangling references of the instructions passed
(`CountInv`). `WholeTable` is the step from the loops to the format: where the
records read end at the code offset, the table was whole.

### `OccPipelineProofs`

For every set of processes and programs:

| Theorem | Statement |
|---|---|
| `Invariance` | `Spec => []IInv` |
| `TypeCorrect` | `Spec => []TypeOK` |
| `OnlySoundIsAccepted` | `Spec => []AcceptedIsSound` |
| `DirtyIsInert` | `Spec => DirtyProgramTouchesNothing` |
| `SoleInvariance` | `MaxLive <= 1`: `Spec => [](IInv /\ AloneInv)` |
| `SoleAnalysesItsOwn` | `MaxLive <= 1`: `Spec => []AnalysedOwn` |
| `PipelineKeepsPromise` | `MaxLive <= 1`: `Spec => KeepsPromise` |

They assume `PipelineAssumption`: a program is a number of symbols and
instructions that name them, and its parse is clean, has errors or is endless. `MaxLive <= 1` means that one compilation runs at a
time; for two the statements are false (`occ_shared_oir`). The first four hold
for any number at once.

What makes `AcceptedIsSound` inductive is that every writer puts a record only
where it belongs: record `i` of any file is a hole, or record `i` of somebody's
OIR (`FilesInv`). A reader that has taken a header and as many symbols as it
says has dense ids then, whoever wrote them, although header, symbols and
instructions may be of three programs. An instruction of the header's own writer
names one of as many symbols as the header says; one of another writer may not,
and then the analyzer has looked its id up or it is not checked. `AloneInv` says who the entry and the
descriptors belong to while one process lives: the live one, or nobody; and
that its file is a prefix of its own OIR. The refinement is proved step by step
(`Promise!Init`, then a step of each action maps to a step of `CompileSpec` or to
none). It needs one fact more: a process that has not opened the file
does not find its own OIR in it (`FreshInv`), so that what opening takes away is
somebody else's. With it, whose OIR the file holds follows from where the live process
is (`ArtefactInv`). `CompileSpec` states no fairness, so it is within reach here.

The proof corrected the type invariant: the prompt repeats until a target
exists, so `input` may become `"exists"` although no process started with it.

### `AstArchiveProofs`

For every tree, every older archive and a disk that fills up anywhere:

| Theorem | Statement |
|---|---|
| `Invariance` | `Spec => []IInv` |
| `FreedOnce` | `Spec => []NoUseAfterFree` |
| `CleanInvariance` | `OldIsClean`: `Spec => []CleanInv` |
| `AllIsFreed` | `OldIsClean`: `Spec => []NothingLeaks` |
| `SoundNeverCrashes` | `OldIsClean`: `Spec => [](Sound => phase # "crashed")` |

They assume `TablesAssumption` (the structs of `ast.h` have different members,
no type is allocated as two of them), `ProgramsAssumption` (a parse leaves a tree: every node
but the root is the child of one member, and has the members of the struct it is allocated
as; that the parser builds trees is `EveryNodeOwned` of `CParserOwners`, and no
`ast_create` of the parser makes an `EXTERN_DECL`), and
`ArchiveAssumption` (an older archive is a sequence of tokens, any at all).
`LinesAssumption` is for two properties that TLC checks; no proof uses it.

`NoUseAfterFree` speaks of the next item of the recursion. To be inductive it
has to speak of all of them (`Once`): no pending item is freed; behind
each pending member of a node lies the item that frees the node itself
(`Ordered`); the child of a pending link is neither pending nor freed yet; and
each node touched hangs from a touched one, so a node is met again
only if two members lead to it. That they do not, in a tree that was read from any
archive, and at every moment of the load, is `LoadedInv`: a new node lies behind
all others and is stored in one member.

`OldIsClean` says that the archive an earlier run left holds no type of `Odd`:
halt and unpacking, which are cast to a larger struct than they are allocated as
(section 6), and `EXTERN_DECL`. It is what this compiler leaves of a program without
a halt. It is needed, for when the archive cannot be opened the
older one is read, and with a halt in it a node may be read that is stored
nowhere, and leaks. A node that is not freed at the end would hang from another
one that is not, so the least one of them has no parent; that is the
argument of `AllIsFreed`.

### `SemanticScopesProofs`

For every tree:

| Theorem | Statement |
|---|---|
| `Invariance` | `Spec => []IInv` |
| `ScopesAreBalanced` | `Spec => []ScopesBalanced` |
| `ReturnsMatchEnclosing` | `Spec => []ReturnTypeIsEnclosing` |
| `NamesInvariance` | `Spec => []NInv` |
| `NamesAreLexical` | `Spec => []ResolvesLexically` |
| `UsesMeanInnermost` | `Spec => []InnermostWins` |

They assume `ProgramsAssumption` (a parse leaves a tree: each node lies behind one
member of a node before it and has the members of its struct; fields are
variables, and variants hold variables) and nothing of names and of their types.

Neither property says what the scopes and the return type will be when the items
below the top of the stack are reached, so `IInv` reads the stack as a chain: each item has a
context before it and one after it, the scopes that enclose its node and the return type
compared there (`Before`, `After`; only `exit` and `restore` have
two different ones), the next item begins where it ends, and the last one
ends outside the program (`Chain`). `depth` and the return type are then those of the first item,
and so is the depth of a slot that is added. What a case puts on the stack
is a chain from its own context to that of its node (`VisitStep`, `EnterStep`);
the members it looks into exist and lead into the node (`MembersOf`, `MemberLeads`),
and a field or a variant is of the scope of its type (`ListIs`). The recursive functions
of the model exist by a least counterexample each (`UpExists`, `CheckExists`, `FromExists`,
`JoinExists`).

The names need more: which declarations were seen when a node is checked. `NInv` adds
to `IInv` that

* the table has a slot for every declaration seen whose scope is open, and only
  slots of such declarations (`Names`). The slot has the depth of that scope unless the
  name was taken and the code hides nothing there, and then an error was reported or
  the declaration is a loop's (`Kept`);
* the nodes still to check hang on none of each other, and no node seen hangs on one
  of them (`Order`, with `Sub(p)` for what hangs on `p`). Without this a scope
  that opens could be that of a declaration seen long before, whose
  slot is gone, and the first conjunct would not be inductive. A range is
  the one exception: `AST_LOOP` looks at its condition before it checks it, so
  the condition is seen early, and `Ranged` keeps that step in front of the check.

A case pushes distinct members of the node, of its fields or of its variants
(`Kids`, `OrderPush`; `FieldsDiffer` for two lists), which keeps the order;
what it adds has the depth of its own scope (`AddsSlot`). Leaving a scope
keeps the slots of the scopes around it, for the depth tells them apart (`PopIs`, `ExitNames`).
Of two nested scopes of the same size neither is smaller, so the newest slot
of a name is the innermost (`FindSlotIs`).

### `CParserProofs`

For every text and every set of words that start with `listen`:

| Theorem | Statement |
|---|---|
| `Invariance` | `Spec => []Inv` |
| `EveryNullMeansError` | `Spec => []NullMeansError` |
| `EveryTreeGroups` | `Spec => []GroupsByPrecedence` |
| `EveryOperatorLongest` | `Spec => []LongestOperator` |

The first three assume nothing: not even that a text is one, for they do not depend on
which token comes next. The last one needs `TextsAssumption`, that a text is a sequence.

`NullMeansError` and `GroupsByPrecedence` speak of a finished tree. `Inv` speaks of the functions that are
still building it, and only until an error is reported, for afterwards anything
may be missing (`Sound`; `MeekSteps` is that a reported error stays reported). A
frame says what it goes on with, what it returns and what it will still fill in:

* `In(f)` is how tight the node must bind that the function gets back, `Out(f)` how tight
  the one binds that it returns (0 an assignment to 8 a primary expression, which
  is what a loop of a binary level, `left`, and its rest, `right`, differ in).
  In `Takes` each frame needs no more than the one above it returns.
* `Owes(f)` are the members of a node that the frame will store into, and `Lacks` the members
  that nodes need and that are NULL. `Takes` has `Lacks` among what the stack owes: with an
  empty stack nothing is lacking.
* `Heap` is that every node has the members of its struct and that its
  operands bind as tight as it asks for (`Grouped`), at every moment. It survives because no
  function stores into an operand of a node that is made (`OverPut`), and a
  new operator is made of operands that its frame vouches for.

A NULL that is returned without an error would break `Good`, for what was returned last is a
node there. So each action has to show that where the code returns NULL it has
reported one, `Consume` by failing and `NotPrimary` by `NoExpression`. Each
of the 85 actions is one lemma (`ExpectSound` to `RunSound`), by a few shapes: a
function that calls plain ones (`Modest`), one that returns a fresh node, one
that makes a node on parts it has, and one that makes it and is owed the part.

`MeekSteps` and `CallsSound` together are that a step keeps `Inv`. What
`Accepted` adds is an empty stack and no error.

`LongestOperator` compares two readings of `lexer.c:319-419`. One is the list of the
operators with their characters (`SpellingRows`); the other the second characters
each case tries in their order (`SecondsRows`), a `match` that consumes
and goes on even when no operator comes of it. `OrderIs` is what the two must have
in common: every second character a case tries makes an operator of two,
or is one of the four swallowed pairs, and none is tried twice. `FoundIsLongest` follows: until
the text's second symbol is tried nothing changes, there either an
operator is found, and the longest one, or the pair is swallowed, and
afterwards nothing is tried any more. `OthersDiffer` is that no keyword, prefix or other
token bears the name of an operator.

### `CParserOwners`

For every text and every set of words that start with `listen`:

| Theorem | Statement |
|---|---|
| `EveryNodeOwned` | `Spec => []OneOwner` |

It assumes nothing. `OneOwner` speaks of a finished tree: no node is led to by two pointers, and
one that is led to by none is an operand that was copied, or something is in `lost`.
While the tree is built, most nodes hang from nothing yet, and no field of `parser.c` says who
will store them. So `OwnInv` is an account of the nodes, with the local variables of
the active functions on one side and the members on the other. Until an error is reported
each node is the program, is led to by exactly one member, is excused, or is kept, and what is kept
is led to by no member and kept once (`Tidy`, `Fair`):

* `Own(f, l)` is what a frame keeps: the operand it waits with (`Waiting`), the head of
  the list it links (`Listing`), and the node it will return (`Returning`), but the
  last only if somebody uses that. What the loop over the arguments or the parameters
  returns is looked at by nobody (`Barren`): it fills a node that another frame keeps.
* Whether what a frame returns is used is decided below it: by the first frame that looks
  at `ret` rather than pass it on (`LiveAt`, `Using`, `Passing`). If that one is going to
  use it, `ret` itself is kept as well (`Live`).
* `Sits` is what each frame relies on: its node exists, it is stored into a member that is
  a pointer, a list with a head has a tail, and what waits to be unwrapped is a tuple or
  the expression itself.

The helpers change the account in one way each: `TidyMake` takes the members of a new
node off what is kept and puts the node on, `TidyPut` moves what is stored into an
empty member, and is excused by `lost` when it overwrites one. `LiveShift` to
`FairShift` are the stack without its top, so that an action need only say what its own
frames keep (`Rung`, `Lays`) and that it had it (`Has`); each action is one lemma again
(`ExpectOwns` to `RunOwns`). With the stack empty nothing is kept, which is
`OneOwner` (`OwnMeans`). `CParserProofs` is needed for what a node returned is: until an error
no function returns NULL, so what is used exists.

### Only model-checked

* `ReadsBack` of `CParser` and `OperandsInPlace`: what a recursion over a tree reads or
  computes is induction over trees.
* `RoundTrip` and `TruncationSpoilsOneNumber` of `AstArchive`: they relate what one recursion
  writes to what another one reads, which is induction over trees and out of
  the prover's reach.
* Liveness (`CallsReturn`, `Terminates`, `HangsOnlyThere`,
  `HangsOnlyInTupleLabels`): the prover has no rule for `ENABLED`.

## 6. Findings

* `occ_shared_oir`: the OIR path is a constant, so two compilations in one
  directory share it and one reports success for a program it never analysed.
* `parser_hang`: at `{` on top level `synchronize()` stops without consuming it
  and no case of `parseTopLevel` takes it. In the model the error list is a
  Boolean, so the counterexample ends in a step that changes nothing, again and
  again; in the program the list grows.
* `params_warned`: unused parameters are reported although the comment at that
  line describes how they are excluded.

`HangsOnlyThere` names the other two loops that do not end, in group and
fastexec bodies.

Seen while modelling, contained in the models, and not contradicted by any
statement of the code:

* `OIR_Generator.cpp:61`, `86`: a NULL source or path returns 1 and records nothing, although
  `nexus_parser.h:43` says of the 1 "call nxf_get_errors"; a save after it goes ahead
  (`NullArgument`). `occ` passes neither.
* `Analyzer.cpp:91-177` looks ids up for eleven opcodes only. The parser writes none that
  dangles (`IdsAlwaysResolve`), but in a file of two writers one may (`AcceptedIsSound`).
* `Lexer.hpp:107`: `!listener` is `!listen` and `er`, for that operator ends wherever
  its last letter is. `229`, `247`: a string without its quote ends with the line, a
  character without its quote with the character, both without an error.
  `194`: a label named `v`, `f`, `c`, `m`, `r` or `nt` cannot be set, its colon makes a
  prefix.

In the C tree:

* `ast.c:103`, `729`: a halt is allocated as `ASTHalt` and written, read and freed
  as the larger `ASTUnaryExpr`, so its expression is lost or the process dies; `UNPACK`
  likewise, but the parser drops those nodes (`parser.c:784-790`). `RoundTrip` and
  `TruncationSpoilsOneNumber` are about programs without the two (`Sound`); the
  destructions are checked with them.
* `parser.c:1747`: the label of a tuple of none or several elements, `{} :> a`,
  is unwrapped for ever (`HangsOnlyInTupleLabels` excepts it).
* `parser.c:484`, `585`: `f(a,,b)` follows a NULL tail; `346`: `(,a)` a NULL first
  element; `1600`: a lambda without an expression. All after a reported error.
* `parser.c:1338`, `1474`: the name of an `nt:` word is read after it was freed;
  `nt:X = ;` takes the `=` of a failed type for a name.
* `parser.c:71`: `ast_root` is not set before the parse, and `parser_destroy`
  follows it when the parse had errors.
* `parser.c:1095`, `1810`: `use a, b;` loses `b` when the next statement is linked.
  `src/docs` shows a list there (`function-scope-visibility.md:41`).
* `parser.c:795`: the handler in the parentheses of `(a -> b (e) x; }) (e) y; }` is overwritten, never
  freed and never compiled: the first one is in no part of the tree.
* `parser.c:789` drops what it parsed of an unpacking; a rolling retry keeps no
  counts; `panic` is given arguments its struct has no place for.
* Bodies pass over tokens they cannot parse without an error (the `Skip` of the
  model); `{` of a handler is not looked at; an enum without a name is accepted.
* `lexer.c:264`: `0xFF` is a number and a name; unterminated block comments end
  with the file and without an error; `_>` is never made, a name takes its `_`.
* `codegen.c:63`: every literal loads 0, for the parser never sets `int_value`;
  comparisons have no instruction; `idiv` is used without setting `rdx`.

## 7. Not modelled, and the plan

Not modelled: `TypeSystem.hpp` (nothing calls it), `parse_target` and the
file header of `codegen.c`, the ownership rules for handles that the documents
describe and no code implements (A2001 is raised nowhere), the texts of
messages, the targets' contents (occ reads nothing but their existence) and
debug dumps.

Done: the C++ pipeline from text to verdict, with format, session, parser, analyzer
and pipeline proved; the C compiler from text to instructions, with its operators, the
parts, the grouping and the owners of its trees, their life in the archive, its scopes and its names proved.
Left for the provers are the four invariants above that are inductions over trees.

No module but the MC ones has a `RECURSIVE` operator: the prover loses its arithmetic
where one is in reach.
