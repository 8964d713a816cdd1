------------------------------ MODULE AstArchive ------------------------------
(***************************************************************************)
(* The syntax tree of the C compiler and its life after parsing: main.c    *)
(* has parser_save_ir write it to an .oir archive, codegen_run reads the   *)
(* archive back, and each tree is destroyed once (ast.c).                  *)
(*                                                                         *)
(* ast.c has four switches over the node type (allocate, write, read, free)*)
(* that must agree, each with the memory layout it casts the node to: the  *)
(* tables of AstNodes and the views below.  The recursions are a stack,    *)
(* todo, of the members still to be visited.  What a scalar holds is       *)
(* abstract, the name of the member or Zero; a string's length and bytes   *)
(* are one token, and so are line and col.                                 *)
(***************************************************************************)
EXTENDS AstNodes

CONSTANTS
  Programs,      \* the trees parser_run may leave in ctx->ast_root
  OldArchive,    \* what a compilation before this one left under the name
  NoFile         \* or that there is no such file

Mark == "-1"     \* what is written for a NULL of either kind
Part == "part"   \* the first bytes of anything that was written

-------------------------------------------------------------------------------
(* The struct the other three switches cast the type to.                   *)
CastTo(t) ==
  CASE t \in {"UNPACK", "NEXUS_HALT"} -> "ASTUnaryExpr"
    [] t = "EXTERN_DECL"              -> "ASTNode"
    [] OTHER                          -> StructOf(t)

(* The members ast_serialize_recursive writes, in its order, ...           *)
WriteView(t) ==
  CASE t = "LITERAL" -> <<"lit_type", "int_value", "float_value", "string_value">>
    [] t = "FUNC_DECL" -> <<"name", "return_type", "is_extern", "is_public",
                            "is_exported", "params", "body">>
    [] t = "MEMBER_ACCESS" -> <<"member_name", "object">>
    [] t = "LOOP" -> <<"loop_type", "init", "condition", "increment", "body",
                       "collection", "variable">>
    [] OTHER -> Members[CastTo(t)]

(* ... those ast_deserialize_recursive reads, ...                          *)
ReadView_MemoryOrder(t) == Members[CastTo(t)]

ReadView(t) ==
  CASE t = "LITERAL" -> <<"lit_type", "int_value", "float_value", "string_value">>
    [] t = "FUNC_DECL" -> <<"name", "return_type", "is_extern", "is_public",
                            "is_exported", "params", "body">>
    [] t = "MEMBER_ACCESS" -> <<"member_name", "object">>
    [] t = "LOOP" -> <<"loop_type", "init", "condition", "increment", "body",
                       "collection", "variable">>
    [] OTHER -> Members[CastTo(t)]

(* ... and those ast_destroy_recursive frees.                              *)
FreeView_NoStrings(t) ==
  LET owned(m) == m \in Pointers IN SelectSeq(Members[CastTo(t)], owned)

Owned(struct) ==
  LET owned(m) == m \in Strings \union Pointers IN SelectSeq(Members[struct], owned)

FreeView(t) ==
  CASE t = "FUNC_DECL" -> <<"name", "return_type", "params", "body">>
    [] OTHER -> Owned(CastTo(t))

(* What the tables say: no struct has two members of one name, nor one that*)
(* is a name of the header's, and what it owns is among them.              *)
Distinct(seq) == \A i, j \in DOMAIN seq : seq[i] = seq[j] => i = j
Among(seq) == {seq[i] : i \in DOMAIN seq}
MemberNames == {"line", "next", "node", "root"} \union
                 UNION {Among(Members[s]) : s \in DOMAIN Members}

ASSUME TablesAssumption ==
  /\ \A s \in DOMAIN Members :
       /\ Members[s] \in Seq(MemberNames) /\ Distinct(Members[s])
       /\ Among(Members[s]) \intersect {"line", "next", "node", "root"} = {}
       /\ Owned(s) \in Seq(MemberNames) /\ Distinct(Owned(s))
       /\ Among(Owned(s)) = Among(Members[s]) \intersect (Strings \union Pointers)
  /\ \A s, u \in DOMAIN Allocated :
       s \in DOMAIN Members /\ (s # u => Allocated[s] \intersect Allocated[u] = {})

-------------------------------------------------------------------------------
(* A tree is a sequence of cells; cell 1 is the variable that holds the    *)
(* root, the others are nodes.  "line" stands for line and col.            *)
Variable(p) == [type |-> "variable", at |-> [root |-> p]]

InStruct(tree, c, m) == m \in DOMAIN tree[c].at

(* What a load through the cast finds: outside the struct, any number and  *)
(* a pointer that is NULL, or the step is WildPointer.                     *)
Held(tree, c, m) ==
  IF InStruct(tree, c, m) THEN tree[c].at[m]
  ELSE IF m \in Pointers THEN NULL ELSE "junk"

(* The members that lead to a node, and the node each leads to.            *)
Links(tree) ==
  {x \in (1..Len(tree)) \X Pointers :
     InStruct(tree, x[1], x[2]) /\ tree[x[1]].at[x[2]] # NULL}
Child(tree, x) == tree[x[1]].at[x[2]]

(* No node is the child of two members, and each lies after its parent.    *)
TreeShaped(tree) ==
  /\ \A x \in Links(tree) : Child(tree, x) \in (x[1] + 1)..Len(tree)
  /\ \A x, y \in Links(tree) : Child(tree, x) = Child(tree, y) => x = y

HasParent(tree, c) == \E x \in Links(tree) : Child(tree, x) = c

(* A parse leaves a tree, of nodes with the members of their structs; a    *)
(* scalar is not a type.  No ast_create of the parser makes an EXTERN_DECL.*)
Undeclared == {"EXTERN_DECL"}

ASSUME ProgramsAssumption ==
  \A p \in Programs :
    /\ Len(p) \in Nat \ {0} /\ p[1] = Variable(2) /\ p[2].type = "PROGRAM"
    /\ TreeShaped(p) /\ \A c \in 2..Len(p) : HasParent(p, c)
    /\ \A c \in 2..Len(p) :
         /\ p[c].type \in STRING \ Undeclared
         /\ DOMAIN p[c].at = DOMAIN Blank(p[c].type).at
         /\ \A m \in DOMAIN p[c].at \ Pointers :
              p[c].at[m] \in STRING \ UNION {Allocated[s] : s \in DOMAIN Allocated}

(* The properties tell nodes apart by their lines.                         *)
ASSUME LinesAssumption ==
  \A p \in Programs : \A c, d \in 2..Len(p) :
    p[c].at["line"] = p[d].at["line"] => c = d

ASSUME ArchiveAssumption == OldArchive = NoFile \/ OldArchive \in Seq(STRING)

VARIABLES
  phase,      \* which call main is in
  program,    \* ctx->ast_root
  loaded,     \* the tree codegen_run reads
  archive,    \* the .oir file
  in,         \* what codegen_run has still to read of it
  opened,     \* parser_save_ir could open it for writing
  full,       \* writes no longer reach the disk
  todo,       \* the recursion's stack: the members still to be visited
  freed       \* what the ast_destroy that runs has freed

vars == <<phase, program, loaded, archive, in, opened, full, todo, freed>>

Init ==
  /\ phase = "start" /\ program \in Programs /\ loaded = <<Variable(NULL)>>
  /\ archive = OldArchive /\ in = <<>> /\ opened = FALSE /\ full = FALSE
  /\ todo = <<>> /\ freed = {}

Root == <<1, "root">>
Visit(c, view) == [i \in DOMAIN view |-> <<c, view[i]>>]
At(m) == todo # <<>> /\ Head(todo)[2] = m
AtPointer == todo # <<>> /\ Head(todo)[2] \in Pointers
AtScalar == todo # <<>> /\ Head(todo)[2] \notin Pointers
Go(p) == phase' = p /\ UNCHANGED <<program, opened>>

(* parser_save_ir, whose caller does not learn how it went.                *)
OpenFails ==
  /\ phase = "start" /\ Go("codegen")
  /\ UNCHANGED <<loaded, archive, in, full, todo, freed>>

Open ==
  /\ phase = "start" /\ phase' = "save" /\ opened' = TRUE
  /\ archive' = <<>> /\ todo' = <<Root>>
  /\ UNCHANGED <<program, loaded, in, full, freed>>

(* No result of fwrite or fclose is looked at; of the token during which   *)
(* the disk fills, some bytes may still reach it.                          *)
DiskFills ==
  /\ phase = "save" /\ ~full /\ full' = TRUE
  /\ \/ UNCHANGED archive
     \/ todo # <<>> /\ archive' = archive \o <<Part>>
  /\ UNCHANGED <<phase, program, loaded, in, opened, todo, freed>>

Put(tokens) == archive' = IF full THEN archive ELSE archive \o tokens

(* ast_serialize_recursive: -1 for no node, else its type, line and col,   *)
(* its members in the order of its case, and the list that follows it.     *)
WriteNode ==
  /\ phase = "save" /\ AtPointer
  /\ LET p == Held(program, Head(todo)[1], Head(todo)[2])
     IN  IF p = NULL
         THEN Put(<<Mark>>) /\ todo' = Tail(todo)
         ELSE /\ Put(<<program[p].type>>)
              /\ todo' = Visit(p, <<"line">> \o WriteView(program[p].type)
                                  \o <<"next">>) \o Tail(todo)
  /\ UNCHANGED <<phase, program, loaded, in, opened, full, freed>>

(* A number, or write_string.                                              *)
WriteScalar ==
  /\ phase = "save" /\ AtScalar
  /\ LET m == Head(todo)[2]
         v == Held(program, Head(todo)[1], m)
     IN  Put(<<IF m \in Strings /\ v = Zero THEN Mark ELSE v>>)
  /\ todo' = Tail(todo)
  /\ UNCHANGED <<phase, program, loaded, in, opened, full, freed>>

Saved ==
  /\ phase = "save" /\ todo = <<>> /\ Go("codegen")
  /\ UNCHANGED <<loaded, archive, in, full, todo, freed>>

-------------------------------------------------------------------------------
(* codegen.dll cannot be loaded, or codegen_run cannot open the archive.   *)
NoCodegen ==
  /\ phase = "codegen" /\ Go("destroy_program") /\ todo' = <<Root>>
  /\ UNCHANGED <<loaded, archive, in, full, freed>>

CodegenRun ==
  /\ phase = "codegen" /\ archive # NoFile
  /\ Go("load") /\ in' = archive /\ todo' = <<Root>>
  /\ UNCHANGED <<loaded, archive, full, freed>>

(* A store through the cast; one outside the struct is lost.               *)
Store(tree, c, m, v) ==
  IF InStruct(tree, c, m) THEN [tree EXCEPT ![c].at[m] = v] ELSE tree

(* What a node and a scalar read at the end of the file, or as -1, are.    *)
NoNode == NULL

NoScalar_Garbage == IF in = <<>> THEN "junk" ELSE Zero

NoScalar == Zero

(* ast_deserialize_recursive: at the end of the file, within the type or at*)
(* -1 no node, else a blank one of the type read, and its members in the   *)
(* order of its case.                                                      *)
ReadNode ==
  /\ phase = "load" /\ AtPointer
  /\ LET c == Head(todo)[1]
         m == Head(todo)[2]
     IN  IF in = <<>> \/ Head(in) \in {Mark, Part}
         THEN loaded' = Store(loaded, c, m, NoNode) /\ todo' = Tail(todo)
         ELSE LET new == Len(loaded) + 1
              IN  /\ loaded' = Append(Store(loaded, c, m, new), Blank(Head(in)))
                  /\ todo' = Visit(new, <<"line">> \o ReadView(Head(in))
                                        \o <<"next">>) \o Tail(todo)
  /\ in' = IF in = <<>> THEN in ELSE Tail(in)
  /\ UNCHANGED <<phase, program, archive, opened, full, freed>>

(* fread of a number, whose result is not looked at: of a part of a number *)
(* the node gets the bytes there are.  read_string takes all or nothing.   *)
ReadScalar ==
  /\ phase = "load" /\ AtScalar
  /\ LET m == Head(todo)[2]
         v == IF in = <<>> \/ Head(in) = Mark \/ (Head(in) = Part /\ m \in Strings)
              THEN NoScalar ELSE Head(in)
     IN  loaded' = Store(loaded, Head(todo)[1], m, v)
  /\ in' = IF in = <<>> THEN in ELSE Tail(in)
  /\ todo' = Tail(todo)
  /\ UNCHANGED <<phase, program, archive, opened, full, freed>>

(* codegen_run gives up without a root; with one it generates code, which  *)
(* leaves the tree alone, and destroys it.                                 *)
Loaded ==
  /\ phase = "load" /\ todo = <<>>
  /\ Go(IF loaded[1].at["root"] = NULL THEN "destroy_program" ELSE "destroy_loaded")
  /\ todo' = <<Root>>
  /\ UNCHANGED <<loaded, archive, in, full, freed>>

-------------------------------------------------------------------------------
(* ast_destroy_recursive on the tree at hand: the list after the node      *)
(* first, then what the node owns, then the node.                          *)
Destroying == phase \in {"destroy_loaded", "destroy_program"}
Doomed == IF phase = "destroy_loaded" THEN loaded ELSE program

DestroyNode_NextLast ==
  /\ Destroying /\ AtPointer
  /\ LET p == Held(Doomed, Head(todo)[1], Head(todo)[2])
     IN  todo' = IF p = NULL THEN Tail(todo)
                 ELSE Visit(p, FreeView(Doomed[p].type) \o <<"node", "next">>) \o Tail(todo)
  /\ UNCHANGED <<phase, program, loaded, archive, in, opened, full, freed>>

DestroyNode_Unchecked ==
  /\ Destroying /\ AtPointer
  /\ LET p == Held(Doomed, Head(todo)[1], Head(todo)[2])
     IN  p # NULL /\ todo' = Visit(p, <<"next">> \o FreeView(Doomed[p].type)
                                     \o <<"node">>) \o Tail(todo)
  /\ UNCHANGED <<phase, program, loaded, archive, in, opened, full, freed>>

DestroyNode ==
  /\ Destroying /\ AtPointer
  /\ LET p == Held(Doomed, Head(todo)[1], Head(todo)[2])
     IN  todo' = IF p = NULL THEN Tail(todo)
                 ELSE Visit(p, <<"next">> \o FreeView(Doomed[p].type)
                               \o <<"node">>) \o Tail(todo)
  /\ UNCHANGED <<phase, program, loaded, archive, in, opened, full, freed>>

Free ==
  /\ Destroying /\ AtScalar
  /\ freed' = IF At("node") \/ Held(Doomed, Head(todo)[1], Head(todo)[2]) # Zero
              THEN freed \union {Head(todo)} ELSE freed
  /\ todo' = Tail(todo)
  /\ UNCHANGED <<phase, program, loaded, archive, in, opened, full>>

(* codegen_run returns to main, which ends with parser_destroy.            *)
Destroyed ==
  /\ Destroying /\ todo = <<>>
  /\ IF phase = "destroy_loaded"
     THEN Go("destroy_program") /\ todo' = <<Root>> /\ freed' = {}
     ELSE Go("done") /\ UNCHANGED <<todo, freed>>
  /\ UNCHANGED <<loaded, archive, in, full>>

(* Undefined behaviour: a node member outside its struct is followed, or   *)
(* stored over whatever lies there, and the process does not survive it.   *)
WildPointer ==
  /\ AtPointer
  /\ \/ phase = "save" /\ ~InStruct(program, Head(todo)[1], Head(todo)[2])
     \/ phase = "load" /\ ~InStruct(loaded, Head(todo)[1], Head(todo)[2])
     \/ Destroying /\ ~InStruct(Doomed, Head(todo)[1], Head(todo)[2])
  /\ Go("crashed")
  /\ UNCHANGED <<loaded, archive, in, full, todo, freed>>

Step ==
  \/ OpenFails \/ Open \/ WriteNode \/ WriteScalar \/ Saved
  \/ NoCodegen \/ CodegenRun \/ ReadNode \/ ReadScalar \/ Loaded
  \/ DestroyNode \/ Free \/ Destroyed \/ WildPointer

Next == Step \/ DiskFills

Spec == Init /\ [][Next]_vars /\ WF_vars(Step)

-------------------------------------------------------------------------------
(* The types that are cast to a struct larger than the one allocated.      *)
Miscast == {"UNPACK", "NEXUS_HALT"}
Sound == \A c \in 2..Len(program) : program[c].type \notin Miscast

(* Lines identify nodes: the program's node a loaded one was written from, *)
(* and whether two pointers, one of each tree, lead to the same node.      *)
LineOf(tree, p) == IF p = NULL THEN "none" ELSE tree[p].at["line"]
HasOrigin(c) == \E o \in 2..Len(program) : LineOf(program, o) = LineOf(loaded, c)
Origin(c) == CHOOSE o \in 2..Len(program) : LineOf(program, o) = LineOf(loaded, c)

(* A loaded node is its origin: the same type, the same scalars except a   *)
(* literal's token type, which comes back as 0, and the same children.     *)
CopiesOrigin(c) ==
  LET o == Origin(c)
  IN  /\ loaded[c].type = program[o].type
      /\ \A m \in DOMAIN program[o].at :
           IF m \in Pointers
           THEN LineOf(loaded, loaded[c].at[m]) = LineOf(program, program[o].at[m])
           ELSE loaded[c].at[m] = IF m = "type" THEN Zero ELSE program[o].at[m]

SameTree ==
  /\ Len(loaded) = Len(program)
  /\ \A c \in 2..Len(loaded) : HasOrigin(c) /\ CopiesOrigin(c)

Generating == phase = "destroy_loaded"

(* What codegen_run generates code from is the tree parser_save_ir was     *)
(* given, when that one got all of it to the disk: the four switches of    *)
(* ast.c agree on the layout and the order of every type they share.       *)
RoundTrip == Generating /\ opened /\ ~full /\ Sound => SameTree

(* A truncated archive is accepted (ast.c:906, 911).  What is read from it *)
(* is the program with parts missing and at most one number spoilt, the one*)
(* in which the archive ends: every node that has a line has a counterpart *)
(* in the program, and every other member is its counterpart's or zero.    *)
Spoilt == {x \in (2..Len(loaded)) \X (MemberNames \ Pointers) :
             InStruct(loaded, x[1], x[2]) /\ loaded[x[1]].at[x[2]] = Part}

TruncationSpoilsOneNumber ==
  opened /\ Sound =>
    /\ \/ Spoilt = {}
       \/ full /\ \E x \in Spoilt : Spoilt = {x} /\ x[2] \notin Strings
    /\ \A c \in 2..Len(loaded) :
         IF LineOf(loaded, c) \in {Zero, Part}
         THEN loaded[c].at = [Blank(loaded[c].type).at EXCEPT !["line"] = LineOf(loaded, c)]
         ELSE /\ HasOrigin(c)
              /\ loaded[c].type = program[Origin(c)].type
              /\ \A m \in DOMAIN loaded[c].at :
                   IF m \in Pointers
                   THEN LineOf(loaded, loaded[c].at[m])
                          \in {"none", Zero, Part, LineOf(program, program[Origin(c)].at[m])}
                   ELSE \/ loaded[c].at[m] \in {Zero, program[Origin(c)].at[m]}
                        \/ <<c, m>> \in Spoilt

(* ast_destroy never visits a node it has freed and frees no string twice. *)
NoUseAfterFree ==
  Destroying /\ todo # <<>> =>
    /\ <<Head(todo)[1], "node">> \notin freed
    /\ Head(todo) \notin freed

(* When ast_destroy returns nothing of the tree is left, however much of it*)
(* a truncated archive had.                                                *)
NothingLeaks ==
  Destroying /\ todo = <<>> /\ Sound =>
    freed = UNION {{<<c, "node">>}
                     \union {<<c, m>> : m \in {s \in Strings \intersect DOMAIN Doomed[c].at :
                                                 Doomed[c].at[s] # Zero}}
                   : c \in 2..Len(Doomed)}

(* The recursions end on every tree and every archive.                     *)
Terminates == <>(phase \in {"done", "crashed"})

===============================================================================
