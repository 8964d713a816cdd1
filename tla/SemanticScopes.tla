---------------------------- MODULE SemanticScopes ----------------------------
(***************************************************************************)
(* semantic.c: the check of the C compiler's tree that decides whether it  *)
(* goes on to an archive and to codegen.  Its symbol table is one list of  *)
(* slots, the newest first, each with the depth of the scope it was added  *)
(* in; leaving a scope frees the slots of its depth from the head.         *)
(*                                                                         *)
(* semantic_check recurses over the tree.  The recursion is the stack todo:*)
(* nodes to check, and what a case does after the checks it calls.         *)
(***************************************************************************)
EXTENDS AstNodes

CONSTANTS
  Programs,      \* trees parser_run may produce; cell 1 is the program node
  HardTypes,     \* the type names that start with '!', to the rest of them
  Fractions      \* the spellings of numbers that have a '.', an 'e' or an 'E'

VARIABLES
  ast,           \* the tree
  todo,          \* the stack: [op, node, saved]
  slots,         \* ctx->head and the slots behind it
  depth,         \* ctx->current_depth
  funcType,      \* ctx->current_func_return_type
  errors,        \* the errors reported: <<code, node>>
  seen           \* history: the nodes semantic_check has come to

vars == <<ast, todo, slots, depth, funcType, errors, seen>>

Item(op, p) == [op |-> op, node |-> p, saved |-> Zero]

Init ==
  /\ ast \in Programs /\ todo = <<Item("check", 1)>>
  /\ slots = <<>> /\ depth = 0 /\ funcType = Zero /\ errors = {} /\ seen = {}

-------------------------------------------------------------------------------
Has(m) == m # Zero
TypeAt(p) == IF p = NULL THEN "none" ELSE ast[p].type

(* find_slot: the newest of that name.                                     *)
Found(table, name) == \E i \in DOMAIN table : table[i].name = name
FindSlot_Oldest(table, name) ==
  table[CHOOSE i \in DOMAIN table :
          table[i].name = name /\ \A j \in (i + 1)..Len(table) : table[j].name # name]

FindSlot(table, name) ==
  table[CHOOSE i \in DOMAIN table :
          table[i].name = name /\ \A j \in 1..(i - 1) : table[j].name # name]

(* add_slot, at the head and at the current depth.  params is what         *)
(* AST_FUNC_DECL stores in it, decl (history) the node it is added for.    *)
Slot(name, kind, const, type, params, decl) ==
  [name |-> name, kind |-> kind, const |-> const, depth |-> 0, type |-> type,
   params |-> params, decl |-> decl]
AddSlot(table, d, slot) == <<[slot EXCEPT !.depth = d]>> \o table

(* exit_scope.                                                             *)
PopSlots_Newest ==
  IF slots # <<>> /\ Head(slots).depth = depth THEN Tail(slots) ELSE slots

PopSlots ==
  LET kept == {i \in DOMAIN slots : slots[i].depth # depth}
      first == IF kept = {} THEN Len(slots) + 1
               ELSE CHOOSE i \in kept : \A j \in kept : i <= j
  IN  SubSeq(slots, first, Len(slots))

(* The list that starts at a node.                                         *)
ListAt(tree, p) ==
  LET from[q \in 0..Len(tree)] ==
        IF q = NULL THEN <<>> ELSE <<q>> \o from[tree[q].at["next"]]
  IN  from[p]

(* The members of a tree that lead to a node.  A parse leaves a tree: a node*)
(* lies behind the one member that leads to it, has the members of its     *)
(* struct, and fields, variants and what they hold are what the parser puts*)
(* there.                                                                  *)
Links(tree, q) ==
  {l \in (1..(q - 1)) \X Pointers : l[2] \in DOMAIN tree[l[1]].at /\ tree[l[1]].at[l[2]] = q}

ListOf(tree, c, m) ==
  LET list == IF m \in DOMAIN tree[c].at THEN ListAt(tree, tree[c].at[m]) ELSE <<>>
  IN  {list[i] : i \in DOMAIN list}

ASSUME ProgramsAssumption ==
  \A p \in Programs :
    /\ Len(p) \in Nat \ {0} /\ DOMAIN p = 1..Len(p) /\ p[1].type = "PROGRAM"
    /\ \A c \in 1..Len(p) :
         /\ DOMAIN p[c].at = DOMAIN Blank(p[c].type).at
         /\ \A m \in Pointers \intersect DOMAIN p[c].at :
              p[c].at[m] \in {NULL} \union (c + 1)..Len(p)
         /\ \A k, l \in Links(p, c) : k = l
         /\ \A q \in ListOf(p, c, "fields") \union ListOf(p, c, "data") : p[q].type = "VAR_DECL"
         /\ \A q \in ListOf(p, c, "variants") : p[q].type = "ENUM_VARIANT"

Bare(t) == IF t \in DOMAIN HardTypes THEN HardTypes[t] ELSE t
Compatible(t, u) == Has(t) /\ Has(u) /\ Bare(t) = Bare(u)

Primitives == {"i32", "u8", "str", "bool", "f64", "i64", "u64", "u32", "u16", "i16",
               "i8", "f32", "char", "byte", "void", "any"}
TypeKinds == {"STRUCT", "UNION", "ENUM", "NEWTYPE"}

(* is_type_defined.                                                        *)
TypeDefined(table, t) ==
  \/ ~Has(t) \/ Bare(t) \in Primitives
  \/ Found(table, Bare(t)) /\ FindSlot(table, Bare(t)).kind \in TypeKinds

(* get_expr_type, Zero where it has no answer.                             *)
LiteralType(at) ==
  CASE at["type"] = "NUMBER" -> IF at["string_value"] \in Fractions THEN "f64" ELSE "i32"
    [] at["type"] = "STRING" -> "str"
    [] at["type"] = "CHAR"   -> "char"
    [] OTHER                 -> "bool"
NamedType(table, p) ==
  IF TypeAt(p) = "IDENTIFIER" /\ Found(table, ast[p].at["name"])
  THEN FindSlot(table, ast[p].at["name"]).type ELSE Zero

ExprType(table, p) ==
  LET type[q \in 0..Len(ast)] ==
        IF q = NULL THEN Zero
        ELSE CASE ast[q].type = "LITERAL"     -> LiteralType(ast[q].at)
               [] ast[q].type = "IDENTIFIER"  -> NamedType(table, q)
               [] ast[q].type = "FUNC_CALL"   -> NamedType(table, ast[q].at["callee"])
               [] ast[q].type = "BINARY_EXPR" -> type[ast[q].at["left"]]
               [] ast[q].type = "UNARY_EXPR"  -> type[ast[q].at["operand"]]
               [] OTHER                       -> Zero
  IN  type[p]

(* The type check of a declared variable and of a field.                   *)
UnknownType(table, v) ==
  LET t == ast[v].at["type_name"]
  IN  Has(t) /\ ~TypeDefined(table, t)
      /\ ~(ast[v].at["inline_type"] # NULL /\ Bare(t) \in {"struct", "union"})

-------------------------------------------------------------------------------
(* A step of the recursion handles the item on top of the stack: `before'  *)
(* takes its place, and a check of a node goes on along the node's list.   *)
AtItem(op) == todo # <<>> /\ Head(todo).op = op
AtNode(types) == AtItem("check") /\ ast[Head(todo).node].type \in types
Here == Head(todo).node
Member(m) == ast[Here].at[m]

Checks(ps) ==
  LET check[i \in 0..Len(ps)] ==
        IF i = 0 THEN <<>>
        ELSE IF ps[i] = NULL THEN check[i - 1] ELSE Append(check[i - 1], Item("check", ps[i]))
  IN  check[Len(ps)]
CheckOf(m) == Checks(<<Member(m)>>)

Visit(before) ==
  /\ todo' = before \o CheckOf("next") \o Tail(todo)
  /\ seen' = seen \union {Here} /\ UNCHANGED ast
Resume(before) == todo' = before \o Tail(todo) /\ UNCHANGED <<ast, seen>>
Report(found) == errors' = errors \union found
At(code, condition) == IF condition THEN {<<code, Here>>} ELSE {}

(* What the cases without a scope or a symbol of their own check, in order.*)
(* A type in no case is not looked into: a tuple, a member or index access,*)
(* a postfix expression, a literal, `zone'.  CAST is read as an ASTCall,   *)
(* whose args lie where an ASTUnaryExpr has its operand.                   *)
Visited(t) ==
  CASE t = "PROGRAM"                        -> <<"statements">>
    [] t = "BINARY_EXPR"                    -> <<"left", "right">>
    [] t \in {"NEXUS_PIPE", "NEXUS_FLOW"}   -> <<"left", "right", "catch_block">>
    [] t \in {"UNARY_EXPR", "CAST"}         -> <<"operand">>
    [] t \in {"NEXUS_HALT", "UNPACK"}       -> <<"expr">>
    [] t = "NEXUS_INTENT"                   -> <<"target">>
    [] t = "METHOD"                         -> <<"implementation">>
    [] t = "DEFER"                          -> <<"body">>
    [] t \in Allocated["ASTCall"] \ {"FUNC_CALL", "ZONE"} -> <<"callee", "args">>
    [] OTHER                                -> <<>>

Cases == {"VAR_DECL", "IDENTIFIER", "ASSIGNMENT", "NEXUS_CAPTURE", "FUNC_DECL",
          "BLOCK", "GROUP_DECL", "THREAD_BLOCK", "LISTEN", "RETURN", "FUNC_CALL",
          "STRUCT_DECL", "UNION_DECL", "ENUM_DECL", "NEWTYPE_DECL", "LOOP",
          "NEXUS_LABEL"}

Traverse ==
  /\ AtItem("check") /\ ast[Here].type \notin Cases
  /\ Visit(Checks([i \in DOMAIN Visited(ast[Here].type) |->
                     Member(Visited(ast[Here].type)[i])]))
  /\ Report(At("DIV_ZERO",
       /\ ast[Here].type = "BINARY_EXPR" /\ Member("op") \in {"/", "%"}
       /\ TypeAt(Member("right")) = "LITERAL"
       /\ ast[Member("right")].at["type"] = "NUMBER"
       /\ ast[Member("right")].at["string_value"] = "0"))
  /\ UNCHANGED <<slots, depth, funcType>>

(* A variable may hide one of an outer scope; one of this scope is not     *)
(* declared again, but what follows is checked all the same.               *)
VarDecl ==
  /\ AtNode({"VAR_DECL"})
  /\ LET again == Found(slots, Member("name"))
                    /\ FindSlot(slots, Member("name")).depth = depth
     IN  /\ slots' = IF again THEN slots
                     ELSE AddSlot(slots, depth, Slot(Member("name"), "VAR",
                            Member("is_const") # Zero, Member("type_name"), <<>>, Here))
         /\ Report(At("REDEFINED", again)
                   \union At("UNKNOWN_TYPE", ~again /\ UnknownType(slots, Here)))
  /\ Visit(CheckOf("inline_type") \o CheckOf("initializer")
           \o (IF Member("initializer") # NULL /\ Has(Member("type_name"))
               THEN <<Item("initialized", Here)>> ELSE <<>>))
  /\ UNCHANGED <<depth, funcType>>

Initialized ==
  /\ AtItem("initialized") /\ Resume(<<>>)
  /\ LET t == ExprType(slots, Member("initializer"))
     IN  Report(At("TYPE_MISMATCH", Has(t) /\ ~Compatible(Member("type_name"), t)))
  /\ UNCHANGED <<slots, depth, funcType>>

Identifier ==
  /\ AtNode({"IDENTIFIER"}) /\ Visit(<<>>)
  /\ Report(At("UNDEFINED", ~Found(slots, Member("name"))))
  /\ UNCHANGED <<slots, depth, funcType>>

Assignment ==
  /\ AtNode({"ASSIGNMENT"}) /\ Visit(CheckOf("left") \o CheckOf("right"))
  /\ LET left == Member("left")
         known == TypeAt(left) = "IDENTIFIER" /\ Found(slots, ast[left].at["name"])
         slot == FindSlot(slots, ast[left].at["name"])
         t == ExprType(slots, Member("right"))
     IN  Report(At("CONST_ASSIGN", known /\ slot.const)
                \union At("TYPE_MISMATCH",
                          known /\ Has(slot.type) /\ Has(t) /\ ~Compatible(slot.type, t)))
  /\ UNCHANGED <<slots, depth, funcType>>

(* The declarations that may not hide anything, whatever the depth.        *)
DeclareOnce(name, kind, const, type) ==
  /\ slots' = IF Found(slots, name) THEN slots
              ELSE AddSlot(slots, depth, Slot(name, kind, const, type, <<>>, Here))
  /\ Report(At("REDEFINED", Found(slots, name)))
  /\ UNCHANGED <<depth, funcType>>

Capture ==
  /\ AtNode({"NEXUS_CAPTURE"}) /\ Visit(CheckOf("expr"))
  /\ DeclareOnce(Member("handler_name"), "VAR", FALSE, Zero)

Label ==
  /\ AtNode({"NEXUS_LABEL"}) /\ Visit(CheckOf("statement"))
  /\ DeclareOnce(Member("label_name"), "LABEL", TRUE, Zero)

NewType ==
  /\ AtNode({"NEWTYPE_DECL"}) /\ Visit(<<>>)
  /\ DeclareOnce(Member("name"), "NEWTYPE", TRUE, Member("target_type"))

(* The fields are checked with the new type known, and each field's inline *)
(* type, which has no name and so declares nothing; a type that is defined *)
(* already is not looked into.                                             *)
Fields(lists) ==
  LET join[i \in 0..Len(lists)] ==
        IF i = 0 THEN <<>> ELSE join[i - 1] \o ListAt(ast, lists[i])
  IN  join[Len(lists)]

DeclareType(kind, lists) ==
  LET name == Member("name")
      again == Has(name) /\ Found(slots, name)
      new == IF Has(name) /\ ~again
             THEN AddSlot(slots, depth, Slot(name, kind, TRUE, Zero, <<>>, Here)) ELSE slots
      fields == IF again THEN <<>> ELSE Fields(lists)
  IN  /\ slots' = new
      /\ Report(At("REDEFINED", again)
                \union {<<"UNKNOWN_TYPE", v>> :
                          v \in {fields[i] : i \in {j \in DOMAIN fields :
                                                      UnknownType(new, fields[j])}}})
      /\ Visit(Checks([i \in DOMAIN fields |-> ast[fields[i]].at["inline_type"]]))
      /\ UNCHANGED <<depth, funcType>>

StructDecl ==
  /\ AtNode({"STRUCT_DECL", "UNION_DECL"})
  /\ DeclareType(IF Member("is_union") # Zero THEN "UNION" ELSE "STRUCT",
                 <<Member("fields")>>)

EnumDecl ==
  /\ AtNode({"ENUM_DECL"})
  /\ LET variants == ListAt(ast, Member("variants"))
     IN  DeclareType("ENUM", [i \in DOMAIN variants |-> ast[variants[i]].at["data"]])

-------------------------------------------------------------------------------
(* Cases that open a scope, and close it after what they check in it.      *)
Enter(checks) == depth' = depth + 1 /\ Visit(checks \o <<Item("exit", Here)>>)

ExitScope_StaysDeep ==
  /\ AtItem("exit") /\ Resume(<<>>)
  /\ slots' = PopSlots
  /\ UNCHANGED <<depth, funcType, errors>>

ExitScope ==
  /\ AtItem("exit") /\ Resume(<<>>)
  /\ slots' = PopSlots /\ depth' = depth - 1
  /\ UNCHANGED <<funcType, errors>>

Block ==
  /\ \/ AtNode({"BLOCK"})        /\ Enter(CheckOf("statements")) /\ UNCHANGED slots
     \/ AtNode({"GROUP_DECL"})   /\ Enter(CheckOf("members")) /\ UNCHANGED slots
     \/ AtNode({"THREAD_BLOCK"}) /\ Enter(CheckOf("body")) /\ UNCHANGED slots
     \/ /\ AtNode({"LISTEN"}) /\ Enter(CheckOf("expr"))
        /\ slots' = AddSlot(slots, depth + 1,
                            Slot(Member("handler_name"), "VAR", TRUE, "any", <<>>, Here))
  /\ UNCHANGED <<funcType, errors>>

(* The function is declared in the scope around it; its parameters get a   *)
(* scope of their own, its body's block one inside that.                   *)
FuncDecl ==
  /\ AtNode({"FUNC_DECL"})
  /\ LET name == Member("name")
         again == /\ Has(name) /\ Found(slots, name)
                  /\ FindSlot(slots, name).depth = depth
         params == ListAt(ast, Member("params"))
         types == [i \in DOMAIN params |-> ast[params[i]].at["type_name"]]
     IN  /\ slots' = IF again \/ ~Has(name) THEN slots
                     ELSE AddSlot(slots, depth, Slot(name, "FUNC", TRUE,
                                    Member("return_type"), types, Here))
         /\ Report(At("FUNC_REDEFINED", again))
  /\ depth' = depth + 1 /\ funcType' = Member("return_type")
  /\ Visit(CheckOf("params") \o CheckOf("body")
           \o <<Item("exit", Here), [op |-> "restore", node |-> Here, saved |-> funcType]>>)

Restore_Forgets ==
  /\ AtItem("restore") /\ Resume(<<>>) /\ funcType' = Zero
  /\ UNCHANGED <<slots, depth, errors>>

Restore ==
  /\ AtItem("restore") /\ Resume(<<>>) /\ funcType' = Head(todo).saved
  /\ UNCHANGED <<slots, depth, errors>>

Return ==
  /\ AtNode({"RETURN"}) /\ Visit(CheckOf("operand") \o <<Item("returned", Here)>>)
  /\ UNCHANGED <<slots, depth, funcType, errors>>

(* An expression whose type is not known is a mismatch too.                *)
Returned ==
  /\ AtItem("returned") /\ Resume(<<>>)
  /\ LET actual == IF Member("operand") # NULL THEN ExprType(slots, Member("operand"))
                   ELSE "void"
     IN  Report(At("RETURN_MISMATCH", Has(funcType) /\ ~Compatible(funcType, actual)))
  /\ UNCHANGED <<slots, depth, funcType>>

FuncCall ==
  /\ AtNode({"FUNC_CALL"})
  /\ Visit(CheckOf("callee") \o <<Item("called", Here)>> \o CheckOf("args"))
  /\ UNCHANGED <<slots, depth, funcType, errors>>

Called ==
  /\ AtItem("called") /\ Resume(<<>>)
  /\ LET callee == Member("callee")
         known == TypeAt(callee) = "IDENTIFIER" /\ Found(slots, ast[callee].at["name"])
         params == FindSlot(slots, ast[callee].at["name"]).params
         args == ListAt(ast, Member("args"))
         wrong(i) == /\ i \in DOMAIN params /\ Has(params[i])
                     /\ Has(ExprType(slots, args[i]))
                     /\ ~Compatible(params[i], ExprType(slots, args[i]))
     IN  Report(IF ~known THEN {}
                ELSE At("ARG_COUNT", Len(args) # Len(params))
                     \union {<<"ARG_TYPE", args[i]>> : i \in {j \in DOMAIN args : wrong(j)}})
  /\ UNCHANGED <<slots, depth, funcType>>

(* A loop variable that is not known yet is declared by the loop.          *)
Implicit(name, type) ==
  IF Found(slots, name) THEN slots
  ELSE AddSlot(slots, depth + 1, Slot(name, "VAR", FALSE, type, <<>>, Here))

LoopVariable(p, type) ==
  CASE TypeAt(p) = "IDENTIFIER" -> Implicit(ast[p].at["name"], type)
    [] TypeAt(p) = "ASSIGNMENT" /\ TypeAt(ast[p].at["left"]) = "IDENTIFIER" ->
         LET t == ExprType(slots, ast[p].at["right"])
         IN  Implicit(ast[ast[p].at["left"]].at["name"], IF Has(t) THEN t ELSE type)
    [] OTHER -> slots

Loop ==
  /\ AtNode({"LOOP"})
  /\ \/ /\ Member("loop_type") = "foreach"
        /\ slots' = IF TypeAt(Member("variable")) = "IDENTIFIER"
                    THEN LoopVariable(Member("variable"), "any") ELSE slots
        /\ Enter((IF TypeAt(Member("variable")) \in {"VAR_DECL", "IDENTIFIER"}
                  THEN CheckOf("variable") ELSE <<>>)
                 \o CheckOf("collection") \o CheckOf("body"))
     \/ /\ Member("loop_type") # "foreach"
        /\ slots' = LoopVariable(Member("init"), "i32")
        /\ Enter(CheckOf("init") \o <<Item("range", Here)>> \o CheckOf("condition")
                 \o CheckOf("increment") \o CheckOf("body"))
  /\ UNCHANGED <<funcType, errors>>

(* A range as the condition declares `it'.                                 *)
RangeAt(c) == TypeAt(c) = "BINARY_EXPR" /\ ast[c].at["op"] = ".."

RangeVariable ==
  /\ AtItem("range") /\ todo' = Tail(todo)
  /\ LET c == Member("condition")
     IN  /\ slots' = IF RangeAt(c) /\ ~Found(slots, "it")
                     THEN AddSlot(slots, depth, Slot("it", "VAR", FALSE, "i32", <<>>, c))
                     ELSE slots
         /\ seen' = IF RangeAt(c) THEN seen \union {c} ELSE seen
  /\ UNCHANGED <<ast, depth, funcType, errors>>

Next ==
  \/ Traverse \/ VarDecl \/ Initialized \/ Identifier \/ Assignment
  \/ Capture \/ Label \/ NewType \/ StructDecl \/ EnumDecl
  \/ ExitScope \/ Block \/ FuncDecl \/ Restore \/ Return \/ Returned
  \/ FuncCall \/ Called \/ Loop \/ RangeVariable

Spec == Init /\ [][Next]_vars

-------------------------------------------------------------------------------
(* What a reader of the program would say, from the tree alone.            *)
(*                                                                         *)
(* The nodes that open a scope, those that enclose a node, and the         *)
(* functions among them: `next' leads to a node of the same scope, any     *)
(* other member into the node.  In a tree of Programs a node lies before   *)
(* those it encloses (ProgramsAssumption).                                 *)
Opens == {"BLOCK", "GROUP_DECL", "THREAD_BLOCK", "LISTEN", "LOOP", "FUNC_DECL"}

Enclosing(q) ==
  LET up[p \in DOMAIN ast] ==
        UNION {up[l[1]] \union (IF l[2] # "next" /\ ast[l[1]].type \in Opens THEN {l[1]} ELSE {})
               : l \in Links(ast, p)}
  IN  up[q]

(* The names a node declares, and the scopes it declares them inside of.   *)
OwnScope == {"LISTEN", "LOOP"}
ScopeOf(d) == Enclosing(d) \union (IF ast[d].type \in OwnScope THEN {d} ELSE {})

IsRange(d) ==
  \E l \in 1..(d - 1) : /\ ast[l].type = "LOOP" /\ ast[l].at["condition"] = d
                        /\ ast[d].type = "BINARY_EXPR" /\ ast[d].at["op"] = ".."

LoopNames(d) ==
  LET p == ast[d].at[IF ast[d].at["loop_type"] = "foreach" THEN "variable" ELSE "init"]
      target == IF TypeAt(p) = "ASSIGNMENT"
                     /\ ast[d].at["loop_type"] # "foreach" THEN ast[p].at["left"] ELSE p
  IN  IF TypeAt(target) = "IDENTIFIER"
      THEN {ast[target].at["name"]} ELSE {}

Declares(d) ==
  CASE ast[d].type \in {"VAR_DECL", "NEWTYPE_DECL"} -> {ast[d].at["name"]}
    [] ast[d].type \in {"FUNC_DECL", "STRUCT_DECL", "UNION_DECL", "ENUM_DECL"} ->
         {ast[d].at["name"]} \ {Zero}
    [] ast[d].type \in {"NEXUS_CAPTURE", "LISTEN"} -> {ast[d].at["handler_name"]}
    [] ast[d].type = "NEXUS_LABEL" -> {ast[d].at["label_name"]}
    [] ast[d].type = "LOOP" -> LoopNames(d)
    [] IsRange(d) -> {"it"}
    [] OTHER -> {}

Visible(name, p) ==
  {d \in seen : name \in Declares(d) /\ ScopeOf(d) \subseteq Enclosing(p)}

(* Whenever a node is checked the symbol table holds exactly the names that*)
(* are in scope there: those declared before it by a node whose scope      *)
(* encloses it.  No scope leaks a name, none is closed too early.          *)
ResolvesLexically ==
  AtItem("check") =>
    \A name \in UNION {Declares(d) : d \in seen} :
      Found(slots, name) <=> Visible(name, Here) # {}

(* A use means the innermost declaration: while nothing was reported as    *)
(* redefined, no declaration that is visible at an identifier lies in a    *)
(* smaller scope than the one find_slot returns.  A loop variable that     *)
(* finds its name taken declares nothing.                                  *)
InnermostWins ==
  AtNode({"IDENTIFIER"}) /\ Found(slots, Member("name"))
    /\ (\A e \in errors : e[1] \notin {"REDEFINED", "FUNC_REDEFINED"}) =>
    LET chosen == ScopeOf(FindSlot(slots, Member("name")).decl)
    IN  \A d \in Visible(Member("name"), Here) :
          ast[d].type = "LOOP" \/ IsRange(d) \/ ~(chosen \subseteq ScopeOf(d))
            \/ chosen = ScopeOf(d)

(* exit_scope frees what was added in its scope and nothing else: the depth*)
(* counts the scopes to be closed, each slot carries the depth of its      *)
(* lexical scope, deeper ones in front, and the check ends at depth 0.     *)
ScopesBalanced ==
  /\ depth = Cardinality({i \in DOMAIN todo : todo[i].op = "exit"})
  /\ \A i \in DOMAIN slots : /\ slots[i].depth = Cardinality(ScopeOf(slots[i].decl))
                             /\ slots[i].depth <= depth
                             /\ \A j \in 1..i : slots[j].depth >= slots[i].depth

(* A return is compared with the return type of the function around it,    *)
(* also after a function nested in that one has ended.                     *)
ReturnTypeIsEnclosing ==
  AtItem("check") \/ AtItem("returned") =>
    LET functions == {f \in Enclosing(Here) : ast[f].type = "FUNC_DECL"}
    IN  funcType = IF functions = {} THEN Zero
                   ELSE LET f == CHOOSE f \in functions : \A g \in functions : g <= f
                        IN  ast[f].at["return_type"]

===============================================================================
