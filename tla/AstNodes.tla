------------------------------- MODULE AstNodes -------------------------------
(***************************************************************************)
(* The nodes of the C compiler's syntax tree: the structs of ast.h, and    *)
(* the struct ast_create (ast.c) gives a node of each type.  The names of  *)
(* the types are those of ast.h without their AST_.                        *)
(***************************************************************************)
EXTENDS Naturals, Sequences, FiniteSets

Zero == "zero"   \* 0, or the NULL of a char*
NULL == 0        \* the NULL of an ASTNode*

(* The structs of ast.h, their members in memory order.                    *)
Members ==
  [ASTNode |-> <<>>, ASTBinaryExpr |-> <<"op", "left", "right">>,
   ASTUnaryExpr |-> <<"op", "operand">>,
   ASTLiteral |-> <<"type", "lit_type", "int_value", "float_value", "string_value">>,
   ASTIdentifier |-> <<"name">>, ASTCall |-> <<"callee", "args">>,
   ASTMemberAccess |-> <<"object", "member_name">>, ASTTuple |-> <<"elements">>,
   ASTVarDecl |-> <<"name", "type_name", "is_const", "is_hard_typed", "is_public",
                    "is_exported", "initializer", "inline_type">>,
   ASTFuncDecl |-> <<"name", "params", "return_type", "body", "is_extern",
                     "is_public", "is_exported">>,
   ASTStructDecl |-> <<"name", "is_packed", "is_union", "is_public", "is_exported",
                       "fields">>,
   ASTEnumVariant |-> <<"name", "data">>, ASTEnumDecl |-> <<"name", "variants">>,
   ASTMethod |-> <<"public_name", "implementation">>,
   ASTGroupDecl |-> <<"name", "is_public", "is_exported", "members">>,
   ASTUse |-> <<"module_name", "alias">>, ASTDefer |-> <<"body">>,
   ASTThreadBlock |-> <<"name", "body", "mode", "timeout">>,
   ASTNewTypeDecl |-> <<"name", "target_type">>, ASTBlock |-> <<"statements">>,
   ASTIf |-> <<"condition", "then_branch", "else_branch">>,
   ASTLoop |-> <<"init", "condition", "increment", "body", "collection", "variable",
                 "loop_type">>,
   ASTNexusCapture |-> <<"handler_name", "expr">>,
   ASTNexusFlow |-> <<"op", "left", "right", "retry_count", "retry_delay",
                      "catch_block">>,
   ASTNexusLabel |-> <<"label_name", "statement">>, ASTNexusJump |-> <<"label_name">>,
   ASTHalt |-> <<"expr">>, ASTIntent |-> <<"intent_name", "target">>,
   ASTAiLogic |-> <<"query">>, ASTUnpack |-> <<"expr">>, ASTPanic |-> <<"message">>]

(* Which members are strings and which are nodes; the others are numbers.  *)
Strings == {"name", "type_name", "return_type", "string_value", "member_name",
            "public_name", "module_name", "alias", "target_type", "handler_name",
            "label_name", "intent_name", "query", "message"}
Pointers == {"left", "right", "operand", "callee", "args", "object", "elements",
             "initializer", "inline_type", "params", "body", "fields", "data",
             "variants", "implementation", "members", "mode", "timeout",
             "statements", "condition", "then_branch", "else_branch", "init",
             "increment", "collection", "variable", "expr", "catch_block",
             "statement", "target", "next", "root"}

(* get_node_size: the struct a type is allocated as; a plain ASTNode for   *)
(* every type that is not listed.                                          *)
Allocated ==
  [ASTBinaryExpr |-> {"BINARY_EXPR", "ASSIGNMENT", "INDEX_ACCESS"},
   ASTUnaryExpr |-> {"UNARY_EXPR", "RETURN", "POSTFIX_EXPR", "CAST"},
   ASTCall |-> {"FUNC_CALL", "SPAWN", "ECHO", "SEND", "RECEIVE", "DONE", "AREA",
                "ZONE", "ADDR", "LEN", "PEEK", "POKE", "INB", "OUTB", "IRQ",
                "INTR", "REG", "PRNT", "PRMT", "WRITE", "FWRITE", "TYPEOF",
                "SIZEOF", "IS_OK", "IS_ERR", "IS_SOME", "IS_NONE", "IS_NULL",
                "EXIT", "SWAP", "DATE", "DATENOW", "TIME", "CLOCK", "FREE",
                "ZONE_SYNC", "ZONE_VIEW", "ZONE_LOCK"},
   ASTTuple |-> {"TUPLE"}, ASTLiteral |-> {"LITERAL"}, ASTIdentifier |-> {"IDENTIFIER"},
   ASTMemberAccess |-> {"MEMBER_ACCESS"}, ASTVarDecl |-> {"VAR_DECL"},
   ASTFuncDecl |-> {"FUNC_DECL", "EXTERN_DECL"},
   ASTStructDecl |-> {"STRUCT_DECL", "UNION_DECL"}, ASTEnumDecl |-> {"ENUM_DECL"},
   ASTNewTypeDecl |-> {"NEWTYPE_DECL"}, ASTEnumVariant |-> {"ENUM_VARIANT"},
   ASTGroupDecl |-> {"GROUP_DECL"}, ASTMethod |-> {"METHOD"}, ASTUse |-> {"USE"},
   ASTDefer |-> {"DEFER"}, ASTThreadBlock |-> {"THREAD_BLOCK"},
   ASTBlock |-> {"BLOCK", "PROGRAM", "ASM_BLOCK"}, ASTIf |-> {"IF"},
   ASTLoop |-> {"LOOP"}, ASTNexusCapture |-> {"NEXUS_CAPTURE", "LISTEN"},
   ASTNexusFlow |-> {"NEXUS_FLOW", "NEXUS_PIPE"}, ASTNexusLabel |-> {"NEXUS_LABEL"},
   ASTNexusJump |-> {"NEXUS_JUMP"}, ASTHalt |-> {"NEXUS_HALT"},
   ASTIntent |-> {"NEXUS_INTENT"}, ASTAiLogic |-> {"AI_LOGIC"},
   ASTUnpack |-> {"UNPACK"}, ASTPanic |-> {"PANIC"}]

StructOf(t) ==
  IF \E s \in DOMAIN Allocated : t \in Allocated[s]
  THEN CHOOSE s \in DOMAIN Allocated : t \in Allocated[s] ELSE "ASTNode"

(* ast_create: allocated as its type says, and zeroed.                     *)
Blank(t) ==
  LET struct == Members[StructOf(t)]
  IN  [type |-> t,
       at |-> [m \in {"line", "next"} \union {struct[i] : i \in DOMAIN struct} |->
                 IF m \in Pointers THEN NULL ELSE Zero]]

===============================================================================
