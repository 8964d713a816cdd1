----------------------------- MODULE MCAstArchive -----------------------------
(***************************************************************************)
(* AstArchive on one program per way the parser fills in a node: the node  *)
(* stands between a program root and a sibling, and each of its children   *)
(* is a list of one or two identifiers.                                    *)
(***************************************************************************)
EXTENDS AstArchive, TLC

Filled(t, values) == [type |-> t, at |-> values @@ Blank(t).at]
Line == [i \in 1..9 |-> "l" \o ToString(i)]

(* Cells 2 and 3 are the root and the node, 4 its sibling; the first child *)
(* is a list of two.                                                       *)
ProgramOf(t, scalars, kids) ==
  LET n == Len(kids)
      child(i) == "name" :> "name" @@ "line" :> Line[4 + i]
  IN  <<Variable(2),
        Filled("PROGRAM", "line" :> Line[2] @@ "statements" :> 3),
        Filled(t, "line" :> Line[3] @@ "next" :> 4 @@ [m \in scalars |-> m]
                  @@ [m \in {kids[i] : i \in 1..n} |->
                        4 + (CHOOSE i \in 1..n : kids[i] = m)]),
        Filled("NEXUS_JUMP", "label_name" :> "label_name" @@ "line" :> Line[4])>>
      \o [i \in 1..n |-> Filled("IDENTIFIER",
                           child(i) @@ (IF i = 1 THEN "next" :> 5 + n ELSE "line" :> Line[4 + i]))]
      \o (IF n = 0 THEN <<>> ELSE <<Filled("IDENTIFIER", child(n + 1))>>)

MCPrograms ==
  {ProgramOf("VAR_DECL", {"name", "type_name", "is_const", "is_hard_typed", "is_public",
                          "is_exported"}, <<"initializer", "inline_type">>),
   ProgramOf("VAR_DECL", {"name"}, <<>>),
   ProgramOf("FUNC_DECL", {"name", "return_type", "is_public", "is_exported"},
             <<"params", "body">>),
   ProgramOf("FUNC_DECL", {"name", "is_extern"}, <<"params">>),
   ProgramOf("STRUCT_DECL", {"name", "is_packed", "is_public", "is_exported"}, <<"fields">>),
   ProgramOf("UNION_DECL", {"is_union"}, <<"fields">>),
   ProgramOf("ENUM_DECL", {"name"}, <<"variants">>),
   ProgramOf("ENUM_VARIANT", {"name"}, <<"data">>),
   ProgramOf("NEWTYPE_DECL", {"name", "target_type"}, <<>>),
   ProgramOf("GROUP_DECL", {"name", "is_public", "is_exported"}, <<"members">>),
   ProgramOf("METHOD", {"public_name"}, <<"implementation">>),
   ProgramOf("LITERAL", {"type", "string_value"}, <<>>),
   ProgramOf("BINARY_EXPR", {"op"}, <<"left", "right">>),
   ProgramOf("ASSIGNMENT", {"op"}, <<"left", "right">>),
   ProgramOf("UNARY_EXPR", {"op"}, <<"operand">>),
   ProgramOf("POSTFIX_EXPR", {"op"}, <<"operand">>),
   ProgramOf("CAST", {}, <<"operand">>),
   ProgramOf("RETURN", {}, <<"operand">>),
   ProgramOf("FUNC_CALL", {}, <<"callee", "args">>),
   ProgramOf("PRNT", {}, <<"args">>),
   ProgramOf("MEMBER_ACCESS", {"member_name"}, <<"object">>),
   ProgramOf("TUPLE", {}, <<"elements">>),
   ProgramOf("BLOCK", {}, <<"statements">>),
   ProgramOf("LOOP", {}, <<"init", "condition", "increment", "body">>),
   ProgramOf("LOOP", {"loop_type"}, <<"collection", "variable", "body">>),
   ProgramOf("NEXUS_CAPTURE", {"handler_name"}, <<"expr">>),
   ProgramOf("LISTEN", {"handler_name"}, <<"expr">>),
   ProgramOf("NEXUS_PIPE", {"op"}, <<"left", "right">>),
   ProgramOf("NEXUS_FLOW", {"op", "retry_count", "retry_delay"},
             <<"left", "right", "catch_block">>),
   ProgramOf("NEXUS_LABEL", {"label_name"}, <<"statement">>),
   ProgramOf("NEXUS_INTENT", {"intent_name"}, <<"target">>),
   ProgramOf("NEXUS_HALT", {}, <<"expr">>), ProgramOf("NEXUS_HALT", {}, <<>>),
   ProgramOf("AI_LOGIC", {"query"}, <<>>), ProgramOf("PANIC", {"message"}, <<>>),
   ProgramOf("USE", {"module_name", "alias"}, <<>>), ProgramOf("DEFER", {}, <<"body">>),
   ProgramOf("THREAD_BLOCK", {"name"}, <<"body", "mode", "timeout">>)}

MCOldArchive == <<"PROGRAM", "old", Mark, Mark>>

===============================================================================
