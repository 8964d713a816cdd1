--------------------------- MODULE MCSemanticScopes ---------------------------
(***************************************************************************)
(* SemanticScopes on small programs, with every choice of the names that   *)
(* decides what a use refers to and what is declared twice.  A program is  *)
(* written as a term, [t, s, k]: its type, its scalars, its lists of       *)
(* children; Flat lays it out in preorder.                                 *)
(***************************************************************************)
EXTENDS SemanticScopes, TLC

N(t, scalars, kids) == [t |-> t, s |-> scalars, k |-> kids]
None == "line" :> Zero

RECURSIVE FlatList(_, _), Flat(_, _)
FlatList(list, base) ==
  IF list = <<>> THEN <<>>
  ELSE LET first == Flat(Head(list), base)
           after == base + Len(first)
       IN  [first EXCEPT ![1].at["next"] = IF Len(list) = 1 THEN NULL ELSE after]
           \o FlatList(Tail(list), after)
Flat(node, base) ==
  LET kids[i \in 0..Len(node.k)] ==
        IF i = 0 THEN <<>> ELSE kids[i - 1] \o FlatList(node.k[i][2], base + 1 + Len(kids[i - 1]))
      blank == Blank(node.t).at
      children == [m \in {node.k[i][1] : i \in DOMAIN node.k} |->
                     LET i == CHOOSE i \in DOMAIN node.k : node.k[i][1] = m
                     IN  IF node.k[i][2] = <<>> THEN NULL ELSE base + 1 + Len(kids[i - 1])]
  IN  <<[type |-> node.t, at |-> children @@ node.s @@ blank]>> \o kids[Len(node.k)]

Program(list) == Flat(N("PROGRAM", None, <<<<"statements", list>>>>), 1)

Id(name) == N("IDENTIFIER", "name" :> name, <<>>)
Num(text) == N("LITERAL", "type" :> "NUMBER" @@ "string_value" :> text, <<>>)
Str == N("LITERAL", "type" :> "STRING" @@ "string_value" :> "s", <<>>)
Var(name) == N("VAR_DECL", "name" :> name, <<>>)
Typed(name, type) == N("VAR_DECL", "name" :> name @@ "type_name" :> type, <<>>)
VarInit(name, type, const, init) ==
  N("VAR_DECL", "name" :> name @@ "type_name" :> type @@ "is_const" :> const,
    <<<<"initializer", <<init>>>>>>)
Inline(name, fields) ==
  N("VAR_DECL", "name" :> name @@ "type_name" :> "struct",
    <<<<"inline_type", <<N("STRUCT_DECL", None, <<<<"fields", fields>>>>)>>>>>>)
Bin(op, l, r) == N("BINARY_EXPR", "op" :> op, <<<<"left", <<l>>>>, <<"right", <<r>>>>>>)
Assign(l, r) == N("ASSIGNMENT", "op" :> "=", <<<<"left", <<l>>>>, <<"right", <<r>>>>>>)
Braces(list) == N("BLOCK", None, <<<<"statements", list>>>>)
Func(name, type, params, list) ==
  N("FUNC_DECL", "name" :> name @@ "return_type" :> type,
    <<<<"params", params>>, <<"body", <<Braces(list)>>>>>>)
Ret(e) == N("RETURN", None, <<<<"operand", <<e>>>>>>)
Call(f, args) == N("FUNC_CALL", None, <<<<"callee", <<f>>>>, <<"args", args>>>>)
Struct(t, name, union, fields) ==
  N(t, "name" :> name @@ "is_union" :> union, <<<<"fields", fields>>>>)
Enum(name, data) ==
  N("ENUM_DECL", "name" :> name,
    <<<<"variants", <<N("ENUM_VARIANT", "name" :> "A", <<<<"data", data>>>>),
                      N("ENUM_VARIANT", "name" :> "B", <<>>)>>>>>>)
For(init, cond, list) ==
  N("LOOP", "loop_type" :> "for",
    <<<<"init", init>>, <<"condition", <<cond>>>>, <<"body", <<Braces(list)>>>>>>)
Foreach(variable, over, list) ==
  N("LOOP", "loop_type" :> "foreach",
    <<<<"variable", <<variable>>>>, <<"collection", <<over>>>>, <<"body", <<Braces(list)>>>>>>)
One(t, m, scalars, e) == N(t, scalars, <<<<m, <<e>>>>>>)

(* Variables that hide, repeat and miss one another across blocks.         *)
Names == {"x", "y"}
Blocks ==
  {Program(<<VarInit(a, "i32", const, Num("1")), Braces(<<VarInit(b, Zero, Zero, Id(c)), Id(d)>>),
             Assign(Id(d), value), Id(b)>>)
   : a, b, c, d \in Names, const \in {Zero, "const"}, value \in {Str, Num("2")}}

(* Functions in functions, with and without a name, and calls of them.     *)
Functions ==
  {Program(<<Func("f", type, <<Typed(a, "!i32"), Typed("y", "str")>>,
                  <<Func(g, Zero, <<Var(b)>>, <<Ret(Id(a)), Ret(Num("1"))>>), Ret(Id(b))>>),
             Call(Id(h), args), Id(b)>>)
   : type \in {Zero, "i32"}, a \in {"x", "z"}, b \in Names, g \in {Zero, "f"},
     h \in {"f", "y"}, args \in {<<>>, <<Num("1"), Num("1.5")>>}}
  \union {Program(<<Func("f", "void", <<>>, <<N("RETURN", None, <<>>)>>),
                    Func("f", "i32", <<>>, <<Ret(Call(Id("f"), <<>>))>>),
                    Call(One("MEMBER_ACCESS", "object", None, Id("x")), <<>>)>>)}

(* Loops, whose variables may be declared by the loop.                     *)
Loops ==
  {Program(<<Var(a), For(init, cond, <<Id(b), Id("it")>>), Id(b), Id("it")>>)
   : a, b \in Names, init \in {<<>>, <<Id("x")>>, <<Assign(Id("x"), Str)>>, <<Var("x")>>},
     cond \in {Id("y"), Bin("<", Id("y"), Num("9")), Bin("..", Num("0"), Num("9"))}}
  \union {Program(<<Var(a), Foreach(v, Id("y"), <<Braces(<<Var("y"), Id("x")>>)>>), Id("x")>>)
          : a \in Names, v \in {Id("x"), Var("x"), Call(Id("x"), <<>>)}}

(* Names that may be declared once, at one depth or in an inner scope.     *)
Once(name) ==
  {One("NEXUS_CAPTURE", "expr", "handler_name" :> name, Id("x")),
   One("NEXUS_LABEL", "statement", "label_name" :> name, Id("x")),
   N("NEWTYPE_DECL", "name" :> name @@ "target_type" :> "i32", <<>>),
   Struct("STRUCT_DECL", name, Zero, <<Typed("a", "x"), Typed("b", "T"), Inline("c", <<Typed("d", "y")>>)>>),
   Struct("UNION_DECL", name, "union", <<Typed("a", "u8")>>),
   Enum(name, <<Typed("a", "y"), Inline("c", <<Typed("d", "u8")>>)>>)}
Types ==
  {Program(<<first, Braces(<<second, VarInit("v", "x", Zero, Num("1"))>>), Typed("w", "y"), third>>)
   : first \in Once("x"), second \in Once("x") \union Once("y"), third \in {Id("y"), Var("x")}}

(* The other scopes, and what is looked into without a case of its own.    *)
Scopes ==
  {Program(<<N(t[1], t[3], <<<<t[2], <<Var("x"), Id(a)>>>>>>), Id(b), Id(a)>>)
   : t \in {<<"LISTEN", "expr", "handler_name" :> "y">>,
            <<"GROUP_DECL", "members", "name" :> "y">>,
            <<"THREAD_BLOCK", "body", "name" :> "y">>,
            <<"METHOD", "implementation", None>>, <<"DEFER", "body", None>>},
     a, b \in Names}
Others ==
  {Program(<<e, Id("y")>>)
   : e \in {One("UNARY_EXPR", "operand", None, Id("x")), One("CAST", "operand", None, Id("x")),
            One("NEXUS_HALT", "expr", None, Id("x")), One("NEXUS_INTENT", "target", None, Id("x")),
            One("TUPLE", "elements", None, Id("x")), One("PRNT", "args", None, Id("x")),
            Bin("/", Id("x"), Num("0")), Inline("x", <<Typed("d", "T")>>),
            N("NEXUS_FLOW", None, <<<<"left", <<Id("x")>>>>, <<"right", <<Braces(<<Var("y")>>)>>>>,
                                    <<"catch_block", <<Braces(<<Id("y")>>)>>>>>>)}}

MCPrograms == Blocks \union Functions \union Loops \union Types \union Scopes \union Others
MCHardTypes == "!i32" :> "i32"
MCFractions == {"1.5"}

===============================================================================
