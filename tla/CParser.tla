-------------------------------- MODULE CParser --------------------------------
(***************************************************************************)
(* The C compiler: the tokens of lexer.c, the recursive-descent parser of  *)
(* parser.c, the code of codegen.c, and the calls of main.c in which one   *)
(* follows the other.  The parser is a machine with an explicit stack, as  *)
(* NexusParser: a frame is what remains of an active function, and a step  *)
(* pops the top frame, runs it up to its next call, and pushes what it     *)
(* calls and what it will do with the node that call returns.              *)
(*                                                                         *)
(* The lexer knows nothing of the parser, so the tokens are made first.    *)
(* Of the error list only whether it is empty is kept, and with it goes    *)
(* panic_mode, which keeps messages off it.  Lines, columns and the flags  *)
(* of a declaration (is_const, is_hard_typed, is_public, is_exported,      *)
(* is_packed, is_union) and loop_type are left out, and so are the branches*)
(* for tokens the lexer never makes.  A name is the last word of a token.  *)
(***************************************************************************)
EXTENDS CLexer, CCodegen

CONSTANT Listeners      \* the words that start with listen

VARIABLES
  cur,      \* the Parser struct, the node last returned, the heap of nodes
  stack     \* the active functions, innermost first

vars == <<text, pos, toks, cur, stack>>

NoName == ""
F(fn) == [fn |-> fn, n |-> NULL, m |-> NoName, op |-> NoName, head |-> NULL, tail |-> NULL]
FExpect(t)      == [F("expect") EXCEPT !.op = t]
FGive(n)        == [F("give") EXCEPT !.n = n]
FSet(n, m)      == [F("set") EXCEPT !.n = n, !.m = m]
FNode(fn, n)    == [F(fn) EXCEPT !.n = n]
FNodeOp(fn, n, op) == [F(fn) EXCEPT !.n = n, !.op = op]
List(fn, n, m)  == [F(fn) EXCEPT !.n = n, !.m = m]
FLink(f)        == [f EXCEPT !.fn = "link", !.op = f.fn]
FType(type, name) == [F("type") EXCEPT !.op = type, !.m = name]

(* at and prev: the tokens current and previous.  ret: what the function   *)
(* that ended last returned.  bad: had_error.  Two histories are for the   *)
(* properties: the nodes that stood in parentheses, and the reasons for    *)
(* which a part of the source is known to be missing in the tree.          *)
Init ==
  /\ LexInit
  /\ cur = [at |-> 0, prev |-> 0, ret |-> NULL, bad |-> FALSE, nodes |-> <<>>,
            crash |-> "no", asm |-> <<>>, parens |-> {}, lost |-> {}]
  /\ stack = <<F("run")>>

-------------------------------------------------------------------------------
(* The helpers, on a cursor.                                               *)

Tok(c)     == toks[c.at].type
Word(i)    == toks[i].val
Spelled(i) == SubSeq(text, toks[i].from, toks[i].next - 1)
PeekToken(c, k) == IF c.at + k <= Len(toks) THEN toks[c.at + k].type ELSE "EOF"

(* error_at.                                                               *)
Fails(c) == [c EXCEPT !.bad = TRUE]

(* advance: the lexer's errors are passed over, and reported.              *)
Behind[i \in Nat] ==
  IF i = Len(toks) THEN i ELSE IF toks[i + 1].type = "error" THEN Behind[i + 1] ELSE i + 1

Adv(c) == [c EXCEPT !.prev = c.at, !.at = Behind[@], !.bad = @ \/ Behind[c.at] > c.at + 1]

Consume(c, t) == IF Tok(c) = t THEN Adv(c) ELSE Fails(c)
Match(c, t)   == IF Tok(c) = t THEN Adv(c) ELSE c

Lose(c, why) == [c EXCEPT !.lost = @ \union {why}]
Skip(c, why) == IF Tok(c) \in {COMMA, SEMICOLON} THEN Adv(c) ELSE Lose(Adv(c), why)

(* A new node, which is returned, and a store into one.  A member outside  *)
(* the struct of the node is lost, and so is what a pointer led to before. *)
Make(c, type, members) ==
  LET b == Blank(type).at
  IN  [c EXCEPT !.ret = Len(c.nodes) + 1,
         !.nodes = Append(@, [type |-> type,
           at |-> [m \in DOMAIN b |-> IF m \in DOMAIN members THEN members[m] ELSE b[m]]])]
Bare(c, type) == Make(c, type, <<>>)
Put(c, n, m, v) ==
  LET at == c.nodes[n].at
      member == m \in DOMAIN at
      d == IF member THEN [c EXCEPT !.nodes[n].at[m] = v] ELSE c
  IN  IF member /\ (m \in Pointers => at[m] = NULL) THEN d ELSE Lose(d, m)
TypeOf(n) == cur.nodes[n].type

(* A list that is being built, in a frame.  tail->next is overwritten, so  *)
(* what followed the tail is lost.                                         *)
Linked(f, x) == [f EXCEPT !.head = IF @ = NULL THEN x ELSE @, !.tail = x]

LinkNode(c, f, x) == IF f.head = NULL THEN c ELSE Put(c, f.tail, "next", x)

-------------------------------------------------------------------------------
Done == ~Lexing /\ stack = <<>>
At(fn) == stack # <<>> /\ Head(stack).fn = fn /\ ~Lexing
Top    == Head(stack)
Sees(ts) == Tok(cur) \in ts
Ahead  == Adv(cur)

(* The function on top goes on with cursor c after calling fs.             *)
Then(c, fs) == cur' = c /\ stack' = fs \o Tail(stack) /\ UNCHANGED lexVars
Crash(why)  == cur' = [cur EXCEPT !.crash = why] /\ stack' = <<>> /\ UNCHANGED lexVars

Expect   == At("expect") /\ Then(Consume(cur, Top.op), <<>>)
OptSemi  == At("optsemi") /\ Then(Match(cur, SEMICOLON), <<>>)
Give     == At("give") /\ Then([cur EXCEPT !.ret = Top.n], <<>>)
SetChild == At("set") /\ Then([Put(cur, Top.n, Top.m, cur.ret) EXCEPT !.ret = Top.n], <<>>)

(* Where a statement could not be parsed, parse_block and parser_run go on *)
(* behind the token.                                                       *)
Resume_Here(c) == c

Resume(c) == Adv(c)

(* An element of a list that passes over those that could not be parsed.   *)
Link ==
  /\ At("link")
  /\ LET f == [Top EXCEPT !.fn = Top.op, !.op = NoName]
     IN  IF cur.ret # NULL THEN Then(LinkNode(cur, f, cur.ret), <<Linked(f, cur.ret)>>)
         ELSE Then(IF f.fn \in {"statements", "program"} THEN Resume(cur) ELSE cur, <<f>>)

(* An argument: a NULL goes into the list, and the next one follows it.    *)
Argument ==
  /\ At("args")
  /\ IF Top.head # NULL /\ Top.tail = NULL THEN Crash("null")
     ELSE LET c == LinkNode(cur, Top, cur.ret)
              f == Linked(Top, cur.ret)
          IN  IF Sees({COMMA}) THEN Then(Adv(c), <<F("expression"), f>>)
              ELSE Then(Put(c, f.n, f.m, f.head), <<>>)

(* What follows the parenthesis of a call.                                 *)
ArgsOf(c, n, m) ==
  (IF Tok(c) = ")" THEN <<>> ELSE <<F("expression"), List("args", n, m)>>)
    \o <<FExpect(")"), FGive(n)>>

-------------------------------------------------------------------------------
(* Primary expressions.                                                    *)

Intrinsic ==
  [prnt |-> "PRNT", prmt |-> "PRMT", write |-> "WRITE", fwrite |-> "FWRITE",
   typeof |-> "TYPEOF", sizeof |-> "SIZEOF", len |-> "LEN", is_ok |-> "IS_OK",
   is_err |-> "IS_ERR", is_some |-> "IS_SOME", is_none |-> "IS_NONE",
   is_null |-> "IS_NULL", panic |-> "PANIC", exit |-> "EXIT", cast |-> "CAST",
   swap |-> "SWAP", peek |-> "PEEK", poke |-> "POKE", inb |-> "INB",
   outb |-> "OUTB", irq |-> "IRQ", intr |-> "INTR", reg |-> "REG",
   area |-> "AREA", zone |-> "ZONE", addr |-> "ADDR", date |-> "DATE",
   datenow |-> "DATENOW", time |-> "TIME", clock |-> "CLOCK", free |-> "FREE",
   spawn |-> "SPAWN", done |-> "DONE"]

LiteralExpr ==
  /\ At("primary") /\ Sees({"num", "str", "chr"})
  /\ Then(Make(Ahead, "LITERAL", [type |-> Tok(cur), string_value |-> Word(cur.at)]), <<>>)

IdentifierExpr ==
  /\ At("primary") /\ Sees({"id"})
  /\ Then(Make(Ahead, "IDENTIFIER", [name |-> Word(cur.at)]), <<>>)

LambdaExpr == At("primary") /\ Sees({"fn"}) /\ Then(Ahead, <<F("function")>>)

(* loop(...), where the parentheses say which of three kinds it is.        *)
LoopExpr ==
  /\ At("primary") /\ Sees({"loop"})
  /\ LET n == Bare(Consume(Ahead, "("), "LOOP")
         declares == Tok(n) \in {"v:", "c:"}
     IN  Then(IF declares THEN Adv(n) ELSE n,
              <<F(IF declares THEN "vardecl" ELSE "expression"), FNode("loopkind", n.ret)>>)

LoopKind ==
  /\ At("loopkind")
  /\ LET n == Top.n
         rest == <<FExpect(")"), FNode("loopbody", n)>>
     IN  CASE Sees({"<--"}) ->
                Then(Put(Ahead, n, "variable", cur.ret),
                     <<F("expression"), FSet(n, "collection")>> \o rest)
           [] Sees({COMMA}) ->
                Then(Put(Ahead, n, "init", cur.ret),
                     <<F("expression"), FSet(n, "condition"), FExpect(COMMA),
                       F("expression"), FSet(n, "increment")>> \o rest)
           [] OTHER -> Then(Put(cur, n, "condition", cur.ret), rest)

LoopBody ==
  /\ At("loopbody")
  /\ LET c == [Match(cur, "->") EXCEPT !.ret = Top.n]
     IN  IF Tok(c) = LBRACE THEN Then(Adv(c), <<F("block"), FSet(Top.n, "body")>>)
         ELSE Then(Fails(c), <<>>)

InfiniteLoop ==
  /\ At("primary") /\ Sees({"("}) /\ Tok(Ahead) = "loop"
  /\ LET n == Bare(Consume(Adv(Ahead), ")"), "LOOP")
     IN  Then(n, <<FNode("loopbody", n.ret)>>)

Parenthesis ==
  /\ At("primary") /\ Sees({"("}) /\ Tok(Ahead) # "loop"
  /\ Then(Ahead, <<F("expression"), F("paren")>>)

(* Behind the expression: the line of a tuple is that of its first element.*)
Paren ==
  /\ At("paren")
  /\ IF ~Sees({COMMA}) THEN Then([Consume(cur, ")") EXCEPT !.parens = @ \union {cur.ret}], <<>>)
     ELSE IF cur.ret = NULL THEN Crash("null")
     ELSE LET c == Bare(cur, "TUPLE")
          IN  Then([c EXCEPT !.ret = cur.ret], <<FLink(List("tuple", c.ret, ")"))>>)

BraceTuple ==
  /\ At("primary") /\ Sees({LBRACE})
  /\ IF Tok(Ahead) = RBRACE THEN Then(Bare(Adv(Ahead), "TUPLE"), <<>>)
     ELSE Then(Ahead, <<F("expression"), F("brace")>>)

Brace ==
  /\ At("brace")
  /\ LET c == Bare(cur, "TUPLE")
     IN  IF cur.ret = NULL THEN Then(cur, <<>>)
         ELSE Then([c EXCEPT !.ret = cur.ret], <<FLink(List("tuple", c.ret, RBRACE))>>)

(* The closing bracket of a tuple is in m.                                 *)
TupleRest ==
  /\ At("tuple")
  /\ IF Sees({COMMA}) THEN Then(Ahead, <<F("expression"), FLink(Top)>>)
     ELSE Then(Consume(Put(cur, Top.n, "elements", Top.head), Top.m), <<FGive(Top.n)>>)

(* parse_intrinsic_call takes every node for an ASTCall; in an ASTUnaryExpr*)
(* the operand is where the arguments would be.                            *)
IntrinsicCall ==
  /\ At("primary") /\ Tok(cur) \in DOMAIN Intrinsic
  /\ LET n == Bare(Ahead, Intrinsic[Tok(cur)])
         dot == Match(n, ".")
         named == Sees({"reg"}) /\ Tok(n) = "." /\ Tok(dot) = "id"
         id == Make(Adv(dot), "IDENTIFIER", [name |-> Word(dot.at)])
         c == IF named THEN [Put(id, n.ret, "callee", id.ret) EXCEPT !.ret = n.ret]
              ELSE IF Sees({"reg"}) THEN dot ELSE n
     IN  IF Tok(c) # "(" THEN Then(c, <<>>)
         ELSE Then(Adv(c), ArgsOf(Adv(c), n.ret, IF Sees({"cast"}) THEN "operand" ELSE "args"))

AiLogic ==
  /\ At("primary") /\ Sees({"??"})
  /\ LET asks == Tok(Ahead) \in {"str", "id"}
     IN  Then(Make(IF asks THEN Adv(Ahead) ELSE Ahead, "AI_LOGIC",
                   [query |-> IF asks THEN Word(Ahead.at) ELSE "auto"]), <<>>)

StartsPrimary ==
  {"num", "str", "chr", "id", "fn", "loop", "(", LBRACE, "??"} \union DOMAIN Intrinsic

NoExpression_Silent(c) == [c EXCEPT !.ret = NULL]

NoExpression(c) == Fails([c EXCEPT !.ret = NULL])

NotPrimary == At("primary") /\ ~Sees(StartsPrimary) /\ Then(NoExpression(cur), <<>>)

-------------------------------------------------------------------------------
(* Operators.  Every function gives up with NULL when an operand is NULL.  *)

Postfix == At("postfix") /\ Then(cur, <<F("primary"), F("postfixrest")>>)

PostfixRest ==
  /\ At("postfixrest")
  /\ LET again == <<F("postfixrest")>>
         call == Make(Ahead, "FUNC_CALL", [callee |-> cur.ret])
     IN  CASE cur.ret # NULL /\ Sees({"."}) ->
                IF Tok(Ahead) # "id" THEN Then(Fails(Ahead), again)
                ELSE Then(Make(Adv(Ahead), "MEMBER_ACCESS",
                               [object |-> cur.ret, member_name |-> Word(Ahead.at)]), again)
           [] cur.ret # NULL /\ Sees({"("}) ->
                Then(call, ArgsOf(call, call.ret, "args") \o again)
           [] cur.ret # NULL /\ Sees({"++", "--"}) ->
                Then(Make(Ahead, "POSTFIX_EXPR", [op |-> Tok(cur), operand |-> cur.ret]), again)
           [] OTHER -> Then(cur, <<>>)

Unary ==
  /\ At("unary")
  /\ IF Sees({"++", "--", "!", "-", "~"})
     THEN Then(Ahead, <<F("unary"), FNodeOp("unaryrest", NULL, Tok(cur))>>)
     ELSE Then(cur, <<F("postfix")>>)

UnaryRest ==
  /\ At("unaryrest")
  /\ Then(IF cur.ret = NULL THEN cur
          ELSE Make(cur, "UNARY_EXPR", [op |-> Top.op, operand |-> cur.ret]), <<>>)

(* The binary operators, level by level: the function for the operands,    *)
(* and whether one operator may follow another.                            *)
Level(ops, operand, again) == [ops |-> ops, operand |-> operand, again |-> again]

Binary_SumsFirst ==
  [range      |-> Level({".."}, "equality", FALSE),
   equality   |-> Level({"==", "!=", "===", "==!"}, "comparison", TRUE),
   comparison |-> Level({">", ">=", "<", "<="}, "additive", TRUE),
   additive   |-> Level({"*", "/"}, "term", TRUE),
   term       |-> Level({"+", "-"}, "unary", TRUE)]

Binary ==
  [range      |-> Level({".."}, "equality", FALSE),
   equality   |-> Level({"==", "!=", "===", "==!"}, "comparison", TRUE),
   comparison |-> Level({">", ">=", "<", "<="}, "additive", TRUE),
   additive   |-> Level({"+", "-"}, "term", TRUE),
   term       |-> Level({"*", "/"}, "unary", TRUE)]

BinaryExpr ==
  /\ stack # <<>> /\ Top.fn \in DOMAIN Binary /\ ~Lexing
  /\ Then(cur, <<F(Binary[Top.fn].operand), List("left", NULL, Top.fn)>>)

(* The level is in m.                                                      *)
LeftOperand ==
  /\ At("left")
  /\ IF cur.ret # NULL /\ Sees(Binary[Top.m].ops)
     THEN Then(Ahead, <<F(Binary[Top.m].operand),
                        [Top EXCEPT !.fn = "right", !.n = cur.ret, !.op = Tok(cur)]>>)
     ELSE Then(cur, <<>>)

Joined_LeftTwice(c, f) == Make(c, "BINARY_EXPR", [op |-> f.op, left |-> f.n, right |-> f.n])

Joined_Swapped(c, f) == Make(c, "BINARY_EXPR", [op |-> f.op, left |-> c.ret, right |-> f.n])

Joined(c, f) == Make(c, "BINARY_EXPR", [op |-> f.op, left |-> f.n, right |-> c.ret])

RightOperand ==
  /\ At("right")
  /\ IF cur.ret = NULL THEN Then(cur, <<>>)
     ELSE Then(Joined(cur, Top),
               IF Binary[Top.m].again THEN <<List("left", NULL, Top.m)>> ELSE <<>>)

-------------------------------------------------------------------------------
(* Flows: one operator, or one rolling retry, and its error handler.       *)

Pipes == {"->", "<<", ">>"}
FlowOps == {"?->", "!->", "=?>", "?=>"} \union Pipes

NexusFlow == At("flow") /\ Then(cur, <<F("range"), F("flowop")>>)

FlowOp ==
  /\ At("flowop")
  /\ CASE cur.ret = NULL -> Then(cur, <<>>)
       [] cur.ret # NULL /\ Sees(FlowOps) ->
            Then(Ahead, <<F("range"), FNodeOp("flowright", cur.ret, Tok(cur))>>)
       [] cur.ret # NULL /\ Sees({"?"}) ->
            LET n == Match(Adv(Ahead), "num")
                d == Match(Consume(n, COMMA), "num")
            IN  IF Tok(Ahead) # "(" THEN Then(Fails(Ahead), <<>>)
                ELSE Then(Lose(Consume(Consume(d, ")"), "->"), "retry"),
                          <<F("range"), FNodeOp("flowright", cur.ret, "->")>>)
       [] OTHER -> Then(cur, <<F("flowend")>>)

FlowRight ==
  /\ At("flowright")
  /\ IF cur.ret = NULL THEN Then(cur, <<>>)
     ELSE Then(Make(cur, IF Top.op \in Pipes THEN "NEXUS_PIPE" ELSE "NEXUS_FLOW",
                    [op |-> Top.op, left |-> Top.n, right |-> cur.ret]), <<F("flowend")>>)

(* What is unpacked is given up for the flow that follows.                 *)
FlowEnd ==
  /\ At("flowend")
  /\ LET flow == TypeOf(cur.ret) \in {"NEXUS_FLOW", "NEXUS_PIPE"}
     IN  CASE Sees({"...>"}) -> Then(Lose(Ahead, "unpack"), <<F("flow")>>)
           [] Sees({"(e)"}) ->
                IF flow THEN Then(Ahead, <<F("block"), FSet(cur.ret, "catch_block")>>)
                ELSE Then(Fails(Ahead), <<>>)
           [] OTHER -> Then(cur, <<>>)

Assignment == At("expression") /\ Then(cur, <<F("flow"), F("assign")>>)

Assign ==
  /\ At("assign")
  /\ LET ops == {"=", "!!="}
         capture == Make(Ahead, "NEXUS_CAPTURE", [handler_name |-> cur.nodes[cur.ret].at["name"]])
     IN  CASE cur.ret # NULL /\ Sees({"<-"}) ->
                IF TypeOf(cur.ret) # "IDENTIFIER" THEN Then(Fails(Ahead), <<>>)
                ELSE Then(capture, <<F("expression"), FSet(capture.ret, "expr")>>)
           [] cur.ret # NULL /\ Sees(ops) ->
                Then(Ahead, <<F("expression"), FNodeOp("assigned", cur.ret, Tok(cur))>>)
           [] OTHER -> Then(cur, <<>>)

Assigned ==
  /\ At("assigned")
  /\ Then(IF cur.ret = NULL THEN cur
          ELSE Make(cur, "ASSIGNMENT", [op |-> Top.op, left |-> Top.n, right |-> cur.ret]), <<>>)

-------------------------------------------------------------------------------
(* Declarations.                                                           *)

TypeTokens == {"type", "id"}
KindOf(t) ==
  CASE t \in {"struct", "struct:"} -> "STRUCT_DECL"
    [] t \in {"union", "union:"}   -> "UNION_DECL"
    [] t \in {"enum", "enum:"}     -> "ENUM_DECL"
    [] OTHER                       -> "none"
KindTokens == {"struct", "struct:", "union", "union:", "enum", "enum:"}

(* parse_var_decl, behind the v: or c:.                                    *)
VarDecl ==
  /\ At("vardecl")
  /\ LET attached == Len(Spelled(cur.prev)) > 2
         id == IF attached \/ Sees({"id"}) THEN cur ELSE Fails(cur)
         c == Make(IF attached THEN id ELSE Match(id, "id"), "VAR_DECL",
                   [name |-> IF attached THEN Word(cur.prev)
                             ELSE IF Sees({"id"}) THEN Word(cur.at) ELSE Zero])
         a == Adv(c)
         n == c.ret
         typed == Put(a, n, "type_name", Word(a.at))
         body == Bare(Adv(Adv(typed)), KindOf(Tok(a)))
     IN  CASE Tok(c) # "!" -> Then(c, <<FNode("init", n)>>)
           [] Tok(c) = "!" /\ Tok(a) \in {"struct", "union"} ->
                IF Tok(Adv(a)) # LBRACE THEN Then(Adv(typed), <<FNode("init", n)>>)
                ELSE Then(body, <<List("fields", body.ret, NoName), FSet(n, "inline_type"),
                                  FNode("init", n)>>)
           [] Tok(c) = "!" /\ Tok(a) \in TypeTokens -> Then(Adv(typed), <<FNode("init", n)>>)
           [] OTHER -> Then(Fails(a), <<FNode("init", n)>>)

VarInit ==
  /\ At("init")
  /\ IF Sees({"="}) THEN Then(Ahead, <<F("expression"), FSet(Top.n, "initializer")>>)
     ELSE Then([cur EXCEPT !.ret = Top.n], <<>>)

(* The fields of a struct or union, behind its brace.  The comma between   *)
(* two is one of the tokens that are passed over, whatever they are.       *)
Fields ==
  /\ At("fields")
  /\ CASE Sees({RBRACE, "EOF"}) ->
            Then(Consume(Put(cur, Top.n, "fields", Top.head), RBRACE), <<FGive(Top.n)>>)
       [] Sees({"v:"}) -> Then(Ahead, <<F("vardecl"), FLink(Top)>>)
       [] OTHER -> Then(Skip(cur, "field"), <<Top>>)

Variants ==
  /\ At("variants")
  /\ LET v == Make(Ahead, "ENUM_VARIANT", [name |-> Word(cur.at)])
         data == IF Tok(Adv(v)) = ")" THEN <<>> ELSE <<List("params", v.ret, "data")>>
     IN  CASE Sees({RBRACE, "EOF"}) ->
                Then(Consume(Put(cur, Top.n, "variants", Top.head), RBRACE), <<FGive(Top.n)>>)
           [] Sees({"id"}) ->
                IF Tok(v) # "(" THEN Then(v, <<FLink(Top)>>)
                ELSE Then(Adv(v), data \o <<FExpect(")"), FGive(v.ret), FLink(Top)>>)
           [] OTHER -> Then(Skip(cur, "variant"), <<Top>>)

(* The list of parameters of a function, or of the fields of a variant,    *)
(* whose types are not optional.                                           *)
Params ==
  /\ At("params")
  /\ LET data == Top.m = "data"
         p == Make(Ahead, "VAR_DECL", [name |-> Word(cur.at)])
         t == IF data THEN Consume(p, "!") ELSE Match(p, "!")
         typed == CASE Tok(t) \in TypeTokens -> Adv(Put(t, p.ret, "type_name", Word(t.at)))
                    [] Tok(t) \notin TypeTokens /\ data -> Fails(t)
                    [] OTHER -> t
         c == IF Sees({"id"}) THEN LinkNode(typed, Top, p.ret) ELSE Fails(cur)
         f == IF Sees({"id"}) THEN Linked(Top, p.ret) ELSE Top
     IN  IF Tok(c) = COMMA THEN Then(Adv(c), <<f>>)
         ELSE Then(Put(c, f.n, f.m, f.head), <<>>)

(* parse_func_decl, behind f:, which has a name or not.                    *)
Function ==
  /\ At("function")
  /\ LET attached == toks[cur.prev].type = "f:"
         c == Make(IF attached THEN cur ELSE Match(cur, "id"), "FUNC_DECL",
                   [name |-> IF attached THEN Word(cur.prev)
                             ELSE IF Sees({"id"}) THEN Word(cur.at) ELSE Zero])
         p == Consume(c, "(")
     IN  Then(p, (IF Tok(p) = ")" THEN <<>> ELSE <<List("params", c.ret, "params")>>)
                   \o <<FExpect(")"), FNode("funcrest", c.ret)>>)

FunctionRest ==
  /\ At("funcrest")
  /\ LET bang == Match(cur, "!")
         t == IF Tok(bang) \in TypeTokens
              THEN Adv(Put(bang, Top.n, "return_type", Word(bang.at)))
              ELSE IF Sees({"!"}) THEN Fails(bang) ELSE bang
     IN  IF Sees({">"}) THEN Then(Ahead, <<F("expression"), FNode("lambda", Top.n)>>)
         ELSE Then(Consume(t, LBRACE), <<F("block"), FSet(Top.n, "body")>>)

(* A lambda: > expr, which becomes a block with one return.                *)
Lambda ==
  /\ At("lambda")
  /\ LET r == Make(cur, "RETURN", [op |-> "ret", operand |-> cur.ret])
         b == Make(r, "BLOCK", [statements |-> r.ret])
     IN  Then(IF cur.ret = NULL THEN cur
              ELSE [Put(b, Top.n, "body", b.ret) EXCEPT !.ret = Top.n], <<>>)

Block ==
  /\ At("block")
  /\ LET b == Bare(cur, "BLOCK") IN Then(b, <<List("statements", b.ret, NoName)>>)

Statements ==
  /\ At("statements")
  /\ IF Sees({RBRACE, "EOF"})
     THEN Then(Put(Consume(cur, RBRACE), Top.n, "statements", Top.head), <<FGive(Top.n)>>)
     ELSE Then(cur, <<F("statement"), FLink(Top)>>)

(* parse_struct_decl, parse_union_decl, parse_enum_decl: the type is in op,*)
(* the name in m, unless the token before has it or it follows.            *)
TypeDecl ==
  /\ At("type")
  /\ LET given == Top.m # NoName \/ toks[cur.prev].type \in {"struct:", "union:", "enum:"}
         colon == Match(cur, ":")
         name == IF Top.m # NoName THEN Top.m ELSE IF given THEN Word(cur.prev)
                 ELSE IF Tok(colon) = "id" THEN Word(colon.at) ELSE Zero
         c == IF given THEN cur
              ELSE IF Tok(colon) # "id" /\ Top.op = "STRUCT_DECL" THEN Fails(colon)
              ELSE Match(colon, "id")
         d == Make(c, Top.op, [name |-> name])
     IN  Then(Consume(d, LBRACE),
              <<List(IF Top.op = "ENUM_DECL" THEN "variants" ELSE "fields", d.ret, NoName)>>)

-------------------------------------------------------------------------------
(* nt: and the struct, union, enum or name written with it, if any.        *)

Bareword == Len(Spelled(cur.prev)) = 2
NewKind  == IF Bareword THEN KindOf(Tok(cur)) ELSE KindOf(Spelled(cur.prev)[3])

(* nt:struct:Name.                                                         *)
NewTypeNamed ==
  /\ At("newtype") /\ NewKind # "none" /\ ~Bareword /\ Len(Spelled(cur.prev)) > 3
  /\ Then(cur, <<FType(NewKind, Word(cur.prev))>>)

(* nt:struct, nt: struct, nt: struct:Name, each with the name in front of  *)
(* the braces or behind.                                                   *)
NewTypeOfKind ==
  /\ At("newtype") /\ NewKind # "none" /\ (Bareword \/ Len(Spelled(cur.prev)) = 3)
  /\ LET c == IF Bareword THEN Ahead ELSE cur
         attached == Bareword /\ Sees({"struct:", "union:", "enum:"})
         colon == Match(c, ":")
         named == Tok(colon) = "id"
         d == Bare(Adv(c), NewKind)
         fn == IF NewKind = "ENUM_DECL" THEN "plainvariants" ELSE "fields"
     IN  CASE attached -> Then(c, <<FType(NewKind, Word(cur.at))>>)
           [] ~attached /\ Tok(c) = LBRACE ->
                Then(d, <<List(fn, d.ret, NoName), FNode("cname", d.ret)>>)
           [] OTHER -> Then(Match(colon, "id"),
                            <<FType(NewKind, IF named THEN Word(colon.at) ELSE NoName)>>)

(* What a variant carries is passed over here.                             *)
PlainVariants ==
  /\ At("plainvariants")
  /\ LET v == Make(Ahead, "ENUM_VARIANT", [name |-> Word(cur.at)])
     IN  CASE Sees({RBRACE, "EOF"}) ->
                Then(Consume(Put(cur, Top.n, "variants", Top.head), RBRACE), <<FGive(Top.n)>>)
           [] Sees({"id"}) ->
                IF Tok(v) # "(" THEN Then(v, <<FLink(Top)>>)
                ELSE Then(Adv(v), <<F("skipdata"), FLink(Top)>>)
           [] OTHER -> Then(Skip(cur, "variant"), <<Top>>)

SkipData ==
  /\ At("skipdata")
  /\ IF Sees({")", "EOF"}) THEN Then(Consume(cur, ")"), <<>>)
     ELSE Then(Lose(Ahead, "variant"), <<Top>>)

NameBehind ==
  /\ At("cname")
  /\ LET c == IF Sees({"id"}) THEN Put(Ahead, Top.n, "name", Word(cur.at)) ELSE Fails(cur)
     IN  Then([Consume(Lose(c, "place"), SEMICOLON) EXCEPT !.ret = Top.n], <<>>)

(* nt:Name = type; with a blank behind nt: the buffer of the name has been *)
(* freed when it is copied, and is freed again.                            *)
NewTypeAlias ==
  /\ At("newtype") /\ NewKind = "none" /\ ~Bareword
  /\ LET c == Consume(cur, "=")
         t == IF Tok(c) \in TypeTokens THEN Adv(c) ELSE c
         n == Make(t, "NEWTYPE_DECL", [name |-> Word(cur.prev), target_type |-> Word(t.prev)])
     IN  Then(Consume(n, SEMICOLON), <<>>)

NewTypeFreed == At("newtype") /\ NewKind = "none" /\ Bareword /\ Crash("freed")

-------------------------------------------------------------------------------
(* Groups.                                                                 *)

Group ==
  /\ At("group")
  /\ LET c == Make(Match(cur, "id"), "GROUP_DECL",
                   [name |-> IF Sees({"id"}) THEN Word(cur.at) ELSE Zero])
     IN  Then(Consume(c, LBRACE), <<List("members", c.ret, NoName)>>)

IsMethod == Sees({"id"}) /\ PeekToken(cur, 1) = "=>"

Method ==
  /\ At("members") /\ IsMethod
  /\ LET c == Make(Adv(Ahead), "METHOD", [public_name |-> Word(cur.at)])
         rest == <<F("optsemi"), FLink(Top)>>
     IN  IF Tok(c) \in {"fn", "f:"}
         THEN Then(Adv(c), <<F("function"), FSet(c.ret, "implementation")>> \o rest)
         ELSE Then(Fails(c), rest)

GroupMember ==
  /\ At("members") /\ ~IsMethod
  /\ LET packed == Tok(Ahead) \in {"struct", "struct:"}
     IN  CASE Sees({RBRACE, "EOF"}) ->
                Then(Put(Consume(cur, RBRACE), Top.n, "members", Top.head), <<FGive(Top.n)>>)
           [] Sees(KindTokens) -> Then(Ahead, <<FType(KindOf(Tok(cur)), NoName), FLink(Top)>>)
           [] Sees({"!"}) /\ packed -> Then(Adv(Ahead), <<FType("STRUCT_DECL", NoName), FLink(Top)>>)
           [] Sees({"v:", "c:"}) ->
                Then(Ahead, <<F("vardecl"), FExpect(SEMICOLON), FLink(Top)>>)
           [] Sees({"fn", "f:"}) -> Then(Ahead, <<F("function"), FLink(Top)>>)
           [] OTHER -> Then(Skip(cur, "member"), <<Top>>)

-------------------------------------------------------------------------------
(* Statements.                                                             *)

(* A semicolon alone; else exp and pup are passed over.                    *)
Statement ==
  /\ At("statement")
  /\ IF Sees({SEMICOLON}) THEN Then(Bare(Ahead, "BLOCK"), <<>>)
     ELSE Then(Match(Match(cur, "exp"), "pup"), <<F("declaration")>>)

Declares == {"use", "defer", "ret", "v:", "c:", "fn", "f:", "struct", "struct:", "group"}

Declaration ==
  /\ At("declaration") /\ Sees(Declares)
  /\ Then(Ahead, CASE Sees({"use"})           -> <<F("use")>>
                   [] Sees({"defer"})         -> <<F("defer")>>
                   [] Sees({"ret"})           -> <<F("return")>>
                   [] Sees({"v:", "c:"})      -> <<F("vardecl"), FExpect(SEMICOLON)>>
                   [] Sees({"fn", "f:"})      -> <<F("function"), F("flags")>>
                   [] Sees({"struct", "struct:"}) -> <<FType("STRUCT_DECL", NoName)>>
                   [] Sees({"group"})         -> <<F("group")>>)

(* The flags of a function are set without a look at the pointer.          *)
Flags == At("flags") /\ IF cur.ret = NULL THEN Crash("null") ELSE Then(cur, <<>>)

(* use a, b as c; the name is that of the token before, an identifier or   *)
(* not.                                                                    *)
Use ==
  /\ At("use")
  /\ LET c == Consume(cur, "id")
         u == Make(c, "USE", [module_name |-> Word(c.prev)])
         as == Consume(Adv(u), "id")
         d == IF Tok(u) = "as" THEN Put(as, u.ret, "alias", Word(as.prev)) ELSE u
         e == LinkNode(d, Top, u.ret)
         f == Linked(Top, u.ret)
     IN  IF Tok(e) = COMMA THEN Then(Adv(e), <<f>>)
         ELSE Then([Consume(e, SEMICOLON) EXCEPT !.ret = f.head], <<>>)

Defer ==
  /\ At("defer")
  /\ LET d == Bare(cur, "DEFER")
     IN  IF Sees({LBRACE}) THEN Then(Adv(d), <<F("block"), FSet(d.ret, "body")>>)
         ELSE Then(d, <<F("statement"), FSet(d.ret, "body")>>)

Return ==
  /\ At("return")
  /\ LET r == Make(cur, "RETURN", [op |-> "ret"])
     IN  IF Sees({SEMICOLON}) THEN Then(Adv(r), <<>>)
         ELSE Then(r, <<F("expression"), FSet(r.ret, "operand"), FExpect(SEMICOLON)>>)

(* (name)>{ ... }, which takes four tokens to tell from an expression.     *)
IsThread ==
  /\ Sees({"("}) /\ PeekToken(cur, 1) = "id" /\ PeekToken(cur, 2) = ")"
  /\ PeekToken(cur, 3) = THREAD_BLOCK

ThreadBlock ==
  /\ At("declaration") /\ IsThread
  /\ LET tb == Make(Adv(Adv(Adv(Ahead))), "THREAD_BLOCK", [name |-> Word(Ahead.at)])
     IN  Then(tb, <<F("block"), FSet(tb.ret, "body")>>)

(* Behind a !: a packed struct, a listener, or else the ! is dropped.      *)
Packed ==
  /\ At("declaration") /\ Sees({"!"}) /\ Tok(Ahead) \in {"struct", "struct:"}
  /\ Then(Adv(Ahead), <<FType("STRUCT_DECL", NoName)>>)

Listens(c) ==
  /\ Tok(c) = "(" /\ PeekToken(c, 1) = "id" /\ Word(c.at + 1) \in Listeners

Listen ==
  /\ At("declaration") /\ Sees({"!"}) /\ Listens(Ahead)
  /\ LET c == Consume(Consume(Adv(Adv(Ahead)), ")"), ":")
         l == Make(Lose(c, "listener"), "LISTEN", [handler_name |-> "global_listener"])
     IN  IF Tok(l) = LBRACE THEN Then(Adv(l), <<F("block"), FSet(l.ret, "expr")>>)
         ELSE Then(l, <<F("statement"), FSet(l.ret, "expr")>>)

Command ==
  /\ At("declaration") /\ ~Sees(Declares) /\ ~IsThread
  /\ ~(Sees({"!"}) /\ (Tok(Ahead) \in {"struct", "struct:"} \/ Listens(Ahead)))
  /\ Then(IF Sees({"!"}) THEN Lose(Ahead, "not") ELSE cur, <<F("command")>>)

TypeCommand ==
  /\ At("command") /\ Sees({"enum", "enum:", "union", "union:"})
  /\ Then(Ahead, <<FType(KindOf(Tok(cur)), NoName)>>)

NewType    == At("command") /\ Sees({"nt:"}) /\ Then(Ahead, <<F("newtype")>>)
LateGroup  == At("command") /\ Sees({"group"}) /\ Then(Ahead, <<F("group")>>)
BareBlock  == At("command") /\ Sees({LBRACE}) /\ Then(Ahead, <<F("block")>>)

(* ?>(label); without a label the rest of the tests is made all the same.  *)
Jump ==
  /\ At("command") /\ Sees({"?>"})
  /\ LET p == Consume(Ahead, "(")
         j == Make(Adv(p), "NEXUS_JUMP", [label_name |-> Word(p.at)])
     IN  IF Tok(p) = "id" THEN Then(Consume(Consume(j, ")"), SEMICOLON), <<>>)
         ELSE Then(Fails(p), <<F("control")>>)

NoCommand ==
  /\ At("command")
  /\ ~Sees({"enum", "enum:", "union", "union:", "nt:", "group", LBRACE, "?>"})
  /\ Then(cur, <<F("control")>>)

(* ?; is one token, so a semicolon of its own must follow.                 *)
Halt ==
  /\ At("control") /\ Sees({HALT})
  /\ LET h == Bare(Ahead, "NEXUS_HALT")
     IN  IF Tok(h) = SEMICOLON THEN Then(Adv(h), <<>>)
         ELSE Then(h, <<F("expression"), FSet(h.ret, "expr"), FExpect(SEMICOLON)>>)

Intent ==
  /\ At("control") /\ Sees({"@"})
  /\ LET n == Match(Ahead, "id")
         i == Make(n, "NEXUS_INTENT",
                   [intent_name |-> IF Tok(Ahead) = "id" THEN Word(Ahead.at) ELSE Zero])
     IN  IF Tok(i) = "("
         THEN Then(Adv(i), <<F("expression"), FSet(i.ret, "target"), FExpect(")"), F("optsemi")>>)
         ELSE Then(i, <<F("optsemi")>>)

PanicNow ==
  /\ At("control") /\ Sees({"!!"})
  /\ LET says == Tok(Ahead) = "str"
     IN  Then(Make(Consume(Match(Ahead, "str"), SEMICOLON), "PANIC",
                   [message |-> IF says THEN Word(Ahead.at) ELSE "Critical Panic"]), <<>>)

ExpressionStatement ==
  /\ At("control") /\ ~Sees({HALT, "@", "!!"}) /\ Then(cur, <<F("expression"), F("exprrest")>>)

(* What stands before :> is a label; loops and flows need no semicolon.    *)
ExpressionRest ==
  /\ At("exprrest")
  /\ CASE cur.ret = NULL -> Then(cur, <<>>)
       [] cur.ret # NULL /\ Sees({":>"}) ->
            Then(Ahead, <<[FNode("unwrap", cur.ret) EXCEPT !.head = cur.ret]>>)
       [] OTHER -> Then(IF TypeOf(cur.ret) \in {"LOOP", "NEXUS_FLOW"} THEN cur
                        ELSE Consume(cur, SEMICOLON), <<>>)

(* The label of a tuple of one is its element; a tuple of any other length *)
(* is looked at again and again.                                           *)
Unwraps(n) ==
  LET e == cur.nodes[n].at["elements"] IN e # NULL /\ cur.nodes[e].at["next"] = NULL

Unwrap ==
  /\ At("unwrap") /\ TypeOf(Top.head) = "TUPLE"
  /\ Then(cur, <<IF Unwraps(Top.head) THEN [Top EXCEPT !.head = cur.nodes[@].at["elements"]]
                 ELSE Top>>)

Label ==
  /\ At("unwrap") /\ TypeOf(Top.head) # "TUPLE"
  /\ LET names == [IDENTIFIER |-> "name", LITERAL |-> "string_value"]
         t == TypeOf(Top.head)
         l == Make(cur, "NEXUS_LABEL", [label_name |-> cur.nodes[Top.head].at[names[t]]])
     IN  CASE t \notin DOMAIN names -> Then([Fails(cur) EXCEPT !.ret = Top.n], <<>>)
           [] t \in DOMAIN names /\ Sees({LBRACE}) ->
                Then(Adv(l), <<F("block"), FSet(l.ret, "statement")>>)
           [] t \in DOMAIN names /\ Sees({"EOF", RBRACE}) -> Then(l, <<>>)
           [] OTHER -> Then(l, <<F("statement"), FSet(l.ret, "statement")>>)

-------------------------------------------------------------------------------
(* parser_run, and the calls of main behind it.                            *)

Run ==
  /\ At("run")
  /\ LET p == Bare(Adv(cur), "PROGRAM") IN Then(p, <<List("program", p.ret, NoName)>>)

Program ==
  /\ At("program")
  /\ IF ~Sees({"EOF"}) THEN Then(cur, <<F("statement"), FLink(Top)>>)
     ELSE Then(Put(cur, Top.n, "statements", Top.head),
               IF cur.bad THEN <<F("destroy")>> ELSE <<F("compile"), F("destroy")>>)

(* semantic_check may find errors, which end the compilation.              *)
SemanticErrors == At("compile") /\ Then(cur, <<>>)
Compile == At("compile") /\ Then([cur EXCEPT !.asm = Code(cur.nodes, 1)], <<>>)

(* parser_destroy follows ast_root, which only a parse without errors sets:*)
(* parser_init leaves in it what malloc returned.                          *)
DestroyTree == At("destroy") /\ Then(cur, <<>>)
DestroyJunk == At("destroy") /\ cur.bad /\ Crash("root")

Parse ==
  \/ Expect \/ OptSemi \/ Give \/ SetChild \/ Link \/ Argument
  \/ LiteralExpr \/ IdentifierExpr \/ LambdaExpr \/ LoopExpr \/ LoopKind \/ LoopBody
  \/ InfiniteLoop \/ Parenthesis \/ Paren \/ BraceTuple \/ Brace \/ TupleRest
  \/ IntrinsicCall \/ AiLogic \/ NotPrimary
  \/ Postfix \/ PostfixRest \/ Unary \/ UnaryRest \/ BinaryExpr \/ LeftOperand \/ RightOperand
  \/ NexusFlow \/ FlowOp \/ FlowRight \/ FlowEnd \/ Assignment \/ Assign \/ Assigned
  \/ VarDecl \/ VarInit \/ Fields \/ Variants \/ Params \/ Function \/ FunctionRest \/ Lambda
  \/ Block \/ Statements \/ TypeDecl \/ NewTypeNamed \/ NewTypeOfKind \/ PlainVariants
  \/ SkipData \/ NameBehind \/ NewTypeAlias \/ NewTypeFreed \/ Group \/ Method \/ GroupMember
  \/ Statement \/ Declaration \/ Flags \/ Use \/ Defer \/ Return \/ ThreadBlock \/ Packed
  \/ Listen \/ Command \/ TypeCommand \/ NewType \/ LateGroup \/ BareBlock \/ Jump \/ NoCommand
  \/ Halt \/ Intent \/ PanicNow \/ ExpressionStatement \/ ExpressionRest \/ Unwrap \/ Label
  \/ Run \/ Program \/ SemanticErrors \/ Compile \/ DestroyTree \/ DestroyJunk

Next == (NextToken /\ UNCHANGED <<cur, stack>>) \/ Parse

Spec == Init /\ [][Next]_vars /\ WF_vars(Next)

-------------------------------------------------------------------------------
Accepted == Done /\ cur.crash = "no" /\ ~cur.bad

(* A NULL instead of a node always comes with a reported error: the parser *)
(* follows one only in a program with an error, and a program without an   *)
(* error has no operator, call, function, loop or handler that lacks a     *)
(* part, which semantic_check and codegen_node do not look for.            *)
Needs(type) ==
  CASE type \in {"BINARY_EXPR", "ASSIGNMENT", "NEXUS_FLOW", "NEXUS_PIPE"} -> {"left", "right"}
    [] type \in {"UNARY_EXPR", "POSTFIX_EXPR"} -> {"operand"}
    [] type = "FUNC_CALL" -> {"callee"}
    [] type = "MEMBER_ACCESS" -> {"object"}
    [] type \in {"FUNC_DECL", "LOOP", "DEFER", "THREAD_BLOCK"} -> {"body"}
    [] type \in {"NEXUS_CAPTURE", "LISTEN"} -> {"expr"}
    [] type = "METHOD" -> {"implementation"}
    [] OTHER -> {}

NullMeansError ==
  /\ cur.crash = "null" => cur.bad
  /\ Accepted => \A i \in DOMAIN cur.nodes : \A m \in Needs(cur.nodes[i].type) :
                   cur.nodes[i].at[m] # NULL

(* ast_destroy frees what each pointer leads to: in an accepted program no *)
(* node is reached by two, and all are reached but the operands that are   *)
(* copied into a label or a capture and what is known to be lost.          *)
Owners(n) ==
  {p \in (DOMAIN cur.nodes) \X Pointers :
     p[2] \in DOMAIN cur.nodes[p[1]].at /\ cur.nodes[p[1]].at[p[2]] = n}

OneOwner ==
  Accepted =>
    \A n \in DOMAIN cur.nodes \ {1} :
      \/ Cardinality(Owners(n)) = 1
      \/ Owners(n) = {} /\ (cur.lost # {} \/ TypeOf(n) \in {"IDENTIFIER", "LITERAL", "TUPLE"})

(* The tree of an accepted program has every word and operator of the      *)
(* source, in its order, unless a part is known to be lost: the parser     *)
(* skips, drops and swaps nothing.  Only the list of a use loses its rest  *)
(* when the next statement is linked (parser.c:1095, 1810), only panic has *)
(* no room for arguments, and only a second handler, behind a flow in      *)
(* parentheses that has one, takes the place of a node (parser.c:795).     *)
(* Operators that also stand for something else are not compared.          *)
Ambiguous == {"=", "!", ">", "->"}
Compared ==
  (UNION {Binary[l].ops : l \in DOMAIN Binary} \union FlowOps \union {"!!=", "++", "--", "~"})
    \ Ambiguous

Reads(type) ==
  CASE type \in {"BINARY_EXPR", "ASSIGNMENT"} -> <<"left", "op", "right">>
    [] type \in {"NEXUS_FLOW", "NEXUS_PIPE"} -> <<"left", "op", "right", "catch_block">>
    [] type = "UNARY_EXPR" -> <<"op", "operand">>
    [] type = "POSTFIX_EXPR" -> <<"operand", "op">>
    [] type = "VAR_DECL" -> <<"name", "type_name", "inline_type", "initializer">>
    [] type = "LOOP" -> <<"init", "variable", "condition", "increment", "collection", "body">>
    [] OTHER -> LET kept(m) == m \in Strings \union Pointers
                IN  SelectSeq(Members[StructOf(type)], kept)

Reading ==
  LET unread == {Zero, "struct", "union", "auto", "Critical Panic"} \union Ambiguous
      read[n \in 0..Len(cur.nodes), list \in BOOLEAN] ==
        LET at == cur.nodes[n].at
            part(m) == CASE m \in Pointers -> read[at[m], TRUE]
                         [] m \notin Pointers -> IF at[m] \in unread THEN <<>> ELSE <<at[m]>>
            order == Reads(cur.nodes[n].type)
            upto[i \in 0..Len(order)] == IF i = 0 THEN <<>> ELSE upto[i - 1] \o part(order[i])
        IN  CASE n = NULL -> <<>>
              [] list -> read[n, FALSE] \o read[at["next"], TRUE]
              [] OTHER -> upto[Len(order)]
  IN  read[1, FALSE]

SourceWords ==
  LET word(t) == \/ t.type \in {"id", "num", "str", "chr", "type"} \union Compared
                 \/ /\ t.type \in Range(PrefixType) /\ t.next - t.from > 2
                    /\ ~(t.type = "nt:" /\ t.val \in {"struct", "union", "enum"})
      ts == SelectSeq(toks, word)
  IN  [i \in DOMAIN ts |-> ts[i].val]

ListedUse ==
  \E i, j \in DOMAIN toks : /\ i < j /\ toks[i].type = "use" /\ toks[j].type = COMMA
                           /\ \A k \in i..j : toks[k].type # SEMICOLON

ReadsBack ==
  Accepted =>
    /\ cur.lost = {} => Reading = SourceWords
    /\ cur.lost \intersect Pointers \subseteq {"next", "args", "catch_block"}
    /\ "next" \in cur.lost => ListedUse
    /\ "args" \in cur.lost => \E i \in DOMAIN toks : toks[i].type = "panic"
    /\ "catch_block" \in cur.lost =>
         \E i \in 2..Len(toks) : toks[i].type = "(e)" /\ toks[i - 1].type = ")"

(* The arithmetic operators bind as in arithmetic, tighter than comparisons*)
(* and these tighter than flows and assignments: an operand outside        *)
(* parentheses binds tighter than its operator or, on the left of a binary *)
(* one that may be repeated, as tight.  With ReadsBack this leaves one tree*)
(* for an expression.                                                      *)
Ranks ==
  <<{".."}, {"==", "!=", "===", "==!"}, {">", ">=", "<", "<="}, {"+", "-"}, {"*", "/"}>>

Rank(n) ==
  LET type == TypeOf(n)
  IN  CASE type \in {"ASSIGNMENT", "NEXUS_CAPTURE"} -> 0
        [] type \in {"NEXUS_FLOW", "NEXUS_PIPE"} -> 1
        [] type = "BINARY_EXPR" ->
             1 + CHOOSE i \in DOMAIN Ranks : cur.nodes[n].at["op"] \in Ranks[i]
        [] type = "UNARY_EXPR" -> 7
        [] OTHER -> 8

Binds(n) == IF n \in cur.parens THEN 8 ELSE Rank(n)

GroupsByPrecedence ==
  Accepted =>
    \A n \in DOMAIN cur.nodes :
      LET at == cur.nodes[n].at
      IN  CASE Rank(n) = 0 /\ TypeOf(n) = "ASSIGNMENT" -> Binds(at["left"]) > 0
            [] Rank(n) \in {1, 2} -> Binds(at["left"]) > Rank(n) /\ Binds(at["right"]) > Rank(n)
            [] Rank(n) \in 3..6 -> Binds(at["left"]) >= Rank(n) /\ Binds(at["right"]) > Rank(n)
            [] Rank(n) = 7 -> Binds(at["operand"]) >= 7
            [] OTHER -> TypeOf(n) = "POSTFIX_EXPR" => Binds(at["operand"]) = 8

(* When the code of an arithmetic node of literals and arithmetic is at its*)
(* instruction, rax has what the code of its left operand computed and rbx *)
(* what that of its right one did, whatever both pushed and popped; a      *)
(* function returns with its operand's result in rax and nothing pushed.   *)
(* Which number that is, it does not say: see Step.                        *)
OperandsInPlace ==
  \A i \in DOMAIN cur.asm :
    cur.asm[i].op = "enter" =>
      LET m == Runs(cur.asm, i)
      IN  \A j \in DOMAIN m :
            LET ins == cur.asm[j]
                at  == cur.nodes[ins.n].at
            IN  /\ ins.op \in Range(Arithmetic) /\ Computable(cur.nodes, ins.n) =>
                     m[j].rax = at["left"] /\ m[j].rbx = at["right"]
                /\ ins.op = "leave" =>
                     /\ m[j].pushed = <<>>
                     /\ TypeOf(ins.n) = "RETURN" /\ Computable(cur.nodes, at["operand"]) =>
                          m[j].rax = at["operand"]

(* Every compilation ends, except in the label of a tuple of none or of    *)
(* more than one (parser.c:1747).                                          *)
Spins == At("unwrap") /\ TypeOf(Top.head) = "TUPLE" /\ ~Unwraps(Top.head)
HangsOnlyInTupleLabels == <>(Done \/ Spins)

===============================================================================
