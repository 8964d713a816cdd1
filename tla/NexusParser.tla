----------------------------- MODULE NexusParser -----------------------------
(***************************************************************************)
(* The recursive-descent parser (NexusParser.cpp) as a machine with an     *)
(* explicit stack.  A frame is what remains of an active function: its name*)
(* and the symbol id and path it still needs.  A step pops the top frame,  *)
(* runs that function up to its next call, and pushes what it calls and    *)
(* what it will do afterwards.  The parser's cursor is a record that the   *)
(* helpers (consume, addSymbol, emit, ...) map to a new one.               *)
(*                                                                         *)
(* Tokens are [t, v, line]: type, value and where; a type is written as    *)
(* the text the lexer makes it from, "id", "num", or (SINGLE_LINE_RET,     *)
(* asm:) as a name when no text is lexed to it.  An expression counts only *)
(* by where getExprRaw stops; of the error list only whether it is empty   *)
(* is kept.  Lines and columns are taken to fit the 16 bits of an          *)
(* instruction: one that does not is dropped with an error (ParserSession).*)
(***************************************************************************)
EXTENDS SemanticRules, SequencesExt, TLC

CONSTANTS
  Sources,     \* the token sequences to parse, without the final EOF
  MaxCode      \* bound: a parser that has emitted more instructions is not followed

ASSUME SourcesAssumption == \A s \in Sources : s \in Seq([t : STRING, v : STRING, line : Nat])

VARIABLES
  toks,     \* tokens
  cur,      \* the parser's cursor, its writer and its error list
  stack     \* the active functions, innermost first

vars == <<toks, cur, stack>>

EOF == [t |-> "EOF", v |-> "<eof>", line |-> 1]

F(fn)         == [fn |-> fn, sid |-> 0, path |-> <<>>, op |-> "none"]
FSid(fn, sid) == [F(fn) EXCEPT !.sid = sid]
FPath(fn, p)  == [F(fn) EXCEPT !.path = p]
FEmit(op, s)  == [FSid("emit", s) EXCEPT !.op = op]
FExpect(t)    == [F("expect") EXCEPT !.op = t]
Frames(fns)   == [i \in DOMAIN fns |-> F(fns[i])]

(* pos: current.  sid: what addSymbol returned.  bad: hasErrors().  syms   *)
(* and code are the writer's.  params: a history for the properties, the   *)
(* ids declared as parameters.                                             *)
Fresh == [pos |-> 1, sid |-> 0, bad |-> FALSE, syms |-> <<>>, code |-> <<>>, params |-> {}]

Init ==
  /\ toks \in {Append(s, EOF) : s \in Sources}
  /\ cur = Fresh
  /\ stack = <<F("parse")>>

-------------------------------------------------------------------------------
(* Core utils, on a cursor.                                                *)

Tok(c)      == toks[c.pos].t
Val(c)      == <<toks[c.pos].v>>
AtEnd(c)    == Tok(c) = "EOF"
LookAhead(c) == toks[IF c.pos < Len(toks) THEN c.pos + 1 ELSE c.pos].t
Adv(c)      == IF AtEnd(c) THEN c ELSE [c EXCEPT !.pos = @ + 1]
Fails(c)    == [c EXCEPT !.bad = TRUE]
Consume(c, t) == IF Tok(c) = t THEN Adv(c) ELSE Fails(c)
TakeAny(c)  == IF AtEnd(c) THEN Fails(c) ELSE Adv(c)
Match(c, t) == IF Tok(c) = t THEN Adv(c) ELSE c
Semicolon(c) ==
  IF Tok(c) = ";" THEN Adv(c) ELSE IF Tok(c) \in {"}", "}?;", "EOF"} THEN c ELSE Fails(c)

(* Stop skipping at a major top-level boundary.                            *)
SyncStop == {"rules", "f:", "v:", "struct", "{", ";", "EOF"}
Synchronize_Returns(c) == c
Synchronize(c) ==
  [c EXCEPT !.pos = CHOOSE i \in c.pos..Len(toks) :
     /\ toks[i].t \in SyncStop
     /\ \A j \in c.pos..(i - 1) : toks[j].t \notin SyncStop]

HasName(c, name) == \E i \in DOMAIN c.syms : c.syms[i].name = name
IdOf(c, name)    == CHOOSE i \in DOMAIN c.syms : c.syms[i].name = name
NewId(c)         == Len(c.syms) + 1
AddSymbol_StaleId(c, prefix, name) ==
  IF HasName(c, name) THEN [c EXCEPT !.sid = NewId(c)]
  ELSE [c EXCEPT !.sid = NewId(c),
                 !.syms = Append(@, [id |-> NewId(c), prefix |-> prefix, name |-> name])]

AddSymbol(c, prefix, name) ==
  IF HasName(c, name) THEN [c EXCEPT !.sid = c.syms[IdOf(c, name)].id]
  ELSE [c EXCEPT !.sid = NewId(c),
                 !.syms = Append(@, [id |-> NewId(c), prefix |-> prefix, name |-> name])]

Emit2(c, op, sid, opd) == [c EXCEPT !.code = Append(@, Instruction(op, sid, opd))]
Emit(c, op, sid)       == Emit2(c, op, sid, 0)

-------------------------------------------------------------------------------
(* getExprRaw: an expression that starts at i ends at the first token that *)
(* would close a bracket it did not open or, outside all brackets, ends it.*)

FlowOps == {"<-", "->", "_>", "!->", "?(", "?->", "?=>", "=?>", "}?;", "?"}

Depth(i, j, open, close) ==
  Cardinality({k \in i..(j - 1) : toks[k].t = open})
    - Cardinality({k \in i..(j - 1) : toks[k].t \in close})
Parens(i, j)   == Depth(i, j, "(", {")"})
Brackets(i, j) == Depth(i, j, "[", {"]"})
Braces(i, j)   == Depth(i, j, "{", {"}", "}?;"})

EndsExpr(i, j, enders) ==
  LET t == toks[j].t IN
  \/ t = "EOF"
  \/ t = ")" /\ Parens(i, j) = 0
  \/ t = "]" /\ Brackets(i, j) = 0
  \/ t \in {"}", "}?;"} /\ Braces(i, j) = 0
  \/ /\ t \in enders
     /\ Parens(i, j) = 0 /\ Brackets(i, j) = 0 /\ Braces(i, j) = 0

RawEnd(i, enders) ==
  CHOOSE j \in i..Len(toks) :
    EndsExpr(i, j, enders) /\ \A k \in i..(j - 1) : ~EndsExpr(i, k, enders)

Raw(c)         == [c EXCEPT !.pos = RawEnd(c.pos, FlowOps \union {";"})]
RawNoComma(c)  == [c EXCEPT !.pos = RawEnd(c.pos, FlowOps \union {";", ","})]
Expression(c, sid) == Emit(Raw(c), "EXPR", sid)

(* countCommasInParen: the parenthesis that is open at i is not closed     *)
(* before the comma, and no other is open there.                           *)
Commas(i) ==
  Cardinality({j \in i..Len(toks) :
    /\ toks[j].t = "," /\ Parens(i, j) = 0
    /\ \A k \in i..(j - 1) : toks[k].t = ")" => Parens(i, k) > 0})

-------------------------------------------------------------------------------
Done == stack = <<>>
At(fn) == stack # <<>> /\ Head(stack).fn = fn
Sid    == Head(stack).sid
Path   == Head(stack).path

(* The function on top goes on with cursor c after calling fs.             *)
Then(c, fs) ==
  /\ Len(cur.code) <= MaxCode
  /\ cur' = c
  /\ stack' = fs \o Tail(stack)
  /\ UNCHANGED toks

(* The loops of the form: while (not closed and not at the end) body.      *)
Again(c, fs) == Then(c, Append(fs, Head(stack)))

EmitFrame   == At("emit") /\ Then(Emit(cur, Head(stack).op, Sid), <<>>)
ExpectFrame == At("expect") /\ Then(Consume(cur, Head(stack).op), <<>>)
ExprFrame   == At("expr") /\ Then(Expression(cur, Sid), <<>>)
AnyFrame    == At("any") /\ Then(TakeAny(cur), <<>>)
RawFrame    == At("raw") /\ Then(Raw(cur), <<>>)
RawToComma  == At("rawtocomma") /\ Then(RawNoComma(cur), <<>>)
SemiFrame   == At("semi") /\ Then(Semicolon(cur), <<>>)
OptSemi     == At("optsemi") /\ Then(Match(cur, ";"), <<>>)

-------------------------------------------------------------------------------
(* Dispatchers.                                                            *)

TopLevel ==
  [t \in {"!!=", "v:", "c:", "f:", "exf:", "group", "rules", "struct", "enum", "union",
          "nt:", "use", "import", ";"} |->
     CASE t = "!!=" -> <<"directives">>       [] t = "v:" -> <<"variable", "semi">>
       [] t = "c:" -> <<"constant", "semi">>  [] t = "f:" -> <<"function">>
       [] t = "exf:" -> <<"extern">>          [] t = "group" -> <<"group">>
       [] t = "rules" -> <<"rules">>          [] t \in {"use", "import"} -> <<"imports">>
       [] t = ";" -> <<"semi">>               [] OTHER -> <<"typedef">>]

Parse ==
  /\ At("parse")
  /\ IF AtEnd(cur) THEN Then(cur, <<>>)
     ELSE IF Tok(cur) \in DOMAIN TopLevel THEN Again(cur, Frames(TopLevel[Tok(cur)]))
     ELSE Again(Synchronize(Fails(cur)), <<>>)

StatementOf ==
  [t \in {"loop", "if", "select", "scan", "return", "break", "continue", "jump", "v:",
          "f:", "group", "apply", "on", "!!", "@", "unroll", "(", "fastexec", ";", "id"} |->
     CASE t = "loop" -> <<"loop">>            [] t = "if" -> <<"if">>
       [] t = "select" -> <<"select">>        [] t = "scan" -> <<"scan">>
       [] t = "return" -> <<"return">>        [] t \in {"break", "continue"} -> <<"leave", "semi">>
       [] t = "jump" -> <<"jump">>            [] t = "v:" -> <<"variable", "semi">>
       [] t = "f:" -> <<"function">>          [] t = "group" -> <<"group">>
       [] t = "apply" -> <<"apply", "semi">>  [] t = "on" -> <<"on">>
       [] t = "!!" -> <<"panic", "semi">>     [] t = "@" -> <<"intent", "semi">>
       [] t = "unroll" -> <<"unroll">>        [] t = "(" -> <<"handle", "optsemi">>
       [] t = "fastexec" -> <<"fastexec">>    [] t = ";" -> <<"semi">>
       [] t = "id" -> <<"identifier">>]

Statement ==
  /\ At("statement")
  /\ IF Tok(cur) \in DOMAIN StatementOf THEN Then(cur, Frames(StatementOf[Tok(cur)]))
     ELSE Then(Adv(Fails(cur)), <<>>)

Leave ==
  /\ At("leave")
  /\ Then(Emit(Adv(cur), IF Tok(cur) = "break" THEN "BREAK_LOOP" ELSE "CONTINUE_LOP", 0), <<>>)

Block == At("block") /\ Then(Consume(cur, "{"), Frames(<<"statements">>))

Statements ==
  /\ At("statements")
  /\ IF Tok(cur) \notin {"}", "}?;", "EOF"} THEN Again(cur, Frames(<<"statement">>))
     ELSE Then(IF Tok(cur) = "}?;" THEN Adv(cur) ELSE Consume(cur, "}"), <<>>)

(* A block if there is a brace, a statement if there is none.              *)
Body == At("body") /\ Then(cur, Frames(<<IF Tok(cur) = "{" THEN "block" ELSE "statement">>))

-------------------------------------------------------------------------------
(* Handles.                                                                *)

Handled(c) == <<"(">> \o Val(c) \o <<")">>

HandleExpression ==
  /\ At("handle")
  /\ LET c == Consume(cur, "(")
         s == AddSymbol(Consume(TakeAny(c), ")"), VAR, Handled(c))
     IN  Then(Emit(s, "DEF_VAR", s.sid), <<FSid("flow", s.sid), FSid("chain", s.sid)>>)

Flow ==
  /\ At("flow")
  /\ LET a == Adv(cur)
         expr == FSid("expr", Sid)
     IN  CASE Tok(cur) = "<-" -> Then(a, <<expr>>)
           [] Tok(cur) = "->" -> Then(a, <<IF Tok(a) = "f:" THEN F("function") ELSE expr,
                                           FEmit("PIPE", Sid)>>)
           [] Tok(cur) = "_>" -> Then(a, <<FSid("relocate", Sid)>>)
           [] Tok(cur) = "!->" -> Then(a, <<expr, FEmit("IGNORE", Sid)>>)
           [] Tok(cur) = "<<" -> Then(a, <<F("expr"), FEmit("ZONE_WRITE", Sid)>>)
           [] Tok(cur) = ">>" -> Then(a, <<F("expr"), FEmit("FLOW_FEED", Sid)>>)
           [] OTHER -> Then(cur, <<>>)

Relocate ==
  /\ At("relocate")
  /\ LET paren == Tok(cur) = "("
         a == Adv(cur)
         name == IF paren THEN Handled(a) ELSE Val(cur)
         s == AddSymbol(IF paren THEN Consume(TakeAny(a), ")") ELSE Consume(cur, "id"), VAR, name)
     IN  Then(Emit2(s, "RELOCATE", Sid, s.sid), <<>>)

Chain ==
  /\ At("chain")
  /\ CASE Tok(cur) = "?(" -> Again(cur, Frames(<<"rolling">>))
       [] Tok(cur) = "?" -> Again(Emit(Adv(cur), "HALT_FLOW", Sid), <<>>)
       [] Tok(cur) = "}?;" -> Again(Emit(Adv(cur), "CLEANUP", Sid), <<>>)
       [] Tok(cur) = "?->" -> Again(cur, Frames(<<"catch">>))
       [] Tok(cur) = "?=>" -> Again(cur, Frames(<<"fallback">>))
       [] OTHER -> Then(cur, <<>>)

Rolling ==
  /\ At("rolling")
  /\ Then(TakeAny(Adv(cur)), <<FExpect(","), F("any"), FExpect(")"), FEmit("ROLLING_RETRY", 0),
                              F("afterrolling")>>)

AfterRolling ==
  /\ At("afterrolling")
  /\ Then(cur, CASE Tok(cur) = "?=>" -> <<F("fallback")>>
                 [] Tok(cur) = "?->" -> <<F("catch")>>
                 [] OTHER -> <<>>)

Catch ==
  /\ At("catch")
  /\ LET a == Adv(cur)
         b == Adv(a)
         s == IF Tok(a) = "(" THEN AddSymbol(Consume(TakeAny(b), ")"), VAR, Val(b))
              ELSE AddSymbol(a, VAR, <<"e">>)
     IN  Then(Emit(s, "CATCH_ERR", s.sid), Frames(<<"body">>))

Fallback ==
  /\ At("fallback")
  /\ Then(Emit(Consume(TakeAny(Consume(Adv(cur), "(")), ")"), "FALLBACK", 0), <<>>)

-------------------------------------------------------------------------------
(* Loops: what stands in the parentheses decides between five of the six.  *)

LoopRange ==
  At("range") /\ Then(Emit(Adv(Adv(Adv(cur))), Head(stack).op, 0), <<>>)

LoopForeach ==
  /\ At("foreach")
  /\ LET n == TakeAny(Adv(cur))
         l == TakeAny(IF Val(n) = <<"in">> THEN Adv(n) ELSE Fails(n))
         s == AddSymbol(l, VAR, Val(Adv(cur)))
     IN  Then(Emit(s, Head(stack).op, s.sid), <<>>)

LoopRest_NeverEnds(kind) == Append(kind, F("block"))

LoopRest(kind) == kind \o <<F("block"), FEmit("LOOP_END", 0)>>

LoopInfinite ==
  At("loop") /\ LookAhead(cur) = "{" /\ Then(Emit(Adv(cur), "LOOP_INF", 0), LoopRest(<<>>))

LoopKind(c) ==
  LET cond == <<F("rawtocomma"), FExpect(",")>>
      isIn == \E i \in c.pos..Len(toks) :
                /\ toks[i].v = "in"
                /\ \A k \in c.pos..i : toks[k].line = toks[c.pos].line
      k == Commas(c.pos)
  IN  CASE Tok(c) = "num" /\ LookAhead(c) = ".." ->
             <<[F("range") EXCEPT !.op = "LOOP_RANGE"]>>
        [] Tok(c) = "v:" /\ isIn -> <<[F("foreach") EXCEPT !.op = "LOOP_FOREACH"]>>
        [] OTHER -> CASE k = 2 -> cond \o cond \o <<F("raw"), FEmit("LOOP_FOR", 0)>>
                      [] k = 1 -> cond \o <<F("raw"), FEmit("LOOP_WHILE_S", 0)>>
                      [] OTHER -> <<F("raw"), FEmit("LOOP_WHILE", 0)>>

Loop ==
  /\ At("loop") /\ LookAhead(cur) # "{"
  /\ Then(Consume(Adv(cur), "("), LoopRest(Append(LoopKind(Consume(Adv(cur), "(")), FExpect(")"))))

Unroll ==
  /\ At("unroll")
  /\ LET c == Consume(Consume(TakeAny(Consume(Adv(cur), "(")), ")"), "->")
     IN  Then(Emit(c, "EXPR", 0), Frames(<<"loop">>))

-------------------------------------------------------------------------------
(* Variables, functions.                                                   *)

Variable ==
  /\ At("variable")
  /\ LET n == Consume(Adv(cur), "id")
         s == AddSymbol(n, VAR, Val(Adv(cur)))
         d == Emit(s, "DEF_VAR", s.sid)
         l == IF Tok(d) = "!" THEN Emit(TakeAny(Adv(d)), "HARD_LOCK", s.sid) ELSE d
         b == Adv(l)
         r == IF Tok(l) # "[" THEN l
              ELSE IF Tok(b) = "]" THEN Emit(Adv(b), "EXPR", s.sid)
              ELSE Emit(Consume(Raw(b), "]"), "EXPR", s.sid)
     IN  Then(IF Tok(r) = "=" THEN Expression(Adv(r), s.sid) ELSE r, <<>>)

Constant ==
  /\ At("constant")
  /\ LET n == Consume(Adv(cur), "id")
         s == AddSymbol(n, CONST, Val(Adv(cur)))
     IN  Then(Emit(Expression(Consume(s, "="), s.sid), "DEF_VAR", s.sid), <<>>)

Params ==
  /\ At("params")
  /\ LET n == TakeAny(cur)
         l == IF Tok(n) = "!" THEN TakeAny(Adv(n)) ELSE n
         s == AddSymbol(l, VAR, Val(cur))
         e == [Emit(s, "DEF_VAR", s.sid) EXCEPT !.params = @ \union {s.sid}]
     IN  IF Tok(cur) \in {")", "EOF"} THEN Then(cur, <<>>)
         ELSE IF Tok(e) = "," THEN Again(Adv(e), <<>>) ELSE Then(e, <<>>)

ParamList == <<FExpect("("), F("params"), FExpect(")")>>
SingleLine == {">", "SINGLE_LINE_RET"}

Lambda ==
  At("function") /\ LookAhead(cur) = "(" /\ Then(Adv(cur), Append(ParamList, F("lambdabody")))

LambdaBody ==
  /\ At("lambdabody")
  /\ Then(IF Tok(cur) \in SingleLine THEN Expression(Adv(cur), 0) ELSE cur,
          (IF Tok(cur) \in SingleLine THEN <<>> ELSE <<F("block")>>)
            \o <<FEmit("DEF_LAMBDA", 0)>>)

Function ==
  /\ At("function") /\ LookAhead(cur) # "("
  /\ LET n == Consume(Adv(cur), "id")
         s == AddSymbol(n, FUNC, Val(Adv(cur)))
     IN  Then(Emit(s, "DEF_FUNC", s.sid),
              ParamList \o <<FSid("functionbody", s.sid), FEmit("END_FUNC", s.sid)>>)

FunctionBody ==
  /\ At("functionbody")
  /\ LET r == IF Tok(cur) = "!" THEN Emit(TakeAny(Adv(cur)), "EXPR", 0) ELSE cur
     IN  IF Tok(r) \in SingleLine
         THEN Then(Semicolon(Emit(Expression(Adv(r), Sid), "RETURN_VAL", Sid)), <<>>)
         ELSE Then(r, <<F("block")>>)

ExternFunction ==
  /\ At("extern")
  /\ LET n == Consume(Adv(cur), "id")
         s == AddSymbol(n, EXTERN, Val(Adv(cur)))
     IN  Then(Emit(s, "DEF_EXTERN", s.sid),
              ParamList \o <<F("externtype"), F("semi"), FEmit("END_FUNC", s.sid)>>)

ExternType ==
  At("externtype") /\ Then(IF Tok(cur) = "!" THEN TakeAny(Adv(cur)) ELSE cur, <<>>)

-------------------------------------------------------------------------------
(* Groups and types.                                                       *)

Group ==
  /\ At("group")
  /\ LET a == Match(cur, "group")
         name == IF Tok(a) = "{" THEN <<"">> ELSE Val(a)
         s == AddSymbol(IF Tok(a) = "{" THEN a ELSE TakeAny(a), GROUP, name)
     IN  Then(Consume(Emit(s, "DEF_GROUP", s.sid), "{"),
              <<FPath("members", name), FExpect("}"), FEmit("END_TYPEDEF", s.sid)>>)

Members ==
  /\ At("members")
  /\ LET t == Tok(cur) IN
     IF t \in {"}", "EOF"} THEN Then(cur, <<>>)
     ELSE IF t = "default" THEN Again(Emit(Adv(cur), "EXPR", 0), Frames(<<"block">>))
     ELSE Again(cur, <<FPath(IF t \in {"nt:", "struct"} THEN "typeingroup" ELSE "member", Path)>>)

GroupMember ==
  /\ At("member")
  /\ LET n == Consume(cur, "id")
         path == Path \o <<".">> \o Val(cur)
         c == Consume(n, "=>")
         s == AddSymbol(Adv(c), FUNC, path)
         end == FEmit("GROUP_MEMBER", 0)
     IN  CASE Tok(c) = "f:" -> Then(Emit(s, "DEF_FUNC", s.sid),
                                    ParamList \o <<F("block"), FEmit("END_FUNC", s.sid), end>>)
           [] Tok(c) = "{" -> Then(c, <<F("block"), end>>)
           [] OTHER -> Then(Semicolon(Expression(c, 0)), <<end>>)

TypeInGroup ==
  /\ At("typeingroup")
  /\ LET a == Adv(cur)
         s == AddSymbol(TakeAny(a), NT, Path \o <<".">> \o Val(a))
     IN  Then(Emit(s, "DEF_STRUCT", s.sid), <<F("typeblock"), FEmit("END_TYPEDEF", s.sid)>>)

(* The texts parseTypeDefinition takes for a base type and a name.         *)
WithColon == {"v:", "c:", "f:", "exf:", "m:", "nt:", "r:", ":", ":>", ":=>"}

TypeDefinition ==
  /\ At("typedef")
  /\ LET isNT == Tok(cur) = "nt:"
         a == Adv(cur)
         b == TakeAny(a)
         n == IF ~isNT THEN a
              ELSE IF Tok(b) = ":" THEN TakeAny(Adv(b))
              ELSE IF Head(Val(a)) \in WithColon THEN b ELSE a
         s == AddSymbol(TakeAny(n), NT, Val(n))
     IN  Then(Emit(s, IF isNT THEN "DEF_NEWTYPE" ELSE "DEF_STRUCT", s.sid),
              <<F("typeblock")>> \o (IF isNT THEN <<F("semi")>> ELSE <<>>)
                \o <<FEmit("END_TYPEDEF", s.sid)>>)

TypeBlock == At("typeblock") /\ Then(Consume(cur, "{"), <<F("fields"), FExpect("}")>>)

Fields ==
  /\ At("fields")
  /\ CASE Tok(cur) \in {"}", "EOF"} -> Then(cur, <<>>)
       [] Tok(cur) = "v:" -> Again(cur, Frames(<<"variable", "separator">>))
       [] OTHER -> Again(Adv(cur), <<>>)

Separator ==
  At("separator") /\ Then(IF Tok(cur) \in {",", ";"} THEN Adv(cur) ELSE cur, <<>>)

-------------------------------------------------------------------------------
(* Branches and the rest.                                                  *)

Condition == <<FExpect("("), F("rawtocomma"), FExpect(")")>>
Branch(op) == <<FEmit(op, 0), F("body"), FEmit("IF_END", 0)>>

If == At("if") /\ Then(Adv(cur), Condition \o Branch("IF_BEGIN") \o <<F("else")>>)

Else ==
  /\ At("else")
  /\ CASE Tok(cur) = "elsif" -> Again(Adv(cur), Condition \o Branch("ELSIF_BEGIN"))
       [] Tok(cur) \in {"els", "else"} -> Then(Adv(cur), Branch("ELS_BEGIN"))
       [] OTHER -> Then(cur, <<>>)

Select ==
  /\ At("select")
  /\ Then(Consume(Emit(TakeAny(Adv(cur)), "SEL_BEGIN", 0), "{"),
          <<F("branches"), FExpect("}"), FEmit("SEL_END", 0)>>)

Branches ==
  /\ At("branches")
  /\ IF Tok(cur) \in {"}", "EOF"} THEN Then(cur, <<>>)
     ELSE Again(Emit(Consume(Adv(cur), "->"), "SEL_BRANCH", 0), Frames(<<"block">>))

Scan ==
  /\ At("scan")
  /\ Then(Consume(Emit(TakeAny(Adv(cur)), "SCAN_BEGIN", 0), "{"),
          <<F("patterns"), FExpect("}"), FEmit("SCAN_END", 0)>>)

Patterns ==
  /\ At("patterns")
  /\ IF Tok(cur) \in {"}", "EOF"} THEN Then(cur, <<>>)
     ELSE Again(Emit(Consume(Raw(cur), "->"), "SCAN_PATTERN", 0), Frames(<<"block">>))

Rules ==
  /\ At("rules")
  /\ LET n == Match(Adv(cur), "id")
     IN  Then(Match(n, "("), (IF Tok(n) = "(" THEN <<F("ruleparams"), FExpect(")")>> ELSE <<>>)
                               \o Frames(<<"rulebegin", "ruleitems">>)
                               \o <<FExpect("}"), FEmit("EXPR", 0)>>)

RuleParams ==
  /\ At("ruleparams")
  /\ IF Tok(cur) \in {")", "EOF"} THEN Then(cur, <<>>) ELSE Again(Match(Adv(cur), ","), <<>>)

RuleBegin == At("rulebegin") /\ Then(Consume(Emit(cur, "EXPR", 0), "{"), <<>>)

RuleItems ==
  /\ At("ruleitems")
  /\ LET n == TakeAny(Adv(cur))
         s == AddSymbol(n, RULE, Val(Adv(cur)))
     IN  CASE Tok(cur) \in {"}", "EOF"} -> Then(cur, <<>>)
           [] Tok(cur) = "r:" /\ Tok(n) = "->" ->
                Again(Semicolon(Emit(TakeAny(Adv(s)), "EXPR", s.sid)), <<>>)
           [] Tok(cur) = "r:" /\ Tok(n) = ":=>" ->
                Again(Semicolon(Expression(Adv(s), s.sid)), <<>>)
           [] Tok(cur) = "r:" /\ Tok(n) = "{" -> Again(s, Frames(<<"block", "semi">>))
           [] Tok(cur) = "r:" /\ Tok(n) \notin {"->", ":=>", "{"} ->
                Again(Semicolon(Expression(s, s.sid)), <<>>)
           [] Tok(cur) \in {"always", "default"} ->
                Again(Semicolon(Expression(Consume(Adv(cur), "->"), 0)), <<>>)
           [] OTHER -> Again(Adv(cur), <<>>)

ApplyRules ==
  /\ At("apply")
  /\ LET a == Adv(cur)
         k == IF Tok(a) \in {"rules", "id"} THEN Adv(a) ELSE a
     IN  Then(Emit(Consume(TakeAny(Consume(k, "(")), ")"), "APPLY_RULE", 0), <<>>)

OnRule ==
  /\ At("on")
  /\ LET a == Adv(cur)
         n == TakeAny(a)
         s == IF Tok(n) = "." THEN AddSymbol(TakeAny(Adv(n)), RULE, Val(a) \o <<".">> \o Val(Adv(n)))
              ELSE AddSymbol(n, RULE, Val(a))
     IN  Then(Emit(s, "ON_RULE", s.sid), Frames(<<"body">>))

Panic ==
  /\ At("panic")
  /\ LET a == Adv(cur)
     IN  Then(Emit(IF Tok(a) = "(" THEN Consume(TakeAny(Adv(a)), ")") ELSE a, "PANIC", 0), <<>>)

Intent ==
  /\ At("intent")
  /\ LET c == Emit(TakeAny(Adv(cur)), "INTENT", 0)
     IN  Then(c, Frames(<<IF Tok(c) = "{" THEN "block" ELSE "expr">>))

FastExec ==
  /\ At("fastexec")
  /\ Then(Consume(Emit(Adv(cur), "ASM_BLOCK", 0), "{"),
          <<F("asm"), FExpect("}"), FEmit("ASM_BLOCK", 0)>>)

Asm ==
  /\ At("asm")
  /\ CASE Tok(cur) \in {"}", "EOF"} -> Then(cur, <<>>)
       [] Tok(cur) = "asm:" -> Again(Emit(TakeAny(Adv(cur)), "ASM_LABEL", 0), <<>>)
       [] OTHER -> Again(Match(Emit(Raw(cur), "ASM_BLOCK", 0), ";"), <<>>)

Return ==
  /\ At("return")
  /\ LET a == Adv(cur)
     IN  Then(Semicolon(IF Tok(a) = ";" THEN Emit(a, "RETURN_VOID", 0)
                        ELSE Emit(Expression(a, 0), "RETURN_VAL", 0)), <<>>)

Jump == At("jump") /\ Then(Semicolon(Emit(TakeAny(Adv(cur)), "UNCOND_JUMP", 0)), <<>>)

Identifier ==
  /\ At("identifier")
  /\ CASE LookAhead(cur) = ":>" -> Then(Emit(Adv(Adv(cur)), "LABEL_DEF", 0), <<>>)
       [] LookAhead(cur) = "?>" -> Then(Semicolon(Emit(Adv(Adv(cur)), "COND_JUMP", 0)), <<>>)
       [] OTHER -> Then(Semicolon(Expression(cur, 0)), <<>>)

Directives ==
  At("directives") /\ Then(Match(Emit(Raw(Adv(cur)), "EXPR", 0), ";"), <<>>)

Imports ==
  /\ At("imports")
  /\ LET p == TakeAny(Adv(cur))
         a == IF Tok(p) = "as" THEN TakeAny(Adv(p)) ELSE p
     IN  Then(Semicolon(Emit(a, "USE_MOD", 0)), <<>>)

-------------------------------------------------------------------------------
Next ==
  \/ Parse \/ Statement \/ Leave \/ Block \/ Statements \/ Body
  \/ EmitFrame \/ ExpectFrame \/ ExprFrame \/ AnyFrame
  \/ RawFrame \/ RawToComma \/ SemiFrame \/ OptSemi
  \/ HandleExpression \/ Flow \/ Relocate \/ Chain \/ Rolling \/ AfterRolling \/ Catch \/ Fallback
  \/ LoopInfinite \/ Loop \/ LoopRange \/ LoopForeach \/ Unroll \/ Variable \/ Constant \/ Params \/ Lambda
  \/ LambdaBody \/ Function \/ FunctionBody \/ ExternFunction \/ ExternType
  \/ Group \/ Members \/ GroupMember \/ TypeInGroup \/ TypeDefinition \/ TypeBlock
  \/ Fields \/ Separator \/ If \/ Else \/ Select \/ Branches \/ Scan \/ Patterns
  \/ Rules \/ RuleParams \/ RuleBegin \/ RuleItems \/ ApplyRules \/ OnRule \/ Panic \/ Intent \/ FastExec \/ Asm
  \/ Return \/ Jump \/ Identifier \/ Directives \/ Imports

(* The parser runs until it returns.                                       *)
Spec == Init /\ [][Next]_vars /\ WF_vars(Next)

-------------------------------------------------------------------------------
(* Properties.                                                             *)

(* The type invariant.                                                     *)
TypeOK ==
  /\ cur.pos \in 1..Len(toks) /\ cur.bad \in BOOLEAN
  /\ \A i \in DOMAIN cur.syms : cur.syms[i].id = i /\ cur.syms[i].prefix \in Prefix
  /\ \A i \in DOMAIN stack : stack[i].sid \in 0..Len(cur.syms)

(* The instruction that closes what another one opens.                     *)
CloserOf ==
  [op \in {"DEF_FUNC", "DEF_EXTERN", "DEF_STRUCT", "DEF_NEWTYPE", "DEF_GROUP", "LOOP_INF",
           "LOOP_RANGE", "LOOP_FOREACH", "LOOP_FOR", "LOOP_WHILE_S", "LOOP_WHILE", "IF_BEGIN",
           "ELSIF_BEGIN", "ELS_BEGIN", "SEL_BEGIN", "SCAN_BEGIN"} |->
     CASE op \in {"DEF_FUNC", "DEF_EXTERN"} -> "END_FUNC"
       [] op \in {"DEF_STRUCT", "DEF_NEWTYPE", "DEF_GROUP"} -> "END_TYPEDEF"
       [] op \in {"IF_BEGIN", "ELSIF_BEGIN", "ELS_BEGIN"} -> "IF_END"
       [] op = "SEL_BEGIN" -> "SEL_END"  [] op = "SCAN_BEGIN" -> "SCAN_END"
       [] OTHER -> "LOOP_END"]
Closers == {CloserOf[op] : op \in DOMAIN CloserOf}

(* The closers that are due, innermost first, after one more instruction   *)
(* and after a sequence of them.                                           *)
Opened(open, op) ==
  CASE op \in DOMAIN CloserOf -> <<CloserOf[op]>> \o open
    [] op \in Closers -> IF open # <<>> /\ Head(open) = op THEN Tail(open)
                         ELSE <<"mismatch">> \o open
    [] OTHER -> open

After(open, ops) ==
  LET after[k \in 0..Len(ops)] ==
        IF k = 0 THEN open ELSE Opened(after[k - 1], ops[k])
  IN  after[Len(ops)]

Ops(seq) == [i \in DOMAIN seq |-> seq[i].op]

(* The instruction stream is well nested at every moment, in a correct     *)
(* source and in a broken one: every function, type, loop and branch that  *)
(* is open in the stream is closed by an active function, in that order.   *)
WellNested == After(<<>>, Ops(cur.code) \o Ops(stack)) = <<>>

(* What an error-free parse produces, the analyzer accepts: its A2000 can  *)
(* only be about a file the parser did not write.                          *)
CleanParsePassesAnalysis == Done /\ ~cur.bad => Resolved(cur.syms, cur.code)

(* Where a loop of the parser makes no progress: a brace at top level, at  *)
(* which synchronize stops without consuming it; and, in a group or a      *)
(* fastexec block, a token at which getExprRaw stops at once and that no   *)
(* one consumes.                                                           *)
StopsExpression == FlowOps \union {")", "]"}
Stuck ==
  \/ At("parse") /\ Tok(cur) = "{"
  \/ (At("members") \/ At("asm")) /\ Tok(cur) \in StopsExpression

(* Every other loop advances: from every source the parser returns, or     *)
(* comes to one of these three places.                                     *)
HangsOnlyThere == <>(Done \/ Stuck)

(* The parser reaches the end of every source, whatever errors it holds.   *)
Terminates == <>Done

(* Function parameters are not reported as unused variables.               *)
ParamsNotWarned ==
  Done /\ ~cur.bad => \A w \in Warnings(cur.syms, cur.code) : w.id \notin cur.params

=============================================================================
