-------------------------------- MODULE CLexer --------------------------------
(***************************************************************************)
(* The lexer of the C compiler (lexer.c): lexer_next_token over a source   *)
(* text, one token, blank or comment per step.                             *)
(*                                                                         *)
(* A text is a sequence of symbols.  A run of letters, digits and _ that   *)
(* starts with a letter or _ is one symbol, so is a run of digits: none of *)
(* the loops of the lexer stops inside one.  Every other character is a    *)
(* symbol, "nl" the end of a line.  A token is its type, the word it is    *)
(* known by, and the symbols it was made from; the type of a keyword or an *)
(* operator is its text, that of a data type "type".  Lines and columns    *)
(* are left out.                                                           *)
(***************************************************************************)
EXTENDS Integers, Sequences, SequencesExt, TLC

CONSTANTS
  Texts,      \* the sources
  Words,      \* the symbols that are words, keywords and data types included
  Numbers     \* the symbols that are numbers

ASSUME TextsAssumption == \A t \in Texts : t \in Seq(STRING)

VARIABLES
  text,       \* source_buffer
  pos,        \* ctx->pos
  toks        \* what lexer_next_token returns, call by call

lexVars == <<text, pos, toks>>

(* Some of the tokens of lexer.h, which are known by their text.           *)
COMMA        == ","
SEMICOLON    == ";"
LBRACE       == "{"
RBRACE       == "}"
HALT         == "?;"
THREAD_BLOCK == ">{"

LexInit == text \in Texts /\ pos = 1 /\ toks = <<>>

(* peek and peek_next; past the end both return 0.                         *)
Sym(i)    == IF i <= Len(text) THEN text[i] ELSE "end"
AlNum(i)  == Sym(i) \in Words \union Numbers

(* The first of some positions, or else the end.                           *)
From(i)      == i..Len(text)
First(stops) == Min(stops \union {Len(text) + 1})

Token(type, val, next) == [type |-> type, val |-> val, from |-> pos, next |-> next]

Lexing == IF toks = <<>> THEN TRUE ELSE Last(toks).type # "EOF"
Yield(tok) ==
  /\ toks' = Append(toks, tok)
  /\ pos' = tok.next /\ UNCHANGED text
Error(next) == Yield(Token("error", "error", next))

-------------------------------------------------------------------------------
(* skip_whitespace.  A comment that is not closed ends with the text.      *)
SkipTo(i) == pos' = i /\ UNCHANGED <<text, toks>>

Space == Lexing /\ Sym(pos) \in {" ", "nl"} /\ SkipTo(pos + 1)

LineComment ==
  Lexing /\ Sym(pos) = "#" /\ SkipTo(First({j \in From(pos) : Sym(j) = "nl"}))

BlockComment ==
  /\ Lexing /\ Sym(pos) = "/" /\ Sym(pos + 1) = "*"
  /\ LET j == First({k \in From(pos + 2) : Sym(k) = "*" /\ Sym(k + 1) = "/"})
     IN  SkipTo(IF j <= Len(text) THEN j + 2 ELSE Len(text) + 1)

EndOfText == Lexing /\ pos > Len(text) /\ Yield(Token("EOF", "EOF", pos))

-------------------------------------------------------------------------------
(* Identifiers.  A colon belongs to one when a letter or digit follows, or *)
(* after a prefix.                                                         *)
PrefixLetters == {"v", "c", "m", "r", "t", "o", "f"}
PrefixType ==
  [v |-> "v:", c |-> "c:", m |-> "m:", r |-> "r:", t |-> "t:", o |-> "o:", f |-> "f:",
   nt |-> "nt:", struct |-> "struct:", enum |-> "enum:", union |-> "union:"]

Continues(j) ==
  \/ AlNum(j)
  \/ Sym(j) = ":" /\ AlNum(j + 1)
  \/ Sym(j) = ":" /\ j = pos + 1 /\ Sym(pos) \in PrefixLetters \union {"nt"}

Keywords ==
  {"ret", "reg", "struct", "spawn", "sizeof", "swap", "continue", "cast", "clock", "enum",
   "exit", "exp", "union", "use", "group", "no", "asmcall", "asmjmp", "area", "addr", "as",
   "done", "defer", "date", "datenow", "loop", "listen", "len", "peek", "poke", "prnt",
   "prmt", "panic", "pup", "inb", "irq", "intr", "is_ok", "is_err", "is_some", "is_none",
   "is_null", "outb", "write", "fwrite", "free", "typeof", "time", "zone"}

DataTypes == {"str", "char", "u8", "u16", "u32", "u64", "i8", "i16", "i32", "i64"}

(* identifier_type of the symbols before next.  "f:" is a name of its own, *)
(* TOKEN_KW_FN; exf: cannot end in its colon, so that keyword is not made. *)
IdentifierType(next) ==
  LET w == Sym(pos)
      colon == Sym(pos + 1) = ":" /\ next > pos + 1
  IN  CASE colon /\ w = "f" /\ next = pos + 2 -> "fn"
        [] colon /\ w \in DOMAIN PrefixType -> PrefixType[w]
        [] next = pos + 1 /\ w \in Keywords -> w
        [] next = pos + 1 /\ w \in DataTypes -> "type"
        [] OTHER -> "id"

(* The word of a token is its last: a prefix stands before a name.         *)
Identifier ==
  /\ Lexing /\ Sym(pos) \in Words
  /\ LET next == First({j \in From(pos + 1) : ~Continues(j)})
     IN  Yield(Token(IdentifierType(next), Sym(next - 1), next))

Number ==
  /\ Lexing /\ Sym(pos) \in Numbers
  /\ Yield(Token("num", Sym(pos),
       IF Sym(pos + 1) = "." /\ Sym(pos + 2) \in Numbers THEN pos + 3 ELSE pos + 1))

String ==
  /\ Lexing /\ Sym(pos) = "\""
  /\ LET j == First({k \in From(pos + 1) : Sym(k) = "\""})
     IN  IF j > Len(text) THEN Error(j) ELSE Yield(Token("str", "string", j + 1))

(* What is quoted is one character, or a backslash and one.                *)
Char ==
  /\ Lexing /\ Sym(pos) = "'"
  /\ LET j == IF Sym(pos + 1) = "\\" THEN pos + 3 ELSE pos + 2
     IN  IF Sym(j) = "'" THEN Yield(Token("chr", "char", j + 1)) ELSE Error(j)

-------------------------------------------------------------------------------
(* A table of keys and values as a function.                               *)
Table(rows) == [x \in {r[1] : r \in rows} |-> (CHOOSE r \in rows : r[1] = x)[2]]

(* The operators of more than one character, ...                           *)
SpellingRows ==
  {<<":>", <<":", ">">>>>, <<"..", <<".", ".">>>>, <<"...", <<".", ".", ".">>>>,
   <<"...>", <<".", ".", ".", ">">>>>, <<".=", <<".", "=">>>>, <<"=>", <<"=", ">">>>>,
   <<"=?>", <<"=", "?", ">">>>>, <<"==", <<"=", "=">>>>, <<"===", <<"=", "=", "=">>>>,
   <<"==!", <<"=", "=", "!">>>>, <<"!->", <<"!", "-", ">">>>>, <<"!!", <<"!", "!">>>>,
   <<"!!=", <<"!", "!", "=">>>>, <<"!=", <<"!", "=">>>>, <<"?->", <<"?", "-", ">">>>>,
   <<"?=>", <<"?", "=", ">">>>>, <<"?>", <<"?", ">">>>>, <<HALT, <<"?", SEMICOLON>>>>,
   <<"??", <<"?", "?">>>>, <<"->", <<"-", ">">>>>, <<"-=", <<"-", "=">>>>,
   <<"--", <<"-", "-">>>>, <<"+=", <<"+", "=">>>>, <<"++", <<"+", "+">>>>,
   <<"<--", <<"<", "-", "-">>>>, <<"<-", <<"<", "-">>>>, <<"<<", <<"<", "<">>>>,
   <<"<=", <<"<", "=">>>>, <<THREAD_BLOCK, <<">", LBRACE>>>>, <<">>", <<">", ">">>>>,
   <<">=", <<">", "=">>>>, <<"^^", <<"^", "^">>>>, <<"^=", <<"^", "=">>>>,
   <<"*=", <<"*", "=">>>>, <<"/=", <<"/", "=">>>>, <<"&&", <<"&", "&">>>>,
   <<"&=", <<"&", "=">>>>, <<"||", <<"|", "|">>>>, <<"|=", <<"|", "=">>>>}
Spelling == Table(SpellingRows)

(* ... the second characters its first one is tried with, in this order,...*)
SecondsRows ==
  {<<":", <<">">>>>, <<".", <<".", "=">>>>, <<"=", <<">", "?", "=">>>>,
   <<"!", <<"-", "!", "=">>>>, <<"?", <<"-", "=", ">", SEMICOLON, "?">>>>,
   <<"-", <<">", "=", "-">>>>, <<"+", <<"=", "+">>>>, <<"<", <<"-", "<", "=">>>>,
   <<">", <<LBRACE, ">", "=">>>>, <<"^", <<"^", "=">>>>, <<"*", <<"=">>>>,
   <<"/", <<"=">>>>, <<"&", <<"&", "=">>>>, <<"|", <<"|", "=">>>>}
Seconds == Table(SecondsRows)

OpsFrom == [c \in DOMAIN Seconds |-> {op \in DOMAIN Spelling : Spelling[op][1] = c}]
Singles ==
  DOMAIN Seconds
    \union {"(", ")", LBRACE, RBRACE, "[", "]", COMMA, SEMICOLON, "@", "%", "~"}

(* The longest of some operators.                                          *)
Longest_Shortest(ops) ==
  CHOOSE o \in ops : \A p \in ops : Len(Spelling[o]) <= Len(Spelling[p])

Longest(ops) == CHOOSE o \in ops : \A p \in ops : Len(Spelling[o]) >= Len(Spelling[p])

(* ... and how one is found: a second character that matches is consumed,  *)
(* whether or not an operator comes of it; if none does, the next one is   *)
(* tried behind it.                                                        *)
FoundAt(i) ==
  LET c == Sym(i)
      Here(d, j) == {op \in OpsFrom[c] : /\ Spelling[op][2] = d
                                        /\ \A k \in 2..Len(Spelling[op]) :
                                             Sym(j + k - 2) = Spelling[op][k]}
      after[k \in 0..Len(Seconds[c])] ==
        IF k = 0 THEN [op |-> c, next |-> i + 1]
        ELSE LET found == after[k - 1]
                 ops == Here(Seconds[c][k], found.next)
             IN  IF found.op # c \/ Sym(found.next) # Seconds[c][k] THEN found
                 ELSE IF ops = {} THEN [found EXCEPT !.next = @ + 1]
                 ELSE [op |-> Longest(ops),
                       next |-> found.next + Len(Spelling[Longest(ops)]) - 1]
  IN  after[Len(Seconds[c])]

Operator ==
  /\ Lexing /\ Sym(pos) \in DOMAIN Seconds
  /\ ~(Sym(pos) = "/" /\ Sym(pos + 1) = "*")
  /\ LET found == FoundAt(pos) IN Yield(Token(found.op, found.op, found.next))

ErrHandler == Sym(pos) = "(" /\ Sym(pos + 1) = "e" /\ Sym(pos + 2) = ")"

Single ==
  /\ Lexing /\ Sym(pos) \in Singles \ DOMAIN Seconds
  /\ Yield(IF ErrHandler THEN Token("(e)", "(e)", pos + 3)
           ELSE Token(Sym(pos), Sym(pos), pos + 1))

Unexpected ==
  /\ Lexing /\ pos <= Len(text) /\ ~AlNum(pos)
  /\ Sym(pos) \notin Singles \union {" ", "nl", "#", "\"", "'"}
  /\ Error(pos + 1)

NextToken ==
  \/ Space \/ LineComment \/ BlockComment \/ EndOfText \/ Identifier \/ Number
  \/ String \/ Char \/ Operator \/ Single \/ Unexpected

-------------------------------------------------------------------------------
(* An operator token is the longest operator the text has at its place,    *)
(* whatever the order of the cases, and covers it exactly.  The exceptions *)
(* are =? !- ?- ?= without a >: their second character is swallowed        *)
(* (lexer.c:336, 347, 358, 361).                                           *)
Swallowed == {<<"=", "?">>, <<"!", "-">>, <<"?", "-">>, <<"?", "=">>}

Fits(op, i) == \A k \in 1..Len(Spelling[op]) : Sym(i + k - 1) = Spelling[op][k]

LongestOperator ==
  toks # <<>> /\ Last(toks).type \in DOMAIN Spelling \union DOMAIN Seconds =>
      LET t == Last(toks)
          here == {op \in DOMAIN Spelling : Fits(op, t.from)}
      IN  \/ <<Sym(t.from), Sym(t.from + 1)>> \in Swallowed /\ Sym(t.from + 2) # ">"
          \/ here = {} /\ t.type = Sym(t.from) /\ t.next = t.from + 1
          \/ /\ t.type \in here /\ t.next = t.from + Len(Spelling[t.type])
             /\ \A op \in here : Len(Spelling[op]) <= Len(Spelling[t.type])

===============================================================================
