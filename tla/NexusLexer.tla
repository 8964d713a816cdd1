------------------------------ MODULE NexusLexer ------------------------------
(***************************************************************************)
(* The lexer of the Parser DLL (Lexer.hpp, Token.hpp): one blank, comment, *)
(* token or unknown character per step, until the source is consumed.      *)
(*                                                                         *)
(* A source is a sequence of symbols: one character each, or a part of a   *)
(* word that the lexer never looks into ("listen" is one, for the operator *)
(* !listen ends behind it whatever follows).  "nl" is the end of a line.   *)
(* A symbol is one column wide.  A token has its type ("id", "num",        *)
(* "string", "character", or else the text that makes it), its value, the  *)
(* place it carries and, for the properties, the symbols from..next-1 it   *)
(* was made from.  What is not ASCII stands only in comments and strings:  *)
(* elsewhere isalpha is called with a negative number.                     *)
(***************************************************************************)
EXTENDS Integers, Sequences, SequencesExt, FiniteSets, TLC

CONSTANTS
  Texts,        \* the sources
  Letters,      \* the symbols isalpha accepts, and _
  Digits,       \* the symbols isdigit accepts
  HexDigits     \* the symbols isxdigit accepts

ASSUME TextsAssumption == \A s \in Texts : s \in Seq(STRING)

VARIABLES
  source,       \* the source
  at,           \* pos, line and col
  tokens,       \* the result of tokenize
  reported      \* where the lexer has added an error to the list

lexVars == <<source, at, tokens, reported>>

Start == [pos |-> 1, line |-> 1, col |-> 1]

LexInit == source \in Texts /\ at = Start /\ tokens = <<>> /\ reported = {}

-------------------------------------------------------------------------------
(* peek; past the end it returns 0.                                        *)
Sym(i) == IF i \in DOMAIN source THEN source[i] ELSE "end"
Here   == Sym(at.pos)

(* advance, once, and up to position j; it stays at the end.               *)
Advance(c) ==
  CASE c.pos > Len(source)  -> c
    [] Sym(c.pos) = "nl"    -> [pos |-> c.pos + 1, line |-> c.line + 1, col |-> 1]
    [] OTHER                -> [pos |-> c.pos + 1, line |-> c.line, col |-> c.col + 1]

AdvanceTo(j) ==
  LET moved[k \in 0..(j - at.pos)] == IF k = 0 THEN at ELSE Advance(moved[k - 1])
  IN  moved[j - at.pos]

PutBack_PositionOnly(c) == [c EXCEPT !.pos = @ - 1]
PutBack_Not(c)          == c

PutBack(c) == [pos |-> c.pos - 1, line |-> c.line, col |-> c.col - 1]

(* The positions from i on, and the first of some of them, or else the end.*)
From(i)      == i..Len(source)
First(stops) == Min(stops \union {Len(source) + 1})

(* The text of some symbols, one at least.                                 *)
Text(symbols) ==
  LET text[k \in 1..Len(symbols)] ==
        IF k = 1 THEN symbols[1] ELSE text[k - 1] \o symbols[k]
  IN  text[Len(symbols)]

Lexed  == IF tokens = <<>> THEN FALSE ELSE Last(tokens).t = "EOF"
Lexing == ~Lexed /\ at.pos <= Len(source)

Move(c) == at' = c /\ UNCHANGED <<source, tokens, reported>>

Yield(type, value, c) ==
  /\ tokens' = Append(tokens, [t |-> type, v |-> value, line |-> at.line, col |-> at.col,
                               from |-> at.pos, next |-> c.pos])
  /\ at' = c
  /\ UNCHANGED <<source, reported>>

Report(c) == at' = c /\ reported' = reported \union {at.pos} /\ UNCHANGED <<source, tokens>>

-------------------------------------------------------------------------------
(* tokenize: what is not a token.                                          *)
Blanks == {" ", "nl"}

Blank ==
  /\ Lexing /\ Here \in Blanks
  /\ Move(AdvanceTo(First({j \in From(at.pos) : Sym(j) \notin Blanks})))

LineComment ==
  /\ Lexing /\ Here = "#" /\ Sym(at.pos + 1) # "#"
  /\ Move(AdvanceTo(First({j \in From(at.pos) : Sym(j) = "nl"})))

BlockComment ==
  /\ Lexing /\ Here = "#" /\ Sym(at.pos + 1) = "#"
  /\ LET j == First({k \in From(at.pos + 2) : Sym(k) = "#" /\ Sym(k + 1) = "#"})
     IN  IF j <= Len(source) THEN Move(AdvanceTo(j + 2)) ELSE Report(AdvanceTo(j))

EndOfSource == ~Lexed /\ at.pos > Len(source) /\ Yield("EOF", "<eof>", at)

-------------------------------------------------------------------------------
(* The operators of more than one character, each with the type of its     *)
(* token, in the order they are tried: the first that fits is the token.   *)
OperatorRows ==
  <<<<"!listen", <<"!", "listen">>>>, <<":=>", <<":", "=", ">">>>>, <<"}?;", <<"}", "?", ";">>>>,
    <<"!!=", <<"!", "!", "=">>>>, <<"===", <<"=", "=", "=">>>>, <<"==!", <<"=", "=", "!">>>>,
    <<"?->", <<"?", "-", ">">>>>, <<"?=>", <<"?", "=", ">">>>>, <<"=?>", <<"=", "?", ">">>>>,
    <<"...", <<".", ".", ".">>>>, <<"!->", <<"!", "-", ">">>>>,
    <<"^^", <<"^", "^">>>>, <<"->", <<"-", ">">>>>, <<"<-", <<"<", "-">>>>,
    <<"_>", <<"_", ">">>>>, <<"=>", <<"=", ">">>>>, <<"..", <<".", ".">>>>,
    <<":>", <<":", ">">>>>, <<"?>", <<"?", ">">>>>, <<".=", <<".", "=">>>>,
    <<"==", <<"=", "=">>>>, <<"!=", <<"!", "=">>>>, <<">=", <<">", "=">>>>,
    <<"<=", <<"<", "=">>>>, <<"&&", <<"&", "&">>>>, <<"||", <<"|", "|">>>>,
    <<"<<", <<"<", "<">>>>, <<">>", <<">", ">">>>>, <<"+=", <<"+", "=">>>>,
    <<"-=", <<"-", "=">>>>, <<"*=", <<"*", "=">>>>, <<"/=", <<"/", "=">>>>,
    <<"|=", <<"|", "=">>>>, <<"&=", <<"&", "=">>>>, <<"^=", <<"^", "=">>>>,
    <<"++", <<"+", "+">>>>, <<"--", <<"-", "-">>>>, <<"!!", <<"!", "!">>>>,
    <<"?(", <<"?", "(">>>>>>

Operators == [i \in DOMAIN OperatorRows |-> OperatorRows[i][2]]

Fits(op, i) == \A k \in DOMAIN op : Sym(i + k - 1) = op[k]

Fitting == {i \in DOMAIN Operators : Fits(Operators[i], at.pos)}

Tried_ShortFirst == CHOOSE i \in Fitting : \A k \in Fitting : k <= i

Tried == CHOOSE i \in Fitting : \A k \in Fitting : i <= k

Operator ==
  /\ Lexing /\ Fitting # {}
  /\ LET op == Operators[Tried]
     IN  Yield(OperatorRows[Tried][1], Text(op), AdvanceTo(at.pos + Len(op)))

-------------------------------------------------------------------------------
(* lexWord.  A colon behind the letters is taken, and put back unless the  *)
(* two make a prefix.                                                      *)
WordPrefixes == {"v:", "f:", "c:", "m:", "r:", "nt:", "exf:"}

Keywords ==
  {"bit", "byte", "hex", "char", "str", "bool", "i8", "i16", "i32", "i64", "u8", "u16", "u32",
   "u64", "f32", "f64", "d32", "d64", "t", "fptr", "map", "Vec2", "Vec3", "Vec4", "true", "false",
   "return", "break", "continue", "jump", "group", "struct", "enum", "union", "nt", "default",
   "loop", "select", "scan", "if", "elsif", "els", "else", "unroll", "on", "always", "rules",
   "apply", "fastexec", "use", "import", "as", "target", "link", "spawn", "done", "listen",
   "yield", "is"}

InWord(i) == Sym(i) \in Letters \union Digits

Word ==
  /\ Lexing /\ Fitting = {} /\ Here \in Letters
  /\ LET j == First({k \in From(at.pos) : ~InWord(k)})
         word == Text(SubSeq(source, at.pos, j - 1))
         type == IF word \in Keywords THEN word ELSE "id"
         colon == AdvanceTo(j + 1)
     IN  CASE Sym(j) = ":" /\ word \o ":" \in WordPrefixes -> Yield(word \o ":", word \o ":", colon)
           [] Sym(j) = ":" /\ word \o ":" \notin WordPrefixes -> Yield(type, word, PutBack(colon))
           [] OTHER -> Yield(type, word, AdvanceTo(j))

(* lexNumber: 0x and hexadecimal digits, or digits, a point unless two     *)
(* follow, digits, and a b unless a letter follows.                        *)
Number ==
  /\ Lexing /\ Here \in Digits
  /\ LET past(S, i) == First({j \in From(i) : Sym(j) \notin S})
         whole == past(Digits, at.pos)
         point == Sym(whole) = "." /\ Sym(whole + 1) # "."
         digits == IF point THEN past(Digits, whole + 1) ELSE whole
         binary == Sym(digits) = "b" /\ Sym(digits + 1) \notin Letters \ {"_"}
         next == CASE Here = "0" /\ Sym(at.pos + 1) \in {"x", "X"} -> past(HexDigits, at.pos + 2)
                   [] OTHER -> IF binary THEN digits + 1 ELSE digits
     IN  Yield("num", Text(SubSeq(source, at.pos, next - 1)), AdvanceTo(next))

(* lexString: up to the quote, the end of the line or of the source, past  *)
(* what follows a backslash.  The value is left out.                       *)
String ==
  /\ Lexing /\ Here = "\""
  /\ LET ends[j \in Nat] == IF Sym(j) = "\\" THEN ends[j + 2]
                            ELSE IF Sym(j) \in {"\"", "nl", "end"} THEN j ELSE ends[j + 1]
         end == AdvanceTo(ends[at.pos + 1])
     IN  Yield("string", "string", IF Sym(end.pos) = "\"" THEN Advance(end) ELSE end)

(* lexChar: whatever follows the quote, and a quote if there is one.       *)
Char ==
  /\ Lexing /\ Here = "'"
  /\ LET taken == AdvanceTo(at.pos + IF Sym(at.pos + 1) = "\\" THEN 3 ELSE 2)
     IN  Yield("character", "character", IF Sym(taken.pos) = "'" THEN Advance(taken) ELSE taken)

Singles ==
  {"(", ")", "{", "}", "[", "]", ",", ":", ";", ".", "@", "=", "+", "-", "*", "/", "%", "&", "|",
   "^", "~", ">", "<", "!", "?"}

(* What isalpha and isdigit accept is none of these, nor the end.          *)
ASSUME LettersAssumption ==
  (Letters \union Digits) \intersect ({"end", "#", "\""} \union Blanks \union Singles) = {}

Single == Lexing /\ Fitting = {} /\ Here \in Singles /\ Yield(Here, Here, Advance(at))

Unknown ==
  /\ Lexing /\ Fitting = {}
  /\ Here \notin Singles \union Letters \union Digits \union Blanks \union {"#", "\"", "'"}
  /\ Report(Advance(at))

NextToken ==
  \/ Blank \/ LineComment \/ BlockComment \/ EndOfSource
  \/ Operator \/ Word \/ Number \/ String \/ Char \/ Single \/ Unknown

-------------------------------------------------------------------------------
(* "Longest match first" (Lexer.hpp:106): where an operator was taken no   *)
(* longer one fits, although the table has an order of its own.  A word or *)
(* prefix is not a part of a word: no letter or digit is before it or, if  *)
(* it is not a prefix, behind it, except that a number, a character and    *)
(* !listen may end inside one.                                             *)
LongestMatch ==
  tokens # <<>> =>
    LET t == Last(tokens)
        before == IF Len(tokens) > 1 THEN tokens[Len(tokens) - 1].t ELSE "none"
    IN  CASE t.t \in {"id"} \union Keywords \union WordPrefixes ->
               /\ t.t \in WordPrefixes \/ ~InWord(t.next)
               /\ before \in {"num", "character", "!listen"} \/ ~InWord(t.from - 1)
          [] t.t \in {"num", "string", "character", "EOF"} -> TRUE
          [] OTHER ->
               \A k \in DOMAIN Operators :
                 Fits(Operators[k], t.from) => Len(Operators[k]) <= t.next - t.from

(* The symbol at i is part of a comment that begins before or at it.       *)
InComment(i) ==
  \E s \in 1..i :
    /\ Sym(s) = "#"
    /\ \/ Sym(s + 1) # "#" /\ \A k \in s..i : Sym(k) # "nl"
       \/ Sym(s + 1) = "#" /\ \A k \in (s + 2)..(i - 2) : ~(Sym(k) = "#" /\ Sym(k + 1) = "#")

(* Tokens do not overlap, each is its own text in the source, and what is  *)
(* between two of them, or behind the last one so far, is blank, part of a *)
(* comment or reported: the lexer loses nothing when it looks ahead and    *)
(* puts back.                                                              *)
NothingSkipped ==
  LET end(k) == IF k = 0 THEN 1 ELSE tokens[k].next
      from(k) == IF k > Len(tokens) THEN at.pos ELSE tokens[k].from
  IN  \A k \in {Len(tokens), Len(tokens) + 1} \ {0} :
        /\ end(k - 1) <= from(k)
        /\ k \in DOMAIN tokens /\ tokens[k].t \notin {"string", "character", "EOF"} =>
             tokens[k].v = Text(SubSeq(source, from(k), end(k) - 1))
        /\ \A i \in end(k - 1)..(from(k) - 1) :
             Sym(i) \in Blanks \/ i \in reported \/ InComment(i)

(* The line and column of a token, which instructions and messages carry   *)
(* on, are those of its first symbol in the source.                        *)
PositionsExact ==
  tokens # <<>> =>
    LET t == Last(tokens)
        breaks == {k \in 1..(t.from - 1) : source[k] = "nl"}
        lineStart == IF breaks = {} THEN 0 ELSE Max(breaks)
    IN  t.line = Cardinality(breaks) + 1 /\ t.col = t.from - lineStart

===============================================================================
