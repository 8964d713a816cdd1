---------------------------- MODULE MCNexusParser ----------------------------
(***************************************************************************)
(* NexusFrontEnd on well-formed samples of every construct and on every    *)
(* source one token away from a sample, a token deleted or replaced by any *)
(* other, as tokens; and on texts, of the samples and of all combinations  *)
(* of a few symbols.                                                       *)
(***************************************************************************)
EXTENDS NexusFrontEnd

Ids  == {"m", "x", "y", "h", "in", "i32"}
Nums == {"1", "2"}
Kind(w) == IF w \in Ids THEN "id" ELSE IF w \in Nums THEN "num" ELSE w
Given(ws) == [i \in DOMAIN ws |-> [t |-> Kind(ws[i]), v |-> ws[i], line |-> 1]]

(* Statements, each the body of a function.                                *)
InBody ==
  {<<"return", "x", ";", "return", ";">>, <<"loop", "{", "break", ";", "}">>,
   <<"loop", "(", "1", "..", "2", ")", "{", "continue", "}">>,
   <<"loop", "(", "v:", "x", "in", "y", ")", "{", "}">>,
   <<"loop", "(", "x", ",", "y", ",", "1", ")", "{", "}">>,
   <<"loop", "(", "x", ",", "y", ")", "{", "}">>, <<"loop", "(", "x", ")", "{", "}">>,
   <<"if", "(", "x", ")", "{", "}", "elsif", "(", "y", ")", ";", "else", "{", "}">>,
   <<"select", "x", "{", "1", "->", "{", "}", "}">>,
   <<"scan", "x", "{", "y", "->", "{", "}", "}">>,
   <<"(", "h", ")", "<-", "1", "?(", "1", ",", "2", ")", "?=>", "(", "1", ")", ";">>,
   <<"(", "h", ")", "<-", "1", "?(", "1", ",", "2", ")", "?->", "{", "}">>,
   <<"(", "h", ")", "->", "f:", "(", "y", ")", ">", "y", "?->", "(", "x", ")", "!!", "(", "x", ")">>,
   <<"(", "h", ")", "->", "f:", "(", "y", ")", "{", "}", ";", "(", "h", ")", "?", ";">>,
   <<"(", "h", ")", "_>", "(", "x", ")", "}?;", "(", "x", ")", "_>", "h", ";">>,
   <<"(", "h", ")", "!->", "x", ";", "(", "h", ")", "<<", "y", ";", "(", "h", ")", ">>", "y">>,
   <<"v:", "x", "!", "i32", "[", "2", "]", "=", "1", ";">>, <<"v:", "y", "[", "]", ";">>,
   <<"x", ":>", "x", "?>", ";", "jump", "x", ";", "x", "=", "1", ";">>,
   <<"apply", "rules", "(", "x", ")", ";", "on", "x", ".", "y", "{", "}">>,
   <<"@", "x", "{", "}", ";", "@", "x", "y", ";", "!!", ";">>,
   <<"unroll", "(", "2", ")", "->", "loop", "{", "}">>,
   <<"fastexec", "{", "x", "y", ";", "x", "}">>}

TopLevelItems ==
  {<<"f:", "x", "(", "y", "!", "i32", ",", "h", ")", "!", "i32", ">", "y", ";">>,
   <<"group", "x", "{", "y", "=>", "f:", "(", "h", ")", "{", "}", "}">>,
   <<"group", "x", "{", "x", "=>", "{", "}", "y", "=>", "1", ";", "}">>,
   <<"group", "x", "{", "nt:", "y", "{", "v:", "x", ",", "}", "default", "{", "}", "}">>,
   <<"nt:", "i32", ":", "x", "{", "v:", "y", ";", "}", ";">>,
   <<"struct", "x", "{", "v:", "y", "!", "i32", ",", "v:", "h", "}">>,
   <<"rules", "x", "(", "x", ",", "y", ")", "{", "always", "->", "1", ";", "}">>,
   <<"rules", "{", "r:", "x", "->", "y", ";", "r:", "x", ":=>", "1", ";", "}">>,
   <<"rules", "{", "r:", "y", "{", "}", ";", "r:", "x", "1", ";", "}">>,
   <<"!!=", "x", ";", "use", "x", "as", "y", ";", ";">>,
   <<"c:", "x", "=", "1", ";", "exf:", "y", "(", "x", ")", "!", "i32", ";">>}

Words ==
  {"x", "1", ";", ",", "(", ")", "{", "}", "}?;", "[", "->", "<-", "?", "?(", "?->", "=", "!",
   "=>", "f:", "v:", "loop", "r:", "group", "fastexec", "else", "default", ">"}

(* A sample and the sources one token away from it.                        *)
Near(s) ==
  {s} \union {RemoveAt(s, i) : i \in DOMAIN s}
      \union {ReplaceAt(s, i, w) : i \in DOMAIN s, w \in Words}

InFunction(s) == <<"f:", "m", "(", ")", "{">> \o s \o <<"}">>

MCSources ==
  {Given(s) : s \in UNION {Near(t) : t \in TopLevelItems}}
    \union {Given(InFunction(s)) : s \in UNION {Near(t) : t \in InBody}}

(* The same as texts: the symbols of a word, and words with blanks between *)
(* them or only where two would become one.                                *)
MCLetters ==
  {"v", "f", "c", "m", "r", "nt", "exf", "b", "t", "x", "X", "y", "h", "in", "_", "i32", "e",
   "listen", "s", "bit"}
    \union {w \in Keywords : w # "in"}
MCDigits == {"0", "1", "2"}
MCHexDigits == MCDigits \union {"b", "c", "e", "f"}

Symbols(w) ==
  LET ops == {op \in {Operators[i] : i \in DOMAIN Operators} : Text(op) = w}
      prefixes == {p \in MCLetters : p \o ":" = w}
  IN  CASE ops # {} -> CHOOSE op \in ops : TRUE
        [] prefixes # {} -> <<CHOOSE p \in prefixes : TRUE, ":">>
        [] OTHER -> <<w>>

Spaced(ws) == FoldLeft(LAMBDA s, w : s \o Symbols(w) \o <<" ">>, <<>>, ws)

Dense(ws) ==
  LET glued(s, w) == s # <<>> /\ {Last(s), Symbols(w)[1]} \subseteq MCLetters \union MCDigits
  IN  FoldLeft(LAMBDA s, w : s \o (IF glued(s, w) THEN <<"nl">> ELSE <<>>) \o Symbols(w), <<>>, ws)

(* Short texts of the symbols of operators, and of all other tokens.       *)
OpSymbols == {"=", "!", "?", "-", ">", "<", ".", ":", ";", "}", "(", "_", "listen"}
WordSymbols ==
  {"v", "x", "nt", "listen", "s", "0", "1", "b", "_", ".", ":", "#", "\"", "'", "\\", "nl"}
AllSymbols == OpSymbols \union WordSymbols \union {"+", "&", "$", " "}
UpTo2(S) == [1..1 -> S] \union [1..2 -> S]

MCTexts ==
  {Spaced(s) : s \in TopLevelItems} \union {Spaced(InFunction(s)) : s \in InBody}
    \union {Dense(s) : s \in TopLevelItems} \union {Dense(InFunction(s)) : s \in InBody}
    \union UpTo2(AllSymbols) \union [1..3 -> OpSymbols] \union [1..3 -> WordSymbols]
    \union {<<"v", ":", "x", "#", "#", "y", "nl", "#", "#", "=", "1", ".", "2", ";", "#", "y">>,
            <<"f", ":", "x", ":", "nl", "h", ":", ">", "x", "?", ">", ";">>,
            <<"v", ":", "x", "=", "\"", "\\", "\"", "#", "\"", "+", "'", "\\", "x", "'", ";">>,
            <<"c", ":", "x", "=", "0", "x", "b", "1", "e", "+", "1", "0", "b", ";", "x", "_", ">">>}

(* A brace at top level.                                                   *)
HangTexts == {Dense(<<"v:", "x", ";", "{", "}">>)}

(* A function that does not use its parameter.                             *)
ParamTexts == {Dense(<<"f:", "x", "(", "y", ")", "{", "}">>)}
NoSources == {}

MCName == {}
MCNameLen == <<>>
MCTarget == {}
MCTargetLen == <<>>
MCMaxU32 == 1000
MCHandle == {<<"(", w, ")">> : w \in Ids}

=============================================================================
