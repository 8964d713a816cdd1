------------------------------ MODULE MCCParser ------------------------------
(* Instances of CParser.  A source is written as words between blanks; the  *)
(* table below spells the ones of more than one symbol.                     *)
EXTENDS CParser

MCWords ==
  {"a", "b", "c", "x", "y", "e", "v", "f", "nt", "P", "i32", "listener", "no", "use", "as",
   "defer", "ret", "exp", "pup", "struct", "union", "enum", "group", "loop", "prnt", "panic",
   "cast", "reg", "u8", "io", "sys"}
MCNumbers == {"1", "2", "3"}
MCListeners == {"listener"}

Compound ==
  "v:" :> <<"v", ":">> @@ "v:x" :> <<"v", ":", "x">> @@ "v:y" :> <<"v", ":", "y">>
    @@ "c:x" :> <<"c", ":", "x">> @@ "f:" :> <<"f", ":">> @@ "f:a" :> <<"f", ":", "a">>
    @@ "f:b" :> <<"f", ":", "b">> @@ "nt:" :> <<"nt", ":">> @@ "nt:P" :> <<"nt", ":", "P">>
    @@ "nt:struct" :> <<"nt", ":", "struct">> @@ "nt:enum" :> <<"nt", ":", "enum">>
    @@ "nt:union:P" :> <<"nt", ":", "union", ":", "P">>
    @@ "struct:P" :> <<"struct", ":", "P">> @@ "enum:P" :> <<"enum", ":", "P">>
    @@ "union:P" :> <<"union", ":", "P">> @@ "(e)" :> <<"(", "e", ")">>
    @@ "'a'" :> <<"'", "a", "'">> @@ "'n'" :> <<"'", "\\", "a", "'">> @@ "'a" :> <<"'", "a", "b">>
    @@ "\"a\"" :> <<"\"", "a", "\"">> @@ "\"a" :> <<"\"", "a">> @@ "1.2" :> <<"1", ".", "2">>
    @@ "#a" :> <<"#", "a", "nl">> @@ "/*a*/" :> <<"/", "*", "a", "*", "/">>
    @@ Spelling

Symbols(w) == IF w \in DOMAIN Compound THEN Compound[w] ELSE <<w>>

Spell(ws) ==
  LET upto[i \in 0..Len(ws)] ==
        IF i = 0 THEN <<>> ELSE upto[i - 1] \o Symbols(ws[i]) \o <<" ">>
  IN  upto[Len(ws)]

-------------------------------------------------------------------------------
(* Every construct of the parser, as the repository's test sources use it   *)
(* where they do.                                                           *)
Samples ==
  {<<"f:a", "(", "a", "!", "i32", ",", "b", "i32", ")", "!", "i32", "{", "ret", "a", "+", "b",
     ";", "}">>,
   <<"f:a", "(", ")", "{", "ret", "1", "*", "2", "-", "3", ";", "f:b", "(", ")", "{", "}", "}">>,
   <<"v:x", "=", "f:", "(", "a", ")", ">", "a", ">", "1", ";">>,
   <<"c:x", "!", "P", "=", "f:", "a", "(", ")", "{", "?;", ";", "}", ";">>,
   <<"(", "loop", ")", "->", "{", "a", "=", "a", "+", "1", ";", "?>", "(", "b", ")", ";", "}">>,
   <<"loop", "(", "v:x", "=", "1", ",", "x", "<", "3", ",", "x", "++", ")", "{", "}">>,
   <<"loop", "(", "a", "<--", "b", ")", "->", "{", "}", "loop", "(", "1", "..", "3", ")", "{", "}">>,
   <<"(", "a", ")", ":>", "b", "=", "1", ";">>,
   <<"{", "a", "}", ":>", "{", "}">>,
   <<"a", ":>", "x", ";", "1", ":>">>,
   <<"(", "a", "<", "b", ")", "=?>", "c", "=", "1", "?=>", "c", "=", "-", "1", ";">>,
   <<"a", "->", "b", "(", "x", ",", "y", ")", "(e)", "?>", "(", "c", ")", ";", "}", ";">>,
   <<"a", "?->", "b", "x", "!->", "y", ";">>,
   <<"a", "?", "(", "1", ",", "2", ")", "->", "b", ";">>,
   <<"a", "...>", "b", ">>", "c", ";">>,
   <<"x", "<-", "a", ".", "b", "(", ")", "--", ";">>,
   <<"prnt", "(", "\"a\"", ",", "'a'", ",", "'n'", ",", "1.2", ")", ";", "reg", ".", "a", "(", ")", ";">>,
   <<"panic", "(", "a", ")", ";", "cast", "(", "b", ")", ";", "reg", ";">>,
   <<"x", "=", "{", "a", ",", "b", "}", "<<", "{", "}", ";">>,
   <<"x", "!!=", "(", "a", ",", "b", ",", "1", ")", ";">>,
   <<"??", "a", ";", "??", ";", "@", "a", "(", "b", ")", ";", "@", "!!", "\"a\"", ";", "!!", ";">>,
   <<"use", "io", "as", "a", ",", "sys", ";">>,
   <<"exp", "pup", "defer", "{", "a", ";", "}", "defer", "b", ";">>,
   <<"(", "a", ")", ">{", "ret", ";", "}">>,
   <<"!", "(", "listener", ")", ":", "{", "}", "!", "(", "listener", ")", ":", "a", ";", "!", "a", ";">>,
   <<"struct", ":", "P", "{", "v:x", "!", "i32", ",", "v:y", "!", "struct", "{", "v:", "a", "}", "}">>,
   <<"!", "struct:P", "{", "v:x", "!", "union", "=", "1", "}", "union", "P", "{", "}">>,
   <<"enum:P", "{", "a", ",", "b", "(", "c", "!", "u8", ",", "a", "!", "P", ")", "c", "(", ")", "}">>,
   <<"nt:P", "=", "u8", ";", "nt:struct", ":", "P", "{", "v:x", "!", "P", "}", ";">>,
   <<"nt:", "struct", "{", "v:x", "!", "P", "}", "P", ";", "nt:union:P", "{", "}">>,
   <<"nt:enum", "{", "a", ",", "b", "(", "c", ")", "}", "P", ";", "nt:", "struct:P", "{", "}">>,
   <<"group", "P", "{", "a", "=>", "f:b", "(", ")", "{", "}", ";", "!", "struct", "a", "{", "}",
     "v:x", ";", "enum", "b", "{", "}", "f:a", "(", ")", "{", "}", "}">>,
   <<"{", "#a", "a", ";", "/*a*/", "}">>}

(* Samples in which one word is missing, or that end early.                 *)
Without(s, i) == SubSeq(s, 1, i - 1) \o SubSeq(s, i + 1, Len(s))
Broken == UNION {{Without(s, i) : i \in DOMAIN s} : s \in Samples}

Cut == UNION {{SubSeq(s, 1, i) : i \in DOMAIN s} : s \in Samples}

(* What no such change of a sample reaches.                                 *)
Others ==
  {<<"a", "(", "b", ",", ",", "c", ")", ";">>, <<"a", ",", ";", ",", "}">>, <<"nt:", "a", "=", "u8", ";">>, <<"(", ",", "a", ")", ";">>, <<"{", "}", ":>", "a", ";">>,
   <<"'a">>, <<"\"a">>, <<"a", "[", "1", "]", ";">>, <<"a", "?", "b", ";">>, <<"!", "group", "{", "}">>,
   <<"a", ".", "1", ";">>, <<"f:a", "(", ")", "{", "ret", "1", "/", "(", "2", "-", "3", ")", ";", "}">>,
   <<"f:a", "(", ")", "{", ";", "ret", "1", "-", "2", "*", "3", "-", "1", ";", "}">>,
   <<"++", "a", ";", "-", "~", "b", "--", ";", "!", "!", "c", ";">>, <<"1", ":>", "1", "+", "2", ":>">>,
   <<"(", "{", "a", "}", ")", ":>", "x", ";">>, <<"(", "a", ",", "b", ")", ":>", "x", ";">>,
   <<"(", "a", "->", "b", "(e)", "x", ";", "}", ")", "(e)", "y", ";", "}", ";">>}

(* Every operator, and two of different or of one level, with and without   *)
(* parentheses.                                                             *)
AllOps ==
  UNION {Binary[l].ops : l \in DOMAIN Binary} \union FlowOps \union {"=", "!!=", "<-"}
Ops == {"..", "==", "<", "+", "-", "*", "->", "=?>", "=", "<-"}

Pairs ==
  {<<"a", p, "b", ";">> : p \in AllOps}
    \union {<<"a", p, "b", q, "c", ";">> : p, q \in Ops}
    \union {<<"a", p, "(", "b", q, "c", ")", ";">> : p, q \in Ops \ {"<-", "=?>"}}
    \union {<<"(", "a", p, "b", ")", q, "-", "c", ";">> : p, q \in {"+", "*", "==", "->", "="}}

(* Short texts of the symbols operators are made of.                        *)
Glyphs == {"=", "!", "?", "-", ">", "<", ".", ":", ";", "/", "*", "x"}
Short == UNION {[1..k -> Glyphs] : k \in 1..2} \union [1..3 -> {"=", "!", "?", "-", ">", "<"}]

MCTexts == {Spell(s) : s \in Samples \union Broken \union Cut \union Others \union Pairs} \union Short

===============================================================================
