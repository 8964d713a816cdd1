---------------------------- MODULE MCAnalyzerDll ----------------------------
(***************************************************************************)
(* AnalyzerDll on files the writer produces, whole and cut at the          *)
(* boundaries that matter, and on the damaged ones of oir_reader_tests.cpp *)
(* and of each check of load().                                            *)
(***************************************************************************)
EXTENDS AnalyzerDll, TLC

MCName == {"(h)", "v", "l"}
MCNameLen == ("(h)" :> 3) @@ ("v" :> 1) @@ ("l" :> 1025)
MCTarget == {"win", "xxx"}
MCTargetLen == [win |-> 5, xxx |-> 32]
MCHandle == {"(h)"}
MCMaxU32 == 2000

(* Symbol tables: the ids, prefixes and names given, laid out in order.    *)
Row(id, prefix, name) == [id |-> id, prefix |-> prefix, name |-> name]
Table(rows) ==
  LET end[i \in 0..Len(rows)] ==
        IF i = 0 THEN 0 ELSE end[i - 1] + SymbolFixed + MCNameLen[rows[i].name]
  IN  [i \in 1..Len(rows) |->
         [id |-> rows[i].id, prefix |-> rows[i].prefix, name |-> rows[i].name,
          end |-> end[i]]]

Good == Table(<<Row(1, VAR, "(h)"), Row(2, VAR, "v")>>)
BadTables ==
  {Table(<<Row(1, VAR, "(h)"), Row(1, VAR, "v")>>), Table(<<Row(0, VAR, "v")>>),
   Table(<<Row(1, VAR, "(h)"), Row(2, 8, "v")>>), Table(<<Row(1, VAR, "l")>>)}

Flow == <<Instruction("DEF_VAR", 1, 0), Instruction("DEF_VAR", 2, 0),
          Instruction("RELOCATE", 1, 2)>>
Lost == <<Instruction("CALL", 9, 0), Instruction("EXPR", 7, 0),
          Instruction("RELOCATE", 3, 4), Instruction("CATCH_ERR", 0, 0)>>

Img(syms, code) == Image("win", 0, syms, code)
OnDisk(img) == [image |-> img, size |-> ImageBytes(img)]
Cut(img, n) == [image |-> img, size |-> ImageBytes(img) - n]

MCFiles ==
  {OnDisk(Img(Good, Flow)), OnDisk(Img(Good, Lost)), OnDisk(Img(<<>>, <<>>))}
  \union {Cut(Img(Good, Flow), n) : n \in {1, 16, 48, 49, 80, 90}}
  \union {Cut(Img(Good, Lost), 48)}
  \union {OnDisk(Img(t, Flow)) : t \in BadTables}
  \union {OnDisk([Img(Good, Flow) EXCEPT !.version = 32639]),
          OnDisk([Img(Good, Flow) EXCEPT !.target = "xxx"]),
          OnDisk([Img(Good, Flow) EXCEPT !.codeOffset = @ + 49]),
          OnDisk([Img(Good, Flow) EXCEPT !.codeOffset = @ - 16])}

=============================================================================
