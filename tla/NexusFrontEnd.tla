---------------------------- MODULE NexusFrontEnd ----------------------------
(***************************************************************************)
(* nxf_parse_source (OIR_Generator.cpp): the lexer makes the tokens of a   *)
(* source, and the parser gets them if the lexer has reported nothing.     *)
(* Where only the tokens matter, they are given as such, as if the lexer   *)
(* were done.                                                              *)
(***************************************************************************)
EXTENDS NexusLexer, NexusParser

frontVars == <<source, at, tokens, reported, toks, cur, stack>>

(* The call is in its first stage: the parser has no tokens yet.           *)
LexStage == /\ LexInit
            /\ toks = <<EOF>> /\ cur = Fresh /\ stack = <<F("lex")>>

ParseStage == /\ Init
              /\ source = <<>> /\ at = Start /\ tokens = <<>> /\ reported = {}

FrontInit == LexStage \/ ParseStage

Lex == At("lex") /\ NextToken /\ UNCHANGED vars

(* The second stage, or the return without one.                            *)
HandOver ==
  /\ At("lex") /\ Lexed /\ reported = {}
  /\ toks' = tokens /\ stack' = <<F("parse")>>
  /\ UNCHANGED <<cur, lexVars>>

LexErrors ==
  /\ At("lex") /\ Lexed /\ reported # {}
  /\ stack' = <<>> /\ cur' = Fails(cur)
  /\ UNCHANGED <<toks, lexVars>>

FrontNext == Lex \/ HandOver \/ LexErrors \/ (Next /\ UNCHANGED lexVars)

FrontSpec == FrontInit /\ [][FrontNext]_frontVars /\ WF_frontVars(FrontNext)

==============================================================================
