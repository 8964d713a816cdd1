--------------------------- MODULE MCParserSession ---------------------------
(***************************************************************************)
(* ParserSession on a small instance.  The names a, m and l have 1, 1024   *)
(* and 1025 bytes: m is the longest that may be saved.  A file may have    *)
(* 1117 bytes, so m and two instructions fit exactly (48 + 1037 + 32), and *)
(* the names a and m with the two instructions that add them do not.       *)
(***************************************************************************)
EXTENDS ParserSession

MCName == {"a", "m", "l"}
MCNameLen == [a |-> 1, m |-> 1024, l |-> 1025]
MCTarget == {"win", "max", "long"}
MCTargetLen == [win |-> 5, max |-> 31, long |-> 32]
MCConfig ==
  {[target |-> "max", mode |-> 0, path |-> TRUE],
   [target |-> "long", mode |-> 0, path |-> TRUE],
   [target |-> "win", mode |-> 1, path |-> FALSE]}
MCOp == {"OP"}
MCEmission == {[op |-> "OP", prefix |-> VAR]}
MCMaxU32 == 1117

=============================================================================
