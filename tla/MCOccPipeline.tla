---------------------------- MODULE MCOccPipeline ----------------------------
(***************************************************************************)
(* OccPipeline with programs of different sizes, so that the records of one*)
(* neither cover nor fit those of the other, one that does not parse and   *)
(* one whose parse never returns.  The larger one has an instruction with  *)
(* an id the analyzer checks and one with an id it does not check, both of *)
(* them beyond the table of the smaller one.                               *)
(***************************************************************************)
EXTENDS OccPipeline

Ref(kind, id) == [kind |-> kind, id |-> id]

MCProgram ==
  {[parse |-> "clean", syms |-> 1, code |-> <<Ref("checked", 1)>>],
   [parse |-> "clean", syms |-> 2, code |-> <<Ref("plain", 2), Ref("checked", 2)>>],
   [parse |-> "errors", syms |-> 1, code |-> <<Ref("plain", 0)>>],
   [parse |-> "endless", syms |-> 0, code |-> <<>>]}

=============================================================================
