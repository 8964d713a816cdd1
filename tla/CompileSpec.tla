----------------------------- MODULE CompileSpec -----------------------------
(***************************************************************************)
(* What the pipeline promises to someone who runs occ in a directory, one  *)
(* compilation after the other.                                            *)
(*                                                                         *)
(* A compilation that reports success leaves the whole OIR of its own      *)
(* program in the artefact.  One that fails leaves the artefact as it found*)
(* it, or none, or a partial one, or, if it fails after the save, the whole*)
(* OIR of its own program; it never turns it into that of another.  A      *)
(* compilation of a source that is not clean never touches the artefact.   *)
(***************************************************************************)
CONSTANTS
  Proc,        \* the compilations
  NoArtefact,  \* there is no file
  Partial      \* the file is not the whole OIR of any program

VARIABLES
  clean,       \* whose source parses to the end without an error
  status,      \* "new", "running", "ok" or "failed"
  artefact     \* whose OIR the file holds

vars == <<clean, status, artefact>>

Init ==
  /\ clean \in [Proc -> BOOLEAN]
  /\ status = [p \in Proc |-> "new"]
  /\ artefact = NoArtefact

Running(p) == status[p] = "running"

(* Only one compilation runs at a time.                                    *)
Begin(p) ==
  /\ status[p] = "new" /\ \A q \in Proc : ~Running(q)
  /\ status' = [status EXCEPT ![p] = "running"]
  /\ UNCHANGED <<clean, artefact>>

(* The save opens the file: what somebody else left in it is gone.         *)
Damage(p) ==
  /\ Running(p) /\ clean[p] /\ artefact # p
  /\ artefact' = Partial
  /\ UNCHANGED <<clean, status>>

(* The save completes the file it has opened.                              *)
Produce(p) ==
  /\ Running(p) /\ clean[p] /\ artefact = Partial
  /\ artefact' = p
  /\ UNCHANGED <<clean, status>>

Succeed(p) ==
  /\ Running(p) /\ artefact = p
  /\ status' = [status EXCEPT ![p] = "ok"]
  /\ UNCHANGED <<clean, artefact>>

(* Failing, or being killed, leaves the artefact alone, at whatever point  *)
(* it happens; a save that fails may also remove what it has written.      *)
Fail(p) ==
  /\ Running(p)
  /\ status' = [status EXCEPT ![p] = "failed"]
  /\ \/ UNCHANGED artefact
     \/ clean[p] /\ artefact \in {Partial, p} /\ artefact' = NoArtefact
  /\ UNCHANGED clean

Next == \E p \in Proc : Begin(p) \/ Damage(p) \/ Produce(p) \/ Succeed(p) \/ Fail(p)

Spec == Init /\ [][Next]_vars

=============================================================================
