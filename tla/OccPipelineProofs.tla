-------------------------- MODULE OccPipelineProofs --------------------------
(***************************************************************************)
(* What the runs of OccPipeline check for two processes and three programs,*)
(* proved for every set of processes and programs: what holds however many *)
(* run at once, what holds when one runs at a time, and that the pipeline  *)
(* then implements CompileSpec.                                            *)
(***************************************************************************)
EXTENDS OccPipeline, FiniteSetTheorems, SequenceTheorems, TLAPS

-------------------------------------------------------------------------------
(* The inductive invariant for any number of live processes.               *)

AnyRecord ==
  [by : Proc \union {None}, kind : {"header", "sym", "checked", "plain", "hole"}, val : Nat]

TypeInv ==
  /\ TypeOK
  /\ pos \in [Proc -> Nat] /\ size \in [Proc -> Nat]
  /\ fd \in [Proc -> Proc \union {None}]
  /\ inode \in [Proc -> Seq(AnyRecord)] /\ got \in [Proc -> Seq(AnyRecord)]

(* Only a clean program gets past the check of the error list.             *)
CleanInv ==
  \A p \in Proc :
    /\ pc[p] = "check" => (errors[p] <=> ~Clean(p))
    /\ pc[p] \in {"save", "write", "analyzer", "read", "ok"} => Clean(p)

(* Record i of any file is a hole or record i of somebody's OIR: writers   *)
(* overwrite one another, but each puts a record only where it belongs.    *)
Placed(i, r) ==
  r = Hole \/ \E q \in Proc : i \in 1..Len(OirOf(q)) /\ r = OirOf(q)[i]

FilesInv == \A n \in Proc : \A i \in 1..Len(inode[n]) : Placed(i, inode[n][i])

(* What a reader has taken so far, and what it has checked of it.          *)
ReaderOf(p) ==
  /\ pc[p] \notin Ended \union {"read"} => got[p] = <<>>
  /\ \A i \in 1..Len(got[p]) : Placed(i, got[p][i])
  /\ got[p] # <<>> => got[p][1].kind = "header" /\ got[p][1].val <= size[p]
  /\ \A i \in 2..Len(got[p]) : i <= got[p][1].val => got[p][i].kind = "sym"
  /\ pc[p] = "ok" => got[p] # <<>> /\ Len(got[p]) = size[p] /\ AnalysisOk(p)

ReaderInv == \A p \in Proc : ReaderOf(p)

IInv == TypeInv /\ CleanInv /\ FilesInv /\ ReaderInv

-------------------------------------------------------------------------------
(* Operators.                                                              *)

(* A program's OIR is a header with the code offset, its symbols with the  *)
(* ids 1, 2, ..., and its instructions; every record names its writer.     *)
LEMMA OirLemma ==
  ASSUME program \in [Proc -> Program], NEW p \in Proc
  PROVE  /\ OirOf(p) \in Seq(AnyRecord)
         /\ Len(OirOf(p)) = 1 + program[p].syms + Len(program[p].code)
         /\ Len(OirOf(p)) \in Nat \ {0} /\ program[p].syms \in Nat
         /\ OirOf(p)[1] = Record(p, "header", program[p].syms + 1)
         /\ \A i \in 2..Len(OirOf(p)) :
              OirOf(p)[i] = IF i <= program[p].syms + 1 THEN Record(p, "sym", i - 1)
                            ELSE Record(p, program[p].code[i - program[p].syms - 1].kind,
                                           program[p].code[i - program[p].syms - 1].id)
         /\ \A j \in 1..Len(program[p].code) :
              program[p].code[j] \in [kind : {"checked", "plain"}, id : 0..program[p].syms]
         /\ \A i \in 1..Len(OirOf(p)) : OirOf(p)[i].by = p
<1> DEFINE n == program[p].syms
           c == program[p].code
           m == Len(c)
           h == <<Record(p, "header", n + 1)>>
           s == [i \in 1..n |-> Record(p, "sym", i)]
           t == [i \in 1..m |-> Record(p, c[i].kind, c[i].id)]
<1>1. n \in Nat /\ c \in Seq([kind : {"checked", "plain"}, id : 0..n]) /\ m \in Nat
  <2>1. program[p] \in Program
    OBVIOUS
  <2> QED  BY <2>1, PipelineAssumption
<1> HIDE DEF n, c, m
<1>2. \A i \in 1..m : c[i] \in [kind : {"checked", "plain"}, id : 0..n]
  <2> DEFINE R == [kind : {"checked", "plain"}, id : 0..n]
  <2>1. c \in Seq(R) /\ m = Len(c)
    BY <1>1 DEF m
  <2> HIDE DEF R
  <2>2. \A i \in 1..m : c[i] \in R
    BY <2>1
  <2> QED  BY <2>2 DEF R
<1>3. h \in Seq(AnyRecord) /\ Len(h) = 1 /\ h[1] = Record(p, "header", n + 1)
  BY <1>1 DEF Record, AnyRecord
<1>4. s \in Seq(AnyRecord) /\ Len(s) = n /\ \A i \in 1..n : s[i] = Record(p, "sym", i)
  BY <1>1 DEF Record, AnyRecord
<1>5. t \in Seq(AnyRecord) /\ Len(t) = m
      /\ \A i \in 1..m : t[i] = Record(p, c[i].kind, c[i].id)
  BY <1>1, <1>2 DEF Record, AnyRecord
<1>6. OirOf(p) = h \o s \o t
  BY DEF OirOf, n, c, m
<1> HIDE DEF h, s, t
<1>7. h \o s \in Seq(AnyRecord) /\ Len(h \o s) = n + 1 /\ (h \o s)[1] = h[1]
      /\ \A i \in 2..(n + 1) : (h \o s)[i] = s[i - 1]
  <2>1. /\ h \o s \in Seq(AnyRecord) /\ Len(h \o s) = Len(h) + Len(s)
        /\ \A i \in 1..(Len(h) + Len(s)) :
             (h \o s)[i] = IF i <= Len(h) THEN h[i] ELSE s[i - Len(h)]
    BY <1>3, <1>4, ConcatProperties
  <2>2. Len(h) + Len(s) = n + 1
    BY <1>1, <1>3, <1>4
  <2> QED  BY <1>1, <1>3, <2>1, <2>2
<1>8. /\ OirOf(p) \in Seq(AnyRecord) /\ Len(OirOf(p)) = n + 1 + m
      /\ \A i \in 1..(n + 1) : OirOf(p)[i] = (h \o s)[i]
      /\ \A i \in (n + 2)..(n + 1 + m) : OirOf(p)[i] = t[i - (n + 1)]
  <2> DEFINE hs == h \o s
  <2> HIDE DEF hs
  <2>1. hs \in Seq(AnyRecord) /\ Len(hs) = n + 1 /\ Len(hs) + Len(t) = n + 1 + m
    BY <1>1, <1>5, <1>7 DEF hs
  <2>2. /\ hs \o t \in Seq(AnyRecord) /\ Len(hs \o t) = Len(hs) + Len(t)
        /\ \A i \in 1..(Len(hs) + Len(t)) :
             (hs \o t)[i] = IF i <= Len(hs) THEN hs[i] ELSE t[i - Len(hs)]
    BY <1>5, <2>1, ConcatProperties
  <2>3. OirOf(p) = hs \o t
    BY <1>6 DEF hs
  <2>4. /\ OirOf(p) \in Seq(AnyRecord) /\ Len(OirOf(p)) = n + 1 + m
        /\ \A i \in 1..(n + 1 + m) :
             OirOf(p)[i] = IF i <= n + 1 THEN hs[i] ELSE t[i - (n + 1)]
    BY <2>1, <2>2, <2>3
  <2>5. \A i \in 1..(n + 1) : OirOf(p)[i] = hs[i]
    BY <1>1, <2>4
  <2>6. \A i \in (n + 2)..(n + 1 + m) : OirOf(p)[i] = t[i - (n + 1)]
    BY <1>1, <2>4
  <2> QED  BY <2>4, <2>5, <2>6 DEF hs
<1>9. OirOf(p)[1] = Record(p, "header", n + 1)
  BY <1>1, <1>3, <1>7, <1>8
<1>10. \A i \in 2..(n + 1) : OirOf(p)[i] = Record(p, "sym", i - 1)
  <2> SUFFICES ASSUME NEW i \in 2..(n + 1)
               PROVE  OirOf(p)[i] = Record(p, "sym", i - 1)
    OBVIOUS
  <2>1. i - 1 \in 1..n /\ i \in 1..(n + 1)
    BY <1>1
  <2> QED  BY <1>4, <1>7, <1>8, <2>1
<1>11. \A i \in (n + 2)..(n + 1 + m) :
         OirOf(p)[i] = Record(p, c[i - n - 1].kind, c[i - n - 1].id)
  <2> SUFFICES ASSUME NEW i \in (n + 2)..(n + 1 + m)
               PROVE  OirOf(p)[i] = Record(p, c[i - n - 1].kind, c[i - n - 1].id)
    OBVIOUS
  <2>1. i - (n + 1) \in 1..m /\ i - (n + 1) = i - n - 1
    BY <1>1
  <2> QED  BY <1>5, <1>8, <2>1
<1>12. \A i \in 2..Len(OirOf(p)) :
         OirOf(p)[i] = IF i <= n + 1 THEN Record(p, "sym", i - 1)
                       ELSE Record(p, c[i - n - 1].kind, c[i - n - 1].id)
  BY <1>1, <1>8, <1>10, <1>11
<1>13. \A i \in 1..Len(OirOf(p)) : OirOf(p)[i].by = p
  <2> SUFFICES ASSUME NEW i \in 1..Len(OirOf(p)) PROVE OirOf(p)[i].by = p
    OBVIOUS
  <2>1. i = 1 \/ i \in 2..Len(OirOf(p))
    BY <1>1, <1>8
  <2>2. OirOf(p)[i] \in {Record(p, "header", n + 1), Record(p, "sym", i - 1),
                          Record(p, c[i - n - 1].kind, c[i - n - 1].id)}
    BY <1>9, <1>12, <2>1
  <2> QED  BY <2>2 DEF Record
<1> QED  BY <1>1, <1>2, <1>8, <1>9, <1>12, <1>13 DEF n, c, m

(* Writing `new' at position n keeps the rest of the file, and fills a gap *)
(* with holes.                                                             *)
LEMMA OverlayLemma ==
  ASSUME NEW old \in Seq(AnyRecord), NEW new \in Seq(AnyRecord), NEW n \in Nat
  PROVE  /\ Overlay(old, new, n) \in Seq(AnyRecord)
         /\ Len(Overlay(old, new, n)) =
              IF Len(old) > n + Len(new) THEN Len(old) ELSE n + Len(new)
         /\ \A i \in 1..Len(Overlay(old, new, n)) :
              Overlay(old, new, n)[i] = IF i > n /\ i <= n + Len(new) THEN new[i - n]
                                        ELSE IF i <= Len(old) THEN old[i] ELSE Hole
<1> DEFINE m == IF Len(old) > n + Len(new) THEN Len(old) ELSE n + Len(new)
           e(i) == IF i > n /\ i <= n + Len(new) THEN new[i - n]
                   ELSE IF i <= Len(old) THEN old[i] ELSE Hole
<1>1. Len(old) \in Nat /\ Len(new) \in Nat /\ m \in Nat
  OBVIOUS
<1>2. Hole \in AnyRecord
  BY DEF Hole, AnyRecord
<1>3. \A i \in 1..m : e(i) \in AnyRecord
  <2> SUFFICES ASSUME NEW i \in 1..m PROVE e(i) \in AnyRecord
    OBVIOUS
  <2> HIDE DEF m
  <2>1. CASE i > n /\ i <= n + Len(new)
    <3>1. i - n \in 1..Len(new)
      BY <1>1, <2>1
    <3> QED  BY <2>1, <3>1
  <2>2. CASE ~(i > n /\ i <= n + Len(new)) /\ i <= Len(old)
    <3>1. i \in 1..Len(old)
      BY <1>1, <2>2
    <3> QED  BY <2>2, <3>1
  <2> QED  BY <1>2, <2>1, <2>2
<1>4. Overlay(old, new, n) = [i \in 1..m |-> e(i)]
  BY DEF Overlay
<1> HIDE DEF m, e
<1>5. Overlay(old, new, n) \in Seq(AnyRecord) /\ Len(Overlay(old, new, n)) = m
      /\ \A i \in 1..m : Overlay(old, new, n)[i] = e(i)
  BY <1>1, <1>3, <1>4
<1> QED  BY <1>5 DEF m, e

(* No step changes what anybody compiles, so nobody's OIR changes.         *)
LEMMA SamePrograms ==
  ASSUME [Next]_vars
  PROVE  program' = program /\ \A q \in Proc : OirOf(q)' = OirOf(q)
<1>1. program' = program
  <2>1. CASE UNCHANGED vars
    BY <2>1 DEF vars
  <2>2. ASSUME NEW p \in Proc, Start(p) \/ Step(p) \/ Crash(p)
        PROVE  program' = program
    BY <2>2 DEF Start, Step, Save, Read, Crash, PickTarget, NoDll, CreateSession, Parse, StopOnErrors,
                GoOnToSave, SaveRejected, SaveOpen, SaveWrite, SaveFails, SaveDone, NoOir,
                ReadOpen, ReadRecord, ReadFails, Analyse, Leave, inputVars
  <2> QED  BY <2>1, <2>2 DEF Next
<1> QED  BY <1>1 DEF OirOf, Record

(* What one write of p makes of a file: records up to k are p's from where *)
(* it stood, the rest is as it was.                                        *)
WrittenTo(old, p, k) == Overlay(old, SubSeq(OirOf(p), pos[p] + 1, k), pos[p])

LEMMA WriteLemma ==
  ASSUME TypeInv, NEW p \in Proc, NEW k \in (pos[p] + 1)..Len(OirOf(p)),
         NEW old \in Seq(AnyRecord)
  PROVE  /\ pos[p] \in Nat /\ k \in Nat /\ Len(OirOf(p)) \in Nat
         /\ WrittenTo(old, p, k) \in Seq(AnyRecord)
         /\ Len(WrittenTo(old, p, k)) = IF Len(old) > k THEN Len(old) ELSE k
         /\ \A i \in 1..Len(WrittenTo(old, p, k)) :
              WrittenTo(old, p, k)[i] = IF i > pos[p] /\ i <= k THEN OirOf(p)[i]
                                        ELSE IF i <= Len(old) THEN old[i] ELSE Hole
<1> DEFINE new == WrittenTo(old, p, k)
           o == OirOf(p)
           n == pos[p]
           w == SubSeq(o, n + 1, k)
<1>1. n \in Nat /\ o \in Seq(AnyRecord) /\ Len(o) \in Nat /\ k \in (n + 1)..Len(o)
  BY OirLemma DEF TypeInv, TypeOK
<1>2. new = Overlay(old, w, n)
  BY DEF WrittenTo
<1> HIDE DEF new, o, n
<1>3. \A i \in (n + 1)..k : o[i] \in AnyRecord
  <2>1. \A i \in (n + 1)..k : i \in 1..Len(o)
    BY <1>1
  <2> QED  BY <1>1, <2>1
<1>4. n + 1 \in Int /\ k \in Int /\ k - (n + 1) + 1 = k - n /\ n + 1 <= k
  BY <1>1
<1>5. w \in Seq(AnyRecord) /\ Len(w) = k - n /\ \A i \in 1..(k - n) : w[i] = o[n + i]
  <2>1. /\ w \in Seq(AnyRecord)
        /\ Len(w) = IF n + 1 <= k THEN k - (n + 1) + 1 ELSE 0
        /\ \A i \in 1..(k - (n + 1) + 1) : w[i] = o[n + 1 + i - 1]
    BY <1>3, <1>4, SubSeqProperties
  <2> QED  BY <1>1, <1>4, <2>1
<1> HIDE DEF w
<1>6. /\ new \in Seq(AnyRecord)
      /\ Len(new) = IF Len(old) > n + Len(w) THEN Len(old) ELSE n + Len(w)
      /\ \A i \in 1..Len(new) :
           new[i] = IF i > n /\ i <= n + Len(w) THEN w[i - n]
                    ELSE IF i <= Len(old) THEN old[i] ELSE Hole
  BY <1>1, <1>2, <1>5, OverlayLemma
<1>7. n + Len(w) = k
  BY <1>1, <1>5
<1>8. ASSUME NEW i \in 1..Len(new), i > n, i <= k PROVE w[i - n] = o[i]
  <2>1. i - n \in 1..(k - n) /\ n + (i - n) = i
    BY <1>1, <1>8
  <2> QED  BY <1>5, <2>1
<1>9. /\ n \in Nat /\ k \in Nat /\ Len(o) \in Nat
      /\ new \in Seq(AnyRecord)
      /\ Len(new) = IF Len(old) > k THEN Len(old) ELSE k
      /\ \A i \in 1..Len(new) :
           new[i] = IF i > n /\ i <= k THEN o[i]
                    ELSE IF i <= Len(old) THEN old[i] ELSE Hole
  <2> DEFINE m == n + Len(w)
  <2>1. /\ Len(new) = IF Len(old) > m THEN Len(old) ELSE m
        /\ \A i \in 1..Len(new) :
             new[i] = IF i > n /\ i <= m THEN w[i - n]
                      ELSE IF i <= Len(old) THEN old[i] ELSE Hole
    BY <1>6
  <2> HIDE DEF m
  <2>2. m = k
    BY <1>7 DEF m
  <2>3. ASSUME NEW i \in 1..Len(new)
        PROVE  new[i] = IF i > n /\ i <= k THEN o[i] ELSE IF i <= Len(old) THEN old[i] ELSE Hole
    BY <1>8, <2>1, <2>2
  <2> QED  BY <1>1, <1>6, <2>1, <2>2, <2>3
<1> QED  BY <1>9 DEF new, o, n

-------------------------------------------------------------------------------
(* Types.                                                                  *)

LEMMA TypeInit == ASSUME Init PROVE TypeInv
<1>1. \A p \in Proc : 0 \in 0..Len(OirOf(p))
  BY OirLemma DEF Init
<1>2. <<>> \in Seq(AnyRecord)
  OBVIOUS
<1> QED  BY <1>1, <1>2 DEF Init, TypeInv, TypeOK, Location, Ended

(* A step of p to l that leaves the records and the counters alone keeps   *)
(* the types if the descriptor fits the new place.                         *)
LEMMA TypeControl ==
  ASSUME TypeInv, [Next]_vars, NEW p \in Proc, NEW l \in Location, Goto(p, l),
         input' \in [Proc -> Input \union {"exists"}], errors' \in [Proc -> BOOLEAN],
         dir' \in Proc \union {None},
         NEW f \in IF l \in {"write", "read"} THEN Proc ELSE {None},
         fd' = [fd EXCEPT ![p] = f],
         UNCHANGED <<pos, inode, size, got>>
  PROVE  TypeInv'
<1>1. program' = program /\ \A q \in Proc : OirOf(q)' = OirOf(q)
  BY SamePrograms
<1>2. pc' = [pc EXCEPT ![p] = l] /\ pc' \in [Proc -> Location]
  BY DEF TypeInv, TypeOK, Goto
<1>3. f \in Proc \union {None} /\ fd' \in [Proc -> Proc \union {None}]
  BY DEF TypeInv
<1>4. \A q \in Proc : fd'[q] \in IF pc'[q] \in {"write", "read"} THEN Proc ELSE {None}
  BY <1>2, <1>3 DEF TypeInv, TypeOK
<1>5. \A q \in Proc : pos'[q] \in 0..Len(OirOf(q))' /\ size'[q] \in Nat
  BY <1>1 DEF TypeInv, TypeOK
<1> QED  BY <1>1, <1>2, <1>3, <1>4, <1>5 DEF TypeInv, TypeOK

LEMMA TypeStep == ASSUME TypeInv, [Next]_vars PROVE TypeInv'
<1>1. program' = program /\ \A q \in Proc : OirOf(q)' = OirOf(q)
  BY SamePrograms
<1>2. CASE UNCHANGED vars
  BY <1>1, <1>2 DEF vars, TypeInv, TypeOK
<1>3. ASSUME NEW p \in Proc, Start(p) \/ Step(p) \/ Crash(p)
      PROVE  TypeInv'
  <2>1. ASSUME NEW l \in Ended, Leave(p, l) PROVE TypeInv'
    <3>1. l \in Location /\ l \notin {"write", "read"}
      BY DEF Location, Ended
    <3> QED  BY <2>1, <3>1, TypeControl DEF Leave, inputVars, TypeInv, TypeOK
  <2>2. ASSUME NEW l \in Location \ {"write", "read"}, Goto(p, l), pc[p] \notin {"write", "read"},
               UNCHANGED <<input, fileVars, readVars>>, errors' \in [Proc -> BOOLEAN]
        PROVE  TypeInv'
    <3>1. fd[p] = None /\ fd' = [fd EXCEPT ![p] = None]
      BY <2>2 DEF TypeInv, TypeOK, fileVars
    <3> QED  BY <2>2, <3>1, TypeControl DEF fileVars, readVars, TypeInv, TypeOK
  <2>3. CASE Start(p)
    BY <2>2, <2>3 DEF Start, Location, inputVars, TypeInv, TypeOK
  <2>4. CASE PickTarget(p)
    <3>1. CASE input[p] = "exists"
      BY <2>2, <2>4, <3>1 DEF PickTarget, Location, TypeInv, TypeOK
    <3>2. CASE input[p] # "exists"
      <4>1. input[p] = "typed" \/ input[p] = "eof"
        BY <3>2, PipelineAssumption DEF TypeInv, TypeOK
      <4> QED  BY <1>1, <2>4, <3>2, <4>1 DEF PickTarget, TypeInv, TypeOK, fileVars,
                                               readVars
    <3> QED  BY <3>1, <3>2
  <2>5. CASE NoDll(p) \/ StopOnErrors(p) \/ SaveRejected(p) \/ NoOir(p) \/ ReadFails(p)
             \/ Analyse(p) \/ Crash(p)
    BY <2>1, <2>5 DEF NoDll, StopOnErrors, SaveRejected, NoOir, ReadFails, Analyse, Crash, Ended
  <2>6. CASE Parse(p)
    <3>1. errors' \in [Proc -> BOOLEAN]
      BY <2>6 DEF Parse, TypeInv, TypeOK
    <3>2. "check" \in Location \ {"write", "read"} /\ pc[p] \notin {"write", "read"}
      BY <2>6 DEF Parse, Location
    <3> QED  BY <2>2, <2>6, <3>1, <3>2 DEF Parse, inputVars
  <2>7. CASE CreateSession(p) \/ GoOnToSave(p)
    BY <2>2, <2>7 DEF CreateSession, GoOnToSave, Location, inputVars, TypeInv, TypeOK
  <2>8. CASE SaveOpen(p)
    <3> DEFINE n == IF dir = None THEN p ELSE dir
    <3>1. n \in Proc /\ dir' = n /\ fd' = [fd EXCEPT ![p] = n]
          /\ inode' = [inode EXCEPT ![n] = <<>>] /\ pc' = [pc EXCEPT ![p] = "write"]
          /\ UNCHANGED <<input, errors, pos, size, got>>
      BY <2>8 DEF SaveOpen, Goto, inputVars, readVars, TypeInv, TypeOK
    <3> HIDE DEF n
    <3>2. inode' \in [Proc -> Seq(AnyRecord)] /\ pc' \in [Proc -> Location]
          /\ fd' \in [Proc -> Proc \union {None}]
      BY <3>1 DEF Location, TypeInv, TypeOK
    <3>3. \A q \in Proc : fd'[q] \in IF pc'[q] \in {"write", "read"} THEN Proc ELSE {None}
      BY <3>1 DEF TypeInv, TypeOK
    <3> QED  BY <1>1, <3>1, <3>2, <3>3 DEF TypeInv, TypeOK
  <2>9. CASE SaveWrite(p)
    <3>1. PICK k \in (pos[p] + 1)..Len(OirOf(p)) :
            /\ inode' = [inode EXCEPT ![fd[p]] =
                            Overlay(@, SubSeq(OirOf(p), pos[p] + 1, k), pos[p])]
            /\ pos' = [pos EXCEPT ![p] = k]
      BY <2>9 DEF SaveWrite
    <3>2. fd[p] \in Proc /\ pos[p] \in Nat /\ k \in Nat /\ inode[fd[p]] \in Seq(AnyRecord)
          /\ k \in 0..Len(OirOf(p))
      BY <2>9, OirLemma DEF SaveWrite, TypeInv, TypeOK
    <3>4. Overlay(inode[fd[p]], SubSeq(OirOf(p), pos[p] + 1, k), pos[p]) \in Seq(AnyRecord)
      BY <3>2, WriteLemma DEF WrittenTo
    <3>5. inode' \in [Proc -> Seq(AnyRecord)] /\ pos' \in [Proc -> Nat]
          /\ \A q \in Proc : pos'[q] \in 0..Len(OirOf(q))
      BY <3>1, <3>2, <3>4 DEF TypeInv, TypeOK
    <3> QED  BY <1>1, <2>9, <3>5 DEF SaveWrite, inputVars, readVars, TypeInv, TypeOK
  <2>10. CASE SaveFails(p)
    <3>1. "fail" \in Location /\ Goto(p, "fail") /\ None \in {None}
      BY <2>10 DEF Location, Ended, SaveFails
    <3>2. /\ input' \in [Proc -> Input \union {"exists"}] /\ errors' \in [Proc -> BOOLEAN]
          /\ dir' \in Proc \union {None}
      BY <2>10 DEF SaveFails, inputVars, TypeInv, TypeOK
    <3>3. fd' = [fd EXCEPT ![p] = None] /\ UNCHANGED <<pos, inode, size, got>>
      BY <2>10 DEF SaveFails, readVars
    <3> QED  BY <3>1, <3>2, <3>3, TypeControl
  <2>11. CASE SaveDone(p)
    <3>1. "analyzer" \in Location
      BY DEF Location
    <3> QED  BY <2>11, <3>1, TypeControl DEF SaveDone, inputVars, readVars, TypeInv, TypeOK
  <2>12. CASE ReadOpen(p)
    <3>1. dir \in Proc /\ fd' = [fd EXCEPT ![p] = dir] /\ pc' = [pc EXCEPT ![p] = "read"]
          /\ size' = [size EXCEPT ![p] = Len(inode[dir])] /\ Len(inode[dir]) \in Nat
          /\ UNCHANGED <<input, errors, pos, dir, inode, got>>
      BY <2>12 DEF ReadOpen, Goto, inputVars, TypeInv, TypeOK
    <3>2. pc' \in [Proc -> Location] /\ fd' \in [Proc -> Proc \union {None}]
          /\ size' \in [Proc -> Nat]
      BY <3>1 DEF Location, TypeInv, TypeOK
    <3>3. \A q \in Proc : fd'[q] \in IF pc'[q] \in {"write", "read"} THEN Proc ELSE {None}
      BY <3>1 DEF TypeInv, TypeOK
    <3> QED  BY <1>1, <3>1, <3>2, <3>3 DEF TypeInv, TypeOK
  <2>13. CASE ReadRecord(p)
    <3>1. NextAt(p) \in 1..Len(Content(p)) /\ Content(p) \in Seq(AnyRecord)
      BY <2>13 DEF ReadRecord, Readable, NextAt, Content, TypeInv, TypeOK
    <3>2. Content(p)[NextAt(p)] \in AnyRecord
      BY <3>1
    <3>3. Append(got[p], Content(p)[NextAt(p)]) \in Seq(AnyRecord)
      BY <3>2 DEF TypeInv
    <3>4. got' \in [Proc -> Seq(AnyRecord)]
      BY <2>13, <3>3 DEF ReadRecord, TypeInv
    <3> QED  BY <1>1, <2>13, <3>4 DEF ReadRecord, inputVars, fileVars, TypeInv, TypeOK
  <2> QED  BY <1>3, <2>3, <2>4, <2>5, <2>6, <2>7, <2>8, <2>9, <2>10, <2>11, <2>12, <2>13
           DEF Step, Save, Read
<1> QED  BY <1>2, <1>3 DEF Next

(* A step of p moves nobody else.                                          *)
LEMMA OthersWait ==
  ASSUME TypeInv, NEW p \in Proc, Start(p) \/ Step(p) \/ Crash(p),
         NEW q \in Proc, q # p
  PROVE  /\ pc'[q] = pc[q] /\ pos'[q] = pos[q] /\ fd'[q] = fd[q]
         /\ size'[q] = size[q] /\ got'[q] = got[q]
<1>1. ASSUME NEW l, Leave(p, l) PROVE /\ pc'[q] = pc[q] /\ pos'[q] = pos[q] /\ fd'[q] = fd[q]
                                       /\ size'[q] = size[q] /\ got'[q] = got[q]
  BY <1>1 DEF Leave, Goto, TypeInv, TypeOK
<1>2. ASSUME NEW l, Goto(p, l) \/ UNCHANGED pc, UNCHANGED <<fileVars, readVars>>
      PROVE  /\ pc'[q] = pc[q] /\ pos'[q] = pos[q] /\ fd'[q] = fd[q]
             /\ size'[q] = size[q] /\ got'[q] = got[q]
  BY <1>2 DEF Goto, fileVars, readVars, TypeInv, TypeOK
<1>3. CASE Start(p) \/ CreateSession(p) \/ Parse(p) \/ GoOnToSave(p)
  BY <1>2, <1>3 DEF Start, CreateSession, Parse, GoOnToSave
<1>4. CASE PickTarget(p)
  <2>1. input[p] \in {"exists", "typed", "eof"}
    BY PipelineAssumption DEF TypeInv, TypeOK
  <2> QED  BY <1>2, <1>4, <2>1 DEF PickTarget
<1>5. CASE NoDll(p) \/ StopOnErrors(p) \/ SaveRejected(p) \/ NoOir(p) \/ ReadFails(p)
           \/ Analyse(p) \/ Crash(p)
  BY <1>1, <1>5 DEF NoDll, StopOnErrors, SaveRejected, NoOir, ReadFails, Analyse, Crash
<1>6. CASE SaveOpen(p)
  BY <1>6 DEF SaveOpen, Goto, readVars, TypeInv, TypeOK
<1>7. CASE SaveWrite(p)
  BY <1>7 DEF SaveWrite, readVars, TypeInv, TypeOK
<1>8. CASE SaveFails(p) \/ SaveDone(p)
  BY <1>8 DEF SaveFails, SaveDone, Goto, readVars, TypeInv, TypeOK
<1>9. CASE ReadOpen(p)
  BY <1>9 DEF ReadOpen, Goto, TypeInv, TypeOK
<1>10. CASE ReadRecord(p)
  BY <1>10 DEF ReadRecord, fileVars, TypeInv, TypeOK
<1> QED  BY <1>3, <1>4, <1>5, <1>6, <1>7, <1>8, <1>9, <1>10 DEF Step, Save, Read

-------------------------------------------------------------------------------
(* Clean programs.                                                         *)

LEMMA CleanStep == ASSUME TypeInv, CleanInv, [Next]_vars PROVE CleanInv'
<1>1. \A q \in Proc : Clean(q)' = Clean(q)
  BY SamePrograms DEF Clean
<1>2. CASE UNCHANGED vars
  BY <1>1, <1>2 DEF vars, CleanInv
<1>3. ASSUME NEW p \in Proc, Start(p) \/ Step(p) \/ Crash(p)
      PROVE  CleanInv'
  <2>1. ASSUME NEW l, Goto(p, l), l \notin {"check", "save", "write", "analyzer", "read", "ok"},
               UNCHANGED errors
        PROVE  CleanInv'
    BY <1>1, <2>1 DEF Goto, CleanInv, TypeInv, TypeOK
  <2>2. ASSUME NEW l, Goto(p, l), l \in {"write", "analyzer", "read", "ok"}, UNCHANGED errors,
               pc[p] \in {"save", "write", "analyzer", "read"}
        PROVE  CleanInv'
    BY <1>1, <2>2 DEF Goto, CleanInv, TypeInv, TypeOK
  <2>3. CASE Start(p) \/ NoDll(p) \/ CreateSession(p) \/ StopOnErrors(p) \/ SaveRejected(p)
             \/ SaveFails(p) \/ NoOir(p) \/ ReadFails(p) \/ Crash(p)
    BY <2>1, <2>3 DEF Start, NoDll, CreateSession, StopOnErrors, SaveRejected, SaveFails,
                      NoOir, ReadFails, Crash, Leave
  <2>4. CASE PickTarget(p)
    <3>1. errors' = errors
      BY <2>4 DEF PickTarget
    <3>2. CASE Goto(p, "parser")
      BY <2>1, <3>1, <3>2
    <3>3. CASE UNCHANGED pc
      BY <1>1, <3>1, <3>3 DEF CleanInv
    <3>4. input[p] \in {"exists", "typed", "eof"}
      BY PipelineAssumption DEF TypeInv, TypeOK
    <3> QED  BY <2>4, <3>2, <3>3, <3>4 DEF PickTarget
  <2>5. CASE Parse(p)
    <3>1. program[p].parse \in {"clean", "errors", "endless"}
      BY PipelineAssumption DEF TypeInv, TypeOK
    <3>2. pc' = [pc EXCEPT ![p] = "check"] /\ (errors'[p] <=> ~Clean(p))
          /\ \A q \in Proc : q # p => errors'[q] = errors[q]
      BY <2>5, <3>1 DEF Parse, Goto, Clean, TypeInv, TypeOK
    <3> QED  BY <1>1, <3>2 DEF CleanInv, TypeInv, TypeOK
  <2>6. CASE GoOnToSave(p)
    BY <1>1, <2>6 DEF GoOnToSave, HasErrors, Goto, CleanInv, TypeInv, TypeOK
  <2>7. CASE SaveOpen(p) \/ SaveDone(p) \/ ReadOpen(p)
    BY <2>2, <2>7 DEF SaveOpen, SaveDone, ReadOpen
  <2>8. CASE SaveWrite(p) \/ ReadRecord(p)
    BY <1>1, <2>8 DEF SaveWrite, ReadRecord, CleanInv
  <2>9. CASE Analyse(p)
    <3>1. PICK l \in {"ok", "fail"} : Leave(p, l)
      BY <2>9 DEF Analyse
    <3> QED  BY <2>1, <2>2, <2>9, <3>1 DEF Analyse, Leave
  <2> QED  BY <1>3, <2>3, <2>4, <2>5, <2>6, <2>7, <2>8, <2>9 DEF Step, Save, Read
<1> QED  BY <1>2, <1>3 DEF Next

-------------------------------------------------------------------------------
(* Files and readers.                                                      *)

(* A record stays placed: programs do not change.                          *)
LEMMA StaysPlaced ==
  ASSUME [Next]_vars, NEW i, NEW r, Placed(i, r) PROVE Placed(i, r)'
BY SamePrograms DEF Placed, Hole

LEMMA FilesStep == ASSUME TypeInv, FilesInv, [Next]_vars PROVE FilesInv'
<1>1. ASSUME NEW n \in Proc, NEW i \in 1..Len(inode'[n]) PROVE Placed(i, inode'[n][i])
  <2>1. CASE inode'[n] = inode[n]
    BY <2>1 DEF FilesInv
  <2>2. CASE inode'[n] = <<>>
    BY <2>2
  <2>3. ASSUME NEW p \in Proc, pc[p] = "write",
               NEW k \in (pos[p] + 1)..Len(OirOf(p)), fd[p] = n,
               inode'[n] = WrittenTo(inode[n], p, k)
        PROVE  Placed(i, inode'[n][i])
    <3>1. inode[n] \in Seq(AnyRecord)
      BY DEF TypeInv
    <3>2. /\ pos[p] \in Nat /\ k \in Nat /\ Len(OirOf(p)) \in Nat
          /\ inode'[n][i] = IF i > pos[p] /\ i <= k THEN OirOf(p)[i]
                            ELSE IF i <= Len(inode[n]) THEN inode[n][i] ELSE Hole
          /\ Len(inode'[n]) \in Nat
      BY <1>1, <2>3, <3>1, WriteLemma, LenProperties
    <3>3. CASE i > pos[p] /\ i <= k
      BY <3>2, <3>3 DEF Placed
    <3>4. CASE ~(i > pos[p] /\ i <= k) /\ i <= Len(inode[n])
      <4>1. i \in 1..Len(inode[n])
        BY <3>1, <3>2, <3>4
      <4> QED  BY <3>2, <3>4, <4>1 DEF FilesInv
    <3> QED  BY <3>2, <3>3, <3>4 DEF Placed
  <2>4. ASSUME NEW p \in Proc, Start(p) \/ Step(p) \/ Crash(p)
        PROVE  Placed(i, inode'[n][i])
    <3>1. CASE SaveOpen(p)
      BY <2>1, <2>2, <3>1 DEF SaveOpen, TypeInv, TypeOK
    <3>2. CASE SaveWrite(p)
      <4>1. PICK k \in (pos[p] + 1)..Len(OirOf(p)) :
              inode' = [inode EXCEPT ![fd[p]] =
                          Overlay(@, SubSeq(OirOf(p), pos[p] + 1, k), pos[p])]
        BY <3>2 DEF SaveWrite
      <4>2. inode' = [inode EXCEPT ![fd[p]] = WrittenTo(inode[fd[p]], p, k)] /\ pc[p] = "write"
        BY <3>2, <4>1 DEF SaveWrite, WrittenTo
      <4> QED  BY <2>1, <2>3, <4>2 DEF TypeInv
    <3> QED  BY <2>1, <2>4, <3>1, <3>2
             DEF Start, Step, Save, Read, Crash, PickTarget, NoDll, CreateSession, Parse, StopOnErrors,
                 GoOnToSave, SaveRejected, SaveFails, SaveDone, NoOir, ReadOpen, ReadRecord,
                 ReadFails, Analyse, Leave, fileVars
  <2> QED  BY <2>1, <2>4 DEF Next, vars
<1> QED  BY <1>1, StaysPlaced DEF FilesInv

(* A reader that takes nothing and does not end with 0.                    *)
LEMMA ReaderWaits ==
  ASSUME TypeInv, ReaderInv, [Next]_vars, NEW q \in Proc, got'[q] = got[q],
         got[q] = <<>> \/ size'[q] = size[q],
         \/ pc'[q] = pc[q] /\ size'[q] = size[q]
         \/ pc'[q] # "ok" /\ (pc'[q] \in Ended \union {"read"} \/ got[q] = <<>>)
  PROVE  ReaderOf(q)'
<1>1. AnalysisOk(q) => AnalysisOk(q)'
  <2>1. Symbols(q)' = Symbols(q) /\ Code(q)' = Code(q)
    BY DEF Symbols, Code
  <2> QED  BY <2>1 DEF AnalysisOk, Resolves
<1>2. \A i \in 1..Len(got[q]) : Placed(i, got[q][i])
  BY DEF ReaderInv, ReaderOf
<1>3. /\ pc'[q] \notin Ended \union {"read"} => got[q] = <<>>
      /\ got[q] # <<>> => got[q][1].kind = "header" /\ got[q][1].val <= size'[q]
      /\ \A i \in 2..Len(got[q]) : i <= got[q][1].val => got[q][i].kind = "sym"
      /\ pc'[q] = "ok" => got[q] # <<>> /\ Len(got[q]) = size'[q] /\ AnalysisOk(q)
  BY DEF ReaderInv, ReaderOf
<1> QED  BY <1>1, <1>2, <1>3, StaysPlaced DEF ReaderOf, Ended

LEMMA ReaderStep == ASSUME TypeInv, FilesInv, ReaderInv, [Next]_vars PROVE ReaderInv'
<1> SUFFICES ASSUME NEW q \in Proc PROVE ReaderOf(q)'
  BY DEF ReaderInv
<1>1. CASE UNCHANGED vars
  BY <1>1, ReaderWaits DEF vars
<1>2. ASSUME NEW p \in Proc, Start(p) \/ Step(p) \/ Crash(p)
      PROVE  ReaderOf(q)'
  <2>1. CASE p # q
    BY <1>2, <2>1, OthersWait, ReaderWaits
  <2>2. CASE p = q
    <3>1. ASSUME NEW l \in {"fail", "dead"}, Leave(q, l) PROVE ReaderOf(q)'
      BY <3>1, ReaderWaits DEF Leave, Goto, Ended, TypeInv, TypeOK
    <3>2. CASE NoDll(q) \/ StopOnErrors(q) \/ SaveRejected(q) \/ NoOir(q) \/ ReadFails(q)
               \/ Crash(q)
      BY <3>1, <3>2 DEF NoDll, StopOnErrors, SaveRejected, NoOir, ReadFails, Crash
    <3>3. ASSUME got'[q] = got[q], size'[q] = size[q], pc'[q] # "ok",
                 pc[q] \notin Ended \union {"read"}
          PROVE  ReaderOf(q)'
      BY <3>3, ReaderWaits DEF ReaderInv, ReaderOf
    <3>4. CASE Start(q) \/ CreateSession(q) \/ Parse(q) \/ GoOnToSave(q) \/ SaveOpen(q)
               \/ SaveWrite(q)
               \/ SaveFails(q) \/ SaveDone(q)
      BY <3>3, <3>4 DEF Start, CreateSession, Parse, GoOnToSave, SaveOpen, SaveWrite, SaveFails, SaveDone,
                        Goto, readVars, Ended, TypeInv, TypeOK
    <3>5. CASE PickTarget(q)
      <4>1. got'[q] = got[q] /\ size'[q] = size[q] /\ pc[q] = "target"
        BY <3>5 DEF PickTarget, readVars
      <4>2. pc'[q] \in {"target", "parser"}
        <5>1. input[q] \in {"exists", "typed", "eof"}
          BY PipelineAssumption DEF TypeInv, TypeOK
        <5> QED  BY <3>5, <5>1 DEF PickTarget, Goto, TypeInv, TypeOK
      <4> QED  BY <3>3, <4>1, <4>2 DEF Ended
    <3>6. CASE ReadOpen(q)
      <4>1. got'[q] = got[q] /\ pc'[q] = "read" /\ pc[q] = "analyzer"
        BY <3>6 DEF ReadOpen, Goto, TypeInv, TypeOK
      <4>2. got[q] = <<>>
        BY <4>1 DEF Ended, ReaderInv, ReaderOf
      <4> QED  BY <4>1, <4>2, ReaderWaits
    <3>7. CASE ReadRecord(q)
      <4> DEFINE r == Content(q)[NextAt(q)]
                 n == Len(got[q])
      <4>1. /\ pc[q] = "read" /\ pc' = pc /\ size' = size
            /\ Readable(q) /\ RecordOk(q, r) /\ got'[q] = Append(got[q], r)
        BY <3>7 DEF ReadRecord, TypeInv
      <4>0. fd[q] \in Proc /\ Content(q) \in Seq(AnyRecord) /\ got[q] \in Seq(AnyRecord)
        BY <4>1 DEF Content, TypeInv, TypeOK
      <4>2. n \in Nat /\ NextAt(q) = n + 1 /\ n + 1 \in 1..Len(Content(q))
        BY <4>0, <4>1 DEF NextAt, Readable
      <4>3. r \in AnyRecord /\ Placed(n + 1, r)
        BY <4>0, <4>2 DEF Content, FilesInv
      <4> HIDE DEF r, n
      <4>5. /\ Len(got'[q]) = n + 1 /\ got'[q][n + 1] = r /\ got'[q] # <<>>
            /\ \A i \in 1..n : got'[q][i] = got[q][i]
        BY <4>0, <4>1, <4>3, AppendProperties DEF n
      <4>6. \A i \in 1..n : Placed(i, got[q][i])
        BY DEF n, ReaderInv, ReaderOf
      <4>7. \A i \in 1..(n + 1) : Placed(i, got'[q][i])
        BY <4>2, <4>3, <4>5, <4>6
      <4>8. got'[q][1].kind = "header" /\ got'[q][1].val <= size[q]
        <5>1. CASE n = 0
          BY <4>1, <4>2, <4>5, <5>1 DEF RecordOk
        <5>2. CASE n # 0
          <6>1. got[q] # <<>> /\ 1 \in 1..n
            BY <4>2, <5>2 DEF n
          <6> QED  BY <4>5, <6>1 DEF ReaderInv, ReaderOf
        <5> QED  BY <5>1, <5>2
      <4>9. \A i \in 2..(n + 1) : i <= got'[q][1].val => got'[q][i].kind = "sym"
        <5> SUFFICES ASSUME NEW i \in 2..(n + 1), i <= got'[q][1].val
                     PROVE  got'[q][i].kind = "sym"
          OBVIOUS
        <5>1. 1 \in 1..n /\ got'[q][1] = got[q][1]
          BY <4>2, <4>5
        <5>2. CASE i \in 2..n
          BY <4>5, <5>1, <5>2 DEF n, ReaderInv, ReaderOf
        <5>3. CASE i = n + 1
          BY <4>1, <4>2, <4>5, <5>1, <5>3 DEF RecordOk
        <5> QED  BY <4>2, <5>2, <5>3
      <4> QED  BY <4>1, <4>5, <4>7, <4>8, <4>9, StaysPlaced DEF ReaderOf, Ended
    <3>8. CASE Analyse(q)
      <4>1. got' = got /\ size' = size /\ pc[q] = "read"
            /\ got[q] # <<>> /\ Len(got[q]) = size[q]
        BY <3>8 DEF Analyse, Leave
      <4>2. CASE ~AnalysisOk(q)
        BY <3>1, <3>8, <4>2 DEF Analyse
      <4>3. CASE AnalysisOk(q)
        <5>1. pc'[q] = "ok"
          BY <3>8, <4>3 DEF Analyse, Leave, Goto, TypeInv, TypeOK
        <5>2. Symbols(q)' = Symbols(q) /\ Code(q)' = Code(q)
          BY <4>1 DEF Symbols, Code
        <5>3. AnalysisOk(q)'
          BY <4>3, <5>2 DEF AnalysisOk, Resolves
        <5>4. \A i \in 1..Len(got[q]) : Placed(i, got[q][i])
          BY DEF ReaderInv, ReaderOf
        <5>5. /\ got[q] # <<>> => got[q][1].kind = "header" /\ got[q][1].val <= size[q]
              /\ \A i \in 2..Len(got[q]) : i <= got[q][1].val => got[q][i].kind = "sym"
          BY DEF ReaderInv, ReaderOf
        <5> QED  BY <4>1, <5>1, <5>3, <5>4, <5>5, StaysPlaced DEF ReaderOf, Ended
      <4> QED  BY <4>2, <4>3
    <3> QED  BY <1>2, <2>2, <3>2, <3>4, <3>5, <3>6, <3>7, <3>8 DEF Step, Save, Read
  <2> QED  BY <2>1, <2>2
<1> QED  BY <1>1, <1>2 DEF Next

-------------------------------------------------------------------------------
(* What holds however many compilations share the directory.               *)

LEMMA InvInit == ASSUME Init PROVE IInv
<1>1. TypeInv
  BY TypeInit
<1>2. CleanInv /\ FilesInv
  BY DEF Init, CleanInv, FilesInv
<1>3. ReaderInv
  BY DEF Init, ReaderInv, ReaderOf
<1> QED  BY <1>1, <1>2, <1>3 DEF IInv

(* The inductive invariant holds for every number of processes at once.    *)
THEOREM Invariance == Spec => []IInv
<1>1. Init => IInv
  BY InvInit
<1>2. IInv /\ [Next]_vars => IInv'
  BY TypeStep, CleanStep, FilesStep, ReaderStep DEF IInv
<1> QED  BY <1>1, <1>2, PTL DEF Spec

(* Every variable keeps its type, and a descriptor is open just while its  *)
(* process writes or reads.                                                *)
THEOREM TypeCorrect == Spec => []TypeOK
<1>1. IInv => TypeOK
  BY DEF IInv, TypeInv
<1> QED  BY <1>1, Invariance, PTL

(* Whatever other processes do to intermediate.oir while main.cpp's        *)
(* analyzer reads it, exit status 0 means a clean source and dense ids, and*)
(* a reference that does not resolve is one traverseOIR passes over, in an *)
(* instruction of another process than the header.                         *)
THEOREM OnlySoundIsAccepted == Spec => []AcceptedIsSound
<1>1. ASSUME IInv PROVE AcceptedIsSound
  <2> SUFFICES ASSUME NEW p \in Proc, pc[p] = "ok"
               PROVE  /\ Clean(p)
                      /\ \A i \in DOMAIN Symbols(p) :
                           Symbols(p)[i].kind = "sym" /\ Symbols(p)[i].val = i
                      /\ \A i \in DOMAIN Code(p) :
                           Dangles(p, Code(p)[i]) => /\ Code(p)[i].kind = "plain"
                                                     /\ Code(p)[i].by # got[p][1].by
    BY DEF AcceptedIsSound
  <2> DEFINE g == got[p]
             h == g[1].val
             n == Len(g)
  <2>1. Clean(p)
    BY <1>1 DEF IInv, CleanInv
  <2>2. /\ g \in Seq(AnyRecord) /\ n \in Nat /\ g # <<>> /\ h <= n /\ AnalysisOk(p)
        /\ g[1].kind = "header"
        /\ \A i \in 1..n : Placed(i, g[i])
        /\ \A i \in 2..n : i <= h => g[i].kind = "sym"
    BY <1>1 DEF IInv, TypeInv, ReaderInv, ReaderOf
  <2>3. program \in [Proc -> Program] /\ 1 \in 1..n
    BY <1>1, <2>2 DEF IInv, TypeInv, TypeOK
  <2> HIDE DEF g, h, n
  <2>4. ASSUME NEW i \in 1..n, g[i] # Hole
        PROVE  \E q \in Proc :
                 /\ program[q].syms \in Nat /\ g[i].by = q
                 /\ i = 1 => g[i] = Record(q, "header", program[q].syms + 1)
                 /\ i # 1 => \/ g[i] = Record(q, "sym", i - 1)
                             \/ /\ g[i].kind \in {"checked", "plain"}
                                /\ g[i].val \in 0..program[q].syms
    <3>1. PICK q \in Proc : i \in 1..Len(OirOf(q)) /\ g[i] = OirOf(q)[i]
      BY <2>2, <2>4 DEF Placed
    <3> DEFINE m == program[q].syms
               c == program[q].code
    <3>2. /\ m \in Nat /\ g[i].by = q /\ Len(OirOf(q)) = 1 + m + Len(c)
          /\ i = 1 => g[i] = Record(q, "header", m + 1)
          /\ i \in 2..Len(OirOf(q)) =>
               g[i] = IF i <= m + 1 THEN Record(q, "sym", i - 1)
                      ELSE Record(q, c[i - m - 1].kind, c[i - m - 1].id)
          /\ \A j \in 1..Len(c) : c[j] \in [kind : {"checked", "plain"}, id : 0..m]
      BY <2>3, <3>1, OirLemma
    <3>3. Len(c) \in Nat
      <4>1. program[q] \in Program
        BY <2>3
      <4> QED  BY <4>1, PipelineAssumption
    <3> HIDE DEF m, c
    <3>4. ASSUME i # 1, ~(i <= m + 1)
          PROVE  g[i].kind \in {"checked", "plain"} /\ g[i].val \in 0..m
      <4>1. i - m - 1 \in 1..Len(c) /\ i \in 2..Len(OirOf(q))
        BY <3>1, <3>2, <3>3, <3>4
      <4>2. c[i - m - 1] \in [kind : {"checked", "plain"}, id : 0..m]
        BY <3>2, <4>1
      <4>3. g[i] = Record(q, c[i - m - 1].kind, c[i - m - 1].id)
        BY <3>2, <3>4, <4>1
      <4> QED  BY <4>2, <4>3 DEF Record
    <3>5. ASSUME i # 1, i <= m + 1 PROVE g[i] = Record(q, "sym", i - 1)
      BY <3>1, <3>2, <3>3, <3>5
    <3> QED  BY <3>2, <3>4, <3>5 DEF m
  <2>5. PICK o \in Proc : /\ program[o].syms \in Nat /\ g[1].by = o
                          /\ h = program[o].syms + 1
    <3>1. g[1] # Hole
      BY <2>2 DEF Hole
    <3>2. PICK q \in Proc : /\ program[q].syms \in Nat /\ g[1].by = q
                            /\ g[1] = Record(q, "header", program[q].syms + 1)
      BY <2>3, <2>4, <3>1
    <3> QED  BY <3>2 DEF h, Record
  <2>6. \A i \in 2..h : g[i].kind = "sym" /\ g[i].val = i - 1
    <3> SUFFICES ASSUME NEW i \in 2..h PROVE g[i].kind = "sym" /\ g[i].val = i - 1
      OBVIOUS
    <3>1. i \in 1..n /\ i \in 2..n /\ i # 1 /\ g[i].kind = "sym"
      BY <2>2, <2>5
    <3>2. g[i] # Hole
      BY <3>1 DEF Hole
    <3>3. PICK q \in Proc :
            g[i] = Record(q, "sym", i - 1) \/ g[i].kind \in {"checked", "plain"}
      BY <2>4, <3>1, <3>2
    <3> QED  BY <3>1, <3>3 DEF Record
  <2>7. /\ Len(Symbols(p)) = h - 1 /\ DOMAIN Symbols(p) = 1..(h - 1)
        /\ \A i \in 1..(h - 1) : Symbols(p)[i] = g[i + 1]
    BY <2>2, <2>5, SubSeqProperties DEF Symbols, g, h, n
  <2>8. \A i \in DOMAIN Symbols(p) : Symbols(p)[i].kind = "sym" /\ Symbols(p)[i].val = i
    <3> SUFFICES ASSUME NEW i \in 1..(h - 1)
                 PROVE  g[i + 1].kind = "sym" /\ g[i + 1].val = i
      BY <2>7
    <3>1. i + 1 \in 2..h
      BY <2>5
    <3> QED  BY <2>6, <3>1
  <2>9. /\ DOMAIN Code(p) = 1..(n - h)
        /\ \A i \in 1..(n - h) : Code(p)[i] = g[h + i]
    <3>1. h + 1 \in Int /\ n \in Int /\ \A i \in (h + 1)..n : i \in 1..n
      BY <2>2, <2>5
    <3>2. g \in Seq(AnyRecord) /\ \A i \in (h + 1)..n : g[i] \in AnyRecord
      BY <2>2, <3>1 DEF n
    <3>3. Code(p) = SubSeq(g, h + 1, n)
      BY DEF Code, g, h, n
    <3> DEFINE d == Code(p)
    <3>4. /\ d \in Seq(AnyRecord)
          /\ Len(d) = IF h + 1 <= n THEN n - (h + 1) + 1 ELSE 0
          /\ \A i \in 1..(n - (h + 1) + 1) : d[i] = g[h + 1 + i - 1]
      BY <3>1, <3>2, <3>3, SubSeqProperties
    <3> HIDE DEF d
    <3>5. n - (h + 1) + 1 = n - h /\ h \in Nat
      BY <2>2, <2>5
    <3>6. Len(d) = n - h
      BY <2>2, <3>4, <3>5
    <3>7. DOMAIN d = 1..(n - h)
      BY <3>4, <3>6
    <3>8. ASSUME NEW i \in 1..(n - h) PROVE d[i] = g[h + i]
      <4>1. i \in 1..(n - (h + 1) + 1)
        BY <3>5
      <4>2. h + 1 + i - 1 = h + i
        BY <3>5
      <4>3. d[i] = g[h + 1 + i - 1]
        BY <3>4, <4>1
      <4> QED  BY <4>2, <4>3
    <3> QED  BY <3>7, <3>8 DEF d
  <2>10. ASSUME NEW i \in DOMAIN Code(p), Dangles(p, Code(p)[i])
         PROVE  Code(p)[i].kind = "plain" /\ Code(p)[i].by # g[1].by
    <3> DEFINE r == Code(p)[i]
    <3>1. h + i \in 1..n /\ h + i # 1 /\ r = g[h + i]
      <4>1. i \in 1..(n - h) /\ r = g[h + i]
        BY <2>9, <2>10
      <4>2. n \in Nat /\ h \in Nat /\ h >= 1
        BY <2>2, <2>5
      <4> QED  BY <4>1, <4>2
    <3>2. r.kind \in {"checked", "plain"} /\ r.val > h - 1
      BY <2>7, <2>10 DEF Dangles
    <3> HIDE DEF r
    <3> DEFINE j == h + i
    <3>3. j \in 1..n /\ j # 1 /\ g[j] = r /\ g[j] # Hole
      BY <3>1, <3>2 DEF Hole
    <3> HIDE DEF j
    <3>4. PICK q \in Proc : /\ program[q].syms \in Nat /\ g[j].by = q
                            /\ \/ g[j] = Record(q, "sym", j - 1)
                               \/ g[j].val \in 0..program[q].syms
      BY <2>4, <3>3
    <3>5. r.by = q /\ r.val \in 0..program[q].syms
      BY <3>2, <3>3, <3>4 DEF Record
    <3>6. r.by # g[1].by
      BY <2>5, <3>2, <3>4, <3>5
    <3>7. r.kind # "checked"
      <4> SUFFICES ASSUME r.kind = "checked" PROVE FALSE
        OBVIOUS
      <4>1. r.val = 0 \/ \E k \in DOMAIN Symbols(p) : Symbols(p)[k].val = r.val
        BY <2>2 DEF AnalysisOk, Resolves, r
      <4>2. CASE r.val = 0
        BY <2>5, <3>2, <4>2
      <4>3. ASSUME NEW k \in 1..(h - 1), r.val = k PROVE FALSE
        BY <2>5, <3>2, <4>3
      <4> QED  BY <2>7, <2>8, <4>1, <4>2, <4>3
    <3> QED  BY <3>2, <3>6, <3>7 DEF r
  <2> QED  BY <2>1, <2>8, <2>10 DEF g
<1> QED  BY <1>1, Invariance, PTL

(* A source whose parse recorded an error goes through main without        *)
(* touching the artefact, whoever else is running.                         *)
THEOREM DirtyIsInert == Spec => DirtyProgramTouchesNothing
<1>1. ASSUME IInv, [Next]_vars
      PROVE  [\A p \in Proc : pc'[p] # pc[p] /\ ~Clean(p) => UNCHANGED <<dir, inode>>]_vars
  <2>1. CASE UNCHANGED vars
    BY <2>1
  <2>2. ASSUME NEW p \in Proc, Start(p) \/ Step(p) \/ Crash(p),
               NEW q \in Proc, pc'[q] # pc[q], ~Clean(q)
        PROVE  UNCHANGED <<dir, inode>>
    <3>1. p = q
      BY <1>1, <2>2, OthersWait DEF IInv
    <3>2. pc[p] \notin {"save", "write"}
      BY <1>1, <2>2, <3>1 DEF IInv, CleanInv
    <3> QED  BY <2>2, <3>2
             DEF Start, Step, Save, Read, Crash, PickTarget, NoDll, CreateSession, Parse, StopOnErrors,
                 GoOnToSave, SaveRejected, SaveOpen, SaveWrite, SaveFails, SaveDone, NoOir,
                 ReadOpen, ReadRecord, ReadFails, Analyse, Leave, fileVars
  <2> QED  BY <1>1, <2>1, <2>2 DEF Next
<1> QED  BY <1>1, Invariance, PTL DEF Spec, DirtyProgramTouchesNothing

-------------------------------------------------------------------------------
(* One compilation at a time.                                              *)

Sole == \A p, q \in Proc : Live(p) /\ Live(q) => p = q

(* Where a compilation has not opened the file yet.                        *)
Early == {"new", "target", "parser", "parsing", "check", "save"}

(* What the one compilation that runs has left in the file so far.         *)
OwnFile(p) ==
  /\ pc[p] \in Early => pos[p] = 0
  /\ pc[p] = "write" =>
       /\ fd[p] = dir /\ Len(inode[dir]) = pos[p]
       /\ \A i \in 1..pos[p] : inode[dir][i] = OirOf(p)[i]
  /\ pc[p] = "analyzer" => dir \in Proc /\ inode[dir] = OirOf(p)
  /\ pc[p] = "read" =>
       /\ fd[p] = dir /\ inode[dir] = OirOf(p) /\ size[p] = Len(OirOf(p))
       /\ Len(got[p]) <= size[p] /\ \A i \in 1..Len(got[p]) : got[p][i] = OirOf(p)[i]
  /\ pc[p] = "ok" => got[p] = OirOf(p)

AloneInv == Sole /\ \A p \in Proc : OwnFile(p)

(* A process is live before each of its steps, and starts alone.           *)
LEMMA StepIsLive ==
  ASSUME NEW p \in Proc, Step(p) \/ Crash(p) PROVE Live(p)
BY DEF Step, Save, Read, Crash, PickTarget, NoDll, CreateSession, Parse, StopOnErrors, GoOnToSave,
       SaveRejected, SaveOpen, SaveWrite, SaveFails, SaveDone, NoOir, ReadOpen, ReadRecord,
       ReadFails, Analyse, Live, Ended

LEMMA StartsAlone ==
  ASSUME MaxLive <= 1, Sole, NEW p \in Proc, Start(p), NEW q \in Proc
  PROVE  ~Live(q)
<1> DEFINE S == {r \in Proc : Live(r)}
<1>1. Cardinality(S) < MaxLive /\ MaxLive \in Nat
  BY PipelineAssumption DEF Start
<1>2. ASSUME Live(q) PROVE FALSE
  <2>1. S = {q}
    BY <1>2 DEF Sole
  <2>2. Cardinality({q}) = 1
    BY FS_Singleton
  <2> QED  BY <1>1, <2>1, <2>2
<1> QED  BY <1>2

LEMMA SoleStep == ASSUME MaxLive <= 1, TypeInv, Sole, [Next]_vars PROVE Sole'
<1>1. CASE UNCHANGED vars
  BY <1>1 DEF vars, Sole, Live, Ended
<1>2. ASSUME NEW p \in Proc, Start(p) \/ Step(p) \/ Crash(p) PROVE Sole'
  <2>1. \A q \in Proc : q # p => ~Live(q)
    BY <1>2, StepIsLive, StartsAlone DEF Sole
  <2>2. \A q \in Proc : q # p => ~Live(q)'
    BY <1>2, <2>1, OthersWait DEF Live, Ended
  <2> QED  BY <2>2 DEF Sole
<1> QED  BY <1>1, <1>2 DEF Next

(* Whoever does not run keeps what it has.                                 *)
LEMMA RestKeeps ==
  ASSUME TypeInv, [Next]_vars, NEW q \in Proc, OwnFile(q), pc[q] \in Ended \union {"new"},
         pc'[q] = pc[q], pos'[q] = pos[q], got'[q] = got[q]
  PROVE  OwnFile(q)'
BY SamePrograms DEF OwnFile, Early, Ended

LEMMA OwnStep ==
  ASSUME MaxLive <= 1, TypeInv, ReaderInv, AloneInv, [Next]_vars, NEW q \in Proc
  PROVE  OwnFile(q)'
<1>1. program' = program /\ \A r \in Proc : OirOf(r)' = OirOf(r)
  BY SamePrograms
<1>2. CASE UNCHANGED vars
  BY <1>1, <1>2 DEF vars, AloneInv, OwnFile, Early
<1>3. ASSUME NEW p \in Proc, Start(p) \/ Step(p) \/ Crash(p), p # q
      PROVE  OwnFile(q)'
  <2>1. ~Live(q)
    BY <1>3, StepIsLive, StartsAlone DEF AloneInv, Sole
  <2> QED  BY <1>3, <2>1, OthersWait, RestKeeps DEF AloneInv, Live
<1>4. ASSUME Start(q) \/ Step(q) \/ Crash(q)
      PROVE  OwnFile(q)'
  <2>0. OwnFile(q) /\ OirOf(q) \in Seq(AnyRecord) /\ Len(OirOf(q)) \in Nat
    BY OirLemma DEF AloneInv, TypeInv, TypeOK
  <2>1. ASSUME NEW l \in {"fail", "dead"}, Goto(q, l) PROVE OwnFile(q)'
    BY <2>1 DEF Goto, OwnFile, Early, TypeInv, TypeOK
  <2>2. CASE NoDll(q) \/ StopOnErrors(q) \/ SaveRejected(q) \/ SaveFails(q) \/ NoOir(q)
             \/ ReadFails(q) \/ Crash(q)
    BY <2>1, <2>2 DEF NoDll, StopOnErrors, SaveRejected, SaveFails, NoOir, ReadFails, Crash,
                      Leave
  <2>3. ASSUME NEW l \in {"target", "parser", "parsing", "check", "save"}, pc'[q] = l,
               pos' = pos, pc[q] \in {"new", "target", "parser", "parsing", "check"}
        PROVE  OwnFile(q)'
    BY <2>0, <2>3 DEF OwnFile, Early
  <2>4. CASE Start(q) \/ CreateSession(q) \/ Parse(q) \/ GoOnToSave(q)
    BY <2>3, <2>4 DEF Start, CreateSession, Parse, GoOnToSave, Goto, fileVars, TypeInv, TypeOK
  <2>5. CASE PickTarget(q)
    <3>1. pc[q] = "target" /\ pos' = pos
      BY <2>5 DEF PickTarget, fileVars
    <3>2. pc'[q] \in {"target", "parser"}
      <4>1. input[q] \in {"exists", "typed", "eof"}
        BY PipelineAssumption DEF TypeInv, TypeOK
      <4> QED  BY <2>5, <4>1 DEF PickTarget, Goto, TypeInv, TypeOK
    <3> QED  BY <2>3, <3>1, <3>2
  <2>6. CASE SaveOpen(q)
    <3>1. PICK n \in Proc : dir' = n /\ fd'[q] = n /\ inode'[n] = <<>> /\ pos' = pos
                            /\ pc[q] = "save" /\ pc'[q] = "write"
      BY <2>6 DEF SaveOpen, Goto, TypeInv, TypeOK
    <3> QED  BY <2>0, <3>1 DEF OwnFile, Early
  <2>7. CASE SaveWrite(q)
    <3>1. PICK k \in (pos[q] + 1)..Len(OirOf(q)) :
            /\ inode' = [inode EXCEPT ![fd[q]] =
                            Overlay(@, SubSeq(OirOf(q), pos[q] + 1, k), pos[q])]
            /\ pos' = [pos EXCEPT ![q] = k]
      BY <2>7 DEF SaveWrite
    <3>2. /\ pc[q] = "write" /\ pc' = pc /\ dir' = dir /\ fd' = fd
          /\ fd[q] = dir /\ dir \in Proc /\ inode[dir] \in Seq(AnyRecord)
          /\ Len(inode[dir]) = pos[q] /\ \A i \in 1..pos[q] : inode[dir][i] = OirOf(q)[i]
      BY <2>0, <2>7 DEF SaveWrite, OwnFile, TypeInv, TypeOK
    <3>3. inode'[dir] = WrittenTo(inode[dir], q, k) /\ pos'[q] = k
      BY <3>1, <3>2 DEF TypeInv, WrittenTo
    <3>4. /\ pos[q] \in Nat /\ k \in Nat
          /\ Len(inode'[dir]) = IF Len(inode[dir]) > k THEN Len(inode[dir]) ELSE k
          /\ \A i \in 1..Len(inode'[dir]) :
               inode'[dir][i] = IF i > pos[q] /\ i <= k THEN OirOf(q)[i]
                                ELSE IF i <= Len(inode[dir]) THEN inode[dir][i] ELSE Hole
      BY <3>2, <3>3, WriteLemma
    <3>5. Len(inode'[dir]) = k
      BY <3>1, <3>2, <3>4
    <3>6. \A i \in 1..k : inode'[dir][i] = OirOf(q)[i]
      <4> SUFFICES ASSUME NEW i \in 1..k PROVE inode'[dir][i] = OirOf(q)[i]
        OBVIOUS
      <4>1. CASE i > pos[q]
        BY <3>4, <3>5, <4>1
      <4>2. CASE i <= pos[q]
        <5>1. i \in 1..pos[q] /\ i <= Len(inode[dir]) /\ ~(i > pos[q])
          BY <3>2, <3>4, <4>2
        <5> QED  BY <3>2, <3>4, <3>5, <5>1
      <4> QED  BY <3>4, <4>1, <4>2
    <3> QED  BY <1>1, <3>2, <3>3, <3>5, <3>6 DEF OwnFile, Early
  <2>8. CASE SaveDone(q)
    <3>1. /\ pc[q] = "write" /\ pc'[q] = "analyzer" /\ dir' = dir /\ inode' = inode
          /\ fd[q] \in Proc /\ pos[q] = Len(OirOf(q))
      BY <2>8 DEF SaveDone, AllWritten, Goto, TypeInv, TypeOK
    <3>2. dir \in Proc /\ inode[dir] \in Seq(AnyRecord) /\ Len(inode[dir]) = Len(OirOf(q))
          /\ \A i \in 1..Len(OirOf(q)) : inode[dir][i] = OirOf(q)[i]
      BY <2>0, <3>1 DEF OwnFile, TypeInv
    <3>3. inode[dir] = OirOf(q)
      BY <2>0, <3>2, SeqEqual
    <3> QED  BY <1>1, <3>1, <3>2, <3>3 DEF OwnFile, Early
  <2>9. CASE ReadOpen(q)
    <3>1. /\ pc[q] = "analyzer" /\ pc'[q] = "read" /\ dir' = dir /\ inode' = inode
          /\ fd'[q] = dir /\ size'[q] = Len(inode[dir]) /\ got' = got
      BY <2>9 DEF ReadOpen, Goto, TypeInv, TypeOK
    <3>2. got[q] = <<>>
      BY <3>1 DEF ReaderInv, ReaderOf, Ended
    <3> QED  BY <1>1, <2>0, <3>1, <3>2 DEF OwnFile, Early
  <2>10. CASE ReadRecord(q)
    <3> DEFINE n == Len(got[q])
               o == OirOf(q)
    <3>1. /\ pc[q] = "read" /\ pc' = pc /\ dir' = dir /\ inode' = inode /\ fd' = fd
          /\ size' = size /\ n + 1 \in Nat /\ n + 1 <= Len(Content(q))
          /\ got'[q] = Append(got[q], Content(q)[n + 1])
      BY <2>10 DEF ReadRecord, Readable, NextAt, fileVars, TypeInv
    <3>2. Content(q) = o /\ fd[q] = dir /\ inode[dir] = o /\ size[q] = Len(o)
          /\ \A i \in 1..n : got[q][i] = o[i]
      BY <2>0, <3>1 DEF OwnFile, Content
    <3>3. o[n + 1] \in AnyRecord /\ n \in Nat /\ got[q] \in Seq(AnyRecord)
      BY <2>0, <3>1, <3>2 DEF TypeInv
    <3>4. /\ Len(got'[q]) = n + 1 /\ got'[q][n + 1] = o[n + 1]
          /\ \A i \in 1..n : got'[q][i] = got[q][i]
      BY <3>1, <3>2, <3>3, AppendProperties
    <3>5. \A i \in 1..(n + 1) : got'[q][i] = o[i]
      <4> HIDE DEF n, o
      <4> QED  BY <3>2, <3>3, <3>4
    <3>6. n + 1 <= Len(o)
      BY <3>1, <3>2
    <3> HIDE DEF n
    <3> QED  BY <1>1, <3>1, <3>2, <3>4, <3>5, <3>6 DEF OwnFile, Early
  <2>11. CASE Analyse(q)
    <3>1. PICK l \in {"ok", "fail"} : Goto(q, l) /\ got' = got
      BY <2>11 DEF Analyse, Leave
    <3>2. CASE l = "fail"
      BY <2>1, <3>1, <3>2
    <3>3. CASE l = "ok"
      <4>1. /\ pc[q] = "read" /\ Len(got[q]) = size[q] /\ got[q] \in Seq(AnyRecord)
            /\ pc'[q] = "ok"
        BY <2>11, <3>1, <3>3 DEF Analyse, Goto, TypeInv, TypeOK
      <4>2. got[q] = OirOf(q)
        BY <2>0, <4>1, SeqEqual DEF OwnFile
      <4> QED  BY <1>1, <3>1, <4>1, <4>2 DEF OwnFile, Early
    <3> QED  BY <3>1, <3>2, <3>3
  <2> QED  BY <1>4, <2>2, <2>4, <2>5, <2>6, <2>7, <2>8, <2>9, <2>10, <2>11
           DEF Step, Save, Read
<1> QED  BY <1>2, <1>3, <1>4 DEF Next

LEMMA AloneInit == ASSUME Init PROVE AloneInv
BY DEF Init, AloneInv, Sole, Live, OwnFile, Early

(* One at a time, the file belongs to the compilation that runs.           *)
THEOREM SoleInvariance == ASSUME MaxLive <= 1 PROVE Spec => [](IInv /\ AloneInv)
<1>1. Init => AloneInv
  BY AloneInit
<1>2. IInv /\ AloneInv /\ [Next]_vars => AloneInv'
  <2> SUFFICES ASSUME IInv, AloneInv, [Next]_vars PROVE AloneInv'
    OBVIOUS
  <2>1. Sole'
    BY SoleStep DEF IInv, AloneInv
  <2>2. \A q \in Proc : OwnFile(q)'
    BY OwnStep DEF IInv
  <2> QED  BY <2>1, <2>2 DEF AloneInv
<1> QED  BY <1>1, <1>2, Invariance, PTL DEF Spec

(* One compilation at a time, exit status 0 means that the reader was      *)
(* given exactly what this compilation saved, whatever earlier ones that   *)
(* failed or were killed have left in intermediate.oir.                    *)
THEOREM SoleAnalysesItsOwn == ASSUME MaxLive <= 1 PROVE Spec => []AnalysedOwn
<1>1. AloneInv => AnalysedOwn
  BY DEF AloneInv, OwnFile, AnalysedOwn
<1> QED  BY <1>1, SoleInvariance, PTL

-------------------------------------------------------------------------------
(* The refinement of CompileSpec.                                          *)

(* A compilation that has not opened the file does not find its own OIR in *)
(* it, and once it writes, the file is its own.                            *)
FreshInv == \A p \in Proc : pc[p] \in Early /\ dir # None => inode[dir] # OirOf(p)

ArtefactInv ==
  \A p \in Proc :
    /\ pc[p] \in Early => Artefact # p
    /\ pc[p] = "write" => Artefact = IF AllWritten(p) THEN p ELSE "partial"
    /\ pc[p] \in {"analyzer", "read"} => Artefact = p

(* No OIR is empty, and the first record says whose it is.                 *)
LEMMA FirstRecord ==
  ASSUME TypeInv, NEW p \in Proc
  PROVE  Len(OirOf(p)) \in Nat \ {0} /\ OirOf(p)[1].by = p
<1>1. /\ Len(OirOf(p)) \in Nat \ {0}
      /\ \A i \in 1..Len(OirOf(p)) : OirOf(p)[i].by = p
  BY OirLemma DEF TypeInv, TypeOK
<1>2. 1 \in 1..Len(OirOf(p))
  BY <1>1
<1> QED  BY <1>1, <1>2

(* No step leads back to a place before the save.                          *)
LEMMA EarlyBefore ==
  ASSUME TypeInv, [Next]_vars, NEW q \in Proc, pc'[q] \in Early
  PROVE  pc[q] \in Early
<1>1. CASE UNCHANGED vars
  BY <1>1 DEF vars
<1>2. ASSUME NEW p \in Proc, Start(p) \/ Step(p) \/ Crash(p), p # q PROVE pc[q] \in Early
  BY <1>2, OthersWait
<1>3. ASSUME Start(q) \/ Step(q) \/ Crash(q) PROVE pc[q] \in Early
  <2>1. ASSUME NEW l, Leave(q, l), l \in Ended PROVE FALSE
    BY <2>1 DEF Leave, Goto, Early, Ended, TypeInv, TypeOK
  <2>2. ASSUME NEW l, Goto(q, l), l \in {"write", "analyzer", "read", "fail"} PROVE FALSE
    BY <2>2 DEF Goto, Early, TypeInv, TypeOK
  <2>3. ASSUME pc' = pc PROVE pc[q] \in Early
    BY <2>3
  <2>4. CASE Start(q) \/ PickTarget(q) \/ CreateSession(q) \/ Parse(q) \/ GoOnToSave(q)
    BY <2>4 DEF Start, PickTarget, CreateSession, Parse, GoOnToSave, Early
  <2>5. CASE NoDll(q) \/ StopOnErrors(q) \/ SaveRejected(q) \/ NoOir(q) \/ ReadFails(q)
             \/ Analyse(q) \/ Crash(q)
    BY <2>1, <2>5 DEF NoDll, StopOnErrors, SaveRejected, NoOir, ReadFails, Analyse, Crash,
                      Ended
  <2>6. CASE SaveOpen(q) \/ SaveFails(q) \/ SaveDone(q) \/ ReadOpen(q)
    BY <2>2, <2>6 DEF SaveOpen, SaveFails, SaveDone, ReadOpen
  <2>7. CASE SaveWrite(q) \/ ReadRecord(q)
    BY <2>3, <2>7 DEF SaveWrite, ReadRecord
  <2> QED  BY <1>3, <2>4, <2>5, <2>6, <2>7 DEF Step, Save, Read
<1> QED  BY <1>1, <1>2, <1>3 DEF Next

LEMMA FreshStep ==
  ASSUME IInv, IInv', AloneInv', FreshInv, [Next]_vars PROVE FreshInv'
<1>1. \A q \in Proc : OirOf(q)' = OirOf(q)
  BY SamePrograms
<1>2. ASSUME NEW q \in Proc, pc'[q] \in Early, dir' # None PROVE inode'[dir'] # OirOf(q)
  <2>0. pc[q] \in Early
    BY <1>2, EarlyBefore DEF IInv
  <2>1. CASE UNCHANGED <<dir, inode>>
    BY <1>2, <2>0, <2>1 DEF FreshInv
  <2>2. ASSUME NEW p \in Proc, SaveOpen(p) PROVE inode'[dir'] # OirOf(q)
    <3>1. inode'[dir'] = <<>>
      BY <2>2 DEF SaveOpen, IInv, TypeInv, TypeOK
    <3>2. Len(OirOf(q)) # 0
      BY FirstRecord DEF IInv
    <3> QED  BY <3>1, <3>2
  <2>3. ASSUME NEW p \in Proc, SaveWrite(p) PROVE inode'[dir'] # OirOf(q)
    <3>1. /\ pc'[p] = "write" /\ pos'[p] \in 1..Len(OirOf(p))
      <4>1. PICK k \in (pos[p] + 1)..Len(OirOf(p)) : pos' = [pos EXCEPT ![p] = k]
        BY <2>3 DEF SaveWrite
      <4>2. pos[p] \in Nat /\ Len(OirOf(p)) \in Nat
        BY FirstRecord DEF IInv, TypeInv
      <4>3. pos'[p] = k
        BY <4>1 DEF IInv, TypeInv
      <4>4. k \in 1..Len(OirOf(p))
        BY <4>2
      <4> QED  BY <2>3, <4>3, <4>4 DEF SaveWrite
    <3>2. inode'[dir'][1] = OirOf(p)[1]
      <4>1. 1 \in 1..pos'[p]
        BY <3>1
      <4> QED  BY <1>1, <3>1, <4>1 DEF AloneInv, OwnFile
    <3>3. OirOf(p)[1].by = p /\ OirOf(q)[1].by = q
      BY FirstRecord DEF IInv
    <3>4. p # q
      BY <1>2, <3>1 DEF Early
    <3> QED  BY <3>2, <3>3, <3>4
  <2>4. ASSUME NEW p \in Proc, SaveFails(p) PROVE inode'[dir'] # OirOf(q)
    BY <1>2, <2>1, <2>4 DEF SaveFails
  <2>5. ASSUME NEW p \in Proc, Start(p) \/ Step(p) \/ Crash(p),
               ~SaveOpen(p), ~SaveWrite(p), ~SaveFails(p)
        PROVE  UNCHANGED <<dir, inode>>
    BY <2>5 DEF Start, Step, Save, Read, Crash, PickTarget, NoDll, CreateSession, Parse,
                StopOnErrors, GoOnToSave, SaveRejected, SaveDone, NoOir, ReadOpen, ReadRecord,
                ReadFails, Analyse, Leave, fileVars
  <2> QED  BY <2>1, <2>2, <2>3, <2>4, <2>5 DEF Next, vars
<1> QED  BY <1>1, <1>2 DEF FreshInv

(* Whose OIR a whole file is can be read off its first record.             *)
LEMMA WholeIsOwn ==
  ASSUME TypeInv, NEW p \in Proc, dir # None, inode[dir] = OirOf(p) PROVE Artefact = p
<1>1. \A q \in Proc : OirOf(q) = OirOf(p) => q = p
  <2> SUFFICES ASSUME NEW q \in Proc, OirOf(q) = OirOf(p) PROVE q = p
    OBVIOUS
  <2>1. OirOf(q)[1].by = q /\ OirOf(p)[1].by = p
    BY FirstRecord
  <2> QED  BY <2>1
<1>2. HeldOir = {p}
  BY <1>1 DEF HeldOir
<1> QED  BY <1>2 DEF Artefact

(* While p writes, a file that is not complete is nobody's.                *)
LEMMA PartIsNobodys ==
  ASSUME TypeInv, NEW p \in Proc, OwnFile(p), pc[p] = "write", ~AllWritten(p)
  PROVE  Artefact = "partial"
<1>1. /\ dir # None /\ Len(inode[dir]) = pos[p] /\ pos[p] \in 0..Len(OirOf(p))
      /\ \A i \in 1..pos[p] : inode[dir][i] = OirOf(p)[i]
  <2>1. fd[p] \in Proc
    BY DEF TypeInv, TypeOK
  <2> QED  BY <2>1, PipelineAssumption DEF OwnFile, TypeInv, TypeOK
<1>2. ASSUME NEW q \in Proc, inode[dir] = OirOf(q) PROVE FALSE
  <2>1. Len(OirOf(q)) \in Nat \ {0} /\ OirOf(q)[1].by = q /\ OirOf(p)[1].by = p
    BY FirstRecord
  <2>2. 1 \in 1..pos[p]
    BY <1>1, <1>2, <2>1
  <2>3. q = p
    BY <1>1, <1>2, <2>1, <2>2
  <2> QED  BY <1>1, <1>2, <2>3 DEF AllWritten
<1>3. HeldOir = {}
  BY <1>2 DEF HeldOir
<1> QED  BY <1>1, <1>3 DEF Artefact

LEMMA ArtefactIs == ASSUME IInv, AloneInv, FreshInv PROVE ArtefactInv
<1> SUFFICES ASSUME NEW p \in Proc
             PROVE  /\ pc[p] \in Early => Artefact # p
                    /\ pc[p] = "write" => Artefact = IF AllWritten(p) THEN p ELSE "partial"
                    /\ pc[p] \in {"analyzer", "read"} => Artefact = p
  BY DEF ArtefactInv
<1>1. TypeInv /\ OwnFile(p) /\ OirOf(p) \in Seq(AnyRecord)
  BY OirLemma DEF IInv, AloneInv, TypeInv, TypeOK
<1>2. ASSUME pc[p] \in Early, Artefact = p PROVE FALSE
  <2>1. p \notin {"none", "partial"}
    BY PipelineAssumption
  <2>2. dir # None /\ p \in HeldOir
    BY <1>2, <2>1 DEF Artefact
  <2> QED  BY <1>2, <2>2 DEF FreshInv, HeldOir
<1>3. ASSUME pc[p] = "write", AllWritten(p) PROVE Artefact = p
  <2>1. /\ dir \in Proc /\ inode[dir] \in Seq(AnyRecord)
        /\ Len(inode[dir]) = Len(OirOf(p))
        /\ \A i \in 1..Len(OirOf(p)) : inode[dir][i] = OirOf(p)[i]
    BY <1>1, <1>3 DEF OwnFile, AllWritten, TypeInv, TypeOK
  <2>2. inode[dir] = OirOf(p)
    BY <1>1, <2>1, SeqEqual
  <2> QED  BY <1>1, <2>1, <2>2, WholeIsOwn, PipelineAssumption
<1>4. ASSUME pc[p] \in {"analyzer", "read"} PROVE Artefact = p
  <2>1. dir \in Proc /\ inode[dir] = OirOf(p)
    BY <1>1, <1>4 DEF OwnFile, TypeInv, TypeOK
  <2> QED  BY <1>1, <2>1, WholeIsOwn, PipelineAssumption
<1> QED  BY <1>1, <1>2, <1>3, <1>4, PartIsNobodys

(* When neither the entry nor the file it leads to changes, the artefact   *)
(* stays what it is.                                                       *)
LEMMA SameArtefact ==
  ASSUME [Next]_vars, UNCHANGED <<dir, inode>> PROVE Artefact' = Artefact
<1>1. HeldOir' = HeldOir
  BY SamePrograms DEF HeldOir
<1> QED  BY <1>1 DEF Artefact

(* Every step of a process maps to a step of CompileSpec or to none:       *)
(* opening the file damages it, the last write completes it, and the error *)
(* return of save may remove it.                                           *)
LEMMA StepRefines ==
  ASSUME MaxLive <= 1, IInv, IInv', AloneInv, AloneInv', ArtefactInv, ArtefactInv',
         [Next]_vars
  PROVE  [Promise!Next]_(Promise!vars)
<1> DEFINE CleanOf == [q \in Proc |-> Clean(q)]
<1>0. UNCHANGED CleanOf
  BY SamePrograms DEF Clean
<1>1. CASE UNCHANGED vars
  BY <1>0, <1>1, SameArtefact DEF vars, Promise!vars, Status, Live, Ended
<1>2. ASSUME NEW p \in Proc, Start(p) \/ Step(p) \/ Crash(p)
      PROVE  Promise!Next \/ UNCHANGED Promise!vars
  <2> DEFINE Place(l) == IF l \in {"fail", "dead"} THEN "failed"
                         ELSE IF l \notin Ended \union {"new"} THEN "running" ELSE l
  <2>1. Status = [q \in Proc |-> Place(pc[q])] /\ Status' = [q \in Proc |-> Place(pc'[q])]
    BY DEF Status, Live, Ended
  <2>2. \A q \in Proc : q # p => pc'[q] = pc[q]
    BY <1>2, OthersWait DEF IInv
  <2>3. Status' = [Status EXCEPT ![p] = Place(pc'[p])]
    BY <2>1, <2>2
  <2>4. Step(p) \/ Crash(p) => Promise!Running(p)
    BY <2>1, StepIsLive DEF Live, Ended, Promise!Running
  <2>5. CASE Start(p)
    <3>1. pc[p] = "new" /\ pc'[p] = "target" /\ UNCHANGED <<dir, inode>>
      BY <2>5 DEF Start, Goto, fileVars, IInv, TypeInv, TypeOK
    <3>2. \A q \in Proc : ~Promise!Running(q)
      BY <2>1, <2>5, StartsAlone DEF AloneInv, Live, Ended, Promise!Running
    <3>3. Promise!Begin(p)
      BY <1>0, <2>1, <2>3, <3>1, <3>2, SameArtefact DEF Ended, Promise!Begin
    <3> QED  BY <3>3 DEF Promise!Next
  <2>6. ASSUME Step(p) \/ Crash(p), UNCHANGED <<dir, inode>>,
               pc'[p] \in {"fail", "dead"}
        PROVE  Promise!Next
    <3>1. Promise!Fail(p)
      BY <1>0, <2>3, <2>4, <2>6, SameArtefact DEF Promise!Fail
    <3> QED  BY <3>1 DEF Promise!Next
  <2>7. CASE NoDll(p) \/ StopOnErrors(p) \/ SaveRejected(p) \/ NoOir(p) \/ ReadFails(p)
             \/ Crash(p)
    <3>1. UNCHANGED <<dir, inode>> /\ pc'[p] \in {"fail", "dead"}
      BY <2>7 DEF NoDll, StopOnErrors, SaveRejected, NoOir, ReadFails, Crash, Leave, Goto,
                  IInv, TypeInv, TypeOK
    <3> QED  BY <1>2, <2>6, <2>7, <3>1 DEF Step, Save, Read
  <2>8. ASSUME Step(p), Artefact' = Artefact, pc'[p] \notin Ended \union {"new"}
        PROVE  UNCHANGED Promise!vars
    <3>1. Place(pc'[p]) = Status[p]
      BY <2>1, <2>4, <2>8 DEF Ended, Promise!Running
    <3> QED  BY <1>0, <2>1, <2>3, <3>1, <2>8 DEF Promise!vars
  <2>9. CASE PickTarget(p) \/ CreateSession(p) \/ Parse(p) \/ GoOnToSave(p) \/ SaveDone(p)
             \/ ReadOpen(p) \/ ReadRecord(p)
    <3>1. UNCHANGED <<dir, inode>>
      BY <2>9 DEF PickTarget, CreateSession, Parse, GoOnToSave, SaveDone, ReadOpen,
                  ReadRecord, fileVars
    <3>2. pc'[p] \in {"target", "parser", "parsing", "check", "save", "analyzer", "read"}
      <4>1. input[p] \in {"exists", "typed", "eof"}
        BY PipelineAssumption DEF IInv, TypeInv, TypeOK
      <4> QED  BY <2>9, <4>1 DEF PickTarget, CreateSession, Parse, GoOnToSave, SaveDone,
                                ReadOpen, ReadRecord, Goto, IInv, TypeInv, TypeOK
    <3> QED  BY <2>8, <2>9, <3>1, <3>2, SameArtefact DEF Step, Save, Read, Ended
  <2>10. CASE SaveOpen(p)
    <3>1. pc'[p] = "write" /\ pos' = pos /\ pc[p] = "save"
      BY <2>10 DEF SaveOpen, Goto, IInv, TypeInv, TypeOK
    <3>2. pos'[p] = 0 /\ Len(OirOf(p)') # 0
      BY <3>1, FirstRecord, SamePrograms DEF AloneInv, OwnFile, Early, IInv
    <3>3. Artefact' = "partial" /\ Artefact # p
      BY <3>1, <3>2 DEF ArtefactInv, AllWritten, Early
    <3>4. UNCHANGED Status /\ Clean(p)
      BY <2>1, <2>3, <3>1 DEF Ended, IInv, CleanInv
    <3>5. Promise!Damage(p)
      BY <1>0, <2>4, <2>10, <3>3, <3>4 DEF Step, Save, Promise!Damage
    <3> QED  BY <3>5 DEF Promise!Next
  <2>11. CASE SaveWrite(p)
    <3>1. pc'[p] = "write" /\ pc[p] = "write" /\ ~AllWritten(p)
      <4>1. PICK k \in (pos[p] + 1)..Len(OirOf(p)) : TRUE
        BY <2>11 DEF SaveWrite
      <4>2. pos[p] \in Nat /\ Len(OirOf(p)) \in Nat
        BY FirstRecord DEF IInv, TypeInv
      <4> QED  BY <2>11, <4>1, <4>2 DEF SaveWrite, AllWritten
    <3>2. Artefact = "partial" /\ Artefact' = IF AllWritten(p)' THEN p ELSE "partial"
      BY <3>1 DEF ArtefactInv
    <3>3. UNCHANGED Status /\ Clean(p)
      BY <2>1, <2>3, <3>1 DEF Ended, IInv, CleanInv
    <3>4. CASE AllWritten(p)'
      <4>1. Promise!Produce(p)
        BY <1>0, <2>4, <2>11, <3>2, <3>3, <3>4 DEF Step, Save, Promise!Produce
      <4> QED  BY <4>1 DEF Promise!Next
    <3>5. CASE ~AllWritten(p)'
      BY <1>0, <3>2, <3>3, <3>5 DEF Promise!vars
    <3> QED  BY <3>4, <3>5
  <2>12. CASE SaveFails(p)
    <3>1. pc[p] = "write" /\ pc'[p] = "fail" /\ inode' = inode
      BY <2>12 DEF SaveFails, Goto, IInv, TypeInv, TypeOK
    <3>2. CASE dir' = dir
      BY <2>6, <2>12, <3>1, <3>2 DEF Step, Save
    <3>3. CASE dir' = None
      <4>1. Artefact' = "none" /\ Artefact \in {"partial", p} /\ Clean(p)
        BY <3>1, <3>3 DEF Artefact, ArtefactInv, IInv, CleanInv
      <4>2. Promise!Fail(p)
        BY <1>0, <2>3, <2>4, <2>12, <3>1, <4>1 DEF Promise!Fail, Step, Save
      <4> QED  BY <4>2 DEF Promise!Next
    <3> QED  BY <2>12, <3>2, <3>3 DEF SaveFails
  <2>13. CASE Analyse(p)
    <3>1. UNCHANGED <<dir, inode>> /\ pc[p] = "read" /\ pc'[p] \in {"ok", "fail"}
      BY <2>13 DEF Analyse, Leave, Goto, IInv, TypeInv, TypeOK
    <3>2. CASE pc'[p] = "fail"
      BY <2>6, <2>13, <3>1, <3>2 DEF Step, Read
    <3>3. CASE pc'[p] = "ok"
      <4>1. Artefact = p /\ Artefact' = p
        BY <3>1, SameArtefact DEF ArtefactInv
      <4>2. Promise!Succeed(p)
        BY <1>0, <2>3, <2>4, <2>13, <3>3, <4>1 DEF Step, Read, Ended, Promise!Succeed
      <4> QED  BY <4>2 DEF Promise!Next
    <3> QED  BY <3>1, <3>2, <3>3
  <2> QED  BY <1>2, <2>5, <2>7, <2>9, <2>10, <2>11, <2>12, <2>13 DEF Step, Save, Read
<1> QED  BY <1>1, <1>2 DEF Next

(* One compilation at a time, occ implements CompileSpec: a success leaves *)
(* the whole OIR of that program behind, and a failure, at whatever point, *)
(* what it found, nothing, a part, or at most its own program's whole OIR. *)
THEOREM PipelineKeepsPromise == ASSUME MaxLive <= 1 PROVE Spec => KeepsPromise
<1>1. Init => Promise!Init
  BY DEF Init, Promise!Init, Status, Artefact, Live, Ended, Clean
<1>2. Init => FreshInv
  BY DEF Init, FreshInv
<1>3. IInv /\ IInv' /\ AloneInv' /\ FreshInv /\ [Next]_vars => FreshInv'
  BY FreshStep
<1>4. IInv /\ AloneInv /\ FreshInv => ArtefactInv
  BY ArtefactIs
<1>5. IInv /\ IInv' /\ AloneInv /\ AloneInv' /\ ArtefactInv /\ ArtefactInv' /\ [Next]_vars
        => [Promise!Next]_(Promise!vars)
  BY StepRefines
<1>6. Spec => [](IInv /\ AloneInv)
  BY SoleInvariance
<1>7. Spec => []ArtefactInv
  BY <1>2, <1>3, <1>4, <1>6, PTL DEF Spec
<1> QED  BY <1>1, <1>5, <1>6, <1>7, PTL DEF Spec, KeepsPromise, Promise!Spec

=============================================================================
