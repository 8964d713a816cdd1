-------------------------- MODULE NexusFrontEndProofs --------------------------
(***************************************************************************)
(* What the run of NexusFrontEnd checks on some texts, proved for every    *)
(* text and every sequence of tokens.  Of the lexer: a token carries the   *)
(* line and column of its first symbol, nothing is lost between two tokens,*)
(* and each is as long as it can be.  Of the parser: ids always resolve,   *)
(* and the instructions are always well nested.                            *)
(***************************************************************************)
EXTENDS NexusFrontEnd, SequenceTheorems, FiniteSetTheorems, WellFoundedInduction, TLAPS

-------------------------------------------------------------------------------
(* Sequences of whatever, and the least of some numbers.                   *)

IsSeq(s) == Len(s) \in Nat /\ s = [i \in 1..Len(s) |-> s[i]]

LEMMA SeqIsSeq == ASSUME NEW S, NEW s \in Seq(S) PROVE IsSeq(s)
<1>1. s \in [1..Len(s) -> S] /\ Len(s) \in Nat
  BY LenProperties
<1> QED  BY <1>1 DEF IsSeq

LEMMA SeqOver ==
  ASSUME NEW s, IsSeq(s), NEW S, \A i \in 1..Len(s) : s[i] \in S PROVE s \in Seq(S)
<1>1. s \in [1..Len(s) -> S] /\ Len(s) \in Nat
  BY DEF IsSeq
<1> QED  BY <1>1, SeqDef

LEMMA AppendSeq ==
  ASSUME NEW s, IsSeq(s), NEW x
  PROVE  /\ IsSeq(Append(s, x)) /\ Len(Append(s, x)) = Len(s) + 1
         /\ Append(s, x)[Len(s) + 1] = x
         /\ \A i \in 1..Len(s) : Append(s, x)[i] = s[i]
<1> DEFINE S == {s[i] : i \in 1..Len(s)} \union {x}
<1>1. s \in Seq(S) /\ x \in S
  <2>1. x \in S /\ \A i \in 1..Len(s) : s[i] \in S
    OBVIOUS
  <2> HIDE DEF S
  <2> QED  BY <2>1, SeqOver
<1> HIDE DEF S
<1>2. /\ Append(s, x) \in Seq(S) /\ Len(Append(s, x)) = Len(s) + 1
      /\ \A i \in 1..Len(s) : Append(s, x)[i] = s[i]
      /\ Append(s, x)[Len(s) + 1] = x
  BY <1>1, AppendProperties
<1>3. IsSeq(Append(s, x))
  BY <1>2, SeqIsSeq
<1> QED  BY <1>2, <1>3

LEMMA ConcatSeq ==
  ASSUME NEW s, NEW t, IsSeq(s), IsSeq(t)
  PROVE  /\ IsSeq(s \o t) /\ Len(s \o t) = Len(s) + Len(t)
         /\ \A i \in 1..Len(s) : (s \o t)[i] = s[i]
         /\ \A i \in 1..Len(t) : (s \o t)[Len(s) + i] = t[i]
<1>1. PICK S : s \in Seq(S) /\ t \in Seq(S)
  <2> DEFINE S == {s[i] : i \in 1..Len(s)} \union {t[i] : i \in 1..Len(t)}
  <2>1. (\A i \in 1..Len(s) : s[i] \in S) /\ \A i \in 1..Len(t) : t[i] \in S
    OBVIOUS
  <2> HIDE DEF S
  <2> QED  BY <2>1, SeqOver
<1>2. /\ s \o t \in Seq(S) /\ Len(s \o t) = Len(s) + Len(t)
      /\ \A i \in 1..(Len(s) + Len(t)) :
           (s \o t)[i] = IF i <= Len(s) THEN s[i] ELSE t[i - Len(s)]
  BY <1>1, ConcatProperties
<1>3. Len(s) \in Nat /\ Len(t) \in Nat
  BY <1>1, LenProperties
<1>4. IsSeq(s \o t)
  BY <1>2, SeqIsSeq
<1>5. ASSUME NEW i \in 1..Len(s) PROVE (s \o t)[i] = s[i]
  BY <1>2, <1>3
<1>6. ASSUME NEW i \in 1..Len(t) PROVE (s \o t)[Len(s) + i] = t[i]
  <2>1. Len(s) + i \in 1..(Len(s) + Len(t)) /\ ~(Len(s) + i <= Len(s))
        /\ Len(s) + i - Len(s) = i
    BY <1>3
  <2> HIDE <1>3
  <2> QED  BY <1>2, <2>1
<1> QED  BY <1>2, <1>4, <1>5, <1>6

LEMMA Least ==
  ASSUME NEW T \in SUBSET Nat, T # {} PROVE \E n \in T : \A m \in T : n <= m
<1>1. PICK n \in T : \A m \in T : <<m, n>> \notin OpToRel(<, Nat)
  BY NatLessThanWellFounded, WFMin
<1>2. \A m \in T : ~(m < n)
  BY <1>1 DEF OpToRel
<1> QED  BY <1>2

-------------------------------------------------------------------------------
(* Places: the line and column of a position, from the line ends before it.*)

Breaks(p)    == {k \in 1..(p - 1) : source[k] = "nl"}
LineStart(p) == IF Breaks(p) = {} THEN 0 ELSE Max(Breaks(p))
Spot(p, l, c) == [pos |-> p, line |-> l, col |-> c]
Place(p)      == Spot(p, Cardinality(Breaks(p)) + 1, p - LineStart(p))

LEMMA SpotHas ==
  ASSUME NEW p, NEW l, NEW c
  PROVE  Spot(p, l, c).pos = p /\ Spot(p, l, c).line = l /\ Spot(p, l, c).col = c
  BY DEF Spot

(* The positions advance can be at.                                        *)
Spots == 1..(Len(source) + 1)

LEMMA BreaksFinite == ASSUME NEW p \in Nat PROVE IsFiniteSet(Breaks(p))
<1>1. IsFiniteSet(1..(p - 1)) /\ Breaks(p) \in SUBSET (1..(p - 1))
  BY FS_Interval DEF Breaks
<1> QED  BY <1>1, FS_Subset

LEMMA BreaksNext ==
  ASSUME NEW p \in Nat, 1 <= p
  PROVE  Breaks(p + 1) = IF source[p] = "nl" THEN Breaks(p) \union {p} ELSE Breaks(p)
  BY DEF Breaks

LEMMA StartPlace == Start = Place(1)
<1>1. Breaks(1) = {}
  BY DEF Breaks
<1>2. Cardinality(Breaks(1)) + 1 = 1 /\ 1 - LineStart(1) = 1
  BY <1>1, FS_EmptySet DEF LineStart
<1> QED  BY <1>2 DEF Start, Place, Spot

LEMMA LineStartInt == ASSUME NEW p \in Nat PROVE LineStart(p) \in Int
<1>1. CASE Breaks(p) = {}
  BY <1>1 DEF LineStart
<1>2. CASE Breaks(p) # {}
  <2>1. Max(Breaks(p)) \in Breaks(p)
    <3>1. \E x \in Breaks(p) : \A y \in Breaks(p) : x >= y
      <4> DEFINE T == {p - k : k \in Breaks(p)}
      <4>1. T \in SUBSET Nat /\ T # {}
        BY <1>2 DEF Breaks
      <4>2. PICK n \in T : \A m \in T : n <= m
        <5> HIDE DEF T
        <5> QED  BY <4>1, Least
      <4>3. PICK x \in Breaks(p) : n = p - x
        BY <4>2
      <4>4. \A y \in Breaks(p) : x >= y
        <5>1. \A y \in Breaks(p) : y \in Int /\ p - y \in T
          BY DEF Breaks
        <5> HIDE DEF T
        <5>3. \A y \in Breaks(p) : y \in Int /\ p - x <= p - y
          BY <4>2, <4>3, <5>1
        <5>2. x \in Int
          BY <4>3 DEF Breaks
        <5> QED  BY <5>2, <5>3
      <4> QED  BY <4>3, <4>4
    <3> QED  BY <3>1, Zenon DEF Max
  <2> QED  BY <1>2, <2>1 DEF LineStart, Breaks
<1> QED  BY <1>1, <1>2

LEMMA PlaceNext ==
  ASSUME NEW p \in Nat, 1 <= p
  PROVE  Place(p + 1) = IF source[p] = "nl" THEN Spot(p + 1, Place(p).line + 1, 1)
                        ELSE Spot(p + 1, Place(p).line, Place(p).col + 1)
<1>1. Place(p).line = Cardinality(Breaks(p)) + 1 /\ Place(p).col = p - LineStart(p)
  BY SpotHas DEF Place
<1>2. CASE source[p] = "nl"
  <2>1. Breaks(p + 1) = Breaks(p) \union {p}
    BY <1>2, BreaksNext
  <2>2. Cardinality(Breaks(p + 1)) = Cardinality(Breaks(p)) + 1
    <3>1. p \notin Breaks(p)
      BY DEF Breaks
    <3> QED  BY <2>1, <3>1, BreaksFinite, FS_AddElement
  <2>3. LineStart(p + 1) = p
    <3>1. \A y \in Breaks(p + 1) : p >= y
      BY DEF Breaks
    <3>2. p \in Breaks(p + 1)
      BY <2>1
    <3>3. \A x \in Breaks(p + 1) : (\A y \in Breaks(p + 1) : x >= y) => x = p
      <4>1. Breaks(p + 1) \subseteq Nat
        BY DEF Breaks
      <4> QED  BY <3>1, <3>2, <4>1
    <3>4. Max(Breaks(p + 1)) = p
      <4> DEFINE B == Breaks(p + 1)
      <4>1. Max(B) = CHOOSE x \in B : \A y \in B : x >= y
        BY DEF Max
      <4> HIDE DEF B
      <4>2. p \in B /\ (\A y \in B : p >= y) /\ \A x \in B : (\A y \in B : x >= y) => x = p
        BY <3>1, <3>2, <3>3 DEF B
      <4> QED  BY <4>1, <4>2, Zenon DEF B
    <3> QED  BY <3>2, <3>4 DEF LineStart
  <2>4. p + 1 - p = 1
    OBVIOUS
  <2> QED  BY <1>1, <1>2, <2>2, <2>3, <2>4 DEF Place
<1>3. CASE source[p] # "nl"
  <2>1. Breaks(p + 1) = Breaks(p)
    BY <1>3, BreaksNext
  <2>2. LineStart(p + 1) = LineStart(p) /\ Cardinality(Breaks(p + 1)) = Cardinality(Breaks(p))
    BY <2>1 DEF LineStart
  <2>3. LineStart(p) \in Int
    BY LineStartInt
  <2>4. (p + 1) - LineStart(p) = (p - LineStart(p)) + 1
    BY <2>3
  <2>5. Cardinality(Breaks(p + 1)) + 1 = Place(p).line
    BY <1>1, <2>2
  <2>6. (p + 1) - LineStart(p + 1) = Place(p).col + 1
    BY <1>1, <2>2, <2>4
  <2>7. Place(p + 1) = Spot(p + 1, Cardinality(Breaks(p + 1)) + 1, (p + 1) - LineStart(p + 1))
    BY DEF Place
  <2> QED  BY <1>3, <2>5, <2>6, <2>7
<1> QED  BY <1>2, <1>3

(* advance goes to the next place, or stays at the end.                    *)
After1(p) == IF p > Len(source) THEN p ELSE p + 1

LEMMA AdvancePlace ==
  ASSUME IsSeq(source), NEW p \in Spots
  PROVE  Advance(Place(p)) = Place(After1(p)) /\ After1(p) \in Spots
<1>1. Len(source) \in Nat /\ p \in Nat /\ 1 <= p
  BY DEF IsSeq, Spots
<1>2. After1(p) \in Spots
  BY <1>1 DEF Spots, After1
<1>3. Place(p).pos = p
  BY SpotHas DEF Place
<1>4. CASE p > Len(source)
  <2>0. Sym(p) = "end"
    BY <1>1, <1>4 DEF Sym, IsSeq
  <2>1. Advance(Place(p)) = Place(p) /\ After1(p) = p
    BY <1>3, <1>4, <2>0 DEF Advance, After1
  <2> QED  BY <1>2, <2>1
<1>5. CASE ~(p > Len(source))
  <2>1. p \in 1..Len(source)
    BY <1>1, <1>5
  <2>2. Sym(p) = source[p]
    BY <2>1 DEF Sym, IsSeq
  <2>3. Advance(Place(p)) =
          IF source[p] = "nl" THEN Spot(p + 1, Place(p).line + 1, 1)
          ELSE Spot(p + 1, Place(p).line, Place(p).col + 1)
    BY <1>3, <1>5, <2>2 DEF Advance, Spot
  <2> QED  BY <1>1, <1>2, <1>5, <2>3, PlaceNext DEF After1
<1> QED  BY <1>2, <1>4, <1>5

Stop(j) == IF j <= Len(source) + 1 THEN j ELSE Len(source) + 1

LEMMA StopSpot ==
  ASSUME IsSeq(source), NEW j \in Nat, 1 <= j
  PROVE  /\ Stop(j) \in Spots /\ (j \in Spots => Stop(j) = j)
         /\ After1(Stop(j)) = Stop(j + 1)
  BY DEF Stop, Spots, After1, IsSeq

(* The lexer is where it should be: at some position, with its place.      *)
AtPlace == IsSeq(source) /\ at = Place(at.pos) /\ at.pos \in Spots

(* The recursive function of AdvanceTo: it exists, for these are its values*)
IsMoved(h, n) == h = [k \in 0..n |-> IF k = 0 THEN at ELSE Advance(h[k - 1])]

LEMMA MovedExists ==
  ASSUME AtPlace, NEW n \in Nat
  PROVE  IsMoved([k \in 0..n |-> Place(Stop(at.pos + k))], n)
<1> DEFINE h == [k \in 0..n |-> Place(Stop(at.pos + k))]
           g == [k \in 0..n |-> IF k = 0 THEN at ELSE Advance(h[k - 1])]
<1>1. at.pos \in Nat /\ 1 <= at.pos /\ IsSeq(source) /\ at = Place(at.pos) /\ at.pos \in Spots
  BY DEF AtPlace, Spots, IsSeq
<1>2. ASSUME NEW k \in 0..n PROVE h[k] = IF k = 0 THEN at ELSE Advance(h[k - 1])
  <2>1. h[k] = Place(Stop(at.pos + k))
    OBVIOUS
  <2>2. CASE k = 0
    <3>1. Stop(at.pos + k) = at.pos
      BY <1>1, <2>2, StopSpot
    <3> QED  BY <1>1, <2>1, <2>2, <3>1
  <2>3. CASE k # 0
    <3> DEFINE p == at.pos + (k - 1)
    <3>1. k - 1 \in 0..n /\ p \in Nat /\ 1 <= p /\ p + 1 = at.pos + k
      BY <1>1, <2>3
    <3>2. h[k - 1] = Place(Stop(p))
      BY <3>1
    <3> HIDE DEF h, p
    <3>3. Stop(p) \in Spots /\ After1(Stop(p)) = Stop(p + 1)
      BY <1>1, <3>1, StopSpot
    <3>4. Advance(Place(Stop(p))) = Place(After1(Stop(p)))
      BY <1>1, <3>3, AdvancePlace
    <3> QED  BY <2>1, <2>3, <3>1, <3>2, <3>3, <3>4
  <2> QED  BY <2>2, <2>3
<1>3. h = [k \in 0..n |-> h[k]]
  OBVIOUS
<1> HIDE DEF h
<1>4. h = g
  BY <1>2, <1>3
<1> QED  BY <1>4 DEF IsMoved, h

LEMMA AdvanceToPlace ==
  ASSUME AtPlace, NEW j \in Nat, at.pos <= j
  PROVE  AdvanceTo(j) = Place(Stop(j))
<1> DEFINE n == j - at.pos
           M == CHOOSE moved : moved = [k \in 0..n |-> IF k = 0 THEN at ELSE Advance(moved[k - 1])]
<1>1. at.pos \in Nat /\ 1 <= at.pos /\ IsSeq(source) /\ at = Place(at.pos) /\ at.pos \in Spots
  BY DEF AtPlace, Spots, IsSeq
<1>2. n \in Nat /\ at.pos + n = j
  BY <1>1
<1>3. AdvanceTo(j) = M[n]
  BY DEF AdvanceTo
<1> HIDE DEF n
<1>4. M = [k \in 0..n |-> IF k = 0 THEN at ELSE Advance(M[k - 1])]
  <2>1. \E h : IsMoved(h, n)
    BY <1>2, MovedExists
  <2>2. IsMoved(CHOOSE h : IsMoved(h, n), n)
    BY <2>1, Zenon
  <2> QED  BY <2>2, Zenon DEF IsMoved
<1> HIDE DEF M
<1> DEFINE Bad == {k \in 0..n : M[k] # Place(Stop(at.pos + k))}
<1>5. Bad = {}
  <2> SUFFICES ASSUME Bad # {} PROVE FALSE
    OBVIOUS
  <2>1. PICK k \in Bad : \A l \in Bad : k <= l
    <3>1. Bad \in SUBSET Nat
      BY <1>2
    <3> HIDE DEF Bad
    <3> QED  BY <3>1, Least
  <2>2. k \in 0..n /\ k \in Nat /\ M[k] # Place(Stop(at.pos + k))
    BY <1>2, <2>1
  <2>3. k # 0
    <3>1. k = 0 => M[k] = at /\ Stop(at.pos + k) = at.pos
      BY <1>1, <1>4, <2>2, StopSpot
    <3> QED  BY <1>1, <2>2, <3>1
  <2> DEFINE p == at.pos + (k - 1)
  <2>4. k - 1 \in 0..n /\ k - 1 \notin Bad /\ p \in Nat /\ 1 <= p /\ p + 1 = at.pos + k
    BY <1>1, <1>2, <2>1, <2>2, <2>3
  <2>5. M[k - 1] = Place(Stop(p))
    BY <2>4
  <2>6. M[k] = Advance(M[k - 1])
    BY <1>4, <2>2, <2>3
  <2> HIDE DEF p, Bad
  <2>7. Stop(p) \in Spots /\ After1(Stop(p)) = Stop(p + 1)
    BY <1>1, <2>4, StopSpot
  <2>8. Advance(Place(Stop(p))) = Place(Stop(p + 1))
    BY <1>1, <2>7, AdvancePlace
  <2> QED  BY <2>2, <2>4, <2>5, <2>6, <2>8
<1>6. n \in 0..n /\ n \notin Bad
  BY <1>2, <1>5
<1> QED  BY <1>2, <1>3, <1>6

(* The same, as the steps of the lexer need it.                            *)
LEMMA GoesTo ==
  ASSUME AtPlace, NEW j \in Spots, at.pos <= j PROVE AdvanceTo(j) = Place(j)
<1>1. j \in Nat /\ 1 <= j /\ IsSeq(source)
  BY DEF AtPlace, Spots, IsSeq
<1> QED  BY <1>1, AdvanceToPlace, StopSpot

LEMMA GoesOn ==
  ASSUME AtPlace, NEW j \in Nat, at.pos <= j
  PROVE  /\ Stop(j) \in Spots /\ at.pos <= Stop(j) /\ AdvanceTo(j) = Place(Stop(j))
         /\ \E q \in Spots : at.pos <= q /\ Advance(AdvanceTo(j)) = Place(q)
<1>1. at.pos \in Nat /\ 1 <= at.pos /\ at.pos \in Spots /\ IsSeq(source) /\ Len(source) \in Nat
  BY DEF AtPlace, Spots, IsSeq
<1>2. Stop(j) \in Spots /\ AdvanceTo(j) = Place(Stop(j))
  BY <1>1, AdvanceToPlace, StopSpot
<1>3. at.pos <= Stop(j)
  BY <1>1 DEF Stop, Spots
<1>4. Advance(Place(Stop(j))) = Place(After1(Stop(j))) /\ After1(Stop(j)) \in Spots
  BY <1>1, <1>2, AdvancePlace
<1>5. at.pos <= After1(Stop(j))
  BY <1>1, <1>2, <1>3 DEF After1, Spots
<1> QED  BY <1>2, <1>3, <1>4, <1>5

LEMMA PutsBack ==
  ASSUME IsSeq(source), NEW p \in 1..Len(source), source[p] # "nl"
  PROVE  PutBack(Place(p + 1)) = Place(p)
<1>1. p \in Nat /\ 1 <= p
  BY DEF IsSeq
<1>2. Place(p + 1) = Spot(p + 1, Place(p).line, Place(p).col + 1)
  BY <1>1, PlaceNext
<1>3. Place(p) = Spot(p, Place(p).line, Place(p).col)
  BY SpotHas DEF Place
<1>4. PutBack(Place(p + 1)) = Spot((p + 1) - 1, Place(p).line, (Place(p).col + 1) - 1)
  BY <1>2, SpotHas DEF PutBack, Spot
<1>5. Place(p).col \in Int
  BY <1>1, LineStartInt, SpotHas DEF Place
<1>6. (p + 1) - 1 = p /\ (Place(p).col + 1) - 1 = Place(p).col
  BY <1>1, <1>5
<1> QED  BY <1>3, <1>4, <1>6

-------------------------------------------------------------------------------
(* Texts.  The function of Text exists: the least number of symbols for    *)
(* which none does could be continued from the symbols before.             *)

Joined(text, symbol) == text \o symbol

IsText(h, s, n) == h = [k \in 1..n |-> IF k = 1 THEN s[1] ELSE Joined(h[k - 1], s[k])]

LEMMA TextExists ==
  ASSUME NEW s, Len(s) \in Nat, NEW n \in 1..Len(s) PROVE \E h : IsText(h, s, n)
<1> DEFINE Ok(m) == \E h : IsText(h, s, m)
           Bad == {m \in 1..Len(s) : ~Ok(m)}
<1> SUFFICES ASSUME Bad # {} PROVE FALSE
  OBVIOUS
<1>1. PICK m \in Bad : \A l \in Bad : m <= l
  <2>1. Bad \in SUBSET Nat
    OBVIOUS
  <2> HIDE DEF Bad
  <2> QED  BY <2>1, Least
<1>2. CASE m = 1
  <2> DEFINE g == [k \in 1..1 |-> s[1]]
  <2>1. g = [k \in 1..1 |-> IF k = 1 THEN s[1] ELSE Joined(g[k - 1], s[k])]
    OBVIOUS
  <2>2. IsText(g, s, 1)
    BY <2>1 DEF IsText
  <2> QED  BY <1>1, <1>2, <2>2
<1>3. CASE m # 1
  <2>1. m - 1 \in 1..Len(s) /\ m - 1 \notin Bad /\ m \in Nat
    BY <1>1, <1>3
  <2>2. PICK h : IsText(h, s, m - 1)
    BY <2>1
  <2>3. h = [k \in 1..(m - 1) |-> IF k = 1 THEN s[1] ELSE Joined(h[k - 1], s[k])]
    BY <2>2 DEF IsText
  <2> DEFINE g == [k \in 1..m |-> IF k = 1 THEN s[1] ELSE Joined(h[k - 1], s[k])]
  <2>4. ASSUME NEW k \in 2..m PROVE g[k - 1] = h[k - 1]
    <3>1. k - 1 \in 1..(m - 1) /\ k - 1 \in 1..m
      BY <2>1
    <3>2. h[k - 1] = IF k - 1 = 1 THEN s[1] ELSE Joined(h[(k - 1) - 1], s[k - 1])
      BY <2>3, <3>1
    <3>3. g[k - 1] = IF k - 1 = 1 THEN s[1] ELSE Joined(h[(k - 1) - 1], s[k - 1])
      BY <3>1
    <3> QED  BY <3>2, <3>3
  <2>5. g = [k \in 1..m |-> IF k = 1 THEN s[1] ELSE Joined(g[k - 1], s[k])]
    <3>1. \A k \in 1..m : k # 1 => k \in 2..m
      BY <2>1
    <3>2. \A k \in 1..m :
            (IF k = 1 THEN s[1] ELSE Joined(h[k - 1], s[k]))
              = IF k = 1 THEN s[1] ELSE Joined(g[k - 1], s[k])
      <4> HIDE DEF g
      <4> QED  BY <2>4, <3>1
    <3> QED  BY <3>2
  <2>6. IsText(g, s, m)
    BY <2>5 DEF IsText
  <2> QED  BY <1>1, <2>6
<1> QED  BY <1>2, <1>3

(* h is the text of each prefix.                                           *)
Spells(h, s) == h[1] = s[1] /\ \A k \in 2..Len(s) : h[k] = Joined(h[k - 1], s[k])

LEMMA TextSpells ==
  ASSUME NEW s, Len(s) \in Nat, 1 <= Len(s) PROVE \E h : Spells(h, s) /\ Text(s) = h[Len(s)]
<1> DEFINE A == CHOOSE text :
      text = [k \in 1..Len(s) |-> IF k = 1 THEN s[1] ELSE Joined(text[k - 1], s[k])]
<1>1. Text(s) = A[Len(s)]
  BY DEF Text, Joined
<1>2. A = [k \in 1..Len(s) |-> IF k = 1 THEN s[1] ELSE Joined(A[k - 1], s[k])]
  <2>1. \E g : IsText(g, s, Len(s))
    <3>1. Len(s) \in 1..Len(s)
      OBVIOUS
    <3> QED  BY <3>1, TextExists
  <2>2. IsText(CHOOSE g : IsText(g, s, Len(s)), s, Len(s))
    BY <2>1, Zenon
  <2> QED  BY <2>2, Zenon DEF IsText
<1> HIDE DEF A
<1>3. Spells(A, s)
  <2>1. 1 \in 1..Len(s) /\ \A k \in 2..Len(s) : k \in 1..Len(s) /\ k # 1
    OBVIOUS
  <2> QED  BY <1>2, <2>1 DEF Spells
<1>4. Spells(A, s) /\ Text(s) = A[Len(s)]
  BY <1>1, <1>3
<1> QED  BY <1>4, Zenon

LEMMA SpellsText ==
  ASSUME NEW s, Len(s) \in Nat, 1 <= Len(s), NEW h, Spells(h, s) PROVE h[Len(s)] = Text(s)
<1>1. PICK g : Spells(g, s) /\ Text(s) = g[Len(s)]
  BY TextSpells
<1> DEFINE Bad == {m \in 1..Len(s) : h[m] # g[m]}
<1> SUFFICES ASSUME Bad # {} PROVE FALSE
  BY <1>1
<1>2. PICK m \in Bad : \A l \in Bad : m <= l
  <2>1. Bad \in SUBSET Nat
    OBVIOUS
  <2> HIDE DEF Bad
  <2> QED  BY <2>1, Least
<1>3. m # 1
  BY <1>1, <1>2 DEF Spells
<1>4. m \in 2..Len(s) /\ m - 1 \in 1..Len(s) /\ m - 1 \notin Bad
  BY <1>2, <1>3
<1>5. h[m - 1] = g[m - 1]
  BY <1>4
<1>6. h[m] = Joined(h[m - 1], s[m]) /\ g[m] = Joined(g[m - 1], s[m])
  BY <1>1, <1>4 DEF Spells
<1> QED  BY <1>2, <1>5, <1>6

LEMMA TextOne == ASSUME NEW x PROVE Text(<<x>>) = x
<1> DEFINE s == <<x>>
<1>1. Len(s) = 1 /\ s[1] = x
  OBVIOUS
<1> HIDE DEF s
<1>2. PICK h : Spells(h, s) /\ Text(s) = h[Len(s)]
  <2>1. Len(s) \in Nat /\ 1 <= Len(s)
    BY <1>1
  <2> HIDE <1>1
  <2> QED  BY <2>1, TextSpells
<1>3. Text(s) = x
  BY <1>1, <1>2 DEF Spells
<1> QED  BY <1>3 DEF s

LEMMA TextAppend ==
  ASSUME NEW s, IsSeq(s), 1 <= Len(s), NEW x PROVE Text(Append(s, x)) = Text(s) \o x
<1> DEFINE t == Append(s, x)
           n == Len(s)
<1>1. n \in Nat /\ 1 <= n
  BY DEF IsSeq
<1>2. Len(t) = n + 1 /\ t[n + 1] = x /\ \A i \in 1..n : t[i] = s[i]
  BY AppendSeq
<1> HIDE DEF t
<1>3. PICK h : Spells(h, t) /\ Text(t) = h[Len(t)]
  BY <1>1, <1>2, TextSpells
<1>4. Spells(h, s)
  <2>1. 1 \in 1..n /\ \A k \in 2..n : k \in 1..n /\ k \in 2..(n + 1)
    BY <1>1
  <2> QED  BY <1>2, <1>3, <2>1 DEF Spells
<1>5. h[n] = Text(s)
  BY <1>1, <1>4, SpellsText
<1>6. h[n + 1] = Joined(h[n], x)
  <2>1. n + 1 \in 2..(n + 1) /\ (n + 1) - 1 = n
    BY <1>1
  <2> QED  BY <1>2, <1>3, <2>1 DEF Spells
<1> QED  BY <1>2, <1>3, <1>5, <1>6 DEF Joined, t

(* The symbols from a on and before b.                                     *)
Part(a, b) == SubSeq(source, a, b - 1)

LEMMA PartIs ==
  ASSUME IsSeq(source), NEW a \in 1..Len(source), NEW b \in (a + 1)..(Len(source) + 1)
  PROVE  /\ IsSeq(Part(a, b)) /\ Len(Part(a, b)) = b - a
         /\ \A i \in 1..(b - a) : Part(a, b)[i] = source[a + i - 1]
<1> DEFINE S == {source[i] : i \in 1..Len(source)}
           n == b - 1
<1>1. Len(source) \in Nat /\ a \in Int /\ n \in Int /\ a <= n /\ n - a + 1 = b - a
  BY DEF IsSeq
<1>2. \A i \in a..n : source[i] \in S
  BY <1>1
<1> HIDE DEF S
<1>3. /\ SubSeq(source, a, n) \in Seq(S)
      /\ Len(SubSeq(source, a, n)) = IF a <= n THEN n - a + 1 ELSE 0
      /\ \A i \in 1..(n - a + 1) : SubSeq(source, a, n)[i] = source[a + i - 1]
  <2> HIDE DEF n
  <2> QED  BY <1>1, <1>2, SubSeqProperties
<1>4. IsSeq(Part(a, b))
  BY <1>3, SeqIsSeq DEF Part
<1> QED  BY <1>1, <1>3, <1>4 DEF Part

LEMMA PartOne ==
  ASSUME IsSeq(source), NEW a \in 1..Len(source) PROVE Part(a, a + 1) = <<source[a]>>
<1>1. Len(source) \in Nat /\ a + 1 \in (a + 1)..(Len(source) + 1)
  BY DEF IsSeq
<1>2. IsSeq(Part(a, a + 1)) /\ Len(Part(a, a + 1)) = (a + 1) - a
      /\ \A i \in 1..((a + 1) - a) : Part(a, a + 1)[i] = source[a + i - 1]
  BY <1>1, PartIs
<1>3. (a + 1) - a = 1 /\ a + 1 - 1 = a
  BY <1>1
<1> DEFINE p == Part(a, a + 1)
<1> HIDE DEF p
<1>4. IsSeq(p) /\ Len(p) = 1 /\ p[1] = source[a]
  BY <1>2, <1>3 DEF p
<1>5. p = [i \in 1..1 |-> p[i]]
  BY <1>4 DEF IsSeq
<1>6. p = <<source[a]>>
  BY <1>4, <1>5
<1> QED  BY <1>6 DEF p

LEMMA PartAppend ==
  ASSUME IsSeq(source), NEW a \in 1..Len(source), NEW b \in (a + 1)..Len(source)
  PROVE  Part(a, b + 1) = Append(Part(a, b), source[b])
<1> DEFINE n == b - a
           p == Part(a, b)
           q == Part(a, b + 1)
           r == Append(p, source[b])
<1>1. Len(source) \in Nat /\ b \in (a + 1)..(Len(source) + 1) /\ b + 1 \in (a + 1)..(Len(source) + 1)
      /\ n \in Nat /\ (b + 1) - a = n + 1 /\ a + (n + 1) - 1 = b
  BY DEF IsSeq
<1>2. IsSeq(p) /\ Len(p) = n /\ \A i \in 1..n : p[i] = source[a + i - 1]
  BY <1>1, PartIs
<1>3. IsSeq(q) /\ Len(q) = n + 1 /\ \A i \in 1..(n + 1) : q[i] = source[a + i - 1]
  BY <1>1, PartIs
<1> HIDE DEF p, q, n
<1>4. IsSeq(r) /\ Len(r) = n + 1 /\ r[n + 1] = source[b] /\ \A i \in 1..n : r[i] = p[i]
  BY <1>2, AppendSeq
<1> HIDE DEF r
<1>5. \A i \in 1..(n + 1) : i \in 1..n \/ i = n + 1
  BY <1>1
<1>6. \A i \in 1..(n + 1) : q[i] = r[i]
  <2>1. n + 1 \in 1..(n + 1) /\ \A i \in 1..n : i \in 1..(n + 1)
    BY <1>1
  <2>2. q[n + 1] = source[b]
    BY <1>1, <1>3, <2>1
  <2> QED  BY <1>2, <1>3, <1>4, <1>5, <2>1, <2>2
<1>7. q = r
  BY <1>3, <1>4, <1>6 DEF IsSeq
<1> QED  BY <1>7 DEF q, r, p

-------------------------------------------------------------------------------
(* The first of some positions from i on, or else the end.                 *)

LEMMA FirstIs ==
  ASSUME IsSeq(source), NEW i \in Nat, 1 <= i, NEW stops, stops \subseteq From(i)
  PROVE  /\ First(stops) \in Spots /\ First(stops) \in Nat
         /\ First(stops) \in stops \/ First(stops) = Len(source) + 1
         /\ \A k \in stops : First(stops) <= k
         /\ i <= Len(source) + 1 => i <= First(stops)
<1> DEFINE S == stops \union {Len(source) + 1}
<1>1. Len(source) \in Nat /\ \A k \in stops : k \in Nat /\ 1 <= k /\ i <= k /\ k <= Len(source)
  BY DEF IsSeq, From
<1>2. PICK n \in S : \A m \in S : n <= m
  <2>1. S \in SUBSET Nat /\ S # {}
    BY <1>1
  <2> HIDE DEF S
  <2> QED  BY <2>1, Least
<1>3. First(stops) \in S /\ \A m \in S : First(stops) <= m
  <2>1. First(stops) = CHOOSE l \in S : \A m \in S : l <= m
    BY DEF First, Min
  <2> HIDE DEF S
  <2> QED  BY <1>2, <2>1, Zenon
<1>4. First(stops) \in stops \/ First(stops) = Len(source) + 1
  BY <1>3
<1>5. First(stops) \in Spots /\ First(stops) \in Nat
  <2>1. CASE First(stops) \in stops
    BY <1>1, <2>1 DEF Spots
  <2>2. CASE First(stops) = Len(source) + 1
    BY <1>1, <2>2 DEF Spots
  <2> QED  BY <1>4, <2>1, <2>2
<1>6. i <= Len(source) + 1 => i <= First(stops)
  <2>1. CASE First(stops) \in stops
    BY <1>1, <2>1
  <2>2. CASE First(stops) = Len(source) + 1
    BY <1>1, <2>2
  <2> QED  BY <1>4, <2>1, <2>2
<1> QED  BY <1>3, <1>4, <1>5, <1>6

(* The positions from i on that are before the first stop are none.        *)
LEMMA BeforeFirst ==
  ASSUME IsSeq(source), NEW i \in Nat, 1 <= i, NEW stops, stops \subseteq From(i),
         NEW k \in From(i), k < First(stops)
  PROVE  k \notin stops
<1>1. First(stops) \in Nat /\ \A l \in stops : First(stops) <= l
  BY FirstIs
<1>2. k \in Int
  BY DEF From
<1> QED  BY <1>1, <1>2

-------------------------------------------------------------------------------
(* The invariant.  The places and texts of the tokens before the last one  *)
(* need not be remembered: no step touches them.                           *)

(* A symbol that need not be in a token.                                   *)
Passed(i) == Sym(i) \in Blanks \/ i \in reported \/ InComment(i)
Gap(a, b) == a <= b /\ \A i \in a..(b - 1) : Passed(i)

EndOf(k) == IF k = 0 THEN 1 ELSE tokens[k].next
Untold   == {"string", "character", "EOF"}
LastOf   == tokens[Len(tokens)]

LastPlaced == /\ LastOf.line = Place(LastOf.from).line
              /\ LastOf.col = Place(LastOf.from).col

LastWhole ==
  /\ Gap(EndOf(Len(tokens) - 1), LastOf.from)
  /\ LastOf.t \notin Untold => LastOf.v = Text(Part(LastOf.from, LastOf.next))

LexInv ==
  /\ AtPlace
  /\ IsSeq(tokens)
  /\ EndOf(Len(tokens)) \in Spots /\ Gap(EndOf(Len(tokens)), at.pos)
  /\ Len(tokens) # 0 => LastPlaced /\ LastWhole

LEMMA Empty == ASSUME NEW s, IsSeq(s) PROVE (s = <<>>) <=> Len(s) = 0
  BY DEF IsSeq

LEMMA LexInvPlaces == ASSUME LexInv PROVE PositionsExact
<1> SUFFICES ASSUME tokens # <<>> PROVE PositionsExact
  BY DEF PositionsExact
<1>1. IsSeq(tokens) /\ Len(tokens) # 0 /\ LastPlaced
  BY Empty DEF LexInv
<1>2. Last(tokens) = LastOf
  BY DEF Last, LastOf
<1> DEFINE f == LastOf.from
<1>3. LastOf.line = Cardinality(Breaks(f)) + 1 /\ LastOf.col = f - LineStart(f)
  BY <1>1, SpotHas DEF LastPlaced, Place
<1>4. PositionsExact <=>
        /\ LastOf.line = Cardinality(Breaks(f)) + 1
        /\ LastOf.col = f - LineStart(f)
  BY <1>2 DEF PositionsExact, Breaks, LineStart
<1> QED  BY <1>3, <1>4

LEMMA LexInvSkipsNothing == ASSUME LexInv PROVE NothingSkipped
<1> DEFINE L == Len(tokens)
           end(k) == IF k = 0 THEN 1 ELSE tokens[k].next
           from(k) == IF k > L THEN at.pos ELSE tokens[k].from
           Good(k) ==
             /\ end(k - 1) <= from(k)
             /\ k \in DOMAIN tokens /\ tokens[k].t \notin Untold =>
                  tokens[k].v = Text(SubSeq(source, from(k), end(k) - 1))
             /\ \A i \in end(k - 1)..(from(k) - 1) :
                  Sym(i) \in Blanks \/ i \in reported \/ InComment(i)
<1>1. L \in Nat /\ DOMAIN tokens = 1..L
  BY DEF LexInv, IsSeq
<1>2. Good(L + 1)
  <2>1. L + 1 > L /\ L + 1 \notin DOMAIN tokens /\ (L + 1) - 1 = L
    BY <1>1
  <2>2. Gap(EndOf(L), at.pos)
    BY DEF LexInv
  <2> QED  BY <2>1, <2>2 DEF Gap, EndOf, Passed
<1>3. ASSUME L # 0 PROVE Good(L)
  <2>1. ~(L > L) /\ L # 0
    BY <1>1, <1>3
  <2>2. LastWhole
    BY <1>3 DEF LexInv
  <2> QED  BY <2>1, <2>2 DEF LastWhole, LastOf, Gap, EndOf, Passed, Part
<1>4. NothingSkipped <=> \A k \in {L, L + 1} \ {0} : Good(k)
  BY DEF NothingSkipped, Untold
<1> HIDE DEF Good, L
<1> QED  BY <1>2, <1>3, <1>4

LEMMA LexInvFacts ==
  ASSUME LexInv
  PROVE  /\ IsSeq(source) /\ Len(source) \in Nat /\ IsSeq(tokens) /\ Len(tokens) \in Nat
         /\ at = Place(at.pos) /\ at.pos \in Spots /\ at.pos \in Nat /\ 1 <= at.pos
         /\ at.pos <= Len(source) + 1
  BY DEF LexInv, AtPlace, IsSeq, Spots

(* A step that leaves the tokens, and passes over some symbols.            *)
LEMMA MoveKeeps ==
  ASSUME LexInv, NEW p \in Spots, at.pos <= p,
         at' = Place(p), UNCHANGED <<source, tokens>>, reported \subseteq reported',
         \A i \in at.pos..(p - 1) : Sym(i) \in Blanks \/ i \in reported' \/ InComment(i)
  PROVE  LexInv'
<1>1. at.pos \in Nat /\ p \in Nat /\ IsSeq(source)
  BY LexInvFacts DEF Spots, IsSeq
<1>2. AtPlace'
  <2>1. at'.pos = p
    BY SpotHas DEF Place
  <2>2. Place(p)' = Place(p)
    BY DEF Place, Breaks, LineStart
  <2> QED  BY <1>1, <2>1, <2>2 DEF AtPlace, Spots
<1>3. \A i : Passed(i) => Passed(i)'
  BY DEF Passed, InComment, Sym
<1>4. \A i \in at.pos..(p - 1) : Passed(i)'
  BY DEF Passed, InComment, Sym
<1>6. EndOf(Len(tokens)) \in Spots /\ Gap(EndOf(Len(tokens)), at.pos)
  BY DEF LexInv
<1>7. (EndOf(Len(tokens)) \in Spots)' /\ Gap(EndOf(Len(tokens)), at.pos)'
  <2> DEFINE e == EndOf(Len(tokens))
  <2>1. e' = e
    BY DEF EndOf
  <2>2. e \in Int /\ e <= at.pos /\ \A i \in e..(at.pos - 1) : Passed(i)
    BY <1>1, <1>6 DEF Gap, Spots
  <2>3. at'.pos = p
    BY SpotHas DEF Place
  <2> HIDE DEF e
  <2>4. \A i \in e..(p - 1) : Passed(i)'
    <3>1. \A i \in e..(p - 1) : i \in e..(at.pos - 1) \/ i \in at.pos..(p - 1)
      BY <1>1, <2>2
    <3> QED  BY <1>3, <1>4, <2>2, <3>1
  <2>5. e <= p
    BY <1>1, <2>2
  <2>6. Gap(e, at.pos)'
    BY <2>1, <2>3, <2>4, <2>5 DEF Gap
  <2> QED  BY <1>6, <2>1, <2>6 DEF e, Spots
<1>8. (Len(tokens) # 0 => LastPlaced /\ LastWhole)'
  <2> SUFFICES ASSUME Len(tokens) # 0 PROVE LastPlaced' /\ LastWhole'
    OBVIOUS
  <2>1. LastPlaced /\ LastWhole
    BY DEF LexInv
  <2>2. LastPlaced'
    BY <2>1 DEF LastPlaced, LastOf, Place, Breaks, LineStart
  <2>3. LastWhole'
    BY <1>3, <2>1 DEF LastWhole, LastOf, EndOf, Untold, Part, Gap
  <2> QED  BY <2>2, <2>3
<1> QED  BY <1>2, <1>7, <1>8 DEF LexInv

(* A step that makes a token of the symbols from here to p.                *)
LEMMA YieldKeeps ==
  ASSUME LexInv, NEW p \in Spots, at.pos <= p, NEW type, NEW value, NEW c, c = Place(p),
         Yield(type, value, c), type \notin Untold => value = Text(Part(at.pos, p))
  PROVE  LexInv'
<1> DEFINE L == Len(tokens)
           t == [t |-> type, v |-> value, line |-> at.line, col |-> at.col,
                 from |-> at.pos, next |-> c.pos]
<1>1. /\ at.pos \in Nat /\ p \in Nat /\ IsSeq(source) /\ L \in Nat /\ IsSeq(tokens)
      /\ at = Place(at.pos)
  BY LexInvFacts DEF Spots, IsSeq
<1>2. tokens' = Append(tokens, t) /\ at' = c /\ source' = source /\ reported' = reported
  BY DEF Yield
<1>3. c.pos = p
  BY SpotHas DEF Place
<1>4. /\ t.t = type /\ t.v = value /\ t.line = at.line /\ t.col = at.col
      /\ t.from = at.pos /\ t.next = p
  BY <1>3
<1> HIDE DEF t
<1>5. /\ IsSeq(tokens') /\ Len(tokens') = L + 1 /\ tokens'[L + 1] = t
      /\ \A i \in 1..L : tokens'[i] = tokens[i]
  BY <1>1, <1>2, AppendSeq
<1>6. AtPlace'
  <2>1. Place(p)' = Place(p)
    BY <1>2 DEF Place, Breaks, LineStart
  <2> QED  BY <1>1, <1>2, <1>3, <2>1 DEF AtPlace, Spots
<1>7. LastOf' = t
  BY <1>5 DEF LastOf
<1>8. \A i : Passed(i) => Passed(i)'
  BY <1>2 DEF Passed, InComment, Sym
<1>9. EndOf(Len(tokens))' = p
  BY <1>1, <1>4, <1>5 DEF EndOf
<1>10. Gap(p, p)'
  BY <1>1 DEF Gap
<1>11. LastPlaced'
  <2>1. at.line = Place(at.pos).line /\ at.col = Place(at.pos).col
    BY <1>1
  <2>2. \A a : Place(a)' = Place(a)
    BY <1>2 DEF Place, Breaks, LineStart
  <2> QED  BY <1>4, <1>7, <2>1, <2>2 DEF LastPlaced
<1>12. LastWhole'
  <2>1. Gap(EndOf(L), at.pos)
    BY DEF LexInv
  <2>2. EndOf(Len(tokens) - 1)' = EndOf(L)
    <3>1. Len(tokens') - 1 = L
      BY <1>1, <1>5
    <3>2. L # 0 => L \in 1..L
      BY <1>1
    <3> QED  BY <1>5, <3>1, <3>2 DEF EndOf
  <2>3. LastOf'.from = at.pos /\ LastOf'.t = type /\ LastOf'.v = value /\ LastOf'.next = p
    BY <1>4, <1>7
  <2>4. Gap(EndOf(Len(tokens) - 1), LastOf.from)'
    BY <1>8, <2>1, <2>2, <2>3 DEF Gap
  <2>5. (LastOf.t \notin Untold => LastOf.v = Text(Part(LastOf.from, LastOf.next)))'
    BY <1>2, <2>3 DEF Untold, Part
  <2> QED  BY <2>4, <2>5 DEF LastWhole
<1> QED  BY <1>2, <1>3, <1>5, <1>6, <1>9, <1>10, <1>11, <1>12 DEF LexInv, Spots

-------------------------------------------------------------------------------
(* One lemma for each step of the lexer.                                   *)

LEMMA SymIs ==
  ASSUME IsSeq(source), NEW i \in Int
  PROVE  /\ i \in 1..Len(source) => Sym(i) = source[i]
         /\ i \notin 1..Len(source) => Sym(i) = "end"
  BY DEF Sym, IsSeq

LEMMA LexingHere == ASSUME LexInv, Lexing PROVE at.pos \in 1..Len(source) /\ Here = source[at.pos]
<1>1. at.pos \in 1..Len(source)
  BY LexInvFacts DEF Lexing
<1> QED  BY <1>1, LexInvFacts, SymIs DEF Here

(* advance takes the symbol here.                                          *)
LEMMA OneOn ==
  ASSUME LexInv, Lexing PROVE Advance(at) = Place(at.pos + 1) /\ at.pos + 1 \in Spots
<1>1. After1(at.pos) = at.pos + 1
  BY LexInvFacts, LexingHere DEF After1
<1> QED  BY <1>1, LexInvFacts, AdvancePlace

LEMMA BlankKeeps == ASSUME LexInv, Blank PROVE LexInv'
<1> DEFINE stops == {j \in From(at.pos) : Sym(j) \notin Blanks}
           p == First(stops)
<1>1. /\ IsSeq(source) /\ Len(source) \in Nat /\ at.pos \in Nat /\ 1 <= at.pos
      /\ at.pos <= Len(source) + 1 /\ stops \subseteq From(at.pos) /\ AtPlace
  BY LexInvFacts DEF LexInv
<1>2. p \in Spots /\ p \in Nat /\ at.pos <= p
  <2> HIDE DEF stops
  <2> QED  BY <1>1, FirstIs
<1>3. ASSUME NEW i \in at.pos..(p - 1) PROVE Sym(i) \in Blanks
  <2>1. i \in From(at.pos) /\ i < p
    BY <1>1, <1>2 DEF From, Spots
  <2>2. i \notin stops
    <3> HIDE DEF stops
    <3> QED  BY <1>1, <2>1, BeforeFirst
  <2> QED  BY <2>1, <2>2
<1>4. AdvanceTo(p) = Place(p)
  BY <1>1, <1>2, GoesTo
<1>5. at' = Place(p) /\ UNCHANGED <<source, tokens, reported>>
  BY <1>4 DEF Blank, Move
<1> HIDE DEF p
<1> QED  BY <1>2, <1>3, <1>5, MoveKeeps

LEMMA LineCommentKeeps == ASSUME LexInv, LineComment PROVE LexInv'
<1> DEFINE stops == {j \in From(at.pos) : Sym(j) = "nl"}
           p == First(stops)
<1>1. /\ IsSeq(source) /\ Len(source) \in Nat /\ at.pos \in Nat /\ 1 <= at.pos
      /\ at.pos <= Len(source) + 1 /\ stops \subseteq From(at.pos) /\ AtPlace
  BY LexInvFacts DEF LexInv
<1>2. p \in Spots /\ p \in Nat /\ at.pos <= p
  <2> HIDE DEF stops
  <2> QED  BY <1>1, FirstIs
<1>3. ASSUME NEW i \in at.pos..(p - 1) PROVE Sym(i) # "nl"
  <2>1. i \in From(at.pos) /\ i < p
    BY <1>1, <1>2 DEF From, Spots
  <2>2. i \notin stops
    <3> HIDE DEF stops
    <3> QED  BY <1>1, <2>1, BeforeFirst
  <2> QED  BY <2>1, <2>2
<1>4. AdvanceTo(p) = Place(p)
  BY <1>1, <1>2, GoesTo
<1>5. /\ at' = Place(p) /\ UNCHANGED <<source, tokens, reported>>
      /\ Sym(at.pos) = "#" /\ Sym(at.pos + 1) # "#"
  BY <1>4 DEF LineComment, Move, Here
<1> HIDE DEF p
<1>6. ASSUME NEW i \in at.pos..(p - 1) PROVE InComment(i)
  <2>1. at.pos \in 1..i /\ \A k \in at.pos..i : k \in at.pos..(p - 1)
    BY <1>1, <1>2
  <2> QED  BY <1>3, <1>5, <2>1 DEF InComment
<1> QED  BY <1>2, <1>5, <1>6, MoveKeeps

LEMMA BlockCommentKeeps == ASSUME LexInv, BlockComment PROVE LexInv'
<1> DEFINE stops == {k \in From(at.pos + 2) : Sym(k) = "#" /\ Sym(k + 1) = "#"}
           j == First(stops)
<1>1. /\ IsSeq(source) /\ Len(source) \in Nat /\ at.pos \in Nat /\ 1 <= at.pos
      /\ at.pos + 2 \in Nat /\ 1 <= at.pos + 2 /\ at.pos <= Len(source) + 1
      /\ stops \subseteq From(at.pos + 2) /\ AtPlace
  BY LexInvFacts DEF LexInv
<1>2. Sym(at.pos) = "#" /\ Sym(at.pos + 1) = "#"
  BY DEF BlockComment, Here
<1>3. at.pos + 2 <= Len(source) + 1
  <2>1. at.pos + 1 \in 1..Len(source)
    BY <1>1, <1>2, SymIs
  <2> QED  BY <1>1, <2>1
<1>4. j \in Spots /\ j \in Nat /\ at.pos + 2 <= j /\ (j \in stops \/ j = Len(source) + 1)
  <2> HIDE DEF stops
  <2> QED  BY <1>1, <1>3, FirstIs
<1>5. ASSUME NEW i \in (at.pos + 2)..(j - 1) PROVE ~(Sym(i) = "#" /\ Sym(i + 1) = "#")
  <2>1. i \in From(at.pos + 2) /\ i < j
    BY <1>1, <1>4 DEF From, Spots
  <2>2. i \notin stops
    <3> HIDE DEF stops
    <3> QED  BY <1>1, <2>1, BeforeFirst
  <2> QED  BY <2>1, <2>2
<1>6. IF j <= Len(source) THEN Move(AdvanceTo(j + 2)) ELSE Report(AdvanceTo(j))
  BY DEF BlockComment
<1>7. ASSUME NEW i \in at.pos..(j + 1) PROVE InComment(i)
  <2> HIDE DEF j
  <2>1. at.pos \in 1..i /\ \A k \in (at.pos + 2)..(i - 2) : k \in (at.pos + 2)..(j - 1)
    BY <1>1, <1>4
  <2> QED  BY <1>2, <1>5, <2>1 DEF InComment
<1>8. CASE j <= Len(source)
  <2>1. Sym(j + 1) = "#"
    BY <1>1, <1>4, <1>8
  <2> HIDE DEF j
  <2>2. j + 1 \in 1..Len(source)
    BY <1>1, <1>4, <2>1, SymIs
  <2>3. j + 2 \in Spots /\ at.pos <= j + 2 /\ (j + 2) - 1 = j + 1
    BY <1>1, <1>4, <2>2 DEF Spots
  <2>4. at' = Place(j + 2) /\ UNCHANGED <<source, tokens, reported>>
    BY <1>1, <1>6, <1>8, <2>3, GoesTo DEF Move
  <2> QED  BY <1>7, <2>3, <2>4, MoveKeeps
<1>9. CASE ~(j <= Len(source))
  <2> HIDE DEF j
  <2>1. at.pos <= j /\ \A i \in at.pos..(j - 1) : i \in at.pos..(j + 1)
    BY <1>1, <1>4
  <2>2. at' = Place(j) /\ UNCHANGED <<source, tokens>> /\ reported \subseteq reported'
    BY <1>1, <1>4, <1>6, <1>9, <2>1, GoesTo DEF Report
  <2> QED  BY <1>4, <1>7, <2>1, <2>2, MoveKeeps
<1> QED  BY <1>8, <1>9

LEMMA EndOfSourceKeeps == ASSUME LexInv, EndOfSource PROVE LexInv'
<1>1. at.pos \in Spots /\ at.pos <= at.pos /\ at = Place(at.pos) /\ "EOF" \in Untold
  BY LexInvFacts DEF Untold
<1>2. Yield("EOF", "<eof>", at)
  BY DEF EndOfSource
<1> QED  BY <1>1, <1>2, YieldKeeps

LEMMA SingleKeeps == ASSUME LexInv, Single PROVE LexInv'
<1> DEFINE p == at.pos + 1
<1>1. Lexing /\ Yield(Here, Here, Advance(at))
  BY DEF Single
<1>2. at.pos \in 1..Len(source) /\ Here = source[at.pos] /\ IsSeq(source) /\ at.pos \in Nat
  BY <1>1, LexingHere, LexInvFacts
<1>3. Advance(at) = Place(p) /\ p \in Spots /\ at.pos <= p
  BY <1>1, <1>2, OneOn
<1>4. Text(Part(at.pos, p)) = Here
  BY <1>2, PartOne, TextOne
<1> HIDE DEF p
<1> QED  BY <1>1, <1>3, <1>4, YieldKeeps

LEMMA UnknownKeeps == ASSUME LexInv, Unknown PROVE LexInv'
<1> DEFINE p == at.pos + 1
<1>1. Lexing /\ Report(Advance(at))
  BY DEF Unknown
<1>2. Advance(at) = Place(p) /\ p \in Spots /\ at.pos \in Nat
  BY <1>1, OneOn, LexInvFacts
<1>3. \A i \in at.pos..(p - 1) : i = at.pos
  BY <1>2
<1>4. /\ at' = Place(p) /\ UNCHANGED <<source, tokens>> /\ reported \subseteq reported'
      /\ at.pos \in reported' /\ at.pos <= p
  BY <1>1, <1>2 DEF Report
<1> HIDE DEF p
<1> QED  BY <1>2, <1>3, <1>4, MoveKeeps

LEMMA CharKeeps == ASSUME LexInv, Char PROVE LexInv'
<1> DEFINE j == at.pos + IF Sym(at.pos + 1) = "\\" THEN 3 ELSE 2
           c == AdvanceTo(j)
           d == IF Sym(c.pos) = "'" THEN Advance(c) ELSE c
<1>1. AtPlace /\ j \in Nat /\ at.pos <= j
  BY LexInvFacts DEF LexInv
<1>2. Yield("character", "character", d)
  BY DEF Char
<1> HIDE DEF j
<1>3. \E q \in Spots : at.pos <= q /\ d = Place(q)
  BY <1>1, GoesOn
<1> HIDE DEF d
<1>4. PICK q \in Spots : at.pos <= q /\ d = Place(q)
  BY <1>3
<1>5. "character" \in Untold
  BY DEF Untold
<1> QED  BY <1>2, <1>4, <1>5, YieldKeeps

(* The first position from i on that is not in S, which ends what is in S. *)
PastOf(S, i) == First({j \in From(i) : Sym(j) \notin S})

LEMMA PastIs ==
  ASSUME IsSeq(source), NEW S, NEW i \in Nat, 1 <= i, i <= Len(source) + 1
  PROVE  PastOf(S, i) \in Spots /\ PastOf(S, i) \in Nat /\ i <= PastOf(S, i)
<1> DEFINE stops == {j \in From(i) : Sym(j) \notin S}
<1>1. stops \subseteq From(i) /\ PastOf(S, i) = First(stops)
  BY DEF PastOf
<1> HIDE DEF stops
<1> QED  BY <1>1, FirstIs

(* What is there has a place behind it.                                    *)
LEMMA BehindSym ==
  ASSUME IsSeq(source), NEW i \in Nat, 1 <= i, Sym(i) # "end"
  PROVE  i \in 1..Len(source) /\ i + 1 \in Spots /\ i + 1 <= Len(source) + 1
<1>1. i \in 1..Len(source) /\ Len(source) \in Nat
  BY SymIs DEF IsSeq
<1> QED  BY <1>1 DEF Spots

LEMMA NumberKeeps == ASSUME LexInv, Number PROVE LexInv'
<1> DEFINE whole == PastOf(Digits, at.pos)
           point == Sym(whole) = "." /\ Sym(whole + 1) # "."
           digits == IF point THEN PastOf(Digits, whole + 1) ELSE whole
           binary == Sym(digits) = "b" /\ Sym(digits + 1) \notin Letters \ {"_"}
           hex == Here = "0" /\ Sym(at.pos + 1) \in {"x", "X"}
           next == IF hex THEN PastOf(HexDigits, at.pos + 2)
                   ELSE IF binary THEN digits + 1 ELSE digits
<1>1. Yield("num", Text(Part(at.pos, next)), AdvanceTo(next))
  BY DEF Number, PastOf, Part
<1>2. /\ IsSeq(source) /\ AtPlace /\ at.pos \in Nat /\ 1 <= at.pos
      /\ at.pos <= Len(source) + 1 /\ Len(source) \in Nat
  BY LexInvFacts DEF LexInv
<1>3. whole \in Spots /\ whole \in Nat /\ at.pos <= whole /\ 1 <= whole
  BY <1>2, PastIs
<1>4. digits \in Spots /\ digits \in Nat /\ at.pos <= digits /\ 1 <= digits
  <2> HIDE DEF whole
  <2>1. CASE point
    <3>1. whole + 1 <= Len(source) + 1 /\ whole + 1 \in Nat /\ 1 <= whole + 1
      BY <1>2, <1>3, <2>1, BehindSym
    <3>2. PastOf(Digits, whole + 1) \in Spots /\ PastOf(Digits, whole + 1) \in Nat
          /\ whole + 1 <= PastOf(Digits, whole + 1)
      BY <1>2, <3>1, PastIs
    <3> QED  BY <1>2, <1>3, <2>1, <3>2
  <2>2. CASE ~point
    BY <1>3, <2>2
  <2> QED  BY <2>1, <2>2
<1>5. next \in Spots /\ at.pos <= next
  <2> HIDE DEF digits
  <2>1. CASE hex
    <3>1. Sym(at.pos + 1) # "end"
      BY <2>1
    <3>2. at.pos + 1 \in 1..Len(source)
      BY <1>2, <3>1, BehindSym
    <3>3. at.pos + 2 \in Nat /\ 1 <= at.pos + 2 /\ at.pos + 2 <= Len(source) + 1
      BY <1>2, <3>2
    <3>4. PastOf(HexDigits, at.pos + 2) \in Spots /\ PastOf(HexDigits, at.pos + 2) \in Nat
          /\ at.pos + 2 <= PastOf(HexDigits, at.pos + 2)
      BY <1>2, <3>3, PastIs
    <3>5. next = PastOf(HexDigits, at.pos + 2)
      BY <2>1
    <3> HIDE DEF next
    <3> QED  BY <1>2, <3>4, <3>5
  <2>2. CASE ~hex /\ binary
    <3>1. digits + 1 \in Spots
      BY <1>2, <1>4, <2>2, BehindSym
    <3>2. next = digits + 1
      BY <2>2
    <3> HIDE DEF next
    <3> QED  BY <1>2, <1>4, <3>1, <3>2
  <2>3. CASE ~hex /\ ~binary
    BY <1>4, <2>3
  <2> QED  BY <2>1, <2>2, <2>3
<1> HIDE DEF next
<1>6. AdvanceTo(next) = Place(next)
  BY <1>2, <1>5, GoesTo
<1> QED  BY <1>1, <1>5, <1>6, YieldKeeps

LEMMA WordKeeps == ASSUME LexInv, Word PROVE LexInv'
<1> DEFINE stops == {k \in From(at.pos) : ~InWord(k)}
           j == First(stops)
           word == Text(Part(at.pos, j))
           type == IF word \in Keywords THEN word ELSE "id"
           colon == AdvanceTo(j + 1)
<1>1. /\ Lexing /\ Here \in Letters
      /\ CASE Sym(j) = ":" /\ word \o ":" \in WordPrefixes -> Yield(word \o ":", word \o ":", colon)
           [] Sym(j) = ":" /\ word \o ":" \notin WordPrefixes -> Yield(type, word, PutBack(colon))
           [] OTHER -> Yield(type, word, AdvanceTo(j))
  BY DEF Word, Part
<1>2. /\ IsSeq(source) /\ AtPlace /\ at.pos \in Nat /\ 1 <= at.pos /\ stops \subseteq From(at.pos)
      /\ at.pos <= Len(source) + 1 /\ Len(source) \in Nat /\ at.pos \in 1..Len(source)
  BY <1>1, LexInvFacts, LexingHere DEF LexInv
<1>3. j \in Spots /\ j \in Nat /\ at.pos <= j /\ (j \in stops \/ j = Len(source) + 1)
  <2> HIDE DEF stops
  <2> QED  BY <1>2, FirstIs
<1>4. at.pos + 1 <= j /\ j \in (at.pos + 1)..(Len(source) + 1)
  <2>1. InWord(at.pos)
    BY <1>1 DEF InWord, Here
  <2>2. j # at.pos
    BY <1>2, <1>3, <2>1
  <2> HIDE DEF j
  <2> QED  BY <1>2, <1>3, <2>2 DEF Spots
<1> HIDE DEF j
<1>5. CASE Sym(j) = ":"
  <2>1. j \in 1..Len(source) /\ j + 1 \in Spots
    <3>1. Sym(j) # "end" /\ 1 <= j
      BY <1>2, <1>3, <1>5
    <3> QED  BY <1>2, <1>3, <3>1, BehindSym
  <2>2. source[j] = ":"
    BY <1>2, <1>5, <2>1, SymIs
  <2>3. colon = Place(j + 1) /\ at.pos <= j + 1
    BY <1>2, <1>3, <2>1, GoesTo
  <2>4. CASE word \o ":" \in WordPrefixes
    <3>1. Yield(word \o ":", word \o ":", colon)
      <4> HIDE DEF word, type, colon
      <4> QED  BY <1>1, <1>5, <2>4
    <3>2. Text(Part(at.pos, j + 1)) = word \o ":"
      <4>1. Part(at.pos, j + 1) = Append(Part(at.pos, j), ":")
        <5>1. j \in (at.pos + 1)..Len(source)
          BY <1>2, <1>3, <1>4, <2>1
        <5> QED  BY <1>2, <2>2, <5>1, PartAppend
      <4>2. IsSeq(Part(at.pos, j)) /\ 1 <= Len(Part(at.pos, j))
        BY <1>2, <1>3, <1>4, PartIs
      <4> QED  BY <4>1, <4>2, TextAppend
    <3> HIDE DEF word, colon
    <3> QED  BY <2>1, <2>3, <3>1, <3>2, YieldKeeps
  <2>5. CASE word \o ":" \notin WordPrefixes
    <3>1. Yield(type, word, PutBack(colon))
      <4> HIDE DEF word, type, colon
      <4> QED  BY <1>1, <1>5, <2>5
    <3>2. PutBack(colon) = Place(j)
      <4>1. source[j] # "nl"
        BY <2>2
      <4> QED  BY <1>2, <2>1, <2>3, <4>1, PutsBack
    <3>3. word = Text(Part(at.pos, j))
      OBVIOUS
    <3> HIDE DEF word, colon, type
    <3> QED  BY <1>3, <3>1, <3>2, <3>3, YieldKeeps
  <2> QED  BY <2>4, <2>5
<1>6. CASE Sym(j) # ":"
  <2>1. Yield(type, word, AdvanceTo(j))
    <3> HIDE DEF word, type, colon
    <3> QED  BY <1>1, <1>6
  <2>2. AdvanceTo(j) = Place(j)
    BY <1>2, <1>3, GoesTo
  <2>3. word = Text(Part(at.pos, j))
    OBVIOUS
  <2> HIDE DEF word, type
  <2> QED  BY <1>3, <2>1, <2>2, <2>3, YieldKeeps
<1> QED  BY <1>5, <1>6

(* The operators: two symbols or three, and none is the end.               *)
IsOperator(op) == /\ IsSeq(op) /\ Len(op) \in 1..3
                  /\ \A k \in 1..Len(op) : op[k] # "end"

LEMMA TwoSymbols ==
  ASSUME NEW a, NEW b, a # "end", b # "end" PROVE IsOperator(<<a, b>>)
  BY DEF IsOperator, IsSeq

LEMMA ThreeSymbols ==
  ASSUME NEW a, NEW b, NEW c, a # "end", b # "end", c # "end" PROVE IsOperator(<<a, b, c>>)
  BY DEF IsOperator, IsSeq

LEMMA OperatorTable ==
  DOMAIN Operators = 1..39 /\ \A i \in DOMAIN Operators : IsOperator(Operators[i])
<1> DEFINE Ok(i) == IsOperator(OperatorRows[i][2])
<1>1. /\ Ok(1) /\ Ok(2) /\ Ok(3) /\ Ok(4) /\ Ok(5)
      /\ Ok(6) /\ Ok(7) /\ Ok(8) /\ Ok(9) /\ Ok(10)
  BY TwoSymbols, ThreeSymbols DEF OperatorRows
<1>2. /\ Ok(11) /\ Ok(12) /\ Ok(13) /\ Ok(14) /\ Ok(15)
      /\ Ok(16) /\ Ok(17) /\ Ok(18) /\ Ok(19) /\ Ok(20)
  BY TwoSymbols, ThreeSymbols DEF OperatorRows
<1>3. /\ Ok(21) /\ Ok(22) /\ Ok(23) /\ Ok(24) /\ Ok(25)
      /\ Ok(26) /\ Ok(27) /\ Ok(28) /\ Ok(29) /\ Ok(30)
  BY TwoSymbols, ThreeSymbols DEF OperatorRows
<1>4. /\ Ok(31) /\ Ok(32) /\ Ok(33) /\ Ok(34) /\ Ok(35)
      /\ Ok(36) /\ Ok(37) /\ Ok(38) /\ Ok(39)
  BY TwoSymbols, ThreeSymbols DEF OperatorRows
<1>5. DOMAIN OperatorRows = 1..39
  BY DEF OperatorRows
<1>6. DOMAIN Operators = 1..39 /\ \A i \in 1..39 : Operators[i] = OperatorRows[i][2]
  BY <1>5 DEF Operators
<1>7. \A i \in 1..39 : Ok(i)
  <2> HIDE DEF Ok
  <2> QED  BY <1>1, <1>2, <1>3, <1>4
<1> QED  BY <1>6, <1>7

LEMMA OperatorKeeps == ASSUME LexInv, Operator PROVE LexInv'
<1> DEFINE op == Operators[Tried]
           n == Len(op)
           p == at.pos + n
           type == OperatorRows[Tried][1]
<1>1. Lexing /\ Fitting # {} /\ Yield(type, Text(op), AdvanceTo(p))
  BY DEF Operator
<1>2. Tried \in Fitting
  <2>1. Fitting \in SUBSET Nat
    BY OperatorTable DEF Fitting
  <2>2. \E i \in Fitting : \A k \in Fitting : i <= k
    BY <1>1, <2>1, Least
  <2> QED  BY <2>2, Zenon DEF Tried
<1>3. Tried \in DOMAIN Operators /\ \A k \in DOMAIN op : Sym(at.pos + k - 1) = op[k]
  BY <1>2 DEF Fitting, Fits
<1> HIDE DEF op
<1>4. IsSeq(op) /\ n \in 1..3 /\ (\A k \in 1..n : op[k] # "end") /\ DOMAIN op = 1..n
  <2>1. IsOperator(op)
    BY <1>3, OperatorTable DEF op
  <2> QED  BY <2>1 DEF IsOperator, IsSeq
<1> HIDE DEF n
<1>5. /\ IsSeq(source) /\ AtPlace /\ at.pos \in Nat /\ 1 <= at.pos
      /\ Len(source) \in Nat /\ at.pos \in 1..Len(source)
  BY <1>1, LexInvFacts, LexingHere DEF LexInv
<1>6. ASSUME NEW k \in 1..n
      PROVE  at.pos + k - 1 \in 1..Len(source) /\ source[at.pos + k - 1] = op[k]
  <2> DEFINE i == at.pos + k - 1
  <2>1. Sym(i) = op[k] /\ op[k] # "end" /\ i \in Nat /\ i \in Int
    BY <1>3, <1>4, <1>5
  <2> HIDE DEF i
  <2>2. i \in 1..Len(source) /\ source[i] = op[k]
    BY <1>5, <2>1, SymIs
  <2> QED  BY <2>2 DEF i
<1>7. p \in Spots /\ at.pos <= p /\ p \in (at.pos + 1)..(Len(source) + 1) /\ p - at.pos = n
  <2>1. at.pos + n - 1 \in 1..Len(source) /\ n \in Nat /\ 1 <= n
    <3>1. n \in 1..n
      BY <1>4
    <3> QED  BY <1>4, <1>6, <3>1
  <2> QED  BY <1>5, <2>1 DEF Spots
<1> HIDE DEF p
<1>8. Part(at.pos, p) = op
  <2>1. /\ IsSeq(Part(at.pos, p)) /\ Len(Part(at.pos, p)) = n
        /\ \A i \in 1..n : Part(at.pos, p)[i] = source[at.pos + i - 1]
    BY <1>5, <1>7, PartIs
  <2>2. \A i \in 1..n : Part(at.pos, p)[i] = op[i]
    BY <1>6, <2>1
  <2> DEFINE q == Part(at.pos, p)
  <2> HIDE DEF q
  <2>3. q = [i \in 1..n |-> q[i]] /\ op = [i \in 1..n |-> op[i]] /\ \A i \in 1..n : q[i] = op[i]
    BY <1>4, <2>1, <2>2 DEF IsSeq, q, n
  <2>4. q = op
    BY <2>3
  <2> QED  BY <2>4 DEF q
<1>9. AdvanceTo(p) = Place(p) /\ Text(op) = Text(Part(at.pos, p))
  BY <1>5, <1>7, <1>8, GoesTo
<1> HIDE DEF type
<1> QED  BY <1>1, <1>7, <1>9, YieldKeeps

-------------------------------------------------------------------------------
(* The end of a string.  Its recursive function exists: past the source it *)
(* is the position itself, and a position's value needs those of later     *)
(* positions only.                                                         *)

EndAt(h, j) == IF Sym(j) = "\\" THEN h[j + 2]
               ELSE IF Sym(j) \in {"\"", "nl", "end"} THEN j ELSE h[j + 1]

IsEnds(h, a) == h = [j \in {k \in Nat : a <= k} |-> EndAt(h, j)]

LEMMA PastSource ==
  ASSUME IsSeq(source), NEW j \in Nat, Len(source) < j, NEW h PROVE EndAt(h, j) = j
<1>1. Sym(j) = "end"
  BY SymIs DEF IsSeq
<1> QED  BY <1>1 DEF EndAt

LEMMA EndsExist == ASSUME IsSeq(source) PROVE \E h : IsEnds(h, 0)
<1> DEFINE N == Len(source) + 1
           Ok(a) == \E h : IsEnds(h, a)
           Bad == {n \in 0..N : ~Ok(N - n)}
<1>1. N \in Nat /\ N \in 0..N /\ N - N = 0
  BY DEF IsSeq
<1>2. Bad = {}
  <2> SUFFICES ASSUME Bad # {} PROVE FALSE
    OBVIOUS
  <2>1. PICK n \in Bad : \A m \in Bad : n <= m
    <3>1. Bad \in SUBSET Nat
      BY <1>1
    <3> HIDE DEF Bad
    <3> QED  BY <3>1, Least
  <2> DEFINE a == N - n
  <2>2. n \in 0..N /\ a \in Nat /\ ~Ok(a)
    BY <1>1, <2>1
  <2>3. n # 0
    <3> SUFFICES ASSUME n = 0 PROVE FALSE
      OBVIOUS
    <3>1. a = N
      BY <1>1
    <3> DEFINE g == [j \in {k \in Nat : a <= k} |-> j]
    <3>2. \A j \in {k \in Nat : a <= k} : EndAt(g, j) = j
      <4> HIDE DEF g
      <4>1. \A j \in {k \in Nat : a <= k} : j \in Nat /\ Len(source) < j
        BY <1>1, <3>1 DEF IsSeq
      <4> HIDE DEF a
      <4> QED  BY <4>1, PastSource
    <3>3. IsEnds(g, a)
      BY <3>2 DEF IsEnds
    <3> QED  BY <2>2, <3>3
  <2>4. Ok(a + 1)
    <3>1. n - 1 \in 0..N /\ n - 1 \notin Bad /\ N - (n - 1) = a + 1
      BY <1>1, <2>1, <2>2, <2>3
    <3> QED  BY <3>1
  <2>5. PICK h : IsEnds(h, a + 1)
    BY <2>4
  <2> HIDE DEF Bad, a
  <2>6. h = [j \in {k \in Nat : a + 1 <= k} |-> EndAt(h, j)]
    BY <2>5 DEF IsEnds
  <2> DEFINE D == {k \in Nat : a <= k}
             g == [j \in D |-> IF j = a THEN EndAt(h, a) ELSE h[j]]
  <2>7. \A j \in D : (j = a \/ (j # a /\ j \in {k \in Nat : a + 1 <= k}))
    BY <2>2
  <2>8. ASSUME NEW j \in D PROVE g[j + 1] = h[j + 1] /\ g[j + 2] = h[j + 2]
    BY <2>2
  <2>9. ASSUME NEW j \in D PROVE EndAt(g, j) = EndAt(h, j)
    <3> HIDE DEF g
    <3> QED  BY <2>8 DEF EndAt
  <2>10. ASSUME NEW j \in D PROVE (IF j = a THEN EndAt(h, a) ELSE h[j]) = EndAt(g, j)
    <3>1. CASE j = a
      BY <2>9, <3>1
    <3>2. CASE j # a
      <4>1. h[j] = EndAt(h, j)
        BY <2>6, <2>7, <3>2
      <4> QED  BY <2>9, <3>2, <4>1
    <3> QED  BY <3>1, <3>2
  <2>11. g = [j \in D |-> EndAt(g, j)]
    BY <2>10
  <2>12. IsEnds(g, a)
    BY <2>11 DEF IsEnds
  <2> HIDE DEF g
  <2> QED  BY <2>2, <2>12
<1>3. Ok(N - N)
  BY <1>1, <1>2
<1> QED  BY <1>1, <1>3

(* It ends at the position itself or at a later one.                       *)
LEMMA EndsLater ==
  ASSUME IsSeq(source), NEW h, h = [j \in Nat |-> EndAt(h, j)], NEW j \in Nat
  PROVE  h[j] \in Nat /\ j <= h[j]
<1> DEFINE N == Len(source) + 1
           Bad == {n \in 0..N : ~(h[N - n] \in Nat /\ N - n <= h[N - n])}
<1>1. N \in Nat
  BY DEF IsSeq
<1>2. ASSUME NEW k \in Nat, Len(source) < k PROVE h[k] = k
  <2>1. h[k] = EndAt(h, k)
    OBVIOUS
  <2> QED  BY <1>2, <2>1, PastSource
<1>3. Bad = {}
  <2> SUFFICES ASSUME Bad # {} PROVE FALSE
    OBVIOUS
  <2>1. PICK n \in Bad : \A m \in Bad : n <= m
    <3>1. Bad \in SUBSET Nat
      BY <1>1
    <3> HIDE DEF Bad
    <3> QED  BY <3>1, Least
  <2> DEFINE a == N - n
  <2>2. n \in 0..N /\ a \in Nat /\ ~(h[a] \in Nat /\ a <= h[a])
    BY <1>1, <2>1
  <2>3. h[a] = EndAt(h, a)
    BY <2>2
  <2>4. ASSUME NEW k \in Nat, a < k PROVE h[k] \in Nat /\ k <= h[k]
    <3>1. CASE Len(source) < k
      BY <1>2, <3>1
    <3>2. CASE ~(Len(source) < k)
      <4>1. k <= N
        BY <1>1, <3>2 DEF IsSeq
      <4> HIDE DEF N, Bad
      <4>2. N - k \in 0..N /\ N - (N - k) = k /\ ~(n <= N - k)
        BY <1>1, <2>2, <2>4, <4>1
      <4>3. N - k \notin Bad
        BY <2>1, <4>2
      <4> QED  BY <4>2, <4>3 DEF Bad
    <3> QED  BY <3>1, <3>2
  <2> HIDE DEF Bad, a
  <2>5. /\ a + 1 \in Nat /\ a + 2 \in Nat /\ a < a + 1 /\ a < a + 2
        /\ h[a + 1] \in Nat /\ a + 1 <= h[a + 1] /\ h[a + 2] \in Nat /\ a + 2 <= h[a + 2]
    BY <2>2, <2>4
  <2>6. h[a] = a \/ h[a] = h[a + 1] \/ h[a] = h[a + 2]
    BY <2>3 DEF EndAt
  <2> QED  BY <2>2, <2>5, <2>6
<1>4. CASE Len(source) < j
  BY <1>2, <1>4
<1>5. CASE ~(Len(source) < j)
  <2>1. j <= N
    BY <1>1, <1>5 DEF IsSeq
  <2> HIDE DEF N, Bad
  <2>2. N - j \in 0..N /\ N - (N - j) = j /\ N - j \notin Bad
    BY <1>1, <1>3, <2>1
  <2> QED  BY <2>2 DEF Bad
<1> QED  BY <1>4, <1>5

LEMMA StringKeeps == ASSUME LexInv, String PROVE LexInv'
<1> DEFINE ends == CHOOSE ends : ends = [j \in Nat |-> EndAt(ends, j)]
           c == AdvanceTo(ends[at.pos + 1])
           d == IF Sym(c.pos) = "\"" THEN Advance(c) ELSE c
<1>1. Yield("string", "string", d)
  BY DEF String, EndAt
<1>2. AtPlace /\ IsSeq(source) /\ at.pos \in Nat /\ at.pos + 1 \in Nat
  BY LexInvFacts DEF LexInv
<1>3. ends = [j \in Nat |-> EndAt(ends, j)]
  <2>1. {k \in Nat : 0 <= k} = Nat
    OBVIOUS
  <2>2. \E h : h = [j \in Nat |-> EndAt(h, j)]
    <3>1. PICK h : IsEnds(h, 0)
      BY <1>2, EndsExist
    <3>2. h = [j \in Nat |-> EndAt(h, j)]
      BY <2>1, <3>1 DEF IsEnds
    <3> QED  BY <3>2, Zenon
  <2> QED  BY <2>2, Zenon
<1> DEFINE j == ends[at.pos + 1]
<1> HIDE DEF ends
<1>4. j \in Nat /\ at.pos <= j
  <2>1. j \in Nat /\ at.pos + 1 <= j
    BY <1>2, <1>3, EndsLater
  <2> QED  BY <1>2, <2>1
<1> HIDE DEF j
<1>5. \E q \in Spots : at.pos <= q /\ d = Place(q)
  BY <1>2, <1>4, GoesOn DEF j
<1> HIDE DEF d
<1>6. PICK q \in Spots : at.pos <= q /\ d = Place(q)
  BY <1>5
<1>7. "string" \in Untold
  BY DEF Untold
<1> QED  BY <1>1, <1>6, <1>7, YieldKeeps

-------------------------------------------------------------------------------
(* The invariant of the front end: the parser, and the hand-over to it,    *)
(* leave the lexer's state alone.                                          *)

LEMMA FreshLexer == ASSUME IsSeq(source), at = Start, tokens = <<>> PROVE LexInv
<1>1. at = Place(1) /\ at.pos = 1 /\ Len(source) \in Nat
  BY StartPlace, SpotHas DEF Place, IsSeq
<1>2. AtPlace
  BY <1>1 DEF AtPlace, Spots
<1>3. IsSeq(tokens) /\ Len(tokens) = 0
  BY DEF IsSeq
<1>4. EndOf(Len(tokens)) = 1
  BY <1>3 DEF EndOf
<1>5. 1 \in Spots /\ Gap(1, 1)
  BY <1>1 DEF Spots, Gap
<1> QED  BY <1>1, <1>2, <1>3, <1>4, <1>5 DEF LexInv

LEMMA InitFresh == ASSUME FrontInit PROVE LexInv
<1>1. CASE LexStage
  <2>1. source \in Texts /\ at = Start /\ tokens = <<>>
    BY <1>1 DEF LexStage, LexInit
  <2>2. IsSeq(source)
    BY <2>1, TextsAssumption, SeqIsSeq
  <2> QED  BY <2>1, <2>2, FreshLexer
<1>2. CASE ParseStage
  <2>1. source = <<>> /\ at = Start /\ tokens = <<>>
    BY <1>2 DEF ParseStage
  <2>2. IsSeq(source)
    BY <2>1 DEF IsSeq
  <2> QED  BY <2>1, <2>2, FreshLexer
<1> QED  BY <1>1, <1>2 DEF FrontInit

LEMMA Untouched == ASSUME LexInv, UNCHANGED lexVars PROVE LexInv'
<1>1. at' = Place(at.pos) /\ UNCHANGED <<source, tokens, reported>>
  BY LexInvFacts DEF lexVars
<1>2. at.pos \in Spots /\ at.pos <= at.pos /\ \A i \in at.pos..(at.pos - 1) : FALSE
  BY LexInvFacts
<1> QED  BY <1>1, <1>2, MoveKeeps

LEMMA LexStepKeeps == ASSUME LexInv, [FrontNext]_frontVars PROVE LexInv'
<1>1. ASSUME NextToken PROVE LexInv'
  <2>1. CASE Blank        BY <2>1, BlankKeeps
  <2>2. CASE LineComment  BY <2>2, LineCommentKeeps
  <2>3. CASE BlockComment BY <2>3, BlockCommentKeeps
  <2>4. CASE EndOfSource  BY <2>4, EndOfSourceKeeps
  <2>5. CASE Operator     BY <2>5, OperatorKeeps
  <2>6. CASE Word         BY <2>6, WordKeeps
  <2>7. CASE Number       BY <2>7, NumberKeeps
  <2>8. CASE String       BY <2>8, StringKeeps
  <2>9. CASE Char         BY <2>9, CharKeeps
  <2>10. CASE Single      BY <2>10, SingleKeeps
  <2>11. CASE Unknown     BY <2>11, UnknownKeeps
  <2> QED
    BY <1>1, <2>1, <2>2, <2>3, <2>4, <2>5, <2>6, <2>7, <2>8, <2>9, <2>10, <2>11 DEF NextToken
<1>2. CASE Lex
  BY <1>1, <1>2 DEF Lex
<1>3. CASE HandOver
  BY <1>3, Untouched DEF HandOver
<1>4. CASE LexErrors
  BY <1>4, Untouched DEF LexErrors
<1>5. CASE Next /\ UNCHANGED lexVars
  BY <1>5, Untouched
<1>6. CASE UNCHANGED frontVars
  BY <1>6, Untouched DEF frontVars, lexVars
<1> QED  BY <1>2, <1>3, <1>4, <1>5, <1>6 DEF FrontNext

THEOREM LexerInvariance == FrontSpec => []LexInv
<1>1. FrontInit => LexInv
  BY InitFresh
<1>2. LexInv /\ [FrontNext]_frontVars => LexInv'
  BY LexStepKeeps
<1> QED  BY <1>1, <1>2, PTL DEF FrontSpec

(* Whatever the source is, a token carries the line and the column of its  *)
(* first symbol, also behind a comment, a string over its end or a colon   *)
(* that lexWord has put back.                                              *)
THEOREM PlacesAreExact == FrontSpec => []PositionsExact
<1>1. LexInv => PositionsExact
  BY LexInvPlaces
<1> QED  BY <1>1, LexerInvariance, PTL

(* Whatever the source is, its tokens do not overlap, each of them is its  *)
(* own text, and the lexer passes over blanks, comments and what it        *)
(* reports, and over nothing else.                                         *)
THEOREM NothingIsLost == FrontSpec => []NothingSkipped
<1>1. LexInv => NothingSkipped
  BY LexInvSkipsNothing
<1> QED  BY <1>1, LexerInvariance, PTL

-------------------------------------------------------------------------------
(* The longest match.  What is before and behind a token depends on the    *)
(* type of the one before it: a word begins where a letter or digit is     *)
(* before it only behind a token that may end inside a word.               *)

WordTypes == {"id"} \union Keywords \union WordPrefixes
Literals  == {"num", "string", "character", "EOF"}
MayEndInWord == {"num", "character", "!listen"}

Longest(a, b) == \A k \in DOMAIN Operators : Fits(Operators[k], a) => Len(Operators[k]) <= b - a

(* A token of the symbols from a to b - 1 is right.                        *)
Right(type, a, b) ==
  \/ type \in WordTypes /\ InWord(a) /\ (type \in WordPrefixes \/ ~InWord(b))
  \/ type \in Literals \ WordTypes
  \/ type \notin WordTypes \union Literals /\ Longest(a, b)

Border ==
  InWord(at.pos - 1) /\ InWord(at.pos) => Len(tokens) # 0 /\ LastOf.t \in MayEndInWord

LongestInv == LongestMatch /\ Border

(* A step that leaves the tokens.                                          *)
LEMMA MoveLongest ==
  ASSUME LongestInv, UNCHANGED <<source, tokens>>, NEW p, at'.pos = p,
         ~InWord(p - 1) \/ ~InWord(p)
  PROVE  LongestInv'
<1>1. LongestMatch'
  <2>1. \A i : InWord(i)' = InWord(i)
    BY DEF InWord, Sym
  <2>2. \A op, i : Fits(op, i)' = Fits(op, i)
    BY DEF Fits, Sym
  <2>3. LongestMatch
    BY DEF LongestInv
  <2> QED  BY <2>1, <2>2, <2>3 DEF LongestMatch
<1>2. Border'
  BY DEF Border, InWord, Sym
<1> QED  BY <1>1, <1>2 DEF LongestInv

(* A step that makes a token of the symbols from here to p.                *)
LEMMA YieldLongest ==
  ASSUME LexInv, LongestInv, NEW p, NEW type, NEW value, NEW c, c.pos = p,
         Yield(type, value, c), Right(type, at.pos, p),
         InWord(p - 1) /\ InWord(p) => type \in MayEndInWord
  PROVE  LongestInv'
<1> DEFINE M == Len(tokens)
           t == [t |-> type, v |-> value, line |-> at.line, col |-> at.col,
                 from |-> at.pos, next |-> c.pos]
<1>1. IsSeq(tokens) /\ M \in Nat
  BY LexInvFacts
<1>2. tokens' = Append(tokens, t) /\ at' = c /\ source' = source
  BY DEF Yield
<1>3. t.t = type /\ t.from = at.pos /\ t.next = p
  OBVIOUS
<1> HIDE DEF t
<1>4. /\ IsSeq(tokens') /\ Len(tokens') = M + 1 /\ tokens'[M + 1] = t
      /\ \A i \in 1..M : tokens'[i] = tokens[i]
  BY <1>1, <1>2, AppendSeq
<1>5. Last(tokens') = t /\ LastOf' = t
  BY <1>4 DEF Last, LastOf
<1>6. \A i : InWord(i)' = InWord(i)
  BY <1>2 DEF InWord, Sym
<1>7. Border'
  <2>1. at'.pos = p /\ LastOf'.t = type /\ Len(tokens') # 0
    BY <1>1, <1>2, <1>3, <1>4, <1>5
  <2> QED  BY <1>6, <2>1 DEF Border, MayEndInWord
<1>8. LongestMatch'
  <2> DEFINE before == IF Len(tokens') > 1 THEN tokens'[Len(tokens') - 1].t ELSE "none"
             Whole == /\ type \in WordPrefixes \/ ~InWord(p)
                      /\ before \in MayEndInWord \/ ~InWord(at.pos - 1)
  <2>1. \A op, i : Fits(op, i)' = Fits(op, i)
    BY <1>2 DEF Fits, Sym
  <2>2. LongestMatch' <=>
          (tokens' # <<>> =>
             CASE type \in WordTypes -> Whole
               [] type \in Literals -> TRUE
               [] OTHER -> Longest(at.pos, p))
    BY <1>3, <1>5, <1>6, <2>1 DEF LongestMatch, WordTypes, Literals, MayEndInWord, Longest
  <2>3. type \in WordTypes => Whole
    <3> SUFFICES ASSUME type \in WordTypes PROVE Whole
      OBVIOUS
    <3>1. InWord(at.pos) /\ (type \in WordPrefixes \/ ~InWord(p))
      BY DEF Right
    <3>2. InWord(at.pos - 1) => M # 0 /\ tokens[M].t \in MayEndInWord
      BY <3>1 DEF LongestInv, Border, LastOf
    <3>3. M # 0 => before = tokens[M].t
      <4>1. M # 0 => Len(tokens') > 1 /\ Len(tokens') - 1 = M /\ M \in 1..M
        BY <1>1, <1>4
      <4> QED  BY <1>4, <4>1
    <3> QED  BY <3>1, <3>2, <3>3
  <2>4. type \in WordTypes \/ type \in Literals \/ Longest(at.pos, p)
    BY DEF Right
  <2>5. type \in Literals => ~(type \in WordTypes) \/ Whole
    BY <2>3
  <2> HIDE DEF Whole, before
  <2>6. \/ type \in WordTypes /\ type \notin Literals /\ Whole
        \/ type \in WordTypes /\ type \in Literals /\ Whole
        \/ type \notin WordTypes /\ type \in Literals
        \/ type \notin WordTypes /\ type \notin Literals /\ Longest(at.pos, p)
    BY <2>3, <2>4
  <2> QED  BY <2>2, <2>6
<1> QED  BY <1>7, <1>8 DEF LongestInv

(* What a word is made of, and what it is not.                             *)
LEMMA NotInWord ==
  \A i : Sym(i) \in {"end", "#", "\""} \union Blanks \union Singles => ~InWord(i)
  BY LettersAssumption, Zenon DEF InWord

LEMMA SinglesAlone == \A x \in Singles : x \notin WordTypes \union Literals
<1> DEFINE Alone(x) == x \notin WordTypes \union Literals
<1>1. Alone("(") /\ Alone(")") /\ Alone("{") /\ Alone("}") /\ Alone("[")
  BY Zenon DEF WordTypes, Literals, Keywords, WordPrefixes
<1>2. Alone("]") /\ Alone(",") /\ Alone(":") /\ Alone(";") /\ Alone(".")
  BY Zenon DEF WordTypes, Literals, Keywords, WordPrefixes
<1>3. Alone("@") /\ Alone("=") /\ Alone("+") /\ Alone("-") /\ Alone("*")
  BY Zenon DEF WordTypes, Literals, Keywords, WordPrefixes
<1>4. Alone("/") /\ Alone("%") /\ Alone("&") /\ Alone("|") /\ Alone("^")
  BY Zenon DEF WordTypes, Literals, Keywords, WordPrefixes
<1>5. Alone("~") /\ Alone(">") /\ Alone("<") /\ Alone("!") /\ Alone("?")
  BY Zenon DEF WordTypes, Literals, Keywords, WordPrefixes
<1> HIDE DEF Alone
<1>6. \A x \in Singles : Alone(x)
  BY <1>1, <1>2, <1>3, <1>4, <1>5, Zenon DEF Singles
<1> QED  BY <1>6 DEF Alone

(* The rows of the operators: the type is not that of a word, and the last *)
(* symbol is no letter or digit, except behind !listen.                    *)
LEMMA OperatorTypes == \A i \in 1..39 : OperatorRows[i][1] \notin WordTypes \union Literals
<1> DEFINE Alone(x) == x \notin WordTypes \union Literals
           Row(i) == Alone(OperatorRows[i][1])
<1>1. Row(1) /\ Row(2) /\ Row(3) /\ Row(4) /\ Row(5)
  <2>1. Alone("!listen") /\ Alone(":=>") /\ Alone("}?;") /\ Alone("!!=") /\ Alone("===")
    BY Zenon DEF WordTypes, Literals, Keywords, WordPrefixes
  <2> HIDE DEF Alone
  <2> QED  BY <2>1, Zenon DEF OperatorRows
<1>2. Row(6) /\ Row(7) /\ Row(8) /\ Row(9) /\ Row(10)
  <2>1. Alone("==!") /\ Alone("?->") /\ Alone("?=>") /\ Alone("=?>") /\ Alone("...")
    BY Zenon DEF WordTypes, Literals, Keywords, WordPrefixes
  <2> HIDE DEF Alone
  <2> QED  BY <2>1, Zenon DEF OperatorRows
<1>3. Row(11) /\ Row(12) /\ Row(13) /\ Row(14) /\ Row(15)
  <2>1. Alone("!->") /\ Alone("^^") /\ Alone("->") /\ Alone("<-") /\ Alone("_>")
    BY Zenon DEF WordTypes, Literals, Keywords, WordPrefixes
  <2> HIDE DEF Alone
  <2> QED  BY <2>1, Zenon DEF OperatorRows
<1>4. Row(16) /\ Row(17) /\ Row(18) /\ Row(19) /\ Row(20)
  <2>1. Alone("=>") /\ Alone("..") /\ Alone(":>") /\ Alone("?>") /\ Alone(".=")
    BY Zenon DEF WordTypes, Literals, Keywords, WordPrefixes
  <2> HIDE DEF Alone
  <2> QED  BY <2>1, Zenon DEF OperatorRows
<1>5. Row(21) /\ Row(22) /\ Row(23) /\ Row(24) /\ Row(25)
  <2>1. Alone("==") /\ Alone("!=") /\ Alone(">=") /\ Alone("<=") /\ Alone("&&")
    BY Zenon DEF WordTypes, Literals, Keywords, WordPrefixes
  <2> HIDE DEF Alone
  <2> QED  BY <2>1, Zenon DEF OperatorRows
<1>6. Row(26) /\ Row(27) /\ Row(28) /\ Row(29) /\ Row(30)
  <2>1. Alone("||") /\ Alone("<<") /\ Alone(">>") /\ Alone("+=") /\ Alone("-=")
    BY Zenon DEF WordTypes, Literals, Keywords, WordPrefixes
  <2> HIDE DEF Alone
  <2> QED  BY <2>1, Zenon DEF OperatorRows
<1>7. Row(31) /\ Row(32) /\ Row(33) /\ Row(34) /\ Row(35)
  <2>1. Alone("*=") /\ Alone("/=") /\ Alone("|=") /\ Alone("&=") /\ Alone("^=")
    BY Zenon DEF WordTypes, Literals, Keywords, WordPrefixes
  <2> HIDE DEF Alone
  <2> QED  BY <2>1, Zenon DEF OperatorRows
<1>8. Row(36) /\ Row(37) /\ Row(38) /\ Row(39)
  <2>1. Alone("++") /\ Alone("--") /\ Alone("!!") /\ Alone("?(")
    BY Zenon DEF WordTypes, Literals, Keywords, WordPrefixes
  <2> HIDE DEF Alone
  <2> QED  BY <2>1, Zenon DEF OperatorRows
<1> HIDE DEF Row
<1>9. \A i \in 1..39 : Row(i)
  BY <1>1, <1>2, <1>3, <1>4, <1>5, <1>6, <1>7, <1>8
<1> QED  BY <1>9 DEF Row

LEMMA OperatorLasts ==
  \A i \in 2..39 : OperatorRows[i][2][Len(OperatorRows[i][2])] \in Singles
<1> DEFINE Row(i) == OperatorRows[i][2][Len(OperatorRows[i][2])] \in Singles
<1>1. \A a, b : Len(<<a, b>>) = 2 /\ <<a, b>>[2] = b
  OBVIOUS
<1>2. \A a, b, c : Len(<<a, b, c>>) = 3 /\ <<a, b, c>>[3] = c
  OBVIOUS
<1>3. /\ "!" \in Singles /\ "&" \in Singles /\ "(" \in Singles /\ "+" \in Singles /\ "-" \in Singles
      /\ "." \in Singles /\ ";" \in Singles /\ "<" \in Singles /\ "=" \in Singles /\ ">" \in Singles
      /\ "^" \in Singles /\ "|" \in Singles
  BY Zenon DEF Singles
<1>4. Row(2) /\ Row(3) /\ Row(4) /\ Row(5)
  BY <1>1, <1>2, <1>3, Zenon DEF OperatorRows
<1>5. Row(6) /\ Row(7) /\ Row(8) /\ Row(9) /\ Row(10)
  BY <1>1, <1>2, <1>3, Zenon DEF OperatorRows
<1>6. Row(11) /\ Row(12) /\ Row(13) /\ Row(14) /\ Row(15)
  BY <1>1, <1>2, <1>3, Zenon DEF OperatorRows
<1>7. Row(16) /\ Row(17) /\ Row(18) /\ Row(19) /\ Row(20)
  BY <1>1, <1>2, <1>3, Zenon DEF OperatorRows
<1>8. Row(21) /\ Row(22) /\ Row(23) /\ Row(24) /\ Row(25)
  BY <1>1, <1>2, <1>3, Zenon DEF OperatorRows
<1>9. Row(26) /\ Row(27) /\ Row(28) /\ Row(29) /\ Row(30)
  BY <1>1, <1>2, <1>3, Zenon DEF OperatorRows
<1>10. Row(31) /\ Row(32) /\ Row(33) /\ Row(34) /\ Row(35)
  BY <1>1, <1>2, <1>3, Zenon DEF OperatorRows
<1>11. Row(36) /\ Row(37) /\ Row(38) /\ Row(39)
  BY <1>1, <1>2, <1>3, Zenon DEF OperatorRows
<1> HIDE DEF Row
<1>12. \A i \in 2..39 : Row(i)
  BY <1>4, <1>5, <1>6, <1>7, <1>8, <1>9, <1>10, <1>11
<1> QED  BY <1>12 DEF Row

(* No longer operator fits behind an operator that is tried before it: the *)
(* first row is the only one of two symbols that is before rows of three,  *)
(* and no other row has listen as its second symbol.                       *)
LEMMA OperatorLengths ==
  /\ \A i \in 1..39 : Len(OperatorRows[i][2]) = IF i \in 2..11 THEN 3 ELSE 2
  /\ OperatorRows[1] = <<"!listen", <<"!", "listen">>>>
  /\ \A i \in 2..11 : OperatorRows[i][2][2] # "listen"
<1> DEFINE Size(i) == Len(OperatorRows[i][2])
           Row(i) == Size(i) = IF i \in 2..11 THEN 3 ELSE 2
           Other(i) == OperatorRows[i][2][2] # "listen"
<1>1. \A a, b : Len(<<a, b>>) = 2
  OBVIOUS
<1>2. \A a, b, c : Len(<<a, b, c>>) = 3 /\ <<a, b, c>>[2] = b
  OBVIOUS
<1>3. Row(2) /\ Row(3) /\ Row(4) /\ Row(5)
  <2>1. Size(2) = 3 /\ Size(3) = 3 /\ Size(4) = 3 /\ Size(5) = 3
    BY <1>1, <1>2, Zenon DEF OperatorRows
  <2> QED  BY <2>1
<1>4. Row(1)
  <2>1. Size(1) = 2
    BY <1>1, <1>2, Zenon DEF OperatorRows
  <2> QED  BY <2>1
<1>5. Other(2) /\ Other(3) /\ Other(4) /\ Other(5)
  BY <1>2, Zenon DEF OperatorRows
<1>6. Row(6) /\ Row(7) /\ Row(8) /\ Row(9) /\ Row(10)
  <2>1. Size(6) = 3 /\ Size(7) = 3 /\ Size(8) = 3 /\ Size(9) = 3 /\ Size(10) = 3
    BY <1>1, <1>2, Zenon DEF OperatorRows
  <2> QED  BY <2>1
<1>7. Other(6) /\ Other(7) /\ Other(8) /\ Other(9) /\ Other(10)
  BY <1>2, Zenon DEF OperatorRows
<1>8. Row(11)
  <2>1. Size(11) = 3
    BY <1>1, <1>2, Zenon DEF OperatorRows
  <2> QED  BY <2>1
<1>9. Row(12) /\ Row(13) /\ Row(14) /\ Row(15)
  <2>1. Size(12) = 2 /\ Size(13) = 2 /\ Size(14) = 2 /\ Size(15) = 2
    BY <1>1, <1>2, Zenon DEF OperatorRows
  <2> QED  BY <2>1
<1>10. Other(11)
  BY <1>2, Zenon DEF OperatorRows
<1>11. Row(16) /\ Row(17) /\ Row(18) /\ Row(19) /\ Row(20)
  <2>1. Size(16) = 2 /\ Size(17) = 2 /\ Size(18) = 2 /\ Size(19) = 2 /\ Size(20) = 2
    BY <1>1, <1>2, Zenon DEF OperatorRows
  <2> QED  BY <2>1
<1>12. Row(21) /\ Row(22) /\ Row(23) /\ Row(24) /\ Row(25)
  <2>1. Size(21) = 2 /\ Size(22) = 2 /\ Size(23) = 2 /\ Size(24) = 2 /\ Size(25) = 2
    BY <1>1, <1>2, Zenon DEF OperatorRows
  <2> QED  BY <2>1
<1>13. Row(26) /\ Row(27) /\ Row(28) /\ Row(29) /\ Row(30)
  <2>1. Size(26) = 2 /\ Size(27) = 2 /\ Size(28) = 2 /\ Size(29) = 2 /\ Size(30) = 2
    BY <1>1, <1>2, Zenon DEF OperatorRows
  <2> QED  BY <2>1
<1>14. Row(31) /\ Row(32) /\ Row(33) /\ Row(34) /\ Row(35)
  <2>1. Size(31) = 2 /\ Size(32) = 2 /\ Size(33) = 2 /\ Size(34) = 2 /\ Size(35) = 2
    BY <1>1, <1>2, Zenon DEF OperatorRows
  <2> QED  BY <2>1
<1>15. Row(36) /\ Row(37) /\ Row(38) /\ Row(39)
  <2>1. Size(36) = 2 /\ Size(37) = 2 /\ Size(38) = 2 /\ Size(39) = 2
    BY <1>1, <1>2, Zenon DEF OperatorRows
  <2> QED  BY <2>1
<1> HIDE DEF Row, Other
<1>16. \A i \in 1..39 : Row(i)
  BY <1>3, <1>4, <1>6, <1>8, <1>9, <1>11, <1>12, <1>13, <1>14, <1>15
<1>17. \A i \in 2..11 : Other(i)
  BY <1>5, <1>7, <1>10
<1>18. OperatorRows[1] = <<"!listen", <<"!", "listen">>>>
  BY Zenon DEF OperatorRows
<1> QED  BY <1>16, <1>17, <1>18 DEF Row, Other

(* One lemma for each step of the lexer.                                   *)
LEMMA EndIsNoWord == ASSUME IsSeq(source) PROVE ~InWord(Len(source) + 1)
<1>1. Sym(Len(source) + 1) = "end"
  BY SymIs DEF IsSeq
<1>2. "end" \in {"end", "#", "\""} \union Blanks \union Singles
  BY Zenon
<1> QED  BY <1>1, <1>2, NotInWord

LEMMA BlankLongest == ASSUME LexInv, LongestInv, Blank PROVE LongestInv'
<1> DEFINE stops == {j \in From(at.pos) : Sym(j) \notin Blanks}
           p == First(stops)
<1>1. /\ IsSeq(source) /\ Len(source) \in Nat /\ at.pos \in Nat /\ 1 <= at.pos
      /\ at.pos <= Len(source) + 1 /\ stops \subseteq From(at.pos) /\ AtPlace
      /\ at.pos \in 1..Len(source)
  BY LexInvFacts, LexingHere DEF LexInv, Blank
<1>2. p \in Spots /\ p \in Nat /\ at.pos <= p /\ (p \in stops \/ p = Len(source) + 1)
  <2> HIDE DEF stops
  <2> QED  BY <1>1, FirstIs
<1>3. p # at.pos
  <2>1. at.pos \notin stops /\ at.pos # Len(source) + 1
    BY <1>1 DEF Blank, Here
  <2> HIDE DEF stops
  <2> QED  BY <1>2, <2>1
<1>4. ~InWord(p - 1)
  <2>1. p - 1 \in From(at.pos) /\ p - 1 < p
    BY <1>1, <1>2, <1>3 DEF From, Spots
  <2>2. p - 1 \notin stops
    <3> HIDE DEF stops
    <3> QED  BY <1>1, <2>1, BeforeFirst
  <2>3. Sym(p - 1) \in Blanks
    BY <2>1, <2>2
  <2> HIDE DEF p
  <2> QED  BY <2>3, NotInWord, Zenon
<1>5. at' = Place(p) /\ UNCHANGED <<source, tokens>>
  BY <1>1, <1>2, GoesTo DEF Blank, Move
<1>6. at'.pos = p
  BY <1>5, SpotHas DEF Place
<1> HIDE DEF p
<1> QED  BY <1>4, <1>5, <1>6, MoveLongest

LEMMA LineCommentLongest == ASSUME LexInv, LongestInv, LineComment PROVE LongestInv'
<1> DEFINE stops == {j \in From(at.pos) : Sym(j) = "nl"}
           p == First(stops)
<1>1. /\ IsSeq(source) /\ Len(source) \in Nat /\ at.pos \in Nat /\ 1 <= at.pos
      /\ at.pos <= Len(source) + 1 /\ stops \subseteq From(at.pos) /\ AtPlace
  BY LexInvFacts DEF LexInv
<1>2. p \in Spots /\ p \in Nat /\ at.pos <= p /\ (p \in stops \/ p = Len(source) + 1)
  <2> HIDE DEF stops
  <2> QED  BY <1>1, FirstIs
<1>3. at' = Place(p) /\ UNCHANGED <<source, tokens>>
  BY <1>1, <1>2, GoesTo DEF LineComment, Move
<1>4. at'.pos = p
  BY <1>3, SpotHas DEF Place
<1>5. ~InWord(p)
  <2>1. p \in stops => Sym(p) \in Blanks
    BY Zenon DEF Blanks
  <2> HIDE DEF p, stops
  <2>2. Sym(p) \in Blanks => ~InWord(p)
    BY NotInWord, Zenon
  <2>3. CASE p = Len(source) + 1
    BY <1>1, <2>3, EndIsNoWord
  <2> QED  BY <1>2, <2>1, <2>2, <2>3
<1> HIDE DEF p
<1> QED  BY <1>3, <1>4, <1>5, MoveLongest

LEMMA BlockCommentLongest == ASSUME LexInv, LongestInv, BlockComment PROVE LongestInv'
<1> DEFINE stops == {k \in From(at.pos + 2) : Sym(k) = "#" /\ Sym(k + 1) = "#"}
           j == First(stops)
<1>1. /\ IsSeq(source) /\ Len(source) \in Nat /\ at.pos \in Nat /\ 1 <= at.pos
      /\ at.pos + 2 \in Nat /\ 1 <= at.pos + 2 /\ at.pos <= Len(source) + 1
      /\ stops \subseteq From(at.pos + 2) /\ AtPlace
  BY LexInvFacts DEF LexInv
<1>2. at.pos + 2 <= Len(source) + 1
  <2>1. Sym(at.pos + 1) = "#"
    BY DEF BlockComment
  <2>2. at.pos + 1 \in 1..Len(source)
    BY <1>1, <2>1, SymIs
  <2> QED  BY <1>1, <2>2
<1>3. j \in Spots /\ j \in Nat /\ at.pos + 2 <= j /\ (j \in stops \/ j = Len(source) + 1)
  <2> HIDE DEF stops
  <2> QED  BY <1>1, <1>2, FirstIs
<1>4. IF j <= Len(source) THEN Move(AdvanceTo(j + 2)) ELSE Report(AdvanceTo(j))
  BY DEF BlockComment
<1>5. CASE j <= Len(source)
  <2>1. Sym(j + 1) = "#"
    BY <1>1, <1>3, <1>5
  <2> HIDE DEF j
  <2>2. j + 1 \in 1..Len(source)
    BY <1>1, <1>3, <2>1, SymIs
  <2>3. j + 2 \in Spots /\ at.pos <= j + 2 /\ (j + 2) - 1 = j + 1
    BY <1>1, <1>3, <2>2 DEF Spots
  <2>4. at' = Place(j + 2) /\ UNCHANGED <<source, tokens>>
    BY <1>1, <1>4, <1>5, <2>3, GoesTo DEF Move
  <2>5. at'.pos = j + 2
    BY <2>4, SpotHas DEF Place
  <2>6. ~InWord(j + 1)
    <3>1. Sym(j + 1) \in {"end", "#", "\""}
      BY <2>1, Zenon
    <3> QED  BY <3>1, NotInWord, Zenon
  <2> QED  BY <2>3, <2>4, <2>5, <2>6, MoveLongest
<1>6. CASE ~(j <= Len(source))
  <2> HIDE DEF j
  <2>1. j = Len(source) + 1 /\ at.pos <= j
    BY <1>1, <1>3, <1>6 DEF Spots
  <2>2. at' = Place(j) /\ UNCHANGED <<source, tokens>>
    BY <1>1, <1>3, <1>4, <1>6, <2>1, GoesTo DEF Report
  <2>3. at'.pos = j
    BY <2>2, SpotHas DEF Place
  <2>4. ~InWord(j)
    BY <1>1, <2>1, EndIsNoWord
  <2> QED  BY <2>2, <2>3, <2>4, MoveLongest
<1> QED  BY <1>5, <1>6

LEMMA UnknownLongest == ASSUME LexInv, LongestInv, Unknown PROVE LongestInv'
<1> DEFINE p == at.pos + 1
<1>1. Lexing /\ Report(Advance(at)) /\ ~InWord(at.pos)
  BY Zenon DEF Unknown, InWord, Here
<1>2. Advance(at) = Place(p) /\ at.pos \in Nat
  BY <1>1, OneOn, LexInvFacts
<1>3. p - 1 = at.pos
  BY <1>2
<1> HIDE DEF p
<1>4. at'.pos = p /\ UNCHANGED <<source, tokens>>
  BY <1>1, <1>2, SpotHas DEF Report, Place
<1> QED  BY <1>1, <1>3, <1>4, MoveLongest

LEMMA LiteralsRight ==
  /\ "num" \in Literals \ WordTypes /\ "string" \in Literals \ WordTypes
  /\ "character" \in Literals \ WordTypes /\ "EOF" \in Literals \ WordTypes
  BY Zenon DEF Literals, WordTypes, Keywords, WordPrefixes

LEMMA EndOfSourceLongest == ASSUME LexInv, LongestInv, EndOfSource PROVE LongestInv'
<1>1. Yield("EOF", "<eof>", at) /\ Right("EOF", at.pos, at.pos)
  BY LiteralsRight DEF EndOfSource, Right
<1>2. ~InWord(at.pos)
  <2>1. at.pos = Len(source) + 1 /\ IsSeq(source)
    BY LexInvFacts DEF EndOfSource
  <2> QED  BY <2>1, EndIsNoWord
<1> QED  BY <1>1, <1>2, YieldLongest

LEMMA NumberLongest == ASSUME LexInv, LongestInv, Number PROVE LongestInv'
<1>1. PICK value, c : Yield("num", value, c)
  BY DEF Number
<1>2. "num" \in MayEndInWord /\ Right("num", at.pos, c.pos)
  BY LiteralsRight DEF MayEndInWord, Right
<1> QED  BY <1>1, <1>2, YieldLongest

LEMMA CharLongest == ASSUME LexInv, LongestInv, Char PROVE LongestInv'
<1>1. PICK c : Yield("character", "character", c)
  BY DEF Char
<1>2. "character" \in MayEndInWord /\ Right("character", at.pos, c.pos)
  BY LiteralsRight DEF MayEndInWord, Right
<1> QED  BY <1>1, <1>2, YieldLongest

LEMMA OperatorsAre ==
  DOMAIN Operators = 1..39 /\ \A i \in 1..39 : Operators[i] = OperatorRows[i][2]
<1>1. DOMAIN Operators = DOMAIN OperatorRows
  BY Zenon DEF Operators
<1>2. \A i \in DOMAIN Operators : Operators[i] = OperatorRows[i][2]
  BY <1>1, Zenon DEF Operators
<1> QED  BY <1>2, OperatorTable

LEMMA SingleLongest == ASSUME LexInv, LongestInv, Single PROVE LongestInv'
<1> DEFINE p == at.pos + 1
<1>1. Lexing /\ Yield(Here, Here, Advance(at)) /\ Fitting = {} /\ Here \in Singles
  BY DEF Single
<1>2. Advance(at) = Place(p) /\ at.pos \in Nat
  BY <1>1, OneOn, LexInvFacts
<1>3. p - 1 = at.pos
  BY <1>2
<1> HIDE DEF p
<1>4. Advance(at).pos = p
  BY <1>2, SpotHas DEF Place
<1>5. Longest(at.pos, p)
  <2>1. \A k \in DOMAIN Operators : ~Fits(Operators[k], at.pos)
    BY <1>1, Zenon DEF Fitting
  <2> QED  BY <2>1 DEF Longest
<1>6. Right(Here, at.pos, p)
  BY <1>1, <1>5, SinglesAlone DEF Right
<1>7. ~InWord(p - 1)
  BY <1>1, <1>3, NotInWord, Zenon DEF Here
<1> QED  BY <1>1, <1>4, <1>6, <1>7, YieldLongest

LEMMA OperatorLongest == ASSUME LexInv, LongestInv, Operator PROVE LongestInv'
<1> DEFINE op == Operators[Tried]
           n == Len(op)
           p == at.pos + n
           type == OperatorRows[Tried][1]
<1>1. Lexing /\ Fitting # {} /\ Yield(type, Text(op), AdvanceTo(p))
  BY DEF Operator
<1>2. Tried \in Fitting /\ \A k \in Fitting : Tried <= k
  <2>1. Fitting \in SUBSET Nat
    BY OperatorTable DEF Fitting
  <2>2. \E i \in Fitting : \A k \in Fitting : i <= k
    BY <1>1, <2>1, Least
  <2> QED  BY <2>2, Zenon DEF Tried
<1>3. /\ Tried \in 1..39 /\ Tried \in Nat /\ op = OperatorRows[Tried][2]
      /\ \A k \in DOMAIN op : Sym(at.pos + k - 1) = op[k]
  BY <1>2, OperatorsAre DEF Fitting, Fits
<1>4. n \in 1..3 /\ DOMAIN op = 1..n /\ op[n] # "end" /\ n = IF Tried \in 2..11 THEN 3 ELSE 2
  <2>1. IsOperator(op)
    BY <1>3, OperatorTable
  <2>2. n = IF Tried \in 2..11 THEN 3 ELSE 2
    BY <1>3, OperatorLengths
  <2> HIDE DEF op
  <2>3. n \in 1..3 /\ DOMAIN op = 1..n /\ \A k \in 1..n : op[k] # "end"
    BY <2>1 DEF IsOperator, IsSeq
  <2> HIDE DEF n
  <2>4. n \in 1..n
    BY <2>3
  <2> QED  BY <2>2, <2>3, <2>4
<1>5. IsSeq(source) /\ AtPlace /\ at.pos \in Nat /\ 1 <= at.pos /\ Len(source) \in Nat
  BY LexInvFacts DEF LexInv
<1>6. Longest(at.pos, p)
  <2> SUFFICES ASSUME NEW k \in DOMAIN Operators, Fits(Operators[k], at.pos)
               PROVE  Len(Operators[k]) <= p - at.pos
    BY DEF Longest
  <2>1. k \in 1..39 /\ k \in Nat /\ Operators[k] = OperatorRows[k][2] /\ Tried <= k
    BY <1>2, OperatorsAre DEF Fitting
  <2>2. Len(Operators[k]) = IF k \in 2..11 THEN 3 ELSE 2
    BY <2>1, OperatorLengths
  <2> HIDE DEF op, n
  <2>3. ~(Tried = 1 /\ k \in 2..11)
    <3> SUFFICES ASSUME Tried = 1, k \in 2..11 PROVE FALSE
      OBVIOUS
    <3>1. n = 2 /\ 2 \in 1..n
      BY <1>4
    <3>2. op[2] = "listen"
      BY <1>3, OperatorLengths
    <3>3. Sym(at.pos + 2 - 1) = "listen"
      BY <1>3, <1>4, <3>1, <3>2
    <3>4. 2 \in DOMAIN Operators[k]
      <4>1. IsOperator(Operators[k]) /\ Len(Operators[k]) = 3
        BY <2>2, OperatorTable
      <4> QED  BY <4>1 DEF IsOperator, IsSeq
    <3>5. Sym(at.pos + 2 - 1) = OperatorRows[k][2][2]
      BY <2>1, <3>4 DEF Fits
    <3> QED  BY <3>3, <3>5, OperatorLengths
  <2>4. p - at.pos = n
    BY <1>4, <1>5
  <2> HIDE DEF p
  <2> QED  BY <1>3, <1>4, <2>1, <2>2, <2>3, <2>4
<1>7. type \notin WordTypes \union Literals
  BY <1>3, OperatorTypes
<1>8. InWord(p - 1) => type \in MayEndInWord
  <2>1. CASE Tried = 1
    BY <2>1, OperatorLengths DEF MayEndInWord
  <2>2. CASE Tried # 1
    <3>1. Tried \in 2..39 /\ op[n] \in Singles
      <4>1. Tried \in 2..39
        BY <1>3, <2>2
      <4> QED  BY <1>3, <4>1, OperatorLasts
    <3> HIDE DEF op, n
    <3>2. p - 1 = at.pos + n - 1 /\ n \in DOMAIN op
      BY <1>4, <1>5
    <3>3. Sym(p - 1) \in Singles
      BY <1>3, <3>1, <3>2
    <3> HIDE DEF p
    <3>4. ~InWord(p - 1)
      BY <3>3, NotInWord, Zenon
    <3> QED  BY <3>4
  <2> QED  BY <2>1, <2>2
<1>9. AdvanceTo(p).pos = p
  <2> HIDE DEF op, n
  <2>1. /\ Sym(at.pos + n - 1) = op[n] /\ op[n] # "end"
          /\ at.pos + n - 1 \in Nat /\ 1 <= at.pos + n - 1
    BY <1>3, <1>4, <1>5
  <2>2. (at.pos + n - 1) + 1 \in Spots
    BY <1>5, <2>1, BehindSym
  <2>3. p \in Spots /\ at.pos <= p
    BY <1>4, <1>5, <2>2
  <2> HIDE DEF p
  <2>4. AdvanceTo(p) = Place(p)
    BY <1>5, <2>3, GoesTo
  <2> QED  BY <2>4, SpotHas DEF Place
<1>10. Right(type, at.pos, p)
  <2> HIDE DEF type, p
  <2> QED  BY <1>6, <1>7 DEF Right
<1> HIDE DEF type, p, op, n
<1> QED  BY <1>1, <1>8, <1>9, <1>10, YieldLongest

LEMMA WordLongest == ASSUME LexInv, LongestInv, Word PROVE LongestInv'
<1> DEFINE stops == {k \in From(at.pos) : ~InWord(k)}
           j == First(stops)
           word == Text(Part(at.pos, j))
           prefix == word \o ":"
           type == IF word \in Keywords THEN word ELSE "id"
           colon == AdvanceTo(j + 1)
<1>1. /\ Lexing /\ Here \in Letters
      /\ CASE Sym(j) = ":" /\ prefix \in WordPrefixes -> Yield(prefix, prefix, colon)
           [] Sym(j) = ":" /\ prefix \notin WordPrefixes -> Yield(type, word, PutBack(colon))
           [] OTHER -> Yield(type, word, AdvanceTo(j))
  BY DEF Word, Part
<1>2. /\ IsSeq(source) /\ AtPlace /\ at.pos \in Nat /\ 1 <= at.pos /\ stops \subseteq From(at.pos)
      /\ at.pos <= Len(source) + 1 /\ Len(source) \in Nat
  BY LexInvFacts DEF LexInv
<1>3. j \in Spots /\ j \in Nat /\ at.pos <= j /\ (j \in stops \/ j = Len(source) + 1)
  <2> HIDE DEF stops
  <2> QED  BY <1>2, FirstIs
<1>4. ~InWord(j)
  <2>1. j \in stops => ~InWord(j)
    OBVIOUS
  <2>2. CASE j = Len(source) + 1
    <3> HIDE DEF j
    <3> QED  BY <1>2, <2>2, EndIsNoWord
  <2> QED  BY <1>3, <2>1, <2>2
<1>5. InWord(at.pos)
  BY <1>1, Zenon DEF InWord, Here
<1>6. type \in WordTypes
  BY Zenon DEF WordTypes
<1>7. Right(type, at.pos, j)
  <2> HIDE DEF j, type
  <2> QED  BY <1>4, <1>5, <1>6 DEF Right
<1> HIDE DEF j, word, prefix, type
<1>8. CASE Sym(j) = ":"
  <2>1. j \in 1..Len(source) /\ j + 1 \in Spots
    <3>1. Sym(j) # "end" /\ 1 <= j
      BY <1>2, <1>3, <1>8
    <3> QED  BY <1>2, <1>3, <3>1, BehindSym
  <2>2. source[j] = ":"
    BY <1>2, <1>8, <2>1, SymIs
  <2>3. colon = Place(j + 1)
    <3>1. at.pos <= j + 1
      BY <1>2, <1>3
    <3> QED  BY <1>2, <2>1, <3>1, GoesTo
  <2>4. CASE prefix \in WordPrefixes
    <3>1. Yield(prefix, prefix, colon)
      BY <1>1, <1>8, <2>4
    <3>2. colon.pos = j + 1 /\ (j + 1) - 1 = j
      BY <1>3, <2>3, SpotHas DEF Place
    <3>3. prefix \in WordTypes
      BY <2>4, Zenon DEF WordTypes
    <3> HIDE DEF colon
    <3>4. Right(prefix, at.pos, j + 1)
      BY <1>5, <2>4, <3>3 DEF Right
    <3> QED  BY <1>4, <3>1, <3>2, <3>4, YieldLongest
  <2>5. CASE prefix \notin WordPrefixes
    <3>1. Yield(type, word, PutBack(colon))
      BY <1>1, <1>8, <2>5
    <3>2. PutBack(colon) = Place(j)
      <4>1. source[j] # "nl"
        BY <2>2
      <4> QED  BY <1>2, <2>1, <2>3, <4>1, PutsBack
    <3>3. PutBack(colon).pos = j
      BY <3>2, SpotHas DEF Place
    <3> HIDE DEF colon
    <3> QED  BY <1>4, <1>7, <3>1, <3>3, YieldLongest
  <2> QED  BY <2>4, <2>5
<1>9. CASE Sym(j) # ":"
  <2>1. Yield(type, word, AdvanceTo(j))
    <3> HIDE DEF colon
    <3> QED  BY <1>1, <1>9
  <2>2. AdvanceTo(j) = Place(j)
    BY <1>2, <1>3, GoesTo
  <2>3. AdvanceTo(j).pos = j
    BY <2>2, SpotHas DEF Place
  <2> QED  BY <1>4, <1>7, <2>1, <2>3, YieldLongest
<1> QED  BY <1>8, <1>9

(* A string ends at a quote, at the end of a line or at the end.           *)
StringEnds    == {"\"", "nl", "end"}
EndsString(i) == Sym(i) \in StringEnds

LEMMA EndsClose ==
  ASSUME IsSeq(source), NEW h, h = [j \in Nat |-> EndAt(h, j)], NEW j \in Nat
  PROVE  EndsString(h[j])
<1> DEFINE N == Len(source) + 1
           Bad == {n \in 0..N : ~EndsString(h[N - n])}
<1>1. N \in Nat
  BY DEF IsSeq
<1>2. ASSUME NEW k \in Nat, Len(source) < k PROVE EndsString(h[k])
  <2>1. h[k] = EndAt(h, k)
    OBVIOUS
  <2>2. h[k] = k /\ k \notin 1..Len(source) /\ k \in Int
    BY <1>2, <2>1, PastSource DEF IsSeq
  <2>3. Sym(k) = "end"
    BY <2>2, SymIs
  <2> QED  BY <2>2, <2>3, Zenon DEF EndsString, StringEnds
<1>3. Bad = {}
  <2> SUFFICES ASSUME Bad # {} PROVE FALSE
    OBVIOUS
  <2>1. PICK n \in Bad : \A m \in Bad : n <= m
    <3>1. Bad \in SUBSET Nat
      BY <1>1
    <3> HIDE DEF Bad
    <3> QED  BY <3>1, Least
  <2> DEFINE a == N - n
  <2>2. n \in 0..N /\ a \in Nat /\ ~EndsString(h[a])
    BY <1>1, <2>1
  <2>3. h[a] = EndAt(h, a)
    BY <2>2
  <2>4. ASSUME NEW k \in Nat, a < k PROVE EndsString(h[k])
    <3>1. CASE Len(source) < k
      BY <1>2, <3>1
    <3>2. CASE ~(Len(source) < k)
      <4>1. k <= N
        BY <1>1, <3>2 DEF IsSeq
      <4> HIDE DEF N, Bad
      <4>2. N - k \in 0..N /\ N - (N - k) = k /\ ~(n <= N - k)
        BY <1>1, <2>2, <2>4, <4>1
      <4>3. N - k \notin Bad
        BY <2>1, <4>2
      <4> QED  BY <4>2, <4>3 DEF Bad
    <3> QED  BY <3>1, <3>2
  <2> HIDE DEF Bad, a
  <2>5. a + 1 \in Nat /\ a + 2 \in Nat /\ a < a + 1 /\ a < a + 2
    BY <2>2
  <2>6. EndsString(h[a + 1]) /\ EndsString(h[a + 2])
    BY <2>4, <2>5
  <2>7. (h[a] = a /\ EndsString(a)) \/ h[a] = h[a + 1] \/ h[a] = h[a + 2]
    BY <2>3, Zenon DEF EndAt, EndsString, StringEnds
  <2> QED  BY <2>2, <2>6, <2>7, Zenon
<1>4. CASE Len(source) < j
  BY <1>2, <1>4
<1>5. CASE ~(Len(source) < j)
  <2>1. j <= N
    BY <1>1, <1>5 DEF IsSeq
  <2> HIDE DEF N, Bad
  <2>2. N - j \in 0..N /\ N - (N - j) = j /\ N - j \notin Bad
    BY <1>1, <1>3, <2>1
  <2> QED  BY <2>2 DEF Bad
<1> QED  BY <1>4, <1>5

LEMMA StringLongest == ASSUME LexInv, LongestInv, String PROVE LongestInv'
<1> DEFINE ends == CHOOSE ends : ends = [j \in Nat |-> EndAt(ends, j)]
           c == AdvanceTo(ends[at.pos + 1])
           Quote(i) == Sym(i) = "\""
           d == IF Quote(c.pos) THEN Advance(c) ELSE c
<1>1. Yield("string", "string", d)
  BY DEF String, EndAt
<1>2. AtPlace /\ IsSeq(source) /\ Len(source) \in Nat /\ at.pos \in Nat /\ at.pos + 1 \in Nat
  BY LexInvFacts DEF LexInv
<1>3. ends = [j \in Nat |-> EndAt(ends, j)]
  <2>1. {k \in Nat : 0 <= k} = Nat
    OBVIOUS
  <2>2. \E h : h = [j \in Nat |-> EndAt(h, j)]
    <3>1. PICK h : IsEnds(h, 0)
      BY <1>2, EndsExist
    <3>2. h = [j \in Nat |-> EndAt(h, j)]
      BY <2>1, <3>1 DEF IsEnds
    <3> QED  BY <3>2, Zenon
  <2> QED  BY <2>2, Zenon
<1> DEFINE j == ends[at.pos + 1]
<1> HIDE DEF ends
<1>4. j \in Nat /\ at.pos <= j /\ EndsString(j)
  <2>1. j \in Nat /\ at.pos + 1 <= j /\ EndsString(j)
    BY <1>2, <1>3, EndsLater, EndsClose
  <2> QED  BY <1>2, <2>1
<1>5. c = Place(Stop(j)) /\ Stop(j) \in Spots
  <2> HIDE DEF j
  <2>1. AdvanceTo(j) = Place(Stop(j)) /\ Stop(j) \in Spots
    BY <1>2, <1>4, GoesOn
  <2> QED  BY <2>1 DEF j
<1> HIDE DEF j, Quote
<1> DEFINE s == Stop(j)
<1>6. c.pos = s /\ s \in Nat
  BY <1>5, <1>2, SpotHas DEF Place, Spots
<1>7. EndsString(s) /\ (s <= Len(source) \/ s = Len(source) + 1)
  <2>1. CASE j <= Len(source) + 1
    BY <1>2, <1>4, <2>1 DEF Stop
  <2>2. CASE ~(j <= Len(source) + 1)
    <3>1. s = Len(source) + 1
      BY <2>2 DEF Stop
    <3>2. Sym(s) = "end"
      BY <1>2, <3>1, SymIs
    <3>3. EndsString(s)
      <4> HIDE DEF s
      <4> QED  BY <3>2, Zenon DEF EndsString, StringEnds
    <3> QED  BY <3>1, <3>3
  <2> QED  BY <2>1, <2>2
<1> HIDE DEF s
<1>8. Quote(s) \/ Sym(s) \in {"end", "#", "\""} \union Blanks \union Singles
  BY <1>7, Zenon DEF EndsString, StringEnds, Blanks, Quote
<1>9. ~InWord(s)
  <2>1. Quote(s) => Sym(s) \in {"end", "#", "\""} \union Blanks \union Singles
    BY Zenon DEF Quote
  <2> QED  BY <1>8, <2>1, NotInWord, Zenon
<1>10. ~InWord(d.pos - 1) \/ ~InWord(d.pos)
  <2>1. CASE Quote(s)
    <3>1. s \in 1..Len(source) /\ IsSeq(source)
      <4>1. Sym(s) # "end"
        BY <2>1, Zenon DEF Quote
      <4>2. s # Len(source) + 1
        BY <1>2, <4>1, SymIs
      <4> QED  BY <1>2, <1>5, <1>7, <4>2 DEF Spots, s
    <3>2. d = Advance(Place(s)) /\ After1(s) = s + 1
      BY <1>5, <1>6, <2>1, <3>1 DEF After1, s
    <3>3. d = Place(s + 1)
      BY <1>2, <1>5, <3>2, AdvancePlace DEF s
    <3>4. d.pos = s + 1 /\ (s + 1) - 1 = s
      BY <1>6, <3>3, SpotHas DEF Place
    <3> HIDE DEF d
    <3> QED  BY <1>9, <3>4
  <2>2. CASE ~Quote(s)
    <3>1. d.pos = s
      BY <1>6, <2>2
    <3> HIDE DEF d
    <3> QED  BY <1>9, <3>1
  <2> QED  BY <2>1, <2>2
<1>11. Right("string", at.pos, d.pos)
  BY LiteralsRight DEF Right
<1> HIDE DEF d
<1> DEFINE p == d.pos
<1> HIDE DEF p
<1>12. d.pos = p
  BY DEF p
<1>13. ~InWord(p - 1) \/ ~InWord(p)
  BY <1>10 DEF p
<1> QED  BY <1>1, <1>11, <1>12, <1>13, YieldLongest

LEMMA LongestUntouched == ASSUME LexInv, LongestInv, UNCHANGED lexVars PROVE LongestInv'
<1>1. UNCHANGED <<source, at, tokens>>
  BY DEF lexVars
<1>2. LongestMatch' /\ Border'
  BY <1>1 DEF LongestInv, LongestMatch, Border, InWord, Fits, Sym, LastOf
<1> QED  BY <1>2 DEF LongestInv

LEMMA LongestStepKeeps == ASSUME LexInv, LongestInv, [FrontNext]_frontVars PROVE LongestInv'
<1>1. ASSUME NextToken PROVE LongestInv'
  <2>1. CASE Blank        BY <2>1, BlankLongest
  <2>2. CASE LineComment  BY <2>2, LineCommentLongest
  <2>3. CASE BlockComment BY <2>3, BlockCommentLongest
  <2>4. CASE EndOfSource  BY <2>4, EndOfSourceLongest
  <2>5. CASE Operator     BY <2>5, OperatorLongest
  <2>6. CASE Word         BY <2>6, WordLongest
  <2>7. CASE Number       BY <2>7, NumberLongest
  <2>8. CASE String       BY <2>8, StringLongest
  <2>9. CASE Char         BY <2>9, CharLongest
  <2>10. CASE Single      BY <2>10, SingleLongest
  <2>11. CASE Unknown     BY <2>11, UnknownLongest
  <2> QED
    BY <1>1, <2>1, <2>2, <2>3, <2>4, <2>5, <2>6, <2>7, <2>8, <2>9, <2>10, <2>11 DEF NextToken
<1>2. CASE Lex
  BY <1>1, <1>2 DEF Lex
<1>3. CASE HandOver
  BY <1>3, LongestUntouched DEF HandOver
<1>4. CASE LexErrors
  BY <1>4, LongestUntouched DEF LexErrors
<1>5. CASE Next /\ UNCHANGED lexVars
  BY <1>5, LongestUntouched
<1>6. CASE UNCHANGED frontVars
  BY <1>6, LongestUntouched DEF frontVars, lexVars
<1> QED  BY <1>2, <1>3, <1>4, <1>5, <1>6 DEF FrontNext

LEMMA LongestInit == ASSUME FrontInit PROVE LongestInv
<1>1. tokens = <<>> /\ at.pos = 1
  BY DEF FrontInit, LexStage, LexInit, ParseStage, Start
<1>2. IsSeq(source)
  BY InitFresh, LexInvFacts
<1>3. ~InWord(at.pos - 1)
  <2>1. Sym(0) = "end"
    BY <1>2, SymIs DEF IsSeq
  <2>2. at.pos - 1 = 0
    BY <1>1
  <2>3. Sym(at.pos - 1) \in {"end", "#", "\""}
    BY <2>1, <2>2, Zenon
  <2> QED  BY <2>3, NotInWord, Zenon
<1> QED  BY <1>1, <1>3 DEF LongestInv, LongestMatch, Border

(* Whatever the source is, and wherever words begin and operators overlap: *)
(* the operator the table finds first is the longest that fits, and a word *)
(* is a whole one, unless a number, a character or !listen ends inside it. *)
THEOREM LongestWins == FrontSpec => []LongestMatch
<1>1. FrontInit => LexInv /\ LongestInv
  BY InitFresh, LongestInit
<1>2. LexInv /\ LongestInv /\ [FrontNext]_frontVars => (LexInv /\ LongestInv)'
  BY LexStepKeeps, LongestStepKeeps
<1>3. LongestInv => LongestMatch
  BY DEF LongestInv
<1> QED  BY <1>1, <1>2, <1>3, PTL DEF FrontSpec

-------------------------------------------------------------------------------
(* Brackets: what a sequence of instructions leaves to be closed.          *)

(* The recursive function of After exists: the least prefix for which none *)
(* does could be continued from the prefix before it.                      *)
IsAfter(h, open, ops, n) ==
  h = [k \in 0..n |-> IF k = 0 THEN open ELSE Opened(h[k - 1], ops[k])]

LEMMA AfterExists ==
  ASSUME NEW open, NEW ops, Len(ops) \in Nat, NEW n \in 0..Len(ops)
  PROVE  \E h : IsAfter(h, open, ops, n)
<1> DEFINE Ok(m) == \E h : IsAfter(h, open, ops, m)
           Bad == {m \in 0..Len(ops) : ~Ok(m)}
<1> SUFFICES ASSUME Bad # {} PROVE FALSE
  OBVIOUS
<1>1. PICK m \in Bad : \A l \in Bad : m <= l
  <2>1. Bad \in SUBSET Nat
    OBVIOUS
  <2> HIDE DEF Bad
  <2> QED  BY <2>1, Least
<1>2. CASE m = 0
  <2> DEFINE g == [k \in 0..0 |-> open]
  <2>1. g = [k \in 0..0 |-> IF k = 0 THEN open ELSE Opened(g[k - 1], ops[k])]
    OBVIOUS
  <2>2. IsAfter(g, open, ops, 0)
    BY <2>1 DEF IsAfter
  <2> QED  BY <1>1, <1>2, <2>2
<1>3. CASE m # 0
  <2>1. m - 1 \in 0..Len(ops) /\ m - 1 \notin Bad /\ m \in Nat
    BY <1>1, <1>3
  <2>0. PICK h : IsAfter(h, open, ops, m - 1)
    BY <2>1
  <2>2. h = [k \in 0..(m - 1) |-> IF k = 0 THEN open ELSE Opened(h[k - 1], ops[k])]
    BY <2>0 DEF IsAfter
  <2> DEFINE g == [k \in 0..m |-> IF k = 0 THEN open ELSE Opened(h[k - 1], ops[k])]
  <2>3. ASSUME NEW k \in 1..m PROVE g[k - 1] = h[k - 1]
    <3>1. k - 1 \in 0..(m - 1) /\ k - 1 \in 0..m
      BY <2>1
    <3>2. h[k - 1] = IF k - 1 = 0 THEN open ELSE Opened(h[(k - 1) - 1], ops[k - 1])
      BY <2>2, <3>1
    <3>3. g[k - 1] = IF k - 1 = 0 THEN open ELSE Opened(h[(k - 1) - 1], ops[k - 1])
      BY <3>1
    <3> QED  BY <3>2, <3>3
  <2>4. g = [k \in 0..m |-> IF k = 0 THEN open ELSE Opened(g[k - 1], ops[k])]
    <3>1. \A k \in 0..m : k # 0 => k \in 1..m
      BY <2>1
    <3>2. \A k \in 0..m :
            (IF k = 0 THEN open ELSE Opened(h[k - 1], ops[k]))
              = IF k = 0 THEN open ELSE Opened(g[k - 1], ops[k])
      <4> HIDE DEF g
      <4> QED  BY <2>3, <3>1
    <3> QED  BY <3>2
  <2>5. IsAfter(g, open, ops, m)
    BY <2>4 DEF IsAfter
  <2> QED  BY <1>1, <2>5
<1> QED  BY <1>2, <1>3

(* h is what is due after each prefix of the instructions.                 *)
Traces(h, open, ops) ==
  h[0] = open /\ \A k \in 1..Len(ops) : h[k] = Opened(h[k - 1], ops[k])

LEMMA AfterTrace ==
  ASSUME NEW open, NEW ops, Len(ops) \in Nat
  PROVE  \E h : Traces(h, open, ops) /\ After(open, ops) = h[Len(ops)]
<1> DEFINE A == CHOOSE after :
      after = [k \in 0..Len(ops) |-> IF k = 0 THEN open ELSE Opened(after[k - 1], ops[k])]
<1>1. After(open, ops) = A[Len(ops)]
  BY DEF After
<1>2. A = [k \in 0..Len(ops) |-> IF k = 0 THEN open ELSE Opened(A[k - 1], ops[k])]
  <2>1. \E g : IsAfter(g, open, ops, Len(ops))
    <3>1. Len(ops) \in 0..Len(ops)
      OBVIOUS
    <3> QED  BY <3>1, AfterExists
  <2>2. IsAfter(CHOOSE g : IsAfter(g, open, ops, Len(ops)), open, ops, Len(ops))
    BY <2>1, Zenon
  <2> QED  BY <2>2, Zenon DEF IsAfter
<1> HIDE DEF A
<1>3. A[0] = open /\ \A k \in 1..Len(ops) : A[k] = Opened(A[k - 1], ops[k])
  <2>1. 0 \in 0..Len(ops) /\ \A k \in 1..Len(ops) : k \in 0..Len(ops) /\ k # 0
    OBVIOUS
  <2> QED  BY <1>2, <2>1
<1> QED  BY <1>1, <1>3 DEF Traces

LEMMA TraceUnique ==
  ASSUME NEW open, NEW ops, Len(ops) \in Nat, NEW h, Traces(h, open, ops)
  PROVE  h[Len(ops)] = After(open, ops)
<1>1. PICK g : Traces(g, open, ops) /\ After(open, ops) = g[Len(ops)]
  BY AfterTrace
<1> DEFINE Bad == {m \in 0..Len(ops) : h[m] # g[m]}
<1> SUFFICES ASSUME Bad # {} PROVE FALSE
  BY <1>1
<1>2. PICK m \in Bad : \A l \in Bad : m <= l
  <2>1. Bad \in SUBSET Nat
    OBVIOUS
  <2> HIDE DEF Bad
  <2> QED  BY <2>1, Least
<1>3. m # 0
  BY <1>1, <1>2 DEF Traces
<1>4. m \in 1..Len(ops) /\ m - 1 \in 0..Len(ops) /\ m - 1 \notin Bad
  BY <1>2, <1>3
<1>5. h[m - 1] = g[m - 1]
  BY <1>4
<1>6. h[m] = Opened(h[m - 1], ops[m]) /\ g[m] = Opened(g[m - 1], ops[m])
  BY <1>1, <1>4 DEF Traces
<1> QED  BY <1>2, <1>5, <1>6

(* ... after none, after one more, and after two sequences.                *)
LEMMA AfterNone == ASSUME NEW open PROVE After(open, <<>>) = open
<1>1. Len(<<>>) = 0 /\ Len(<<>>) \in Nat
  OBVIOUS
<1>2. PICK h : Traces(h, open, <<>>) /\ After(open, <<>>) = h[Len(<<>>)]
  BY <1>1, AfterTrace
<1> QED  BY <1>1, <1>2 DEF Traces

LEMMA AfterAppend ==
  ASSUME NEW open, NEW ops, IsSeq(ops), NEW op
  PROVE  After(open, Append(ops, op)) = Opened(After(open, ops), op)
<1> DEFINE all == Append(ops, op)
           n == Len(ops)
<1>1. /\ n \in Nat /\ Len(all) = n + 1 /\ all[n + 1] = op
      /\ \A i \in 1..n : all[i] = ops[i]
  BY AppendSeq DEF IsSeq
<1> HIDE DEF all, n
<1>2. PICK h : Traces(h, open, all) /\ After(open, all) = h[Len(all)]
  BY <1>1, AfterTrace
<1>3. h[0] = open /\ (\A k \in 1..n : h[k] = Opened(h[k - 1], ops[k]))
      /\ h[n + 1] = Opened(h[n], op)
  <2>1. \A k \in 1..(n + 1) : h[k] = Opened(h[k - 1], all[k])
    BY <1>1, <1>2 DEF Traces
  <2>2. n + 1 \in 1..(n + 1) /\ (n + 1) - 1 = n /\ \A k \in 1..n : k \in 1..(n + 1)
    BY <1>1
  <2>3. h[n + 1] = Opened(h[(n + 1) - 1], all[n + 1])
    BY <2>1, <2>2
  <2> QED  BY <1>1, <1>2, <2>1, <2>2, <2>3 DEF Traces
<1>4. h[n] = After(open, ops)
  BY <1>1, <1>3, TraceUnique DEF Traces, n
<1> QED  BY <1>1, <1>2, <1>3, <1>4 DEF all

LEMMA AfterConcat ==
  ASSUME NEW open, NEW a, NEW b, IsSeq(a), IsSeq(b)
  PROVE  After(open, a \o b) = After(After(open, a), b)
<1> DEFINE m == Len(a)
           n == Len(b)
           all == a \o b
<1>1. /\ m \in Nat /\ n \in Nat /\ Len(all) = m + n
      /\ (\A i \in 1..m : all[i] = a[i]) /\ \A i \in 1..n : all[m + i] = b[i]
  BY ConcatSeq DEF IsSeq
<1> HIDE DEF all, m, n
<1>2. PICK h : Traces(h, open, all) /\ After(open, all) = h[Len(all)]
  BY <1>1, AfterTrace
<1>3. h[0] = open /\ \A k \in 1..(m + n) : h[k] = Opened(h[k - 1], all[k])
  BY <1>1, <1>2 DEF Traces
<1>4. h[m] = After(open, a)
  <2>1. \A k \in 1..m : k \in 1..(m + n)
    BY <1>1
  <2>2. \A k \in 1..m : h[k] = Opened(h[k - 1], a[k])
    BY <1>1, <1>3, <2>1
  <2> QED  BY <1>1, <1>3, <2>2, TraceUnique DEF Traces, m
<1>5. h[m + n] = After(h[m], b)
  <2> DEFINE g == [k \in 0..n |-> h[m + k]]
  <2>1. ASSUME NEW k \in 1..n PROVE g[k] = Opened(g[k - 1], b[k])
    <3>1. k \in 0..n /\ k - 1 \in 0..n /\ m + k \in 1..(m + n) /\ m + (k - 1) = (m + k) - 1
      BY <1>1
    <3>2. h[m + k] = Opened(h[(m + k) - 1], all[m + k])
      BY <1>3, <3>1
    <3>3. g[k] = h[m + k] /\ g[k - 1] = h[m + (k - 1)]
      BY <3>1
    <3> HIDE DEF g
    <3> QED  BY <1>1, <3>1, <3>2, <3>3
  <2>2. g[0] = h[m] /\ g[n] = h[m + n]
    BY <1>1
  <2> HIDE DEF g
  <2> QED  BY <1>1, <2>1, <2>2, TraceUnique DEF Traces, n
<1> QED  BY <1>1, <1>2, <1>4, <1>5 DEF all

(* What is due is a sequence, and what neither opens nor closes leaves it. *)
Due == Seq(Closers \union {"mismatch"})
Neutral(op) == op \notin DOMAIN CloserOf \union Closers

LEMMA NoBoth == ASSUME NEW op \in DOMAIN CloserOf PROVE op \notin Closers /\ CloserOf[op] \in Closers
<1>1. CloserOf[op] \in Closers
  BY DEF Closers
<1>2. \A c \in Closers : c \in {"END_FUNC", "END_TYPEDEF", "IF_END", "SEL_END", "SCAN_END", "LOOP_END"}
  BY DEF Closers, CloserOf
<1>3. op \notin {"END_FUNC", "END_TYPEDEF", "IF_END", "SEL_END", "SCAN_END", "LOOP_END"}
  BY DEF CloserOf
<1> QED  BY <1>1, <1>2, <1>3

LEMMA OpenedDue == ASSUME NEW open \in Due, NEW op PROVE Opened(open, op) \in Due
<1>1. CASE op \in DOMAIN CloserOf
  <2>1. CloserOf[op] \in Closers \union {"mismatch"} /\ Opened(open, op) = <<CloserOf[op]>> \o open
    BY <1>1, NoBoth DEF Opened
  <2> QED  BY <2>1 DEF Due
<1>2. CASE op \notin DOMAIN CloserOf /\ op \in Closers
  <2>1. Opened(open, op) = IF open # <<>> /\ Head(open) = op THEN Tail(open)
                           ELSE <<"mismatch">> \o open
    BY <1>2 DEF Opened
  <2>2. CASE open # <<>> /\ Head(open) = op
    <3>1. Tail(open) \in Due
      BY <2>2, HeadTailProperties DEF Due
    <3> QED  BY <2>1, <2>2, <3>1
  <2>3. CASE ~(open # <<>> /\ Head(open) = op)
    <3>1. <<"mismatch">> \in Seq(Closers \union {"mismatch"})
      OBVIOUS
    <3>2. <<"mismatch">> \o open \in Due
      BY <3>1, ConcatProperties DEF Due
    <3> QED  BY <2>1, <2>3, <3>2
  <2> QED  BY <2>2, <2>3
<1>3. CASE Neutral(op)
  BY <1>3 DEF Neutral, Opened
<1> QED  BY <1>1, <1>2, <1>3 DEF Neutral

LEMMA AfterDue ==
  ASSUME NEW open \in Due, NEW ops, Len(ops) \in Nat PROVE After(open, ops) \in Due
<1>1. PICK h : Traces(h, open, ops) /\ After(open, ops) = h[Len(ops)]
  BY AfterTrace
<1> DEFINE Bad == {m \in 0..Len(ops) : h[m] \notin Due}
<1> SUFFICES ASSUME Bad # {} PROVE FALSE
  BY <1>1
<1>2. PICK m \in Bad : \A l \in Bad : m <= l
  <2>1. Bad \in SUBSET Nat
    OBVIOUS
  <2> HIDE DEF Bad
  <2> QED  BY <2>1, Least
<1>3. m # 0
  BY <1>1, <1>2 DEF Traces
<1>4. m \in 1..Len(ops) /\ m - 1 \in 0..Len(ops) /\ m - 1 \notin Bad
  BY <1>2, <1>3
<1>5. h[m] = Opened(h[m - 1], ops[m]) /\ h[m - 1] \in Due
  BY <1>1, <1>4 DEF Traces
<1> QED  BY <1>2, <1>5, OpenedDue

LEMMA AfterNeutral ==
  ASSUME NEW open, NEW ops, Len(ops) \in Nat, \A i \in 1..Len(ops) : Neutral(ops[i])
  PROVE  After(open, ops) = open
<1> DEFINE h == [k \in 0..Len(ops) |-> open]
<1>1. h[0] = open /\ \A k \in 1..Len(ops) : h[k] = open /\ h[k - 1] = open
  OBVIOUS
<1>2. \A k \in 1..Len(ops) : Opened(open, ops[k]) = open
  BY DEF Opened, Neutral
<1>3. h[Len(ops)] = open
  OBVIOUS
<1> HIDE DEF h
<1>4. Traces(h, open, ops)
  BY <1>1, <1>2 DEF Traces
<1> QED  BY <1>3, <1>4, TraceUnique

(* A closer closes what its opener opened.                                 *)
LEMMA Closes ==
  ASSUME NEW open \in Due, NEW op \in DOMAIN CloserOf
  PROVE  Opened(Opened(open, op), CloserOf[op]) = open
<1>1. CloserOf[op] \in Closers /\ CloserOf[op] \notin DOMAIN CloserOf
  BY NoBoth
<1>2. Opened(open, op) = <<CloserOf[op]>> \o open
  BY NoBoth DEF Opened
<1> DEFINE more == <<CloserOf[op]>> \o open
<1>3. more # <<>> /\ Head(more) = CloserOf[op] /\ Tail(more) = open
  BY <1>1 DEF Due
<1> HIDE DEF more
<1>4. Opened(more, CloserOf[op]) = open
  BY <1>1, <1>3 DEF Opened
<1> QED  BY <1>2, <1>4 DEF more

-------------------------------------------------------------------------------
(* The cursor.  A helper keeps it good; most of them leave the symbols and *)
(* what is due as they are.                                                *)

Source == IsSeq(toks) /\ toks # <<>> /\ toks[Len(toks)].t = "EOF"

Ids(c) == 0..Len(c.syms)

Good(c) ==
  /\ c = [pos |-> c.pos, sid |-> c.sid, bad |-> c.bad, syms |-> c.syms, code |-> c.code,
          params |-> c.params]
  /\ c.pos \in 1..Len(toks) /\ c.bad \in BOOLEAN /\ c.sid \in Ids(c)
  /\ IsSeq(c.syms) /\ IsSeq(c.code)
  /\ \A i \in 1..Len(c.syms) : c.syms[i].id = i /\ c.syms[i].prefix \in Prefix
  /\ \A k \in 1..Len(c.code) : c.code[k].symbolId \in Ids(c) /\ c.code[k].operandId \in Ids(c)

Nest(c) == After(<<>>, Ops(c.code))

Steady(c, d) == Good(d) /\ d.syms = c.syms /\ d.sid = c.sid /\ Nest(d) = Nest(c)

LEMMA OpsSeq == ASSUME NEW s, IsSeq(s) PROVE IsSeq(Ops(s)) /\ Len(Ops(s)) = Len(s)
<1>1. Len(s) \in Nat /\ DOMAIN s = 1..Len(s)
  BY DEF IsSeq
<1>2. Ops(s) = [i \in 1..Len(s) |-> s[i].op]
  BY <1>1 DEF Ops
<1>3. Len(Ops(s)) = Len(s)
  BY <1>1, <1>2
<1> QED  BY <1>1, <1>2, <1>3 DEF IsSeq

LEMMA OpsAppend ==
  ASSUME NEW s, IsSeq(s), NEW x PROVE Ops(Append(s, x)) = Append(Ops(s), x.op)
<1> DEFINE a == Append(s, x)
           n == Len(s)
           b == Append(Ops(s), x.op)
<1>1. n \in Nat /\ IsSeq(a) /\ Len(a) = n + 1 /\ a[n + 1] = x /\ \A i \in 1..n : a[i] = s[i]
  BY AppendSeq DEF IsSeq
<1>2. /\ IsSeq(b) /\ Len(b) = n + 1 /\ b[n + 1] = x.op
      /\ \A i \in 1..n : b[i] = Ops(s)[i]
  BY AppendSeq, OpsSeq
<1>3. \A i \in 1..n : Ops(s)[i] = s[i].op
  BY DEF IsSeq, Ops
<1> HIDE DEF a, b, n
<1>4. IsSeq(Ops(a)) /\ Len(Ops(a)) = n + 1 /\ \A i \in 1..(n + 1) : Ops(a)[i] = a[i].op
  BY <1>1, OpsSeq DEF IsSeq, Ops
<1>5. \A i \in 1..(n + 1) : Ops(a)[i] = b[i]
  <2>1. \A i \in 1..(n + 1) : i = n + 1 \/ i \in 1..n
    BY <1>1
  <2> QED  BY <1>1, <1>2, <1>3, <1>4, <2>1
<1>6. Ops(a) = b
  BY <1>2, <1>4, <1>5 DEF IsSeq
<1> QED  BY <1>6 DEF a, b

LEMMA PosSteady ==
  ASSUME NEW c, Good(c), NEW p \in 1..Len(toks) PROVE Steady(c, [c EXCEPT !.pos = p])
<1> DEFINE d == [c EXCEPT !.pos = p]
<1>1. d = [pos |-> p, sid |-> c.sid, bad |-> c.bad, syms |-> c.syms, code |-> c.code,
           params |-> c.params]
  BY DEF Good
<1>2. d.syms = c.syms /\ d.code = c.code /\ d.sid = c.sid /\ d.bad = c.bad /\ d.pos = p
      /\ d.params = c.params
  BY <1>1
<1> HIDE DEF d
<1>3. Good(d)
  BY <1>1, <1>2 DEF Good, Ids
<1>4. Steady(c, d)
  BY <1>2, <1>3 DEF Steady, Nest
<1> QED  BY <1>4 DEF d

LEMMA FailsSteady == ASSUME NEW c, Good(c) PROVE Steady(c, Fails(c))
<1> DEFINE d == Fails(c)
<1>1. d = [pos |-> c.pos, sid |-> c.sid, bad |-> TRUE, syms |-> c.syms, code |-> c.code,
           params |-> c.params]
  <2>1. c = [pos |-> c.pos, sid |-> c.sid, bad |-> c.bad, syms |-> c.syms, code |-> c.code,
             params |-> c.params]
    BY DEF Good
  <2>2. ASSUME NEW b
        PROVE  [c EXCEPT !.bad = b]
                 = [pos |-> c.pos, sid |-> c.sid, bad |-> b, syms |-> c.syms, code |-> c.code,
                    params |-> c.params]
    BY <2>1
  <2> QED  BY <2>2, Zenon DEF Fails
<1>2. d.syms = c.syms /\ d.code = c.code /\ d.sid = c.sid /\ d.bad = TRUE /\ d.pos = c.pos
      /\ d.params = c.params
  BY <1>1
<1> HIDE DEF d
<1>3. Good(d)
  BY <1>1, <1>2 DEF Good, Ids
<1>4. Steady(c, d)
  BY <1>2, <1>3 DEF Steady, Nest
<1> QED  BY <1>4 DEF d

LEMMA SelfSteady == ASSUME NEW c, Good(c) PROVE Steady(c, c)
BY DEF Steady

LEMMA AdvSteady == ASSUME Source, NEW c, Good(c) PROVE Steady(c, Adv(c))
<1>1. CASE AtEnd(c)
  BY <1>1, SelfSteady DEF Adv
<1>2. CASE ~AtEnd(c)
  <2>1. c.pos + 1 \in 1..Len(toks) /\ Len(toks) \in Nat
    BY <1>2 DEF Source, IsSeq, Good, AtEnd, Tok
  <2>2. Adv(c) = [c EXCEPT !.pos = c.pos + 1]
    BY <1>2 DEF Adv
  <2> QED  BY <2>1, <2>2, PosSteady
<1> QED  BY <1>1, <1>2

LEMMA ConsumeSteady ==
  ASSUME Source, NEW c, Good(c), NEW t
  PROVE  /\ Steady(c, Consume(c, t)) /\ Steady(c, Match(c, t))
         /\ Steady(c, TakeAny(c)) /\ Steady(c, Semicolon(c))
BY AdvSteady, FailsSteady, SelfSteady DEF Consume, Match, TakeAny, Semicolon

(* Both searches end at the EOF at the latest.                             *)
LEMMA SynchronizeSteady == ASSUME Source, NEW c, Good(c) PROVE Steady(c, Synchronize(c))
<1> DEFINE Stops == {i \in c.pos..Len(toks) : toks[i].t \in SyncStop}
           P(i) == /\ toks[i].t \in SyncStop
                   /\ \A j \in c.pos..(i - 1) : toks[j].t \notin SyncStop
<1>1. c.pos \in 1..Len(toks) /\ Len(toks) \in Nat
  BY DEF Good, Source, IsSeq
<1>2. Len(toks) \in Stops /\ Stops \in SUBSET Nat
  <2>1. Len(toks) \in c.pos..Len(toks) /\ c.pos..Len(toks) \in SUBSET Nat
    BY <1>1
  <2>2. toks[Len(toks)].t \in SyncStop
    BY DEF Source, SyncStop
  <2> QED  BY <2>1, <2>2
<1>3. PICK i \in Stops : \A j \in Stops : i <= j
  <2> HIDE DEF Stops
  <2> QED  BY <1>2, Least
<1>4. i \in c.pos..Len(toks) /\ P(i)
  BY <1>1, <1>3
<1>5. (CHOOSE j \in c.pos..Len(toks) : P(j)) \in c.pos..Len(toks)
  <2> HIDE DEF P
  <2> QED  BY <1>4, Zenon
<1> DEFINE at1 == CHOOSE j \in c.pos..Len(toks) : P(j)
<1>6. Synchronize(c) = [c EXCEPT !.pos = at1]
  BY DEF Synchronize
<1> HIDE DEF at1
<1>7. at1 \in 1..Len(toks)
  BY <1>1, <1>5 DEF at1
<1> QED  BY <1>6, <1>7, PosSteady

LEMMA RawEndIn ==
  ASSUME Source, NEW i \in 1..Len(toks), NEW enders PROVE RawEnd(i, enders) \in 1..Len(toks)
<1> DEFINE Ends == {j \in i..Len(toks) : EndsExpr(i, j, enders)}
           P(j) == EndsExpr(i, j, enders) /\ \A k \in i..(j - 1) : ~EndsExpr(i, k, enders)
<1>1. Len(toks) \in Nat
  BY DEF Source, IsSeq
<1>2. Len(toks) \in Ends /\ Ends \in SUBSET Nat
  <2>1. Len(toks) \in i..Len(toks) /\ i..Len(toks) \in SUBSET Nat
    BY <1>1
  <2>2. EndsExpr(i, Len(toks), enders)
    BY DEF Source, EndsExpr
  <2> QED  BY <2>1, <2>2
<1>3. PICK j \in Ends : \A k \in Ends : j <= k
  <2> HIDE DEF Ends
  <2> QED  BY <1>2, Least
<1>4. j \in i..Len(toks) /\ P(j)
  BY <1>1, <1>3
<1>5. (CHOOSE k \in i..Len(toks) : P(k)) \in i..Len(toks)
  <2> HIDE DEF P
  <2> QED  BY <1>4, Zenon
<1>6. RawEnd(i, enders) \in i..Len(toks)
  BY <1>5, Zenon DEF RawEnd
<1> QED  BY <1>1, <1>6

LEMMA RawSteady ==
  ASSUME Source, NEW c, Good(c) PROVE Steady(c, Raw(c)) /\ Steady(c, RawNoComma(c))
<1>1. c.pos \in 1..Len(toks)
  BY DEF Good
<1>2. RawEnd(c.pos, FlowOps \union {";"}) \in 1..Len(toks)
      /\ RawEnd(c.pos, FlowOps \union {";", ","}) \in 1..Len(toks)
  BY <1>1, RawEndIn
<1> QED  BY <1>2, PosSteady DEF Raw, RawNoComma

LEMMA EmitGood ==
  ASSUME NEW c, Good(c), NEW op, NEW s \in Ids(c), NEW o \in Ids(c)
  PROVE  /\ Good(Emit2(c, op, s, o)) /\ Emit2(c, op, s, o).syms = c.syms
         /\ Emit2(c, op, s, o).sid = c.sid
         /\ Nest(Emit2(c, op, s, o)) = Opened(Nest(c), op)
<1> DEFINE d == Emit2(c, op, s, o)
           x == Instruction(op, s, o)
<1>1. d = [pos |-> c.pos, sid |-> c.sid, bad |-> c.bad, syms |-> c.syms,
           code |-> Append(c.code, x), params |-> c.params]
  <2>1. c = [pos |-> c.pos, sid |-> c.sid, bad |-> c.bad, syms |-> c.syms, code |-> c.code,
             params |-> c.params]
    BY DEF Good
  <2>2. \A y : [c EXCEPT !.code = y] =
               [pos |-> c.pos, sid |-> c.sid, bad |-> c.bad, syms |-> c.syms, code |-> y,
                params |-> c.params]
    BY <2>1
  <2>3. d = [c EXCEPT !.code = Append(c.code, x)]
    BY DEF Emit2
  <2> HIDE DEF d, x
  <2> QED  BY <2>2, <2>3
<1>2. d.syms = c.syms /\ d.code = Append(c.code, x) /\ d.sid = c.sid /\ d.bad = c.bad
      /\ d.pos = c.pos /\ d.params = c.params
  BY <1>1
<1>3. x.op = op /\ x.symbolId = s /\ x.operandId = o
  BY DEF Instruction
<1> HIDE DEF d, x
<1>4. /\ IsSeq(d.code) /\ Len(d.code) = Len(c.code) + 1 /\ d.code[Len(c.code) + 1] = x
      /\ \A i \in 1..Len(c.code) : d.code[i] = c.code[i]
  BY <1>2, AppendSeq DEF Good
<1>5. \A k \in 1..Len(d.code) : k = Len(c.code) + 1 \/ k \in 1..Len(c.code)
  BY <1>4 DEF Good, IsSeq
<1>6. \A k \in 1..Len(d.code) : d.code[k].symbolId \in Ids(c) /\ d.code[k].operandId \in Ids(c)
  BY <1>3, <1>4, <1>5 DEF Good
<1>7. Good(d)
  BY <1>1, <1>2, <1>4, <1>6 DEF Good, Ids
<1>8. Nest(d) = Opened(Nest(c), op)
  <2>1. IsSeq(c.code) /\ IsSeq(Ops(c.code))
    BY OpsSeq DEF Good
  <2>2. Ops(d.code) = Append(Ops(c.code), op)
    BY <1>2, <1>3, <2>1, OpsAppend
  <2> QED  BY <2>1, <2>2, AfterAppend DEF Nest
<1> QED  BY <1>2, <1>7, <1>8 DEF d

LEMMA NestDue == ASSUME NEW c, Good(c) PROVE Nest(c) \in Due
<1>1. <<>> \in Due
  BY DEF Due
<1>2. Len(Ops(c.code)) \in Nat
  BY OpsSeq DEF Good, IsSeq
<1> QED  BY <1>1, <1>2, AfterDue DEF Nest

LEMMA EmitSteady ==
  ASSUME NEW c, Good(c), NEW op, Neutral(op), NEW s \in Ids(c), NEW o \in Ids(c)
  PROVE  Steady(c, Emit2(c, op, s, o))
<1>1. Opened(Nest(c), op) = Nest(c)
  BY DEF Opened, Neutral
<1> QED  BY <1>1, EmitGood DEF Steady

LEMMA ExpressionSteady ==
  ASSUME Source, NEW c, Good(c), NEW s \in Ids(c) PROVE Steady(c, Expression(c, s))
<1>1. Good(Raw(c)) /\ Raw(c).syms = c.syms /\ Raw(c).sid = c.sid /\ Nest(Raw(c)) = Nest(c)
  BY RawSteady DEF Steady
<1>2. s \in Ids(Raw(c)) /\ 0 \in Ids(Raw(c)) /\ Neutral("EXPR")
  BY <1>1 DEF Ids, Neutral, CloserOf, Closers, Good, IsSeq
<1>3. Steady(Raw(c), Expression(c, s))
  BY <1>1, <1>2, EmitSteady DEF Expression, Emit
<1> QED  BY <1>1, <1>3 DEF Steady

LEMMA AddGood ==
  ASSUME NEW c, Good(c), NEW p \in Prefix, NEW name
  PROVE  /\ Good(AddSymbol(c, p, name)) /\ Nest(AddSymbol(c, p, name)) = Nest(c)
         /\ Len(c.syms) <= Len(AddSymbol(c, p, name).syms)
<1> DEFINE d == AddSymbol(c, p, name)
<1>0. Len(c.syms) \in Nat /\ DOMAIN c.syms = 1..Len(c.syms)
  BY DEF Good, IsSeq
<1>1. CASE HasName(c, name)
  <2> DEFINE i == IdOf(c, name)
  <2>1. i \in 1..Len(c.syms)
    BY <1>0, <1>1 DEF HasName, IdOf
  <2>2. d = [pos |-> c.pos, sid |-> c.syms[i].id, bad |-> c.bad, syms |-> c.syms,
             code |-> c.code, params |-> c.params]
    BY <1>1 DEF Good, AddSymbol
  <2>3. c.syms[i].id = i
    BY <2>1 DEF Good
  <2> HIDE DEF i
  <2>4. d.syms = c.syms /\ d.code = c.code /\ d.sid = i /\ d.bad = c.bad /\ d.pos = c.pos
        /\ d.params = c.params
    BY <2>2, <2>3
  <2> HIDE DEF d
  <2>5. Good(d)
    BY <1>0, <2>1, <2>2, <2>3, <2>4 DEF Good, Ids
  <2>6. Nest(d) = Nest(c) /\ Len(c.syms) <= Len(d.syms)
    BY <1>0, <2>4 DEF Nest
  <2> QED  BY <2>5, <2>6 DEF d
<1>2. CASE ~HasName(c, name)
  <2> DEFINE x == [id |-> NewId(c), prefix |-> p, name |-> name]
  <2>1. d = [pos |-> c.pos, sid |-> NewId(c), bad |-> c.bad, syms |-> Append(c.syms, x),
             code |-> c.code, params |-> c.params]
    BY <1>2 DEF Good, AddSymbol
  <2>2. x.id = Len(c.syms) + 1 /\ x.prefix = p
    BY DEF NewId
  <2> HIDE DEF x
  <2>3. d.syms = Append(c.syms, x) /\ d.code = c.code /\ d.sid = Len(c.syms) + 1
        /\ d.bad = c.bad /\ d.pos = c.pos /\ d.params = c.params
    BY <2>1 DEF NewId
  <2> HIDE DEF d
  <2>4. /\ IsSeq(d.syms) /\ Len(d.syms) = Len(c.syms) + 1 /\ d.syms[Len(c.syms) + 1] = x
        /\ \A i \in 1..Len(c.syms) : d.syms[i] = c.syms[i]
    BY <2>3, AppendSeq DEF Good
  <2>5. \A i \in 1..Len(d.syms) : i = Len(c.syms) + 1 \/ i \in 1..Len(c.syms)
    BY <1>0, <2>4
  <2>6. \A i \in 1..Len(d.syms) : d.syms[i].id = i /\ d.syms[i].prefix \in Prefix
    BY <2>2, <2>4, <2>5 DEF Good
  <2>7. \A s \in Ids(c) : s \in Ids(d)
    BY <1>0, <2>4 DEF Ids
  <2>8. /\ \A k \in 1..Len(d.code) : d.code[k].symbolId \in Ids(d) /\ d.code[k].operandId \in Ids(d)
        /\ IsSeq(d.code)
    BY <2>3, <2>7 DEF Good
  <2>9. Good(d)
    BY <1>0, <2>1, <2>3, <2>4, <2>6, <2>8 DEF Good, Ids
  <2>10. Nest(d) = Nest(c) /\ Len(c.syms) <= Len(d.syms)
    BY <1>0, <2>3, <2>4 DEF Nest
  <2> QED  BY <2>9, <2>10 DEF d
<1> QED  BY <1>1, <1>2

-------------------------------------------------------------------------------
(* A cursor that another one leads to: still good, no symbol lost, and as  *)
(* much due as before.                                                     *)

Leads(b, c) ==
  Good(b) /\ Good(c) /\ Len(b.syms) <= Len(c.syms) /\ Nest(c) = Nest(b)

LEMMA LeadsSelf == ASSUME NEW c, Good(c) PROVE Leads(c, c)
BY DEF Leads, Good, IsSeq

LEMMA LeadsOn == ASSUME NEW b, NEW c, Leads(b, c), NEW d, Steady(c, d) PROVE Leads(b, d)
BY DEF Leads, Steady

LEMMA LeadsIds ==
  ASSUME NEW b, NEW c, Leads(b, c) PROVE c.sid \in Ids(c) /\ \A x \in Ids(b) : x \in Ids(c)
<1>1. Len(b.syms) \in Nat /\ Len(c.syms) \in Nat /\ Len(b.syms) <= Len(c.syms)
      /\ c.sid \in Ids(c)
  BY DEF Leads, Good, IsSeq
<1> QED  BY <1>1 DEF Ids

LEMMA LeadsZero == ASSUME NEW b, NEW c, Leads(b, c) PROVE 0 \in Ids(c)
BY DEF Leads, Good, IsSeq, Ids

LEMMA LeadsUtil ==
  ASSUME Source, NEW b, NEW c, Leads(b, c)
  PROVE  /\ Leads(b, Adv(c)) /\ Leads(b, Fails(c)) /\ Leads(b, TakeAny(c))
         /\ Leads(b, Semicolon(c)) /\ Leads(b, Raw(c)) /\ Leads(b, RawNoComma(c))
         /\ Leads(b, Synchronize(c))
         /\ \A t : Leads(b, Consume(c, t)) /\ Leads(b, Match(c, t))
<1>1. Good(c)
  BY DEF Leads
<1> QED  BY <1>1, LeadsOn, AdvSteady, FailsSteady, ConsumeSteady, RawSteady, SynchronizeSteady

LEMMA LeadsAdd ==
  ASSUME NEW b, NEW c, Leads(b, c), NEW p \in Prefix, NEW name
  PROVE  Leads(b, AddSymbol(c, p, name))
<1>1. Good(c) /\ Len(b.syms) \in Nat /\ Len(c.syms) \in Nat
  BY DEF Leads, Good, IsSeq
<1>2. /\ Good(AddSymbol(c, p, name)) /\ Nest(AddSymbol(c, p, name)) = Nest(c)
      /\ Len(c.syms) <= Len(AddSymbol(c, p, name).syms)
  BY <1>1, AddGood
<1>3. Len(AddSymbol(c, p, name).syms) \in Nat
  BY <1>2 DEF Good, IsSeq
<1> QED  BY <1>1, <1>2, <1>3 DEF Leads

LEMMA LeadsEmit2 ==
  ASSUME NEW b, NEW c, Leads(b, c), NEW op, Neutral(op), NEW x \in Ids(c), NEW y \in Ids(c)
  PROVE  Leads(b, Emit2(c, op, x, y))
<1>1. Good(c)
  BY DEF Leads
<1> QED  BY <1>1, EmitSteady, LeadsOn

LEMMA LeadsEmit ==
  ASSUME NEW b, NEW c, Leads(b, c), NEW op, Neutral(op), NEW x \in Ids(c)
  PROVE  Leads(b, Emit(c, op, x))
BY LeadsEmit2, LeadsZero DEF Emit

LEMMA LeadsExpression ==
  ASSUME Source, NEW b, NEW c, Leads(b, c), NEW x \in Ids(c) PROVE Leads(b, Expression(c, x))
<1>1. Good(c)
  BY DEF Leads
<1> QED  BY <1>1, ExpressionSteady, LeadsOn

LEMMA LeadsParams ==
  ASSUME NEW b, NEW c, Leads(b, c), NEW x PROVE Leads(b, [c EXCEPT !.params = @ \union {x}])
<1> DEFINE d == [c EXCEPT !.params = @ \union {x}]
<1>0. Good(c)
  BY DEF Leads
<1>1. d = [pos |-> c.pos, sid |-> c.sid, bad |-> c.bad, syms |-> c.syms, code |-> c.code,
           params |-> c.params \union {x}]
  <2>1. c = [pos |-> c.pos, sid |-> c.sid, bad |-> c.bad, syms |-> c.syms, code |-> c.code,
             params |-> c.params]
    BY <1>0 DEF Good
  <2>2. ASSUME NEW ps
        PROVE  [c EXCEPT !.params = ps]
                 = [pos |-> c.pos, sid |-> c.sid, bad |-> c.bad, syms |-> c.syms,
                    code |-> c.code, params |-> ps]
    BY <2>1
  <2> QED  BY <2>2, Zenon
<1>2. d.syms = c.syms /\ d.code = c.code /\ d.sid = c.sid /\ d.bad = c.bad /\ d.pos = c.pos
      /\ d.params = c.params \union {x}
  BY <1>1
<1> HIDE DEF d
<1>3. Good(d)
  BY <1>0, <1>1, <1>2 DEF Good, Ids
<1>4. Steady(c, d)
  BY <1>2, <1>3 DEF Steady, Nest
<1> QED  BY <1>4, LeadsOn DEF d

(* An instruction that opens.                                              *)
Opens(b, c, op) ==
  Good(b) /\ Good(c) /\ Len(b.syms) <= Len(c.syms) /\ Nest(c) = Opened(Nest(b), op)

LEMMA OpensEmit ==
  ASSUME NEW b, NEW c, Leads(b, c), NEW op, NEW x \in Ids(c) PROVE Opens(b, Emit(c, op, x), op)
<1>1. Good(c) /\ 0 \in Ids(c)
  BY LeadsZero DEF Leads
<1> QED  BY <1>1, EmitGood DEF Leads, Opens, Emit

LEMMA OpensConsume ==
  ASSUME Source, NEW b, NEW c, NEW op, Opens(b, c, op), NEW t
  PROVE  Opens(b, Consume(c, t), op) /\ \A x \in Ids(c) : x \in Ids(Consume(c, t))
<1>1. Good(c)
  BY DEF Opens
<1>2. Steady(c, Consume(c, t))
  BY <1>1, ConsumeSteady
<1> QED  BY <1>2 DEF Steady, Opens, Ids

LEMMA IsNeutral ==
  ASSUME NEW op,
         op \notin {"DEF_FUNC", "DEF_EXTERN", "DEF_STRUCT", "DEF_NEWTYPE", "DEF_GROUP", "LOOP_INF",
           "LOOP_RANGE", "LOOP_FOREACH", "LOOP_FOR", "LOOP_WHILE_S", "LOOP_WHILE", "IF_BEGIN",
           "ELSIF_BEGIN", "ELS_BEGIN", "SEL_BEGIN", "SCAN_BEGIN", "END_FUNC", "END_TYPEDEF",
           "IF_END", "SEL_END", "SCAN_END", "LOOP_END"}
  PROVE  Neutral(op)
<1>1. \A c \in Closers : c \in {"END_FUNC", "END_TYPEDEF", "IF_END", "SEL_END", "SCAN_END", "LOOP_END"}
  BY DEF Closers, CloserOf
<1>2. op \notin DOMAIN CloserOf
  BY DEF CloserOf
<1> QED  BY <1>1, <1>2 DEF Neutral

-------------------------------------------------------------------------------
(* Frames: what the active functions will still emit.                      *)

Acting == {"emit", "range", "foreach"}
Mute(f)        == f.fn \notin Acting => Neutral(f.op)
FrameOk(f, n)  == f.fn # "lex" /\ f.sid \in 0..n /\ Mute(f)
IsStack(fs, n) == IsSeq(fs) /\ \A i \in 1..Len(fs) : FrameOk(fs[i], n)

(* Frames that leave what is due as it is, and frames that close op.       *)
Even(fs, n) == IsStack(fs, n) /\ \A open \in Due : After(open, Ops(fs)) = open
Shuts(fs, n, op) ==
  IsStack(fs, n) /\ \A open \in Due : After(Opened(open, op), Ops(fs)) = open

LEMMA StackConcat ==
  ASSUME NEW n, NEW a, NEW b, IsStack(a, n), IsStack(b, n)
  PROVE  IsStack(a \o b, n) /\ \A open : After(open, Ops(a \o b)) = After(After(open, Ops(a)), Ops(b))
<1> DEFINE s == a \o b
           j == Len(a)
           k == Len(b)
<1>1. IsSeq(a) /\ IsSeq(b) /\ j \in Nat /\ k \in Nat
  BY DEF IsStack, IsSeq
<1>2. /\ IsSeq(s) /\ Len(s) = j + k
      /\ (\A i \in 1..j : s[i] = a[i]) /\ \A i \in 1..k : s[j + i] = b[i]
  BY <1>1, ConcatSeq
<1> HIDE DEF s
<1>3. \A i \in 1..(j + k) : i \in 1..j \/ (i - j \in 1..k /\ j + (i - j) = i)
  BY <1>1
<1>4. ASSUME NEW i \in 1..(j + k) PROVE FrameOk(s[i], n)
  <2>1. CASE i \in 1..j
    BY <1>2, <2>1 DEF IsStack
  <2>2. CASE i \notin 1..j
    <3>1. i - j \in 1..k /\ s[i] = b[i - j]
      <4>1. i - j \in 1..k /\ j + (i - j) = i
        BY <1>3, <2>2
      <4> QED  BY <1>2, <4>1
    <3> QED  BY <3>1 DEF IsStack
  <2> QED  BY <2>1, <2>2
<1>5. IsStack(s, n)
  BY <1>2, <1>4 DEF IsStack
<1>6. Ops(s) = Ops(a) \o Ops(b)
  <2> DEFINE t == Ops(a) \o Ops(b)
  <2>1. /\ IsSeq(Ops(a)) /\ Len(Ops(a)) = j /\ IsSeq(Ops(b)) /\ Len(Ops(b)) = k
        /\ IsSeq(Ops(s)) /\ Len(Ops(s)) = j + k
    BY <1>1, <1>2, OpsSeq
  <2>2. /\ (\A i \in 1..j : Ops(a)[i] = a[i].op) /\ (\A i \in 1..k : Ops(b)[i] = b[i].op)
        /\ \A i \in 1..(j + k) : Ops(s)[i] = s[i].op
    BY <1>1, <1>2 DEF Ops, IsSeq
  <2>3. /\ IsSeq(t) /\ Len(t) = j + k
        /\ (\A i \in 1..j : t[i] = Ops(a)[i]) /\ \A i \in 1..k : t[j + i] = Ops(b)[i]
    BY <2>1, ConcatSeq
  <2> HIDE DEF t
  <2>4. ASSUME NEW i \in 1..(j + k) PROVE t[i] = Ops(s)[i]
    <3>1. CASE i \in 1..j
      BY <1>2, <2>2, <2>3, <3>1
    <3>2. CASE i \notin 1..j
      <4>1. i - j \in 1..k /\ j + (i - j) = i
        BY <1>3, <3>2
      <4>2. t[i] = b[i - j].op /\ s[i] = b[i - j]
        BY <1>2, <2>2, <2>3, <4>1
      <4> QED  BY <2>2, <4>2
    <3> QED  BY <3>1, <3>2
  <2>5. t = Ops(s)
    BY <2>1, <2>3, <2>4 DEF IsSeq
  <2> QED  BY <2>5 DEF t
<1>7. \A open : After(open, Ops(s)) = After(After(open, Ops(a)), Ops(b))
  BY <1>1, <1>6, OpsSeq, AfterConcat
<1> QED  BY <1>5, <1>7 DEF s

LEMMA AfterStacks ==
  ASSUME NEW n, NEW a, NEW b, IsStack(a, n), IsStack(b, n), NEW open
  PROVE  After(open, Ops(a \o b)) = After(After(open, Ops(a)), Ops(b))
BY StackConcat

LEMMA EvenConcat ==
  ASSUME NEW n, NEW a, NEW b, Even(a, n), Even(b, n) PROVE Even(a \o b, n)
<1>1. IsStack(a, n) /\ IsStack(b, n)
  BY DEF Even
<1>2. IsStack(a \o b, n)
      /\ \A open : After(open, Ops(a \o b)) = After(After(open, Ops(a)), Ops(b))
  BY <1>1, StackConcat
<1> QED  BY <1>2 DEF Even

LEMMA ShutsConcat ==
  ASSUME NEW n, NEW a, NEW b, NEW op, Even(a, n), Shuts(b, n, op) PROVE Shuts(a \o b, n, op)
<1>1. IsStack(a, n) /\ IsStack(b, n)
  BY DEF Even, Shuts
<1>2. IsStack(a \o b, n)
      /\ \A open : After(open, Ops(a \o b)) = After(After(open, Ops(a)), Ops(b))
  BY <1>1, StackConcat
<1>3. ASSUME NEW open \in Due PROVE After(Opened(open, op), Ops(a \o b)) = open
  <2>1. Opened(open, op) \in Due
    BY OpenedDue
  <2> QED  BY <1>2, <2>1 DEF Even, Shuts
<1> QED  BY <1>2, <1>3 DEF Shuts

LEMMA EvenNone == ASSUME NEW n PROVE Even(<<>>, n)
<1>1. Len(<<>>) = 0 /\ <<>> = [i \in 1..0 |-> <<>>[i]]
  OBVIOUS
<1>2. IsSeq(<<>>) /\ \A i \in 1..Len(<<>>) : FrameOk(<<>>[i], n)
  BY <1>1 DEF IsSeq
<1>3. Ops(<<>>) = <<>>
  BY DEF Ops
<1> QED  BY <1>2, <1>3, AfterNone DEF Even, IsStack

(* A single frame.                                                         *)
LEMMA One ==
  ASSUME NEW n, NEW f, FrameOk(f, n)
  PROVE  IsStack(<<f>>, n) /\ \A open : After(open, Ops(<<f>>)) = Opened(open, f.op)
<1>1. Len(<<f>>) = 1 /\ <<f>>[1] = f /\ <<f>> = [i \in 1..1 |-> <<f>>[i]] /\ <<f>> = Append(<<>>, f)
  OBVIOUS
<1>2. IsSeq(<<f>>) /\ \A i \in 1..Len(<<f>>) : FrameOk(<<f>>[i], n)
  BY <1>1 DEF IsSeq
<1>3. IsSeq(<<>>) /\ Ops(<<>>) = <<>>
  BY EvenNone DEF Even, IsStack, Ops
<1>4. Ops(Append(<<>>, f)) = Append(<<>>, f.op)
  BY <1>3, OpsAppend
<1>5. \A open : After(open, Append(<<>>, f.op)) = Opened(open, f.op)
  <2> TAKE open
  <2>1. After(open, Append(<<>>, f.op)) = Opened(After(open, <<>>), f.op)
    <3>1. IsSeq(<<>>)
      BY <1>3
    <3> QED  BY <3>1, AfterAppend, Zenon
  <2> QED  BY <2>1, AfterNone
<1> QED  BY <1>1, <1>2, <1>4, <1>5 DEF IsStack

EvenFrame(f, n) == FrameOk(f, n) /\ Neutral(f.op)

LEMMA EvenOne == ASSUME NEW n, NEW f, EvenFrame(f, n) PROVE Even(<<f>>, n)
<1>1. \A open : Opened(open, f.op) = open
  BY DEF EvenFrame, Neutral, Opened
<1>2. IsStack(<<f>>, n) /\ \A open : After(open, Ops(<<f>>)) = Opened(open, f.op)
  BY One DEF EvenFrame
<1> QED  BY <1>1, <1>2 DEF Even

LEMMA ShutsOne ==
  ASSUME NEW n, NEW op \in DOMAIN CloserOf, NEW f, FrameOk(f, n), f.op = CloserOf[op]
  PROVE  Shuts(<<f>>, n, op)
<1>1. IsStack(<<f>>, n) /\ \A open : After(open, Ops(<<f>>)) = Opened(open, f.op)
  BY One
<1>2. \A open \in Due : Opened(Opened(open, op), f.op) = open
  BY Closes
<1> QED  BY <1>1, <1>2 DEF Shuts

LEMMA EvenPair ==
  ASSUME NEW n, NEW f, FrameOk(f, n), NEW b, Shuts(b, n, f.op) PROVE Even(<<f>> \o b, n)
<1> DEFINE a == <<f>>
<1>1. IsStack(a, n) /\ \A open : After(open, Ops(a)) = Opened(open, f.op)
  BY One
<1>2. IsStack(a, n) /\ IsStack(b, n)
  BY <1>1 DEF Shuts
<1> HIDE DEF a
<1>3. IsStack(a \o b, n)
      /\ \A open : After(open, Ops(a \o b)) = After(After(open, Ops(a)), Ops(b))
  BY <1>2, StackConcat
<1>4. \A open \in Due : After(open, Ops(a \o b)) = open
  BY <1>1, <1>3 DEF Shuts
<1>5. Even(a \o b, n)
  BY <1>3, <1>4 DEF Even
<1> QED  BY <1>5 DEF a

LEMMA AppendAsConcat == ASSUME NEW s, IsSeq(s), NEW x PROVE Append(s, x) = s \o <<x>>
<1> DEFINE a == Append(s, x)
           b == s \o <<x>>
<1>1. Len(<<x>>) = 1 /\ <<x>>[1] = x /\ IsSeq(<<x>>) /\ Len(s) \in Nat
  <2>1. Len(<<x>>) = 1 /\ <<x>>[1] = x /\ <<x>> = [i \in 1..1 |-> <<x>>[i]]
    OBVIOUS
  <2> QED  BY <2>1 DEF IsSeq
<1>2. /\ IsSeq(a) /\ Len(a) = Len(s) + 1 /\ a[Len(s) + 1] = x
      /\ \A i \in 1..Len(s) : a[i] = s[i]
  BY AppendSeq
<1>3. /\ IsSeq(b) /\ Len(b) = Len(s) + Len(<<x>>) /\ (\A i \in 1..Len(s) : b[i] = s[i])
      /\ \A i \in 1..Len(<<x>>) : b[Len(s) + i] = <<x>>[i]
  BY <1>1, ConcatSeq
<1> HIDE DEF a, b
<1>4. b[Len(s) + 1] = x /\ Len(b) = Len(s) + 1
  BY <1>1, <1>3
<1>5. \A i \in 1..(Len(s) + 1) : i = Len(s) + 1 \/ i \in 1..Len(s)
  BY <1>1
<1>6. \A i \in 1..(Len(s) + 1) : a[i] = b[i]
  BY <1>2, <1>3, <1>4, <1>5
<1>7. a = b
  BY <1>2, <1>3, <1>4, <1>6 DEF IsSeq
<1> QED  BY <1>7 DEF a, b

LEMMA EvenAppend ==
  ASSUME NEW n, NEW a, Even(a, n), NEW f, EvenFrame(f, n) PROVE Even(Append(a, f), n)
<1>1. Append(a, f) = a \o <<f>>
  BY AppendAsConcat DEF Even, IsStack
<1> QED  BY <1>1, EvenOne, EvenConcat

LEMMA ShutsAppend ==
  ASSUME NEW n, NEW op \in DOMAIN CloserOf, NEW a, Even(a, n), NEW f, FrameOk(f, n),
         f.op = CloserOf[op]
  PROVE  Shuts(Append(a, f), n, op)
<1>1. Append(a, f) = a \o <<f>>
  BY AppendAsConcat DEF Even, IsStack
<1> QED  BY <1>1, ShutsOne, ShutsConcat

LEMMA Evens ==
  ASSUME NEW n, NEW a, NEW b, NEW c, NEW d,
         EvenFrame(a, n), EvenFrame(b, n), EvenFrame(c, n), EvenFrame(d, n)
  PROVE  Even(<<a, b>>, n) /\ Even(<<a, b, c>>, n) /\ Even(<<a, b, c, d>>, n)
<1>0. /\ <<a, b>> = Append(<<a>>, b) /\ <<a, b, c>> = Append(<<a, b>>, c)
      /\ <<a, b, c, d>> = Append(<<a, b, c>>, d)
  OBVIOUS
<1>1. Even(<<a>>, n)
  BY EvenOne
<1>2. Even(<<a, b>>, n)
  BY <1>0, <1>1, EvenAppend, Zenon
<1>3. Even(<<a, b, c>>, n)
  BY <1>0, <1>2, EvenAppend, Zenon
<1> QED  BY <1>0, <1>2, <1>3, EvenAppend, Zenon

LEMMA Evens5 ==
  ASSUME NEW n, NEW a, NEW b, NEW c, NEW d, NEW e,
         EvenFrame(a, n), EvenFrame(b, n), EvenFrame(c, n), EvenFrame(d, n), EvenFrame(e, n)
  PROVE  Even(<<a, b, c, d, e>>, n)
<1>1. <<a, b, c, d, e>> = Append(<<a, b, c, d>>, e)
  OBVIOUS
<1>2. Even(<<a, b, c, d>>, n)
  BY Evens
<1> QED  BY <1>1, <1>2, EvenAppend, Zenon

(* The frames the parser makes.                                            *)
Rec(a, b, c, d) == [fn |-> a, sid |-> b, path |-> c, op |-> d]

LEMMA Fields4 ==
  ASSUME NEW a, NEW b, NEW c, NEW d
  PROVE  Rec(a, b, c, d).fn = a /\ Rec(a, b, c, d).sid = b /\ Rec(a, b, c, d).op = d
BY DEF Rec

LEMMA WithSid ==
  ASSUME NEW a, NEW b, NEW c, NEW d, NEW x PROVE [Rec(a, b, c, d) EXCEPT !.sid = x] = Rec(a, x, c, d)
BY DEF Rec

LEMMA WithPath ==
  ASSUME NEW a, NEW b, NEW c, NEW d, NEW x PROVE [Rec(a, b, c, d) EXCEPT !.path = x] = Rec(a, b, x, d)
BY DEF Rec

LEMMA WithOp ==
  ASSUME NEW a, NEW b, NEW c, NEW d, NEW x PROVE [Rec(a, b, c, d) EXCEPT !.op = x] = Rec(a, b, c, x)
BY DEF Rec

LEMMA Made ==
  ASSUME NEW fn, NEW x
  PROVE  /\ F(fn) = Rec(fn, 0, <<>>, "none") /\ FSid(fn, x) = Rec(fn, x, <<>>, "none")
         /\ FPath(fn, x) = Rec(fn, 0, x, "none") /\ FExpect(x) = Rec("expect", 0, <<>>, x)
         /\ [F(fn) EXCEPT !.op = x] = Rec(fn, 0, <<>>, x)
<1>0. \A g : F(g) = Rec(g, 0, <<>>, "none")
  BY Zenon DEF F, Rec
<1>1. FSid(fn, x) = [Rec(fn, 0, <<>>, "none") EXCEPT !.sid = x]
  BY <1>0, Zenon DEF FSid
<1>2. FPath(fn, x) = [Rec(fn, 0, <<>>, "none") EXCEPT !.path = x]
  BY <1>0, Zenon DEF FPath
<1>4. FExpect(x) = [Rec("expect", 0, <<>>, "none") EXCEPT !.op = x]
  BY <1>0, Zenon DEF FExpect
<1>5. [F(fn) EXCEPT !.op = x] = [Rec(fn, 0, <<>>, "none") EXCEPT !.op = x]
  BY <1>0, Zenon
<1>6. FSid(fn, x) = Rec(fn, x, <<>>, "none") /\ FPath(fn, x) = Rec(fn, 0, x, "none")
  BY <1>1, <1>2, WithSid, WithPath
<1>7. FExpect(x) = Rec("expect", 0, <<>>, x) /\ [F(fn) EXCEPT !.op = x] = Rec(fn, 0, <<>>, x)
  BY <1>4, <1>5, WithOp
<1> QED  BY <1>0, <1>6, <1>7, Zenon

LEMMA MadeEmit == ASSUME NEW op, NEW x PROVE FEmit(op, x) = Rec("emit", x, <<>>, op)
<1>1. FSid("emit", x) = Rec("emit", x, <<>>, "none")
  BY Made, Zenon
<1>2. FEmit(op, x) = [Rec("emit", x, <<>>, "none") EXCEPT !.op = op]
  BY <1>1, Zenon DEF FEmit
<1> QED  BY <1>2, WithOp

LEMMA Plain ==
  ASSUME NEW n \in Nat, NEW fn, fn # "lex", NEW x \in 0..n, NEW p
  PROVE  EvenFrame(F(fn), n) /\ EvenFrame(FSid(fn, x), n) /\ EvenFrame(FPath(fn, p), n)
<1>1. Neutral("none")
  BY IsNeutral
<1>2. F(fn) = Rec(fn, 0, <<>>, "none") /\ FSid(fn, x) = Rec(fn, x, <<>>, "none")
      /\ FPath(fn, p) = Rec(fn, 0, p, "none")
  BY Made
<1>3. ASSUME NEW y \in 0..n, NEW q PROVE EvenFrame(Rec(fn, y, q, "none"), n)
  <2> DEFINE f == Rec(fn, y, q, "none")
  <2>1. f.fn = fn /\ f.sid = y /\ f.op = "none"
    BY Fields4
  <2> HIDE DEF f
  <2>2. EvenFrame(f, n)
    BY <1>1, <2>1 DEF EvenFrame, FrameOk, Mute
  <2> QED  BY <2>2 DEF f
<1>4. 0 \in 0..n
  OBVIOUS
<1> QED  BY <1>2, <1>3, <1>4, Zenon

LEMMA Emits ==
  ASSUME NEW n \in Nat, NEW op, NEW x \in 0..n
  PROVE  FrameOk(FEmit(op, x), n) /\ FEmit(op, x).op = op
<1>2. FEmit(op, x).fn = "emit" /\ FEmit(op, x).sid = x /\ FEmit(op, x).op = op
  BY MadeEmit, Fields4
<1> QED  BY <1>2 DEF FrameOk, Mute, Acting

LEMMA Expects ==
  ASSUME NEW n \in Nat, NEW op, Neutral(op) PROVE EvenFrame(FExpect(op), n)
<1>2. FExpect(op).fn = "expect" /\ FExpect(op).sid = 0 /\ FExpect(op).op = op
  <2>1. FExpect(op) = Rec("expect", 0, <<>>, op)
    BY Made
  <2> QED  BY <2>1, Fields4
<1> QED  BY <1>2 DEF EvenFrame, FrameOk, Mute

LEMMA Loops ==
  ASSUME NEW n \in Nat, NEW fn \in {"range", "foreach"}, NEW op
  PROVE  FrameOk([F(fn) EXCEPT !.op = op], n) /\ [F(fn) EXCEPT !.op = op].op = op
<1> DEFINE f == [F(fn) EXCEPT !.op = op]
<1>1. f = Rec(fn, 0, <<>>, op)
  BY Made, Zenon
<1>2. f.fn = fn /\ f.sid = 0 /\ f.op = op
  <2> HIDE DEF f
  <2> QED  BY <1>1, Fields4
<1> HIDE DEF f
<1>3. FrameOk(f, n)
  BY <1>2 DEF FrameOk, Mute, Acting
<1> QED  BY <1>2, <1>3 DEF f

-------------------------------------------------------------------------------
(* The invariant: the cursor is good, no frame names an id that is not     *)
(* there, and the frames close exactly what is open.                       *)

StackOk ==
  \/ stack = <<F("lex")>> /\ cur = Fresh
  \/ IsStack(stack, Len(cur.syms))

FrontInv ==
  /\ IsSeq(tokens) /\ Source /\ Good(cur) /\ StackOk
  /\ After(Nest(cur), Ops(stack)) = <<>>

(* A frame on top, of a function of the parser.                            *)
LEMMA HeadAndTail ==
  ASSUME NEW s, IsSeq(s), s # <<>>
  PROVE  /\ IsSeq(Tail(s)) /\ s = <<Head(s)>> \o Tail(s)
         /\ Len(s) \in Nat /\ 1 \in 1..Len(s) /\ Head(s) = s[1] /\ Len(Tail(s)) = Len(s) - 1
         /\ \A i \in 1..Len(Tail(s)) : i + 1 \in 1..Len(s) /\ Tail(s)[i] = s[i + 1]
<1>1. PICK S : s \in Seq(S)
  <2> DEFINE S == {s[i] : i \in 1..Len(s)}
  <2>1. \A i \in 1..Len(s) : s[i] \in S
    OBVIOUS
  <2> HIDE DEF S
  <2> QED  BY <2>1, SeqOver
<1> DEFINE rest == Tail(s)
           n == Len(s)
<1>2. /\ n \in Nat /\ n # 0 /\ Head(s) = s[1] /\ rest \in Seq(S) /\ Len(rest) = n - 1
      /\ \A i \in 1..Len(rest) : rest[i] = s[i + 1]
  BY <1>1, HeadTailProperties, EmptySeq DEF IsSeq
<1>3. IsSeq(rest)
  <2> HIDE DEF rest
  <2> QED  BY <1>2, SeqIsSeq
<1> DEFINE h == <<s[1]>>
           both == h \o rest
<1>4. IsSeq(h) /\ Len(h) = 1 /\ h[1] = s[1]
  <2>1. Len(h) = 1 /\ h[1] = s[1] /\ h = [i \in 1..1 |-> h[i]]
    OBVIOUS
  <2> HIDE DEF h
  <2> QED  BY <2>1 DEF IsSeq
<1> HIDE DEF h, rest
<1>5. /\ IsSeq(both) /\ Len(both) = Len(h) + Len(rest)
      /\ (\A i \in 1..Len(h) : both[i] = h[i])
      /\ \A i \in 1..Len(rest) : both[Len(h) + i] = rest[i]
  <2>1. IsSeq(h) /\ IsSeq(rest)
    BY <1>3, <1>4
  <2>2. IsSeq(h \o rest)
    BY <2>1, ConcatSeq
  <2>3. Len(h \o rest) = Len(h) + Len(rest)
    BY <2>1, ConcatSeq
  <2>4. \A i \in 1..Len(h) : (h \o rest)[i] = h[i]
    BY <2>1, ConcatSeq
  <2>5. \A i \in 1..Len(rest) : (h \o rest)[Len(h) + i] = rest[i]
    BY <2>1, ConcatSeq
  <2> QED  BY <2>2, <2>3, <2>4, <2>5
<1> HIDE DEF both
<1>6. Len(both) = n /\ both[1] = s[1]
  BY <1>2, <1>4, <1>5
<1>7. ASSUME NEW i \in 2..n PROVE both[i] = s[i]
  <2>1. i - 1 \in 1..Len(rest) /\ 1 + (i - 1) = i /\ (i - 1) + 1 = i
    BY <1>2
  <2>2. both[1 + (i - 1)] = rest[i - 1] /\ rest[i - 1] = s[(i - 1) + 1]
    BY <1>2, <1>4, <1>5, <2>1
  <2> QED  BY <2>1, <2>2
<1>8. \A i \in 1..n : i = 1 \/ i \in 2..n
  BY <1>2
<1>9. \A i \in 1..n : both[i] = s[i]
  BY <1>6, <1>7, <1>8
<1>10. both = s
  BY <1>2, <1>5, <1>6, <1>9 DEF IsSeq
<1>11. 1 \in 1..n /\ \A i \in 1..Len(rest) : i + 1 \in 1..n
  BY <1>2
<1> QED  BY <1>2, <1>3, <1>10, <1>11 DEF both, h, rest

(* A frame on top, of a function of the parser.                            *)
LEMMA OnTop ==
  ASSUME FrontInv, NEW fn, At(fn), fn # "lex"
  PROVE  /\ IsStack(stack, Len(cur.syms)) /\ Sid \in Ids(cur)
         /\ FrameOk(Head(stack), Len(cur.syms))
         /\ Leads(cur, cur)
         /\ stack = <<Head(stack)>> \o Tail(stack) /\ IsStack(Tail(stack), Len(cur.syms))
<1>1. IsStack(stack, Len(cur.syms))
  <2>1. stack # <<F("lex")>>
    <3>1. F("lex").fn = "lex"
      BY DEF F
    <3>2. \A f : Head(<<f>>) = f
      OBVIOUS
    <3> QED  BY <3>1, <3>2 DEF At
  <2> QED  BY <2>1 DEF FrontInv, StackOk
<1>2. Leads(cur, cur)
  BY LeadsSelf DEF FrontInv
<1>3. stack # <<>> /\ IsSeq(stack)
  BY <1>1 DEF At, IsStack
<1>4. /\ IsSeq(Tail(stack)) /\ stack = <<Head(stack)>> \o Tail(stack)
      /\ 1 \in 1..Len(stack) /\ Head(stack) = stack[1]
      /\ \A i \in 1..Len(Tail(stack)) : i + 1 \in 1..Len(stack) /\ Tail(stack)[i] = stack[i + 1]
  BY <1>3, HeadAndTail
<1>5. FrameOk(Head(stack), Len(cur.syms))
  BY <1>1, <1>4 DEF IsStack
<1>6. IsStack(Tail(stack), Len(cur.syms))
  BY <1>1, <1>4 DEF IsStack
<1>7. Sid \in Ids(cur)
  BY <1>5 DEF FrameOk, Sid, Ids
<1> QED  BY <1>1, <1>2, <1>4, <1>5, <1>6, <1>7

LEMMA StackGrows ==
  ASSUME NEW s, NEW m \in Nat, NEW n \in Nat, m <= n, IsStack(s, m) PROVE IsStack(s, n)
<1>1. \A x \in 0..m : x \in 0..n
  OBVIOUS
<1> QED  BY <1>1 DEF IsStack, FrameOk

(* A step keeps the invariant if the frames it pushes close what it has    *)
(* emitted, and what the frame on top was there to emit is emitted.        *)
LEMMA StepKeeps ==
  ASSUME FrontInv, tokens' = tokens, NEW fn, At(fn), fn # "lex", NEW c, NEW fs, Then(c, fs),
         Good(c), Len(cur.syms) <= Len(c.syms), IsStack(fs, Len(c.syms)),
         After(Nest(c), Ops(fs)) = Opened(Nest(cur), Head(stack).op)
  PROVE  FrontInv'
<1> DEFINE h == Head(stack)
           rest == Tail(stack)
           m == Len(cur.syms)
           n == Len(c.syms)
<1>1. cur' = c /\ stack' = fs \o rest /\ toks' = toks
  BY DEF Then
<1>2. stack = <<h>> \o rest /\ IsStack(rest, m) /\ FrameOk(h, m)
  BY OnTop
<1>3. m \in Nat /\ n \in Nat /\ m <= n
  BY DEF FrontInv, Good, IsSeq
<1>4. IsStack(rest, n)
  <2> HIDE DEF m, n, rest
  <2> QED  BY <1>2, <1>3, StackGrows
<1>5. IsStack(<<h>>, m) /\ \A open : After(open, Ops(<<h>>)) = Opened(open, h.op)
  BY <1>2, One
<1>6. After(Nest(cur), Ops(stack)) = After(Opened(Nest(cur), h.op), Ops(rest))
  <2> DEFINE a == <<h>>
  <2>1. IsStack(a, m)
    BY <1>5
  <2> HIDE DEF a, rest
  <2>2. After(Nest(cur), Ops(a \o rest)) = After(After(Nest(cur), Ops(a)), Ops(rest))
    BY <1>2, <2>1, AfterStacks
  <2>3. After(Nest(cur), Ops(a)) = Opened(Nest(cur), h.op)
    BY <1>5 DEF a
  <2>4. stack = a \o rest
    BY <1>2 DEF a
  <2> QED  BY <2>2, <2>3, <2>4, Zenon
<1>7. IsStack(fs \o rest, n)
  <2> HIDE DEF rest, n
  <2> QED  BY <1>4, StackConcat DEF n
<1>8. After(Nest(c), Ops(fs \o rest)) = <<>>
  <2>1. After(Nest(c), Ops(fs \o rest)) = After(After(Nest(c), Ops(fs)), Ops(rest))
    <3> HIDE DEF rest, n
    <3> QED  BY <1>4, AfterStacks DEF n
  <2> QED  BY <1>6, <2>1 DEF FrontInv
<1>9. Good(cur)'
  BY <1>1 DEF Good, Ids
<1>10. After(Nest(cur), Ops(stack))' = <<>>
  BY <1>1, <1>8 DEF Nest
<1>11. StackOk'
  BY <1>1, <1>7 DEF StackOk
<1>12. Source' /\ IsSeq(tokens)'
  BY <1>1 DEF FrontInv, Source
<1> QED  BY <1>9, <1>10, <1>11, <1>12 DEF FrontInv

Calm(fn) == fn \notin Acting \union {"lex"}

LEMMA HeadCalm ==
  ASSUME FrontInv, NEW fn, At(fn), Calm(fn)
  PROVE  /\ Opened(Nest(cur), Head(stack).op) = Nest(cur) /\ Nest(cur) \in Due
         /\ EvenFrame(Head(stack), Len(cur.syms))
<1>1. FrameOk(Head(stack), Len(cur.syms))
  BY OnTop DEF Calm
<1>2. Neutral(Head(stack).op)
  BY <1>1 DEF FrameOk, Mute, At, Calm
<1>3. Opened(Nest(cur), Head(stack).op) = Nest(cur)
  BY <1>2 DEF Neutral, Opened
<1> QED  BY <1>1, <1>2, <1>3, NestDue DEF FrontInv, EvenFrame

LEMMA CalmThen ==
  ASSUME FrontInv, tokens' = tokens, NEW fn, At(fn), Calm(fn), NEW c, NEW fs, Then(c, fs),
         Leads(cur, c), Even(fs, Len(c.syms))
  PROVE  FrontInv'
<1>1. /\ Opened(Nest(cur), Head(stack).op) = Nest(cur) /\ Nest(cur) \in Due /\ fn # "lex"
  BY HeadCalm DEF Calm
<1>2. /\ Good(c) /\ Len(cur.syms) <= Len(c.syms) /\ Nest(c) = Nest(cur)
  BY DEF Leads
<1>3. IsStack(fs, Len(c.syms)) /\ After(Nest(c), Ops(fs)) = Opened(Nest(cur), Head(stack).op)
  BY <1>1, <1>2 DEF Even
<1> QED  BY <1>1, <1>2, <1>3, StepKeeps

LEMMA CalmAgain ==
  ASSUME FrontInv, tokens' = tokens, NEW fn, At(fn), Calm(fn), NEW c, NEW fs, Again(c, fs),
         Leads(cur, c), Even(fs, Len(c.syms))
  PROVE  FrontInv'
<1> DEFINE more == Append(fs, Head(stack))
<1>1. Len(cur.syms) \in Nat /\ Len(c.syms) \in Nat /\ Len(cur.syms) <= Len(c.syms)
  BY DEF Leads, Good, IsSeq
<1>2. EvenFrame(Head(stack), Len(cur.syms))
  BY HeadCalm
<1>3. EvenFrame(Head(stack), Len(c.syms))
  <2>1. \A x \in 0..Len(cur.syms) : x \in 0..Len(c.syms)
    BY <1>1
  <2> QED  BY <1>2, <2>1 DEF EvenFrame, FrameOk
<1>4. Even(more, Len(c.syms))
  BY <1>3, EvenAppend
<1>5. Then(c, more)
  BY DEF Again
<1> HIDE DEF more
<1> QED  BY <1>4, <1>5, CalmThen

LEMMA OpenThen ==
  ASSUME FrontInv, tokens' = tokens, NEW fn, At(fn), Calm(fn), NEW c, NEW fs, Then(c, fs),
         NEW op, Opens(cur, c, op), Shuts(fs, Len(c.syms), op)
  PROVE  FrontInv'
<1>1. /\ Opened(Nest(cur), Head(stack).op) = Nest(cur) /\ Nest(cur) \in Due /\ fn # "lex"
  BY HeadCalm DEF Calm
<1>2. /\ Good(c) /\ Len(cur.syms) <= Len(c.syms) /\ Nest(c) = Opened(Nest(cur), op)
  BY DEF Opens
<1>3. IsStack(fs, Len(c.syms)) /\ After(Nest(c), Ops(fs)) = Opened(Nest(cur), Head(stack).op)
  BY <1>1, <1>2 DEF Shuts
<1> QED  BY <1>1, <1>2, <1>3, StepKeeps

LEMMA ActThen ==
  ASSUME FrontInv, tokens' = tokens, NEW fn, At(fn), fn # "lex", NEW c, Then(c, <<>>),
         Opens(cur, c, Head(stack).op)
  PROVE  FrontInv'
<1>1. /\ Good(c) /\ Len(cur.syms) <= Len(c.syms) /\ Nest(c) = Opened(Nest(cur), Head(stack).op)
  BY DEF Opens
<1>2. IsStack(<<>>, Len(c.syms)) /\ After(Nest(c), Ops(<<>>)) = Nest(c)
  <2>1. Nest(c) \in Due
    BY <1>1, NestDue
  <2> QED  BY <2>1, EvenNone DEF Even
<1>3. After(Nest(c), Ops(<<>>)) = Opened(Nest(cur), Head(stack).op)
  BY <1>1, <1>2
<1>4. IsStack(<<>>, Len(c.syms))
  BY <1>2
<1> QED  BY <1>1, <1>3, <1>4, StepKeeps

-------------------------------------------------------------------------------
(* What the actions need of the frames, for a cursor they have led to.     *)

LEMMA On ==
  ASSUME NEW b, NEW c, Leads(b, c)
  PROVE  /\ Len(c.syms) \in Nat /\ Even(<<>>, Len(c.syms))
         /\ \A fn : fn # "lex" => EvenFrame(F(fn), Len(c.syms)) /\ Even(<<F(fn)>>, Len(c.syms))
<1>1. Len(c.syms) \in Nat /\ 0 \in 0..Len(c.syms)
  BY DEF Leads, Good, IsSeq
<1>2. ASSUME NEW fn, fn # "lex" PROVE EvenFrame(F(fn), Len(c.syms)) /\ Even(<<F(fn)>>, Len(c.syms))
  <2>1. EvenFrame(F(fn), Len(c.syms))
    BY <1>1, <1>2, Plain
  <2> QED  BY <2>1, EvenOne
<1> QED  BY <1>1, <1>2, EvenNone

LEMMA OnSid ==
  ASSUME NEW b, NEW c, Leads(b, c), NEW x \in Ids(c), NEW fn, fn # "lex"
  PROVE  EvenFrame(FSid(fn, x), Len(c.syms)) /\ Even(<<FSid(fn, x)>>, Len(c.syms))
<1>1. EvenFrame(FSid(fn, x), Len(c.syms))
  BY On, Plain DEF Ids
<1> QED  BY <1>1, EvenOne

LEMMA OnPath ==
  ASSUME NEW b, NEW c, Leads(b, c), NEW p, NEW fn, fn # "lex"
  PROVE  EvenFrame(FPath(fn, p), Len(c.syms)) /\ Even(<<FPath(fn, p)>>, Len(c.syms))
<1>1. EvenFrame(FPath(fn, p), Len(c.syms))
  <2>1. Len(c.syms) \in Nat /\ 0 \in 0..Len(c.syms)
    BY On
  <2> QED  BY <2>1, Plain
<1> QED  BY <1>1, EvenOne

LEMMA OnEmit ==
  ASSUME NEW b, NEW c, Leads(b, c), NEW x \in Ids(c), NEW op, Neutral(op)
  PROVE  EvenFrame(FEmit(op, x), Len(c.syms)) /\ Even(<<FEmit(op, x)>>, Len(c.syms))
<1>1. FrameOk(FEmit(op, x), Len(c.syms)) /\ FEmit(op, x).op = op
  BY On, Emits DEF Ids
<1>2. EvenFrame(FEmit(op, x), Len(c.syms))
  BY <1>1 DEF EvenFrame
<1> QED  BY <1>2, EvenOne

LEMMA OnExpect ==
  ASSUME NEW b, NEW c, Leads(b, c), NEW t, Neutral(t)
  PROVE  EvenFrame(FExpect(t), Len(c.syms)) /\ Even(<<FExpect(t)>>, Len(c.syms))
<1>1. EvenFrame(FExpect(t), Len(c.syms))
  BY On, Expects
<1> QED  BY <1>1, EvenOne

LEMMA OnCall ==
  ASSUME NEW b, NEW c, Leads(b, c), NEW fn, fn # "lex" PROVE Even(Frames(<<fn>>), Len(c.syms))
<1>1. Frames(<<fn>>) = <<F(fn)>>
  BY DEF Frames
<1> QED  BY <1>1, On

LEMMA OnCalls ==
  ASSUME NEW b, NEW c, Leads(b, c), NEW fn, fn # "lex", NEW gn, gn # "lex"
  PROVE  Even(Frames(<<fn, gn>>), Len(c.syms))
<1>1. Frames(<<fn, gn>>) = <<F(fn), F(gn)>>
  BY DEF Frames
<1>2. EvenFrame(F(fn), Len(c.syms)) /\ EvenFrame(F(gn), Len(c.syms))
  BY On
<1>3. Even(<<F(fn), F(gn)>>, Len(c.syms))
  BY <1>2, Evens
<1> QED  BY <1>1, <1>3

(* The frames that only call a helper.                                     *)
LEMMA Helpers ==
  ASSUME FrontInv, tokens' = tokens,
         \/ EmitFrame \/ ExpectFrame \/ ExprFrame \/ AnyFrame
         \/ RawFrame \/ RawToComma \/ SemiFrame \/ OptSemi
  PROVE  FrontInv'
<1>0. Source
  BY DEF FrontInv
<1>1. CASE EmitFrame
  <2>1. At("emit") /\ Then(Emit(cur, Head(stack).op, Sid), <<>>)
    BY <1>1 DEF EmitFrame
  <2>2. Opens(cur, Emit(cur, Head(stack).op, Sid), Head(stack).op)
    BY <2>1, OnTop, OpensEmit
  <2> QED  BY <2>1, <2>2, ActThen
<1>2. CASE ExpectFrame
  <2> DEFINE c == Consume(cur, Head(stack).op)
  <2>1. At("expect") /\ Then(c, <<>>)
    BY <1>2 DEF ExpectFrame
  <2>2. Leads(cur, c)
    BY <1>0, <2>1, OnTop, LeadsUtil
  <2> HIDE DEF c
  <2> QED  BY <2>1, <2>2, On, CalmThen DEF Calm, Acting
<1>3. CASE ExprFrame
  <2> DEFINE c == Expression(cur, Sid)
  <2>1. At("expr") /\ Then(c, <<>>)
    BY <1>3 DEF ExprFrame
  <2>2. Leads(cur, c)
    BY <1>0, <2>1, OnTop, LeadsExpression
  <2> HIDE DEF c
  <2> QED  BY <2>1, <2>2, On, CalmThen DEF Calm, Acting
<1>4. CASE AnyFrame
  BY <1>0, <1>4, OnTop, LeadsUtil, On, CalmThen DEF AnyFrame, Calm, Acting
<1>5. CASE RawFrame
  BY <1>0, <1>5, OnTop, LeadsUtil, On, CalmThen DEF RawFrame, Calm, Acting
<1>6. CASE RawToComma
  BY <1>0, <1>6, OnTop, LeadsUtil, On, CalmThen DEF RawToComma, Calm, Acting
<1>7. CASE SemiFrame
  BY <1>0, <1>7, OnTop, LeadsUtil, On, CalmThen DEF SemiFrame, Calm, Acting
<1>8. CASE OptSemi
  BY <1>0, <1>8, OnTop, LeadsUtil, On, CalmThen DEF OptSemi, Calm, Acting
<1> QED  BY <1>1, <1>2, <1>3, <1>4, <1>5, <1>6, <1>7, <1>8

LEMMA Neutrals ==
  /\ Neutral("EXPR") /\ Neutral("DEF_VAR") /\ Neutral("BREAK_LOOP") /\ Neutral("CONTINUE_LOP")
  /\ Neutral("PIPE") /\ Neutral("IGNORE") /\ Neutral("ZONE_WRITE") /\ Neutral("FLOW_FEED")
  /\ Neutral("RELOCATE") /\ Neutral("HALT_FLOW") /\ Neutral("CLEANUP") /\ Neutral("ROLLING_RETRY")
  /\ Neutral("CATCH_ERR") /\ Neutral("FALLBACK") /\ Neutral("HARD_LOCK") /\ Neutral("DEF_LAMBDA")
  /\ Neutral("RETURN_VAL") /\ Neutral("RETURN_VOID") /\ Neutral("GROUP_MEMBER") /\ Neutral("SEL_BRANCH")
  /\ Neutral("SCAN_PATTERN") /\ Neutral("APPLY_RULE") /\ Neutral("ON_RULE") /\ Neutral("PANIC")
  /\ Neutral("INTENT") /\ Neutral("ASM_BLOCK") /\ Neutral("ASM_LABEL") /\ Neutral("UNCOND_JUMP")
  /\ Neutral("COND_JUMP") /\ Neutral("LABEL_DEF") /\ Neutral("USE_MOD") /\ Neutral("(")
  /\ Neutral(")") /\ Neutral("}") /\ Neutral(",")
<1>1. /\ Neutral("EXPR") /\ Neutral("DEF_VAR") /\ Neutral("BREAK_LOOP") /\ Neutral("CONTINUE_LOP")
      /\ Neutral("PIPE") /\ Neutral("IGNORE") /\ Neutral("ZONE_WRITE") /\ Neutral("FLOW_FEED")
      /\ Neutral("RELOCATE")
  BY IsNeutral
<1>2. /\ Neutral("HALT_FLOW") /\ Neutral("CLEANUP") /\ Neutral("ROLLING_RETRY") /\ Neutral("CATCH_ERR")
      /\ Neutral("FALLBACK") /\ Neutral("HARD_LOCK") /\ Neutral("DEF_LAMBDA") /\ Neutral("RETURN_VAL")
      /\ Neutral("RETURN_VOID")
  BY IsNeutral
<1>3. /\ Neutral("GROUP_MEMBER") /\ Neutral("SEL_BRANCH") /\ Neutral("SCAN_PATTERN") /\ Neutral("APPLY_RULE")
      /\ Neutral("ON_RULE") /\ Neutral("PANIC") /\ Neutral("INTENT") /\ Neutral("ASM_BLOCK")
      /\ Neutral("ASM_LABEL")
  BY IsNeutral
<1>4. /\ Neutral("UNCOND_JUMP") /\ Neutral("COND_JUMP") /\ Neutral("LABEL_DEF") /\ Neutral("USE_MOD")
      /\ Neutral("(") /\ Neutral(")") /\ Neutral("}") /\ Neutral(",")
  BY IsNeutral
<1> QED  BY <1>1, <1>2, <1>3, <1>4

LEMMA KindIsPrefix ==
  ASSUME NEW p \in {VAR, CONST, FUNC, NT, GROUP, RULE, EXTERN} PROVE p \in Prefix
BY DEF VAR, CONST, FUNC, NT, GROUP, RULE, EXTERN, Prefix

LEMMA Dispatchers ==
  ASSUME FrontInv, tokens' = tokens,
         Parse \/ Statement \/ Leave \/ Block \/ Statements \/ Body
  PROVE  FrontInv'
<1>0. Source
  BY DEF FrontInv
<1>2. CASE Parse
  <2>1. At("parse") /\ Calm("parse") /\ Leads(cur, cur)
    BY <1>2, OnTop DEF Parse, Calm, Acting
  <2>2. CASE AtEnd(cur)
    BY <1>2, <2>1, <2>2, On, CalmThen DEF Parse
  <2>3. CASE ~AtEnd(cur) /\ Tok(cur) \in DOMAIN TopLevel
    <3>1. Again(cur, Frames(TopLevel[Tok(cur)]))
      BY <1>2, <2>3 DEF Parse
    <3>2. \A t \in DOMAIN TopLevel :
            TopLevel[t] \in {<<"directives">>, <<"variable", "semi">>, <<"constant", "semi">>,
                             <<"function">>, <<"extern">>, <<"group">>, <<"rules">>,
                             <<"imports">>, <<"semi">>, <<"typedef">>}
      BY DEF TopLevel
    <3>3. \A fns \in {<<"directives">>, <<"variable", "semi">>, <<"constant", "semi">>,
                      <<"function">>, <<"extern">>, <<"group">>, <<"rules">>,
                      <<"imports">>, <<"semi">>, <<"typedef">>} :
            Even(Frames(fns), Len(cur.syms))
      BY <2>1, OnCall, OnCalls
    <3>4. Even(Frames(TopLevel[Tok(cur)]), Len(cur.syms))
      BY <2>3, <3>2, <3>3
    <3> QED  BY <2>1, <3>1, <3>4, CalmAgain
  <2>4. CASE ~AtEnd(cur) /\ Tok(cur) \notin DOMAIN TopLevel
    <3>1. Again(Synchronize(Fails(cur)), <<>>)
      BY <1>2, <2>4 DEF Parse
    <3>2. Leads(cur, Synchronize(Fails(cur)))
      BY <1>0, <2>1, LeadsUtil
    <3> QED  BY <2>1, <3>1, <3>2, On, CalmAgain
  <2> QED  BY <2>2, <2>3, <2>4
<1>3. CASE Statement
  <2>1. At("statement") /\ Calm("statement") /\ Leads(cur, cur)
    BY <1>3, OnTop DEF Statement, Calm, Acting
  <2>2. CASE Tok(cur) \in DOMAIN StatementOf
    <3>1. Then(cur, Frames(StatementOf[Tok(cur)]))
      BY <1>3, <2>2 DEF Statement
    <3>2. ASSUME NEW t \in DOMAIN StatementOf
          PROVE  StatementOf[t] \in
                   {<<"loop">>, <<"if">>, <<"select">>, <<"scan">>, <<"return">>,
                    <<"leave", "semi">>, <<"jump">>, <<"variable", "semi">>,
                    <<"function">>, <<"group">>, <<"apply", "semi">>, <<"on">>,
                    <<"panic", "semi">>, <<"intent", "semi">>, <<"unroll">>,
                    <<"handle", "optsemi">>, <<"fastexec">>, <<"semi">>, <<"identifier">>}
      <4>1. CASE t \in {"loop", "if", "select", "scan", "return"}
        BY <4>1 DEF StatementOf
      <4>2. CASE t \in {"break", "continue", "jump", "v:", "f:"}
        BY <4>2 DEF StatementOf
      <4>3. CASE t \in {"group", "apply", "on", "!!", "@"}
        BY <4>3 DEF StatementOf
      <4>4. CASE t \in {"unroll", "(", "fastexec", ";", "id"}
        BY <4>4 DEF StatementOf
      <4> QED  BY <4>1, <4>2, <4>3, <4>4 DEF StatementOf
    <3>3. \A fns \in {<<"loop">>, <<"if">>, <<"select">>, <<"scan">>, <<"return">>,
                      <<"leave", "semi">>, <<"jump">>, <<"variable", "semi">>,
                      <<"function">>, <<"group">>, <<"apply", "semi">>, <<"on">>,
                      <<"panic", "semi">>, <<"intent", "semi">>, <<"unroll">>,
                      <<"handle", "optsemi">>, <<"fastexec">>, <<"semi">>,
                      <<"identifier">>} :
            Even(Frames(fns), Len(cur.syms))
      BY <2>1, OnCall, OnCalls
    <3>4. Even(Frames(StatementOf[Tok(cur)]), Len(cur.syms))
      BY <2>2, <3>2, <3>3
    <3> QED  BY <2>1, <3>1, <3>4, CalmThen
  <2>3. CASE Tok(cur) \notin DOMAIN StatementOf
    BY <1>0, <1>3, <2>1, <2>3, LeadsUtil, On, CalmThen DEF Statement
  <2> QED  BY <2>2, <2>3
<1>4. CASE Leave
  BY <1>0, <1>4, OnTop, LeadsUtil, LeadsEmit, LeadsZero, Neutrals, On, CalmThen
     DEF Leave, Calm, Acting
<1>5. CASE Block
  BY <1>0, <1>5, OnTop, LeadsUtil, OnCall, CalmThen DEF Block, Calm, Acting
<1>6. CASE Statements
  <2>1. At("statements") /\ Calm("statements") /\ Leads(cur, cur)
    BY <1>6, OnTop DEF Statements, Calm, Acting
  <2>2. CASE Tok(cur) \notin {"}", "}?;", "EOF"}
    BY <1>6, <2>1, <2>2, OnCall, CalmAgain DEF Statements
  <2>3. CASE Tok(cur) \in {"}", "}?;", "EOF"}
    BY <1>0, <1>6, <2>1, <2>3, LeadsUtil, On, CalmThen DEF Statements
  <2> QED  BY <2>2, <2>3
<1>7. CASE Body
  <2> DEFINE fn == IF Tok(cur) = "{" THEN "block" ELSE "statement"
  <2>1. At("body") /\ Then(cur, Frames(<<fn>>)) /\ Leads(cur, cur)
    BY <1>7, OnTop DEF Body
  <2>2. fn # "lex"
    OBVIOUS
  <2> HIDE DEF fn
  <2> QED  BY <2>1, <2>2, OnCall, CalmThen DEF Calm, Acting
<1> QED  BY <1>2, <1>3, <1>4, <1>5, <1>6, <1>7

LEMMA Declares ==
  ASSUME NEW b, NEW c, Leads(b, c), NEW p \in Prefix, NEW name
  PROVE  LET s == AddSymbol(c, p, name)
         IN  /\ Leads(b, s) /\ s.sid \in Ids(s)
             /\ \A op : Neutral(op) => Leads(b, Emit(s, op, s.sid))
             /\ \A op : Opens(b, Emit(s, op, s.sid), op) /\ s.sid \in Ids(Emit(s, op, s.sid))
<1> DEFINE s == AddSymbol(c, p, name)
<1>1. Leads(b, s)
  BY LeadsAdd
<1> HIDE DEF s
<1>2. s.sid \in Ids(s) /\ Good(s)
  BY <1>1, LeadsIds DEF Leads
<1>3. ASSUME NEW op PROVE s.sid \in Ids(Emit(s, op, s.sid)) /\ Opens(b, Emit(s, op, s.sid), op)
  <2>1. Emit(s, op, s.sid).syms = s.syms
    BY <1>1, <1>2, EmitGood, LeadsZero DEF Emit
  <2> QED  BY <1>1, <1>2, <2>1, OpensEmit DEF Ids
<1>4. ASSUME NEW op, Neutral(op) PROVE Leads(b, Emit(s, op, s.sid))
  BY <1>1, <1>2, <1>4, LeadsEmit
<1> QED  BY <1>1, <1>2, <1>3, <1>4 DEF s

(* An id stays one on the way.                                             *)
LEMMA KeepsId ==
  ASSUME NEW b, NEW c, Leads(b, c), NEW x \in Ids(b) PROVE x \in Ids(c)
BY LeadsIds

LEMMA Handles ==
  ASSUME FrontInv, tokens' = tokens,
         \/ HandleExpression \/ Flow \/ Relocate \/ Chain \/ Rolling \/ AfterRolling
         \/ Catch \/ Fallback
  PROVE  FrontInv'
<1>0. Source
  BY DEF FrontInv
<1>1. CASE HandleExpression
  <2> DEFINE a == Consume(cur, "(")
             b == Consume(TakeAny(a), ")")
             s == AddSymbol(b, VAR, Handled(a))
             c == Emit(s, "DEF_VAR", s.sid)
             f == FSid("flow", s.sid)
             g == FSid("chain", s.sid)
  <2>1. At("handle") /\ Then(c, <<f, g>>) /\ Leads(cur, cur)
    BY <1>1, OnTop DEF HandleExpression
  <2>2. Leads(cur, b)
    BY <1>0, <2>1, LeadsUtil
  <2> HIDE DEF b
  <2>3. Leads(cur, c) /\ s.sid \in Ids(c)
    BY <2>2, Declares, KindIsPrefix, Neutrals
  <2> HIDE DEF c, s
  <2>4. EvenFrame(f, Len(c.syms)) /\ EvenFrame(g, Len(c.syms))
    BY <2>3, OnSid
  <2> HIDE DEF f, g
  <2>5. Even(<<f, g>>, Len(c.syms))
    BY <2>4, Evens
  <2> QED  BY <2>1, <2>3, <2>5, CalmThen DEF Calm, Acting
<1>2. CASE Flow
  <2> DEFINE a == Adv(cur)
             n == Len(a.syms)
             f == IF Tok(a) = "f:" THEN F("function") ELSE FSid("expr", Sid)
             then == {<<>>, <<FSid("expr", Sid)>>, <<f, FEmit("PIPE", Sid)>>,
                      <<FSid("relocate", Sid)>>, <<FSid("expr", Sid), FEmit("IGNORE", Sid)>>,
                      <<F("expr"), FEmit("ZONE_WRITE", Sid)>>, <<F("expr"), FEmit("FLOW_FEED", Sid)>>}
  <2>1. At("flow") /\ Leads(cur, cur) /\ Sid \in Ids(cur) /\ Calm("flow")
    BY <1>2, OnTop DEF Flow, Calm, Acting
  <2>2. Leads(cur, a) /\ Sid \in Ids(a)
    BY <1>0, <2>1, LeadsUtil, KeepsId
  <2>3. Then(cur, <<>>) \/ \E fs \in then : Then(a, fs)
    BY <1>2 DEF Flow
  <2> HIDE DEF a
  <2>4. /\ EvenFrame(f, n) /\ EvenFrame(FSid("expr", Sid), n) /\ EvenFrame(F("expr"), n)
        /\ EvenFrame(FEmit("PIPE", Sid), n) /\ EvenFrame(FEmit("IGNORE", Sid), n)
        /\ EvenFrame(FEmit("ZONE_WRITE", Sid), n) /\ EvenFrame(FEmit("FLOW_FEED", Sid), n)
    BY <2>2, On, OnSid, OnEmit, Neutrals
  <2>5. /\ Even(<<>>, n) /\ Even(<<FSid("expr", Sid)>>, n) /\ Even(<<FSid("relocate", Sid)>>, n)
    BY <2>2, On, OnSid
  <2> HIDE DEF f, n
  <2>6. /\ Even(<<f, FEmit("PIPE", Sid)>>, n) /\ Even(<<FSid("expr", Sid), FEmit("IGNORE", Sid)>>, n)
        /\ Even(<<F("expr"), FEmit("ZONE_WRITE", Sid)>>, n)
        /\ Even(<<F("expr"), FEmit("FLOW_FEED", Sid)>>, n)
    BY <2>4, Evens
  <2>7. \A fs \in then : Even(fs, n)
    BY <2>5, <2>6
  <2> HIDE DEF then
  <2>8. CASE Then(cur, <<>>)
    BY <2>1, <2>8, On, CalmThen
  <2>9. CASE \E fs \in then : Then(a, fs)
    BY <2>1, <2>2, <2>7, <2>9, CalmThen DEF n
  <2> QED  BY <2>3, <2>8, <2>9
<1>3. CASE Relocate
  <2> DEFINE a == Adv(cur)
             b == IF Tok(cur) = "(" THEN Consume(TakeAny(a), ")") ELSE Consume(cur, "id")
             name == IF Tok(cur) = "(" THEN Handled(a) ELSE Val(cur)
             s == AddSymbol(b, VAR, name)
             c == Emit2(s, "RELOCATE", Sid, s.sid)
  <2>1. At("relocate") /\ Leads(cur, cur) /\ Sid \in Ids(cur) /\ Then(c, <<>>)
    BY <1>3, OnTop DEF Relocate
  <2>2. Leads(cur, b)
    BY <1>0, <2>1, LeadsUtil
  <2> HIDE DEF b, name
  <2>3. Leads(cur, s) /\ s.sid \in Ids(s) /\ Sid \in Ids(s)
    BY <2>1, <2>2, Declares, KindIsPrefix, KeepsId
  <2> HIDE DEF s
  <2>4. Leads(cur, c)
    BY <2>3, LeadsEmit2, Neutrals
  <2> HIDE DEF c
  <2> QED  BY <2>1, <2>4, On, CalmThen DEF Calm, Acting
<1>4. CASE Chain
  <2>1. At("chain") /\ Leads(cur, cur) /\ Sid \in Ids(cur) /\ Calm("chain")
    BY <1>4, OnTop DEF Chain, Calm, Acting
  <2>2. Leads(cur, Adv(cur)) /\ Sid \in Ids(Adv(cur))
    BY <1>0, <2>1, LeadsUtil, KeepsId
  <2>3. Leads(cur, Emit(Adv(cur), "HALT_FLOW", Sid)) /\ Leads(cur, Emit(Adv(cur), "CLEANUP", Sid))
    BY <2>2, LeadsEmit, Neutrals
  <2>4. \/ Again(cur, Frames(<<"rolling">>)) \/ Again(cur, Frames(<<"catch">>))
        \/ Again(cur, Frames(<<"fallback">>)) \/ Then(cur, <<>>)
        \/ Again(Emit(Adv(cur), "HALT_FLOW", Sid), <<>>)
        \/ Again(Emit(Adv(cur), "CLEANUP", Sid), <<>>)
    BY <1>4 DEF Chain
  <2>5. /\ Even(Frames(<<"rolling">>), Len(cur.syms)) /\ Even(Frames(<<"catch">>), Len(cur.syms))
        /\ Even(Frames(<<"fallback">>), Len(cur.syms)) /\ Even(<<>>, Len(cur.syms))
        /\ Even(<<>>, Len(Emit(Adv(cur), "HALT_FLOW", Sid).syms))
        /\ Even(<<>>, Len(Emit(Adv(cur), "CLEANUP", Sid).syms))
    BY <2>1, <2>3, On, OnCall
  <2> QED  BY <2>1, <2>3, <2>4, <2>5, CalmThen, CalmAgain
<1>5. CASE Rolling
  <2> DEFINE c == TakeAny(Adv(cur))
             f == FExpect(",")
             g == F("any")
             h == FExpect(")")
             i == FEmit("ROLLING_RETRY", 0)
             j == F("afterrolling")
  <2>1. At("rolling") /\ Leads(cur, cur) /\ Then(c, <<f, g, h, i, j>>)
    BY <1>5, OnTop DEF Rolling
  <2>2. Leads(cur, c)
    BY <1>0, <2>1, LeadsUtil
  <2> HIDE DEF c
  <2>3. /\ EvenFrame(f, Len(c.syms)) /\ EvenFrame(g, Len(c.syms)) /\ EvenFrame(h, Len(c.syms))
        /\ EvenFrame(i, Len(c.syms)) /\ EvenFrame(j, Len(c.syms))
    BY <2>2, On, OnExpect, OnEmit, LeadsZero, Neutrals
  <2> HIDE DEF f, g, h, i, j
  <2>4. Even(<<f, g, h, i, j>>, Len(c.syms))
    BY <2>3, Evens5
  <2> QED  BY <2>1, <2>2, <2>4, CalmThen DEF Calm, Acting
<1>6. CASE AfterRolling
  <2>1. At("afterrolling") /\ Leads(cur, cur) /\ Calm("afterrolling")
        /\ (Then(cur, <<F("fallback")>>) \/ Then(cur, <<F("catch")>>) \/ Then(cur, <<>>))
    BY <1>6, OnTop DEF AfterRolling, Calm, Acting
  <2>2. /\ Even(<<F("fallback")>>, Len(cur.syms)) /\ Even(<<F("catch")>>, Len(cur.syms))
        /\ Even(<<>>, Len(cur.syms))
    BY <2>1, On
  <2> QED  BY <2>1, <2>2, CalmThen
<1>7. CASE Catch
  <2> DEFINE a == Adv(cur)
             b == Adv(a)
             s == IF Tok(a) = "(" THEN AddSymbol(Consume(TakeAny(b), ")"), VAR, Val(b))
                  ELSE AddSymbol(a, VAR, <<"e">>)
             c == Emit(s, "CATCH_ERR", s.sid)
  <2>1. At("catch") /\ Leads(cur, cur) /\ Then(c, Frames(<<"body">>))
    BY <1>7, OnTop DEF Catch
  <2>2. Leads(cur, a) /\ Leads(cur, Consume(TakeAny(b), ")"))
    BY <1>0, <2>1, LeadsUtil
  <2>3. Leads(cur, s) /\ s.sid \in Ids(s)
    <3> HIDE DEF a, b
    <3>1. CASE Tok(a) = "("
      BY <2>2, <3>1, Declares, KindIsPrefix
    <3>2. CASE Tok(a) # "("
      BY <2>2, <3>2, Declares, KindIsPrefix
    <3> QED  BY <3>1, <3>2
  <2> HIDE DEF s
  <2>4. Leads(cur, c)
    BY <2>3, LeadsEmit, Neutrals
  <2> HIDE DEF c
  <2> QED  BY <2>1, <2>4, OnCall, CalmThen DEF Calm, Acting
<1>8. CASE Fallback
  <2> DEFINE b == Consume(TakeAny(Consume(Adv(cur), "(")), ")")
  <2>1. At("fallback") /\ Leads(cur, cur) /\ Then(Emit(b, "FALLBACK", 0), <<>>)
    BY <1>8, OnTop DEF Fallback
  <2>2. Leads(cur, b)
    BY <1>0, <2>1, LeadsUtil
  <2> HIDE DEF b
  <2>3. Leads(cur, Emit(b, "FALLBACK", 0))
    BY <2>2, LeadsEmit, LeadsZero, Neutrals
  <2> QED  BY <2>1, <2>3, On, CalmThen DEF Calm, Acting
<1> QED  BY <1>1, <1>2, <1>3, <1>4, <1>5, <1>6, <1>7, <1>8

(* Frames that open op and leave it open.                                  *)
Begins(fs, n, op) ==
  IsStack(fs, n) /\ \A open \in Due : After(open, Ops(fs)) = Opened(open, op)

LEMMA BeginsOne == ASSUME NEW n, NEW f, FrameOk(f, n) PROVE Begins(<<f>>, n, f.op)
BY One DEF Begins

LEMMA BeginsConcat ==
  ASSUME NEW n, NEW a, NEW b, NEW op, Even(a, n), Begins(b, n, op) PROVE Begins(a \o b, n, op)
<1>1. IsStack(a, n) /\ IsStack(b, n)
  BY DEF Even, Begins
<1>2. IsStack(a \o b, n)
  BY <1>1, StackConcat
<1>3. ASSUME NEW open \in Due PROVE After(open, Ops(a \o b)) = Opened(open, op)
  <2>1. After(open, Ops(a \o b)) = After(After(open, Ops(a)), Ops(b))
    BY <1>1, AfterStacks
  <2> QED  BY <2>1 DEF Even, Begins
<1> QED  BY <1>2, <1>3 DEF Begins

LEMMA BeginsEven ==
  ASSUME NEW n, NEW a, NEW b, NEW op, Begins(a, n, op), Even(b, n) PROVE Begins(a \o b, n, op)
<1>1. IsStack(a, n) /\ IsStack(b, n)
  BY DEF Even, Begins
<1>2. IsStack(a \o b, n)
  BY <1>1, StackConcat
<1>3. ASSUME NEW open \in Due PROVE After(open, Ops(a \o b)) = Opened(open, op)
  <2>1. After(open, Ops(a \o b)) = After(After(open, Ops(a)), Ops(b))
    BY <1>1, AfterStacks
  <2>2. Opened(open, op) \in Due
    BY OpenedDue
  <2> QED  BY <2>1, <2>2 DEF Even, Begins
<1> QED  BY <1>2, <1>3 DEF Begins

LEMMA BeginsShuts ==
  ASSUME NEW n, NEW a, NEW b, NEW op, Begins(a, n, op), Shuts(b, n, op) PROVE Even(a \o b, n)
<1>1. IsStack(a, n) /\ IsStack(b, n)
  BY DEF Shuts, Begins
<1>2. IsStack(a \o b, n)
  BY <1>1, StackConcat
<1>3. ASSUME NEW open \in Due PROVE After(open, Ops(a \o b)) = open
  <2>1. After(open, Ops(a \o b)) = After(After(open, Ops(a)), Ops(b))
    BY <1>1, AfterStacks
  <2> QED  BY <2>1 DEF Shuts, Begins
<1> QED  BY <1>2, <1>3 DEF Even

LoopOps == {"LOOP_INF", "LOOP_RANGE", "LOOP_FOREACH", "LOOP_FOR", "LOOP_WHILE_S", "LOOP_WHILE"}

LEMMA OpClosers ==
  /\ \A op \in LoopOps : op \in DOMAIN CloserOf /\ CloserOf[op] = "LOOP_END"
  /\ \A op \in {"IF_BEGIN", "ELSIF_BEGIN", "ELS_BEGIN"} :
       op \in DOMAIN CloserOf /\ CloserOf[op] = "IF_END"
  /\ \A op \in {"DEF_FUNC", "DEF_EXTERN"} : op \in DOMAIN CloserOf /\ CloserOf[op] = "END_FUNC"
  /\ \A op \in {"DEF_STRUCT", "DEF_NEWTYPE", "DEF_GROUP"} :
       op \in DOMAIN CloserOf /\ CloserOf[op] = "END_TYPEDEF"
  /\ "SEL_BEGIN" \in DOMAIN CloserOf /\ CloserOf["SEL_BEGIN"] = "SEL_END"
  /\ "SCAN_BEGIN" \in DOMAIN CloserOf /\ CloserOf["SCAN_BEGIN"] = "SCAN_END"
<1>1. \A op \in LoopOps : op \in DOMAIN CloserOf /\ CloserOf[op] = "LOOP_END"
  BY DEF CloserOf, LoopOps
<1>2. \A op \in {"IF_BEGIN", "ELSIF_BEGIN", "ELS_BEGIN"} :
       op \in DOMAIN CloserOf /\ CloserOf[op] = "IF_END"
  BY DEF CloserOf
<1>3. \A op \in {"DEF_FUNC", "DEF_EXTERN"} : op \in DOMAIN CloserOf /\ CloserOf[op] = "END_FUNC"
  BY DEF CloserOf
<1>4. \A op \in {"DEF_STRUCT", "DEF_NEWTYPE", "DEF_GROUP"} :
       op \in DOMAIN CloserOf /\ CloserOf[op] = "END_TYPEDEF"
  BY DEF CloserOf
<1>5. /\ "SEL_BEGIN" \in DOMAIN CloserOf /\ CloserOf["SEL_BEGIN"] = "SEL_END"
      /\ "SCAN_BEGIN" \in DOMAIN CloserOf /\ CloserOf["SCAN_BEGIN"] = "SCAN_END"
  BY DEF CloserOf
<1> QED  BY <1>1, <1>2, <1>3, <1>4, <1>5


LEMMA LoopShuts ==
  ASSUME NEW n \in Nat, NEW op \in LoopOps
  PROVE  Shuts(<<F("block"), FEmit("LOOP_END", 0)>>, n, op)
<1>1. op \in DOMAIN CloserOf /\ CloserOf[op] = "LOOP_END" /\ 0 \in 0..n
  BY OpClosers
<1> DEFINE f == FEmit("LOOP_END", 0)
           a == <<F("block")>>
<1>2. FrameOk(f, n) /\ f.op = CloserOf[op]
  BY <1>1, Emits
<1>3. Even(a, n)
  BY <1>1, Plain, EvenOne
<1>4. <<F("block"), f>> = Append(a, f)
  OBVIOUS
<1> HIDE DEF f, a
<1>5. Shuts(Append(a, f), n, op)
  BY <1>1, <1>2, <1>3, ShutsAppend
<1> QED  BY <1>4, <1>5 DEF f

LEMMA LoopKindBegins ==
  ASSUME NEW b, NEW c, Leads(b, c), NEW d
  PROVE  \E op \in LoopOps : Begins(LoopKind(d), Len(c.syms), op)
<1> DEFINE n == Len(c.syms)
           cond == <<F("rawtocomma"), FExpect(",")>>
           for == FEmit("LOOP_FOR", 0)
           pair == FEmit("LOOP_WHILE_S", 0)
           while == FEmit("LOOP_WHILE", 0)
           range == [F("range") EXCEPT !.op = "LOOP_RANGE"]
           foreach == [F("foreach") EXCEPT !.op = "LOOP_FOREACH"]
<1>1. n \in Nat /\ 0 \in 0..n
  BY On
<1>2. LoopKind(d) \in {<<range>>, <<foreach>>, cond \o cond \o <<F("raw"), for>>,
                       cond \o <<F("raw"), pair>>, <<F("raw"), while>>}
  BY DEF LoopKind
<1>3. EvenFrame(F("rawtocomma"), n) /\ EvenFrame(FExpect(","), n) /\ Even(<<F("raw")>>, n)
  BY On, OnExpect, Neutrals
<1>4. Even(cond, n)
  BY <1>3, Evens
<1>5. /\ FrameOk(for, n) /\ for.op = "LOOP_FOR" /\ FrameOk(pair, n) /\ pair.op = "LOOP_WHILE_S"
      /\ FrameOk(while, n) /\ while.op = "LOOP_WHILE"
  BY <1>1, Emits
<1>6. FrameOk(range, n) /\ range.op = "LOOP_RANGE" /\ FrameOk(foreach, n) /\ foreach.op = "LOOP_FOREACH"
  BY <1>1, Loops
<1> HIDE DEF n, cond, for, pair, while, range, foreach
<1>7. Begins(<<range>>, n, "LOOP_RANGE") /\ Begins(<<foreach>>, n, "LOOP_FOREACH")
  BY <1>6, BeginsOne
<1>8. ASSUME NEW f, FrameOk(f, n) PROVE Begins(<<F("raw"), f>>, n, f.op)
  <2> DEFINE r == <<F("raw")>>
             g == <<f>>
  <2>1. <<F("raw"), f>> = r \o g
    OBVIOUS
  <2>2. Even(r, n) /\ Begins(g, n, f.op)
    BY <1>3, <1>8, BeginsOne
  <2> HIDE DEF r, g
  <2>3. Begins(r \o g, n, f.op)
    BY <2>2, BeginsConcat
  <2> QED  BY <2>1, <2>3
<1>9. Begins(<<F("raw"), while>>, n, "LOOP_WHILE")
  BY <1>5, <1>8
<1>10. Begins(cond \o <<F("raw"), pair>>, n, "LOOP_WHILE_S")
  BY <1>4, <1>5, <1>8, BeginsConcat
<1>11. Begins(cond \o cond \o <<F("raw"), for>>, n, "LOOP_FOR")
  <2>1. Begins(<<F("raw"), for>>, n, "LOOP_FOR") /\ Even(cond \o cond, n)
    BY <1>4, <1>5, <1>8, EvenConcat
  <2> QED  BY <2>1, BeginsConcat
<1>12. \E op \in LoopOps : Begins(LoopKind(d), n, op)
  BY <1>2, <1>7, <1>9, <1>10, <1>11 DEF LoopOps
<1> QED  BY <1>12 DEF n

LEMMA Looping ==
  ASSUME FrontInv, tokens' = tokens,
         LoopRange \/ LoopForeach \/ LoopInfinite \/ Loop \/ Unroll
  PROVE  FrontInv'
<1>0. Source
  BY DEF FrontInv
<1>1. CASE LoopRange
  <2> DEFINE b == Adv(Adv(Adv(cur)))
             c == Emit(b, Head(stack).op, 0)
  <2>1. At("range") /\ Leads(cur, cur) /\ Then(c, <<>>)
    BY <1>1, OnTop DEF LoopRange
  <2>2. Leads(cur, b)
    BY <1>0, <2>1, LeadsUtil
  <2> HIDE DEF b
  <2>3. Opens(cur, c, Head(stack).op)
    BY <2>2, LeadsZero, OpensEmit
  <2> QED  BY <2>1, <2>3, ActThen
<1>2. CASE LoopForeach
  <2> DEFINE a == TakeAny(Adv(cur))
             l == TakeAny(IF Val(a) = <<"in">> THEN Adv(a) ELSE Fails(a))
             s == AddSymbol(l, VAR, Val(Adv(cur)))
             c == Emit(s, Head(stack).op, s.sid)
  <2>1. At("foreach") /\ Leads(cur, cur) /\ Then(c, <<>>)
    BY <1>2, OnTop DEF LoopForeach
  <2>2. Leads(cur, a)
    BY <1>0, <2>1, LeadsUtil
  <2> HIDE DEF a
  <2>3. Leads(cur, l)
    BY <1>0, <2>2, LeadsUtil
  <2> HIDE DEF l
  <2>4. Opens(cur, c, Head(stack).op)
    BY <2>3, Declares, KindIsPrefix
  <2> HIDE DEF c
  <2> QED  BY <2>1, <2>4, ActThen
<1>3. CASE LoopInfinite
  <2> DEFINE c == Emit(Adv(cur), "LOOP_INF", 0)
             rest == <<F("block"), FEmit("LOOP_END", 0)>>
  <2>1. At("loop") /\ Leads(cur, cur) /\ Then(c, LoopRest(<<>>))
    BY <1>3, OnTop DEF LoopInfinite
  <2>2. Leads(cur, Adv(cur))
    BY <1>0, <2>1, LeadsUtil
  <2>3. Opens(cur, c, "LOOP_INF")
    BY <2>2, LeadsZero, OpensEmit
  <2> HIDE DEF c
  <2>4. Len(c.syms) \in Nat /\ "LOOP_INF" \in LoopOps
    BY <2>3 DEF Opens, Good, IsSeq, LoopOps
  <2>5. Shuts(rest, Len(c.syms), "LOOP_INF")
    BY <2>4, LoopShuts
  <2> HIDE DEF rest
  <2>6. Shuts(<<>> \o rest, Len(c.syms), "LOOP_INF")
    BY <2>5, EvenNone, ShutsConcat
  <2>7. LoopRest(<<>>) = <<>> \o rest
    BY DEF LoopRest, rest
  <2> QED  BY <2>1, <2>3, <2>6, <2>7, OpenThen DEF Calm, Acting
<1>4. CASE Loop
  <2> DEFINE c == Consume(Adv(cur), "(")
             n == Len(c.syms)
             k == LoopKind(c)
             e == FExpect(")")
             rest == <<F("block"), FEmit("LOOP_END", 0)>>
  <2>1. At("loop") /\ Leads(cur, cur) /\ Then(c, LoopRest(Append(k, e)))
    BY <1>4, OnTop DEF Loop
  <2>2. Leads(cur, c)
    BY <1>0, <2>1, LeadsUtil
  <2> HIDE DEF c
  <2>3. PICK op \in LoopOps : Begins(k, n, op)
    BY <2>2, LoopKindBegins
  <2>4. Even(<<e>>, n) /\ n \in Nat
    BY <2>2, On, OnExpect, Neutrals
  <2>5. Shuts(rest, n, op)
    BY <2>4, LoopShuts
  <2>6. LoopRest(Append(k, e)) = Append(k, e) \o rest
    BY DEF LoopRest
  <2> HIDE DEF n, k, e, rest
  <2>7. Append(k, e) = k \o <<e>>
    BY <2>3, AppendAsConcat DEF Begins, IsStack
  <2>8. Begins(k \o <<e>>, n, op)
    BY <2>3, <2>4, BeginsEven
  <2>9. Even(LoopRest(Append(k, e)), n)
    BY <2>5, <2>6, <2>7, <2>8, BeginsShuts
  <2> QED  BY <2>1, <2>2, <2>9, CalmThen DEF n, Calm, Acting
<1>5. CASE Unroll
  <2> DEFINE b == Consume(Consume(TakeAny(Consume(Adv(cur), "(")), ")"), "->")
             c == Emit(b, "EXPR", 0)
  <2>1. At("unroll") /\ Leads(cur, cur) /\ Then(c, Frames(<<"loop">>))
    BY <1>5, OnTop DEF Unroll
  <2>2. Leads(cur, b)
    BY <1>0, <2>1, LeadsUtil
  <2> HIDE DEF b
  <2>3. Leads(cur, c)
    BY <2>2, LeadsEmit, LeadsZero, Neutrals
  <2> HIDE DEF c
  <2> QED  BY <2>1, <2>3, OnCall, CalmThen DEF Calm, Acting
<1> QED  BY <1>1, <1>2, <1>3, <1>4, <1>5

LEMMA LeadsOver ==
  ASSUME NEW a, NEW b, NEW c, Leads(a, b), Leads(b, c) PROVE Leads(a, c)
<1>1. Len(a.syms) \in Nat /\ Len(b.syms) \in Nat /\ Len(c.syms) \in Nat
  BY DEF Leads, Good, IsSeq
<1>2. Len(a.syms) <= Len(c.syms)
  BY <1>1 DEF Leads
<1> QED  BY <1>2 DEF Leads

LEMMA OpensGood == ASSUME NEW b, NEW c, NEW op, Opens(b, c, op) PROVE Leads(c, c)
BY LeadsSelf DEF Opens

LEMMA ShutsPair ==
  ASSUME NEW n, NEW op \in DOMAIN CloserOf, NEW f, EvenFrame(f, n), NEW h, FrameOk(h, n),
         h.op = CloserOf[op]
  PROVE  Shuts(<<f, h>>, n, op)
<1>1. <<f, h>> = Append(<<f>>, h)
  OBVIOUS
<1>2. Even(<<f>>, n)
  BY EvenOne
<1>3. Shuts(Append(<<f>>, h), n, op)
  BY <1>2, ShutsAppend, Zenon
<1> QED  BY <1>1, <1>3

LEMMA ShutsTriple ==
  ASSUME NEW n, NEW op \in DOMAIN CloserOf, NEW f, EvenFrame(f, n), NEW g, EvenFrame(g, n),
         NEW h, FrameOk(h, n), h.op = CloserOf[op]
  PROVE  Shuts(<<f, g, h>>, n, op)
<1>1. <<f, g, h>> = Append(<<f, g>>, h)
  OBVIOUS
<1>2. Even(<<f, g>>, n)
  BY Evens
<1>3. Shuts(Append(<<f, g>>, h), n, op)
  BY <1>2, ShutsAppend, Zenon
<1> QED  BY <1>1, <1>3

LEMMA ParamListEven == ASSUME NEW b, NEW c, Leads(b, c) PROVE Even(ParamList, Len(c.syms))
<1>1. /\ EvenFrame(FExpect("("), Len(c.syms)) /\ EvenFrame(F("params"), Len(c.syms))
      /\ EvenFrame(FExpect(")"), Len(c.syms))
  BY On, OnExpect, Neutrals
<1> QED  BY <1>1, Evens DEF ParamList

LEMMA Definitions ==
  ASSUME FrontInv, tokens' = tokens, Variable \/ Constant \/ Params \/ Lambda \/ LambdaBody
  PROVE  FrontInv'
<1>0. Source
  BY DEF FrontInv
<1>1. CASE Variable
  <2> DEFINE a == Consume(Adv(cur), "id")
             s == AddSymbol(a, VAR, Val(Adv(cur)))
             d == Emit(s, "DEF_VAR", s.sid)
             l == IF Tok(d) = "!" THEN Emit(TakeAny(Adv(d)), "HARD_LOCK", s.sid) ELSE d
             b == Adv(l)
             r == IF Tok(l) # "[" THEN l
                  ELSE IF Tok(b) = "]" THEN Emit(Adv(b), "EXPR", s.sid)
                  ELSE Emit(Consume(Raw(b), "]"), "EXPR", s.sid)
             c == IF Tok(r) = "=" THEN Expression(Adv(r), s.sid) ELSE r
  <2>1. At("variable") /\ Leads(cur, cur) /\ Then(c, <<>>)
    BY <1>1, OnTop DEF Variable
  <2>2. Leads(cur, a)
    BY <1>0, <2>1, LeadsUtil
  <2> HIDE DEF a
  <2>3. Leads(cur, s) /\ s.sid \in Ids(s)
    BY <2>2, Declares, KindIsPrefix
  <2> HIDE DEF s
  <2>4. Leads(s, s)
    BY <2>3, LeadsSelf DEF Leads
  <2>5. Leads(s, d)
    BY <2>3, <2>4, LeadsEmit, Neutrals
  <2> HIDE DEF d
  <2>6. Leads(s, l)
    BY <1>0, <2>3, <2>5, LeadsUtil, KeepsId, LeadsEmit, Neutrals
  <2> HIDE DEF l
  <2>7. Leads(s, b) /\ Leads(s, Adv(b)) /\ Leads(s, Consume(Raw(b), "]"))
    BY <1>0, <2>6, LeadsUtil
  <2> HIDE DEF b
  <2>8. Leads(s, r)
    BY <2>3, <2>6, <2>7, KeepsId, LeadsEmit, Neutrals
  <2> HIDE DEF r
  <2>9. Leads(s, Adv(r)) /\ s.sid \in Ids(Adv(r))
    BY <1>0, <2>3, <2>8, LeadsUtil, KeepsId
  <2>10. Leads(s, c)
    BY <1>0, <2>8, <2>9, LeadsExpression
  <2> HIDE DEF c
  <2>11. Leads(cur, c)
    BY <2>3, <2>10, LeadsOver
  <2> QED  BY <2>1, <2>11, On, CalmThen DEF Calm, Acting
<1>2. CASE Constant
  <2> DEFINE a == Consume(Adv(cur), "id")
             s == AddSymbol(a, CONST, Val(Adv(cur)))
             e == Expression(Consume(s, "="), s.sid)
             c == Emit(e, "DEF_VAR", s.sid)
  <2>1. At("constant") /\ Leads(cur, cur) /\ Then(c, <<>>)
    BY <1>2, OnTop DEF Constant
  <2>2. Leads(cur, a)
    BY <1>0, <2>1, LeadsUtil
  <2> HIDE DEF a
  <2>3. Leads(cur, s) /\ s.sid \in Ids(s)
    BY <2>2, Declares, KindIsPrefix
  <2> HIDE DEF s
  <2>4. Leads(s, s)
    BY <2>3, LeadsSelf DEF Leads
  <2>5. Leads(s, Consume(s, "=")) /\ s.sid \in Ids(Consume(s, "="))
    BY <1>0, <2>3, <2>4, LeadsUtil, KeepsId
  <2>6. Leads(s, e) /\ s.sid \in Ids(e)
    BY <1>0, <2>3, <2>5, LeadsExpression, KeepsId
  <2> HIDE DEF e
  <2>7. Leads(cur, c)
    BY <2>3, <2>6, LeadsEmit, Neutrals, LeadsOver
  <2> HIDE DEF c
  <2> QED  BY <2>1, <2>7, On, CalmThen DEF Calm, Acting
<1>3. CASE Params
  <2> DEFINE a == TakeAny(cur)
             l == IF Tok(a) = "!" THEN TakeAny(Adv(a)) ELSE a
             s == AddSymbol(l, VAR, Val(cur))
             d == Emit(s, "DEF_VAR", s.sid)
             e == [d EXCEPT !.params = @ \union {s.sid}]
  <2>1. At("params") /\ Leads(cur, cur) /\ Calm("params")
        /\ (Then(cur, <<>>) \/ Again(Adv(e), <<>>) \/ Then(e, <<>>))
    BY <1>3, OnTop DEF Params, Calm, Acting
  <2>2. Leads(cur, a) /\ Leads(cur, TakeAny(Adv(a)))
    BY <1>0, <2>1, LeadsUtil
  <2> HIDE DEF a
  <2>3. Leads(cur, l)
    BY <2>2
  <2> HIDE DEF l
  <2>4. Leads(cur, d)
    BY <2>3, Declares, KindIsPrefix, Neutrals
  <2> HIDE DEF d
  <2>5. Leads(cur, e)
    BY <2>4, LeadsParams
  <2> HIDE DEF e
  <2>6. Leads(cur, Adv(e))
    BY <1>0, <2>5, LeadsUtil
  <2>7. Even(<<>>, Len(cur.syms)) /\ Even(<<>>, Len(e.syms)) /\ Even(<<>>, Len(Adv(e).syms))
    BY <2>1, <2>5, <2>6, On
  <2> QED  BY <2>1, <2>5, <2>6, <2>7, CalmThen, CalmAgain
<1>4. CASE Lambda
  <2> DEFINE c == Adv(cur)
  <2>1. At("function") /\ Leads(cur, cur) /\ Then(c, Append(ParamList, F("lambdabody")))
    BY <1>4, OnTop DEF Lambda
  <2>2. Leads(cur, c)
    BY <1>0, <2>1, LeadsUtil
  <2> HIDE DEF c
  <2>3. Even(ParamList, Len(c.syms)) /\ EvenFrame(F("lambdabody"), Len(c.syms))
    BY <2>2, ParamListEven, On
  <2>4. Even(Append(ParamList, F("lambdabody")), Len(c.syms))
    BY <2>3, EvenAppend
  <2> QED  BY <2>1, <2>2, <2>4, CalmThen DEF Calm, Acting
<1>5. CASE LambdaBody
  <2> DEFINE c == IF Tok(cur) \in SingleLine THEN Expression(Adv(cur), 0) ELSE cur
             k == IF Tok(cur) \in SingleLine THEN <<>> ELSE <<F("block")>>
             e == <<FEmit("DEF_LAMBDA", 0)>>
  <2>1. At("lambdabody") /\ Leads(cur, cur) /\ Then(c, k \o e)
    BY <1>5, OnTop DEF LambdaBody
  <2>2. Leads(cur, Adv(cur)) /\ 0 \in Ids(Adv(cur))
    BY <1>0, <2>1, LeadsUtil, LeadsZero
  <2>3. Leads(cur, c)
    BY <1>0, <2>1, <2>2, LeadsExpression
  <2> HIDE DEF c
  <2>4. Even(k, Len(c.syms)) /\ Even(e, Len(c.syms))
    BY <2>3, On, OnEmit, LeadsZero, Neutrals
  <2> HIDE DEF k, e
  <2>5. Even(k \o e, Len(c.syms))
    BY <2>4, EvenConcat
  <2> QED  BY <2>1, <2>3, <2>5, CalmThen DEF Calm, Acting
<1> QED  BY <1>1, <1>2, <1>3, <1>4, <1>5

LEMMA OpensCloser ==
  ASSUME NEW b, NEW c, NEW op \in DOMAIN CloserOf, Opens(b, c, op), NEW x \in Ids(c)
  PROVE  /\ FrameOk(FEmit(CloserOf[op], x), Len(c.syms))
         /\ FEmit(CloserOf[op], x).op = CloserOf[op]
<1>1. Len(c.syms) \in Nat
  BY DEF Opens, Good, IsSeq
<1> QED  BY <1>1, Emits DEF Ids

LEMMA ShutsEven ==
  ASSUME NEW n, NEW a, NEW b, NEW op, Shuts(a, n, op), Even(b, n) PROVE Shuts(a \o b, n, op)
<1>1. IsStack(a, n) /\ IsStack(b, n)
  BY DEF Even, Shuts
<1>2. IsStack(a \o b, n)
  BY <1>1, StackConcat
<1>3. ASSUME NEW open \in Due PROVE After(Opened(open, op), Ops(a \o b)) = open
  <2>1. After(Opened(open, op), Ops(a \o b)) = After(After(Opened(open, op), Ops(a)), Ops(b))
    BY <1>1, AfterStacks
  <2> QED  BY <2>1 DEF Even, Shuts
<1> QED  BY <1>2, <1>3 DEF Shuts

LEMMA Functions ==
  ASSUME FrontInv, tokens' = tokens, Function \/ FunctionBody \/ ExternFunction \/ ExternType
  PROVE  FrontInv'
<1>0. Source
  BY DEF FrontInv
<1>1. CASE Function
  <2> DEFINE a == Consume(Adv(cur), "id")
             s == AddSymbol(a, FUNC, Val(Adv(cur)))
             c == Emit(s, "DEF_FUNC", s.sid)
             f == FSid("functionbody", s.sid)
             h == FEmit("END_FUNC", s.sid)
  <2>1. At("function") /\ Leads(cur, cur) /\ Then(c, ParamList \o <<f, h>>)
    BY <1>1, OnTop DEF Function
  <2>2. Leads(cur, a)
    BY <1>0, <2>1, LeadsUtil
  <2> HIDE DEF a
  <2>3. Opens(cur, c, "DEF_FUNC") /\ s.sid \in Ids(c)
    BY <2>2, Declares, KindIsPrefix
  <2> HIDE DEF c, s
  <2>4. "DEF_FUNC" \in DOMAIN CloserOf /\ CloserOf["DEF_FUNC"] = "END_FUNC" /\ Leads(c, c)
    BY <2>3, OpClosers, OpensGood
  <2>5. /\ EvenFrame(f, Len(c.syms)) /\ Even(ParamList, Len(c.syms))
        /\ FrameOk(h, Len(c.syms)) /\ h.op = CloserOf["DEF_FUNC"]
    BY <2>3, <2>4, OnSid, OpensCloser, ParamListEven
  <2> HIDE DEF f, h
  <2>6. Shuts(ParamList \o <<f, h>>, Len(c.syms), "DEF_FUNC")
    BY <2>4, <2>5, ShutsPair, ShutsConcat
  <2> QED  BY <2>1, <2>3, <2>6, OpenThen DEF Calm, Acting
<1>2. CASE FunctionBody
  <2> DEFINE b == TakeAny(Adv(cur))
             r == IF Tok(cur) = "!" THEN Emit(b, "EXPR", 0) ELSE cur
             e == Expression(Adv(r), Sid)
             c == Semicolon(Emit(e, "RETURN_VAL", Sid))
  <2>1. At("functionbody") /\ Calm("functionbody") /\ Leads(cur, cur) /\ Sid \in Ids(cur)
        /\ (Then(c, <<>>) \/ Then(r, <<F("block")>>))
    BY <1>2, OnTop DEF FunctionBody, Calm, Acting
  <2>2. Leads(cur, b)
    BY <1>0, <2>1, LeadsUtil
  <2> HIDE DEF b
  <2>3. Leads(cur, r)
    BY <2>1, <2>2, LeadsEmit, LeadsZero, Neutrals
  <2> HIDE DEF r
  <2>4. Leads(cur, Adv(r)) /\ Sid \in Ids(Adv(r))
    BY <1>0, <2>1, <2>3, LeadsUtil, KeepsId
  <2>5. Leads(cur, e) /\ Sid \in Ids(e)
    BY <1>0, <2>1, <2>4, LeadsExpression, KeepsId
  <2> HIDE DEF e
  <2>6. Leads(cur, Emit(e, "RETURN_VAL", Sid))
    BY <2>5, LeadsEmit, Neutrals
  <2>7. Leads(cur, c)
    BY <1>0, <2>6, LeadsUtil
  <2> HIDE DEF c
  <2>8. Even(<<>>, Len(c.syms)) /\ Even(<<F("block")>>, Len(r.syms))
    BY <2>3, <2>7, On
  <2> QED  BY <2>1, <2>3, <2>7, <2>8, CalmThen
<1>3. CASE ExternFunction
  <2> DEFINE a == Consume(Adv(cur), "id")
             s == AddSymbol(a, EXTERN, Val(Adv(cur)))
             c == Emit(s, "DEF_EXTERN", s.sid)
             f == F("externtype")
             g == F("semi")
             h == FEmit("END_FUNC", s.sid)
  <2>1. At("extern") /\ Leads(cur, cur) /\ Then(c, ParamList \o <<f, g, h>>)
    BY <1>3, OnTop DEF ExternFunction
  <2>2. Leads(cur, a)
    BY <1>0, <2>1, LeadsUtil
  <2> HIDE DEF a
  <2>3. Opens(cur, c, "DEF_EXTERN") /\ s.sid \in Ids(c)
    BY <2>2, Declares, KindIsPrefix
  <2> HIDE DEF c, s
  <2>4. "DEF_EXTERN" \in DOMAIN CloserOf /\ CloserOf["DEF_EXTERN"] = "END_FUNC" /\ Leads(c, c)
    BY <2>3, OpClosers, OpensGood
  <2>5. /\ EvenFrame(f, Len(c.syms)) /\ EvenFrame(g, Len(c.syms)) /\ Even(ParamList, Len(c.syms))
        /\ FrameOk(h, Len(c.syms)) /\ h.op = CloserOf["DEF_EXTERN"]
    BY <2>3, <2>4, On, OpensCloser, ParamListEven
  <2> HIDE DEF f, g, h
  <2>6. Shuts(ParamList \o <<f, g, h>>, Len(c.syms), "DEF_EXTERN")
    BY <2>4, <2>5, ShutsTriple, ShutsConcat
  <2> QED  BY <2>1, <2>3, <2>6, OpenThen DEF Calm, Acting
<1>4. CASE ExternType
  <2> DEFINE c == IF Tok(cur) = "!" THEN TakeAny(Adv(cur)) ELSE cur
  <2>1. At("externtype") /\ Leads(cur, cur) /\ Then(c, <<>>)
    BY <1>4, OnTop DEF ExternType
  <2>2. Leads(cur, c)
    BY <1>0, <2>1, LeadsUtil
  <2> HIDE DEF c
  <2> QED  BY <2>1, <2>2, On, CalmThen DEF Calm, Acting
<1> QED  BY <1>1, <1>2, <1>3, <1>4

LEMMA Types ==
  ASSUME FrontInv, tokens' = tokens,
         Group \/ Members \/ TypeInGroup \/ TypeDefinition \/ TypeBlock \/ Fields \/ Separator
  PROVE  FrontInv'
<1>0. Source
  BY DEF FrontInv
<1>1. CASE Group
  <2> DEFINE a == Match(cur, "group")
             b == IF Tok(a) = "{" THEN a ELSE TakeAny(a)
             name == IF Tok(a) = "{" THEN <<"">> ELSE Val(a)
             s == AddSymbol(b, GROUP, name)
             d == Emit(s, "DEF_GROUP", s.sid)
             c == Consume(d, "{")
             f == FPath("members", name)
             g == FExpect("}")
             h == FEmit("END_TYPEDEF", s.sid)
  <2>1. At("group") /\ Leads(cur, cur) /\ Then(c, <<f, g, h>>)
    BY <1>1, OnTop DEF Group
  <2>2. Leads(cur, a) /\ Leads(cur, TakeAny(a))
    BY <1>0, <2>1, LeadsUtil
  <2> HIDE DEF a, name
  <2>3. Leads(cur, b)
    BY <2>2
  <2> HIDE DEF b
  <2>4. Opens(cur, d, "DEF_GROUP") /\ s.sid \in Ids(d)
    BY <2>3, Declares, KindIsPrefix
  <2> HIDE DEF d, s
  <2>5. Opens(cur, c, "DEF_GROUP") /\ s.sid \in Ids(c)
    BY <1>0, <2>4, OpensConsume
  <2> HIDE DEF c
  <2>6. "DEF_GROUP" \in DOMAIN CloserOf /\ CloserOf["DEF_GROUP"] = "END_TYPEDEF" /\ Leads(c, c)
    BY <2>5, OpClosers, OpensGood
  <2>7. /\ EvenFrame(f, Len(c.syms)) /\ EvenFrame(g, Len(c.syms))
        /\ FrameOk(h, Len(c.syms)) /\ h.op = CloserOf["DEF_GROUP"]
    BY <2>5, <2>6, OnPath, OnExpect, Neutrals, OpensCloser
  <2> HIDE DEF f, g, h
  <2>8. Shuts(<<f, g, h>>, Len(c.syms), "DEF_GROUP")
    BY <2>6, <2>7, ShutsTriple
  <2> QED  BY <2>1, <2>5, <2>8, OpenThen DEF Calm, Acting
<1>2. CASE Members
  <2> DEFINE d == Emit(Adv(cur), "EXPR", 0)
             fn == IF Tok(cur) \in {"nt:", "struct"} THEN "typeingroup" ELSE "member"
             f == FPath(fn, Path)
  <2>1. At("members") /\ Calm("members") /\ Leads(cur, cur)
        /\ (Then(cur, <<>>) \/ Again(d, Frames(<<"block">>)) \/ Again(cur, <<f>>))
    BY <1>2, OnTop DEF Members, Calm, Acting
  <2>2. Leads(cur, Adv(cur)) /\ 0 \in Ids(Adv(cur))
    BY <1>0, <2>1, LeadsUtil, LeadsZero
  <2>3. Leads(cur, d)
    BY <2>2, LeadsEmit, Neutrals
  <2>4. fn # "lex"
    OBVIOUS
  <2> HIDE DEF d, fn
  <2>5. Even(<<>>, Len(cur.syms)) /\ Even(Frames(<<"block">>), Len(d.syms)) /\ Even(<<f>>, Len(cur.syms))
    BY <2>1, <2>3, <2>4, On, OnCall, OnPath
  <2> HIDE DEF f
  <2> QED  BY <2>1, <2>3, <2>5, CalmThen, CalmAgain
<1>3. CASE TypeInGroup
  <2> DEFINE a == Adv(cur)
             b == TakeAny(a)
             s == AddSymbol(b, NT, Path \o <<".">> \o Val(a))
             c == Emit(s, "DEF_STRUCT", s.sid)
             f == F("typeblock")
             h == FEmit("END_TYPEDEF", s.sid)
  <2>1. At("typeingroup") /\ Leads(cur, cur) /\ Then(c, <<f, h>>)
    BY <1>3, OnTop DEF TypeInGroup
  <2>2. Leads(cur, b)
    BY <1>0, <2>1, LeadsUtil
  <2> HIDE DEF b
  <2>3. Opens(cur, c, "DEF_STRUCT") /\ s.sid \in Ids(c)
    BY <2>2, Declares, KindIsPrefix
  <2> HIDE DEF c, s
  <2>4. "DEF_STRUCT" \in DOMAIN CloserOf /\ CloserOf["DEF_STRUCT"] = "END_TYPEDEF" /\ Leads(c, c)
    BY <2>3, OpClosers, OpensGood
  <2>5. /\ EvenFrame(f, Len(c.syms)) /\ FrameOk(h, Len(c.syms)) /\ h.op = CloserOf["DEF_STRUCT"]
    BY <2>3, <2>4, On, OpensCloser
  <2> HIDE DEF f, h
  <2>6. Shuts(<<f, h>>, Len(c.syms), "DEF_STRUCT")
    BY <2>4, <2>5, ShutsPair
  <2> QED  BY <2>1, <2>3, <2>6, OpenThen DEF Calm, Acting
<1>4. CASE TypeDefinition
  <2> DEFINE isNT == Tok(cur) = "nt:"
             a == Adv(cur)
             b == TakeAny(a)
             n == IF ~isNT THEN a
                  ELSE IF Tok(b) = ":" THEN TakeAny(Adv(b))
                  ELSE IF Head(Val(a)) \in WithColon THEN b ELSE a
             s == AddSymbol(TakeAny(n), NT, Val(n))
             op == IF isNT THEN "DEF_NEWTYPE" ELSE "DEF_STRUCT"
             c == Emit(s, op, s.sid)
             f == <<F("typeblock")>>
             g == IF isNT THEN <<F("semi")>> ELSE <<>>
             h == FEmit("END_TYPEDEF", s.sid)
  <2>1. At("typedef") /\ Leads(cur, cur) /\ Then(c, f \o g \o <<h>>)
    BY <1>4, OnTop DEF TypeDefinition
  <2>2. op \in DOMAIN CloserOf /\ CloserOf[op] = "END_TYPEDEF"
    BY OpClosers
  <2>3. Leads(cur, a) /\ Leads(cur, b) /\ Leads(cur, TakeAny(Adv(b)))
    BY <1>0, <2>1, LeadsUtil
  <2> HIDE DEF a, b, op
  <2>4. Leads(cur, n)
    <3> HIDE DEF isNT
    <3> QED  BY <2>3
  <2> HIDE DEF n
  <2>5. Leads(cur, TakeAny(n))
    BY <1>0, <2>4, LeadsUtil
  <2>6. Opens(cur, c, op) /\ s.sid \in Ids(c)
    BY <2>5, Declares, KindIsPrefix
  <2> HIDE DEF c, s
  <2>7. Leads(c, c)
    BY <2>6, OpensGood
  <2>8. /\ Even(f, Len(c.syms)) /\ Even(g, Len(c.syms))
        /\ FrameOk(h, Len(c.syms)) /\ h.op = CloserOf[op]
    <3> HIDE DEF isNT
    <3>1. Even(f, Len(c.syms)) /\ Even(g, Len(c.syms))
      BY <2>7, On
    <3>2. FrameOk(h, Len(c.syms)) /\ h.op = CloserOf[op]
      BY <2>2, <2>6, OpensCloser
    <3> QED  BY <3>1, <3>2
  <2> HIDE DEF f, g, h
  <2>9. Shuts(<<h>>, Len(c.syms), op) /\ Even(f \o g, Len(c.syms))
    BY <2>2, <2>8, ShutsOne, EvenConcat
  <2>10. Shuts(f \o g \o <<h>>, Len(c.syms), op)
    BY <2>9, ShutsConcat
  <2> QED  BY <2>1, <2>6, <2>10, OpenThen DEF Calm, Acting
<1>5. CASE TypeBlock
  <2> DEFINE c == Consume(cur, "{")
             f == F("fields")
             g == FExpect("}")
  <2>1. At("typeblock") /\ Leads(cur, cur) /\ Then(c, <<f, g>>)
    BY <1>5, OnTop DEF TypeBlock
  <2>2. Leads(cur, c)
    BY <1>0, <2>1, LeadsUtil
  <2> HIDE DEF c
  <2>3. EvenFrame(f, Len(c.syms)) /\ EvenFrame(g, Len(c.syms))
    BY <2>2, On, OnExpect, Neutrals
  <2> HIDE DEF f, g
  <2> QED  BY <2>1, <2>2, <2>3, Evens, CalmThen DEF Calm, Acting
<1>6. CASE Fields
  <2>1. At("fields") /\ Calm("fields") /\ Leads(cur, cur)
        /\ (Then(cur, <<>>) \/ Again(cur, Frames(<<"variable", "separator">>)) \/ Again(Adv(cur), <<>>))
    BY <1>6, OnTop DEF Fields, Calm, Acting
  <2>2. Leads(cur, Adv(cur))
    BY <1>0, <2>1, LeadsUtil
  <2>3. /\ Even(<<>>, Len(cur.syms)) /\ Even(<<>>, Len(Adv(cur).syms))
        /\ Even(Frames(<<"variable", "separator">>), Len(cur.syms))
    BY <2>1, <2>2, On, OnCalls
  <2> QED  BY <2>1, <2>2, <2>3, CalmThen, CalmAgain
<1>7. CASE Separator
  <2> DEFINE c == IF Tok(cur) \in {",", ";"} THEN Adv(cur) ELSE cur
  <2>1. At("separator") /\ Leads(cur, cur) /\ Then(c, <<>>)
    BY <1>7, OnTop DEF Separator
  <2>2. Leads(cur, c)
    BY <1>0, <2>1, LeadsUtil
  <2> HIDE DEF c
  <2> QED  BY <2>1, <2>2, On, CalmThen DEF Calm, Acting
<1> QED  BY <1>1, <1>2, <1>3, <1>4, <1>5, <1>6, <1>7

LEMMA MemberKeeps == ASSUME FrontInv, tokens' = tokens, GroupMember PROVE FrontInv'
<1> DEFINE path == Path \o <<".">> \o Val(cur)
           c == Consume(Consume(cur, "id"), "=>")
           s == AddSymbol(Adv(c), FUNC, path)
           d == Emit(s, "DEF_FUNC", s.sid)
           e == Semicolon(Expression(c, 0))
           end == FEmit("GROUP_MEMBER", 0)
           f == F("block")
           h == FEmit("END_FUNC", s.sid)
<1>0. Source
  BY DEF FrontInv
<1>1. At("member") /\ Calm("member") /\ Leads(cur, cur)
      /\ (Then(d, ParamList \o <<f, h, end>>) \/ Then(c, <<f, end>>) \/ Then(e, <<end>>))
  BY OnTop DEF GroupMember, Calm, Acting
<1>2. Leads(cur, c) /\ Leads(cur, Adv(c))
  BY <1>0, <1>1, LeadsUtil
<1> HIDE DEF c, path
<1>3. Leads(cur, e)
  <2>1. Leads(cur, Expression(c, 0))
    BY <1>0, <1>2, LeadsZero, LeadsExpression
  <2> QED  BY <1>0, <2>1, LeadsUtil
<1>4. Opens(cur, d, "DEF_FUNC") /\ s.sid \in Ids(d)
  BY <1>2, Declares, KindIsPrefix
<1> HIDE DEF d, e, s
<1>5. "DEF_FUNC" \in DOMAIN CloserOf /\ CloserOf["DEF_FUNC"] = "END_FUNC" /\ Leads(d, d)
  BY <1>4, OpClosers, OpensGood
<1>6. /\ EvenFrame(f, Len(d.syms)) /\ EvenFrame(f, Len(c.syms)) /\ Even(ParamList, Len(d.syms))
      /\ EvenFrame(end, Len(c.syms)) /\ Even(<<end>>, Len(d.syms)) /\ Even(<<end>>, Len(e.syms))
      /\ FrameOk(h, Len(d.syms)) /\ h.op = CloserOf["DEF_FUNC"]
  <2>1. EvenFrame(f, Len(d.syms)) /\ EvenFrame(f, Len(c.syms)) /\ Even(ParamList, Len(d.syms))
    BY <1>2, <1>5, On, ParamListEven
  <2>2. EvenFrame(end, Len(c.syms)) /\ Even(<<end>>, Len(d.syms)) /\ Even(<<end>>, Len(e.syms))
    BY <1>2, <1>3, <1>5, OnEmit, LeadsZero, Neutrals
  <2>3. FrameOk(h, Len(d.syms)) /\ h.op = CloserOf["DEF_FUNC"]
    BY <1>4, <1>5, OpensCloser
  <2> QED  BY <2>1, <2>2, <2>3
<1> HIDE DEF f, h, end
<1>7. CASE Then(d, ParamList \o <<f, h, end>>)
  <2> DEFINE a == <<f, h>>
             b == <<end>>
  <2>1. <<f, h, end>> = a \o b
    OBVIOUS
  <2>2. Shuts(a, Len(d.syms), "DEF_FUNC")
    BY <1>5, <1>6, ShutsPair
  <2>3. Even(b, Len(d.syms))
    BY <1>6
  <2> HIDE DEF a, b
  <2>4. Shuts(a \o b, Len(d.syms), "DEF_FUNC")
    BY <2>2, <2>3, ShutsEven
  <2>5. Shuts(ParamList \o <<f, h, end>>, Len(d.syms), "DEF_FUNC")
    BY <1>6, <2>1, <2>4, ShutsConcat
  <2> QED  BY <1>1, <1>4, <1>7, <2>5, OpenThen
<1>8. CASE Then(c, <<f, end>>)
  BY <1>1, <1>2, <1>6, <1>8, Evens, CalmThen
<1>9. CASE Then(e, <<end>>)
  BY <1>1, <1>3, <1>6, <1>9, CalmThen
<1> QED  BY <1>1, <1>7, <1>8, <1>9

(* What an if puts on the stack closes what it opens.                      *)
LEMMA ConditionEven ==
  ASSUME NEW b, NEW c, Leads(b, c) PROVE Even(Condition, Len(c.syms))
<1> DEFINE f == FExpect("(")
           g == F("rawtocomma")
           h == FExpect(")")
<1>1. EvenFrame(f, Len(c.syms)) /\ EvenFrame(g, Len(c.syms)) /\ EvenFrame(h, Len(c.syms))
  BY On, OnExpect, Neutrals
<1>2. Condition = <<f, g, h>>
  BY DEF Condition
<1> HIDE DEF f, g, h
<1> QED  BY <1>1, <1>2, Evens

LEMMA BranchEven ==
  ASSUME NEW b, NEW c, Leads(b, c), NEW op \in {"IF_BEGIN", "ELSIF_BEGIN", "ELS_BEGIN"}
  PROVE  Even(Branch(op), Len(c.syms))
<1> DEFINE n == Len(c.syms)
           f == FEmit(op, 0)
           g == F("body")
           h == FEmit("IF_END", 0)
<1>1. n \in Nat /\ EvenFrame(g, n)
  BY On
<1>2. op \in DOMAIN CloserOf /\ CloserOf[op] = "IF_END"
  BY OpClosers
<1>3. FrameOk(f, n) /\ f.op = op /\ FrameOk(h, n) /\ h.op = CloserOf[op]
  <2>1. 0 \in 0..n
    BY <1>1
  <2> HIDE DEF n
  <2> QED  BY <1>1, <1>2, <2>1, Emits
<1>4. Branch(op) = <<f>> \o <<g, h>>
  BY DEF Branch
<1> HIDE DEF f, g, h, n
<1>5. Shuts(<<g, h>>, n, f.op)
  BY <1>1, <1>2, <1>3, ShutsPair
<1>6. Even(<<f>> \o <<g, h>>, n)
  BY <1>3, <1>5, EvenPair
<1> QED  BY <1>4, <1>6 DEF n

LEMMA Branching ==
  ASSUME FrontInv, tokens' = tokens, If \/ Else \/ Branches \/ Patterns
  PROVE  FrontInv'
<1>0. Source
  BY DEF FrontInv
<1>1. CASE If
  <2> DEFINE c == Adv(cur)
             e == <<F("else")>>
             k == Condition \o Branch("IF_BEGIN")
  <2>1. At("if") /\ Leads(cur, cur) /\ Then(c, k \o e)
    BY <1>1, OnTop DEF If
  <2>2. Leads(cur, c)
    BY <1>0, <2>1, LeadsUtil
  <2> HIDE DEF c
  <2>3. Even(Condition, Len(c.syms)) /\ Even(Branch("IF_BEGIN"), Len(c.syms)) /\ Even(e, Len(c.syms))
    BY <2>2, ConditionEven, BranchEven, On
  <2> HIDE DEF e
  <2>4. Even(k, Len(c.syms))
    BY <2>3, EvenConcat
  <2> HIDE DEF k
  <2>5. Even(k \o e, Len(c.syms))
    BY <2>3, <2>4, EvenConcat
  <2> QED  BY <2>1, <2>2, <2>5, CalmThen DEF Calm, Acting
<1>2. CASE Else
  <2> DEFINE c == Adv(cur)
             k == Condition \o Branch("ELSIF_BEGIN")
  <2>1. At("else") /\ Calm("else") /\ Leads(cur, cur)
        /\ (Again(c, k) \/ Then(c, Branch("ELS_BEGIN")) \/ Then(cur, <<>>))
    BY <1>2, OnTop DEF Else, Calm, Acting
  <2>2. Leads(cur, c)
    BY <1>0, <2>1, LeadsUtil
  <2> HIDE DEF c
  <2>3. /\ Even(Condition, Len(c.syms)) /\ Even(Branch("ELSIF_BEGIN"), Len(c.syms))
        /\ Even(Branch("ELS_BEGIN"), Len(c.syms)) /\ Even(<<>>, Len(cur.syms))
    BY <2>1, <2>2, ConditionEven, BranchEven, On
  <2>4. Even(k, Len(c.syms))
    BY <2>3, EvenConcat
  <2> HIDE DEF k
  <2> QED  BY <2>1, <2>2, <2>3, <2>4, CalmThen, CalmAgain
<1>3. CASE Branches
  <2> DEFINE a == Consume(Adv(cur), "->")
             c == Emit(a, "SEL_BRANCH", 0)
  <2>1. At("branches") /\ Calm("branches") /\ Leads(cur, cur)
        /\ (Then(cur, <<>>) \/ Again(c, Frames(<<"block">>)))
    BY <1>3, OnTop DEF Branches, Calm, Acting
  <2>2. Leads(cur, a)
    BY <1>0, <2>1, LeadsUtil
  <2> HIDE DEF a
  <2>3. Leads(cur, c)
    BY <2>2, LeadsEmit, LeadsZero, Neutrals
  <2> HIDE DEF c
  <2>4. Even(<<>>, Len(cur.syms)) /\ Even(Frames(<<"block">>), Len(c.syms))
    BY <2>1, <2>3, On, OnCall
  <2> QED  BY <2>1, <2>3, <2>4, CalmThen, CalmAgain
<1>4. CASE Patterns
  <2> DEFINE a == Consume(Raw(cur), "->")
             c == Emit(a, "SCAN_PATTERN", 0)
  <2>1. At("patterns") /\ Calm("patterns") /\ Leads(cur, cur)
        /\ (Then(cur, <<>>) \/ Again(c, Frames(<<"block">>)))
    BY <1>4, OnTop DEF Patterns, Calm, Acting
  <2>2. Leads(cur, a)
    BY <1>0, <2>1, LeadsUtil
  <2> HIDE DEF a
  <2>3. Leads(cur, c)
    BY <2>2, LeadsEmit, LeadsZero, Neutrals
  <2> HIDE DEF c
  <2>4. Even(<<>>, Len(cur.syms)) /\ Even(Frames(<<"block">>), Len(c.syms))
    BY <2>1, <2>3, On, OnCall
  <2> QED  BY <2>1, <2>3, <2>4, CalmThen, CalmAgain
<1> QED  BY <1>1, <1>2, <1>3, <1>4

(* select and scan: a list of arms between what opens and what closes.     *)
LEMMA ArmsShut ==
  ASSUME NEW b, NEW c, NEW op \in DOMAIN CloserOf, Opens(b, c, op), NEW fn, fn # "lex"
  PROVE  Shuts(<<F(fn), FExpect("}"), FEmit(CloserOf[op], 0)>>, Len(c.syms), op)
<1> DEFINE f == F(fn)
           g == FExpect("}")
           h == FEmit(CloserOf[op], 0)
<1>1. Leads(c, c)
  BY OpensGood
<1>2. 0 \in Ids(c)
  BY <1>1, LeadsZero
<1>3. EvenFrame(f, Len(c.syms)) /\ EvenFrame(g, Len(c.syms))
  BY <1>1, On, OnExpect, Neutrals
<1>4. FrameOk(h, Len(c.syms)) /\ h.op = CloserOf[op]
  BY <1>2, OpensCloser
<1> HIDE DEF f, g, h
<1>5. Shuts(<<f, g, h>>, Len(c.syms), op)
  BY <1>3, <1>4, ShutsTriple
<1> QED  BY <1>5 DEF f, g, h

LEMMA Choosing == ASSUME FrontInv, tokens' = tokens, Select \/ Scan PROVE FrontInv'
<1>0. Source
  BY DEF FrontInv
<1>1. CASE Select
  <2> DEFINE a == TakeAny(Adv(cur))
             d == Emit(a, "SEL_BEGIN", 0)
             c == Consume(d, "{")
             fs == <<F("branches"), FExpect("}"), FEmit("SEL_END", 0)>>
  <2>1. At("select") /\ Leads(cur, cur) /\ Then(c, fs)
    BY <1>1, OnTop DEF Select
  <2>2. Leads(cur, a)
    BY <1>0, <2>1, LeadsUtil
  <2> HIDE DEF a
  <2>3. Opens(cur, d, "SEL_BEGIN")
    BY <2>2, LeadsZero, OpensEmit
  <2> HIDE DEF d
  <2>4. Opens(cur, c, "SEL_BEGIN")
    BY <1>0, <2>3, OpensConsume
  <2> HIDE DEF c
  <2>5. Shuts(fs, Len(c.syms), "SEL_BEGIN")
    BY <2>4, OpClosers, ArmsShut
  <2> QED  BY <2>1, <2>4, <2>5, OpenThen DEF Calm, Acting
<1>2. CASE Scan
  <2> DEFINE a == TakeAny(Adv(cur))
             d == Emit(a, "SCAN_BEGIN", 0)
             c == Consume(d, "{")
             fs == <<F("patterns"), FExpect("}"), FEmit("SCAN_END", 0)>>
  <2>1. At("scan") /\ Leads(cur, cur) /\ Then(c, fs)
    BY <1>2, OnTop DEF Scan
  <2>2. Leads(cur, a)
    BY <1>0, <2>1, LeadsUtil
  <2> HIDE DEF a
  <2>3. Opens(cur, d, "SCAN_BEGIN")
    BY <2>2, LeadsZero, OpensEmit
  <2> HIDE DEF d
  <2>4. Opens(cur, c, "SCAN_BEGIN")
    BY <1>0, <2>3, OpensConsume
  <2> HIDE DEF c
  <2>5. Shuts(fs, Len(c.syms), "SCAN_BEGIN")
    BY <2>4, OpClosers, ArmsShut
  <2> QED  BY <2>1, <2>4, <2>5, OpenThen DEF Calm, Acting
<1> QED  BY <1>1, <1>2

LEMMA Ruling ==
  ASSUME FrontInv, tokens' = tokens, Rules \/ RuleParams \/ RuleBegin \/ ApplyRules \/ OnRule
  PROVE  FrontInv'
<1>0. Source
  BY DEF FrontInv
<1>1. CASE Rules
  <2> DEFINE a == Match(Adv(cur), "id")
             c == Match(a, "(")
             f == IF Tok(a) = "(" THEN <<F("ruleparams"), FExpect(")")>> ELSE <<>>
             g == Frames(<<"rulebegin", "ruleitems">>)
             h == <<FExpect("}"), FEmit("EXPR", 0)>>
  <2>1. At("rules") /\ Leads(cur, cur) /\ Then(c, f \o g \o h)
    BY <1>1, OnTop DEF Rules
  <2>2. Leads(cur, c)
    BY <1>0, <2>1, LeadsUtil
  <2> HIDE DEF c
  <2>3. Even(<<F("ruleparams"), FExpect(")")>>, Len(c.syms)) /\ Even(<<>>, Len(c.syms))
    <3> DEFINE p == F("ruleparams")
               q == FExpect(")")
    <3>1. EvenFrame(p, Len(c.syms)) /\ EvenFrame(q, Len(c.syms))
      BY <2>2, On, OnExpect, Neutrals
    <3> HIDE DEF p, q
    <3>2. Even(<<p, q>>, Len(c.syms))
      BY <3>1, Evens
    <3> QED  BY <2>2, <3>2, On DEF p, q
  <2>4. Even(f, Len(c.syms))
    <3> HIDE DEF a
    <3> QED  BY <2>3
  <2>5. Even(g, Len(c.syms))
    BY <2>2, OnCalls
  <2>6. Even(h, Len(c.syms))
    <3> DEFINE p == FExpect("}")
               q == FEmit("EXPR", 0)
    <3>1. EvenFrame(p, Len(c.syms)) /\ EvenFrame(q, Len(c.syms))
      BY <2>2, OnExpect, OnEmit, LeadsZero, Neutrals
    <3> HIDE DEF p, q
    <3>2. Even(<<p, q>>, Len(c.syms))
      BY <3>1, Evens
    <3> QED  BY <3>2 DEF p, q
  <2> HIDE DEF f, g, h
  <2>7. Even(f \o g \o h, Len(c.syms))
    BY <2>4, <2>5, <2>6, EvenConcat
  <2> QED  BY <2>1, <2>2, <2>7, CalmThen DEF Calm, Acting
<1>2. CASE RuleParams
  <2> DEFINE c == Match(Adv(cur), ",")
  <2>1. At("ruleparams") /\ Calm("ruleparams") /\ Leads(cur, cur) /\ (Then(cur, <<>>) \/ Again(c, <<>>))
    BY <1>2, OnTop DEF RuleParams, Calm, Acting
  <2>2. Leads(cur, c)
    BY <1>0, <2>1, LeadsUtil
  <2> HIDE DEF c
  <2>3. Even(<<>>, Len(cur.syms)) /\ Even(<<>>, Len(c.syms))
    BY <2>1, <2>2, On
  <2> QED  BY <2>1, <2>2, <2>3, CalmThen, CalmAgain
<1>3. CASE RuleBegin
  <2> DEFINE c == Consume(Emit(cur, "EXPR", 0), "{")
  <2>1. At("rulebegin") /\ Leads(cur, cur) /\ Then(c, <<>>)
    BY <1>3, OnTop DEF RuleBegin
  <2>2. Leads(cur, Emit(cur, "EXPR", 0))
    BY <2>1, LeadsEmit, LeadsZero, Neutrals
  <2>3. Leads(cur, c)
    BY <1>0, <2>2, LeadsUtil
  <2> HIDE DEF c
  <2> QED  BY <2>1, <2>3, On, CalmThen DEF Calm, Acting
<1>4. CASE ApplyRules
  <2> DEFINE a == Adv(cur)
             k == IF Tok(a) \in {"rules", "id"} THEN Adv(a) ELSE a
             d == Consume(TakeAny(Consume(k, "(")), ")")
             c == Emit(d, "APPLY_RULE", 0)
  <2>1. At("apply") /\ Leads(cur, cur) /\ Then(c, <<>>)
    BY <1>4, OnTop DEF ApplyRules
  <2>2. Leads(cur, a)
    BY <1>0, <2>1, LeadsUtil
  <2> HIDE DEF a
  <2>3. Leads(cur, k)
    BY <1>0, <2>2, LeadsUtil
  <2> HIDE DEF k
  <2>4. Leads(cur, d)
    BY <1>0, <2>3, LeadsUtil
  <2> HIDE DEF d
  <2>5. Leads(cur, c)
    BY <2>4, LeadsEmit, LeadsZero, Neutrals
  <2> HIDE DEF c
  <2> QED  BY <2>1, <2>5, On, CalmThen DEF Calm, Acting
<1>5. CASE OnRule
  <2> DEFINE a == Adv(cur)
             n == TakeAny(a)
             s == IF Tok(n) = "."
                  THEN AddSymbol(TakeAny(Adv(n)), RULE, Val(a) \o <<".">> \o Val(Adv(n)))
                  ELSE AddSymbol(n, RULE, Val(a))
             c == Emit(s, "ON_RULE", s.sid)
  <2>1. At("on") /\ Leads(cur, cur) /\ Then(c, Frames(<<"body">>))
    BY <1>5, OnTop DEF OnRule
  <2>2. Leads(cur, n) /\ Leads(cur, TakeAny(Adv(n)))
    BY <1>0, <2>1, LeadsUtil
  <2> HIDE DEF a, n
  <2>3. Leads(cur, s)
    BY <2>2, LeadsAdd, KindIsPrefix
  <2> HIDE DEF s
  <2>4. Leads(cur, c)
    BY <2>3, LeadsEmit, LeadsIds, Neutrals
  <2> HIDE DEF c
  <2> QED  BY <2>1, <2>4, OnCall, CalmThen DEF Calm, Acting
<1> QED  BY <1>1, <1>2, <1>3, <1>4, <1>5

LEMMA Items == ASSUME FrontInv, tokens' = tokens, RuleItems PROVE FrontInv'
<1> DEFINE n == TakeAny(Adv(cur))
           s == AddSymbol(n, RULE, Val(Adv(cur)))
           t == TakeAny(Adv(s))
           c1 == Semicolon(Emit(t, "EXPR", s.sid))
           c2 == Semicolon(Expression(Adv(s), s.sid))
           c3 == Semicolon(Expression(s, s.sid))
           d == Consume(Adv(cur), "->")
           c4 == Semicolon(Expression(d, 0))
<1>0. Source
  BY DEF FrontInv
<1>1. /\ At("ruleitems") /\ Calm("ruleitems") /\ Leads(cur, cur)
      /\ \/ Then(cur, <<>>) \/ Again(c1, <<>>) \/ Again(c2, <<>>) \/ Again(c3, <<>>)
         \/ Again(s, Frames(<<"block", "semi">>)) \/ Again(c4, <<>>) \/ Again(Adv(cur), <<>>)
  <2>1. At("ruleitems") /\ Calm("ruleitems")
    BY DEF RuleItems, Calm, Acting
  <2>2. Leads(cur, cur)
    BY <2>1, OnTop DEF Calm
  <2>3. \/ Then(cur, <<>>) \/ Again(c1, <<>>) \/ Again(c2, <<>>) \/ Again(c3, <<>>)
        \/ Again(s, Frames(<<"block", "semi">>)) \/ Again(c4, <<>>) \/ Again(Adv(cur), <<>>)
    BY DEF RuleItems
  <2> QED  BY <2>1, <2>2, <2>3
<1>2. Leads(cur, n) /\ Leads(cur, d) /\ Leads(cur, Adv(cur))
  BY <1>0, <1>1, LeadsUtil
<1> HIDE DEF n, d
<1>3. Leads(cur, s)
  BY <1>2, LeadsAdd, KindIsPrefix
<1> HIDE DEF s
<1>4. Leads(s, s) /\ s.sid \in Ids(s)
  BY <1>3, LeadsIds, LeadsSelf DEF Leads
<1>5. Leads(s, t) /\ Leads(s, Adv(s))
  BY <1>0, <1>4, LeadsUtil
<1> HIDE DEF t
<1>6. Leads(s, Emit(t, "EXPR", s.sid)) /\ Leads(s, Expression(Adv(s), s.sid))
      /\ Leads(s, Expression(s, s.sid))
  <2>1. s.sid \in Ids(t) /\ s.sid \in Ids(Adv(s))
    BY <1>4, <1>5, KeepsId
  <2>2. Leads(s, Emit(t, "EXPR", s.sid))
    BY <1>5, <2>1, LeadsEmit, Neutrals
  <2> QED  BY <1>0, <1>4, <1>5, <2>1, <2>2, LeadsExpression
<1>7. Leads(s, c1) /\ Leads(s, c2) /\ Leads(s, c3)
  BY <1>0, <1>6, LeadsUtil
<1>8. Leads(cur, Expression(d, 0))
  BY <1>0, <1>2, LeadsZero, LeadsExpression
<1>9. Leads(cur, c4)
  BY <1>0, <1>8, LeadsUtil
<1> HIDE DEF c1, c2, c3, c4
<1>10. Leads(cur, c1) /\ Leads(cur, c2) /\ Leads(cur, c3)
  BY <1>3, <1>7, LeadsOver
<1>11. /\ Even(<<>>, Len(cur.syms)) /\ Even(<<>>, Len(c1.syms)) /\ Even(<<>>, Len(c2.syms))
       /\ Even(<<>>, Len(c3.syms)) /\ Even(<<>>, Len(c4.syms)) /\ Even(<<>>, Len(Adv(cur).syms))
  BY EvenNone
<1>12. Even(Frames(<<"block", "semi">>), Len(s.syms))
  BY <1>3, OnCalls
<1>13. CASE Then(cur, <<>>)
  BY <1>1, <1>11, <1>13, CalmThen
<1>14. CASE Again(c1, <<>>)
  BY <1>1, <1>10, <1>11, <1>14, CalmAgain
<1>15. CASE Again(c2, <<>>)
  BY <1>1, <1>10, <1>11, <1>15, CalmAgain
<1>16. CASE Again(c3, <<>>)
  BY <1>1, <1>10, <1>11, <1>16, CalmAgain
<1>17. CASE Again(s, Frames(<<"block", "semi">>))
  BY <1>1, <1>3, <1>12, <1>17, CalmAgain
<1>18. CASE Again(c4, <<>>)
  BY <1>1, <1>9, <1>11, <1>18, CalmAgain
<1>19. CASE Again(Adv(cur), <<>>)
  BY <1>1, <1>2, <1>11, <1>19, CalmAgain
<1> QED  BY <1>1, <1>13, <1>14, <1>15, <1>16, <1>17, <1>18, <1>19

LEMMA Commands ==
  ASSUME FrontInv, tokens' = tokens, Panic \/ Intent \/ FastExec \/ Asm
  PROVE  FrontInv'
<1>0. Source
  BY DEF FrontInv
<1>1. CASE Panic
  <2> DEFINE a == Adv(cur)
             b == IF Tok(a) = "(" THEN Consume(TakeAny(Adv(a)), ")") ELSE a
             c == Emit(b, "PANIC", 0)
  <2>1. At("panic") /\ Leads(cur, cur) /\ Then(c, <<>>)
    BY <1>1, OnTop DEF Panic
  <2>2. Leads(cur, a)
    BY <1>0, <2>1, LeadsUtil
  <2> HIDE DEF a
  <2>3. Leads(cur, b)
    BY <1>0, <2>2, LeadsUtil
  <2> HIDE DEF b
  <2>4. Leads(cur, c)
    BY <2>3, LeadsEmit, LeadsZero, Neutrals
  <2> HIDE DEF c
  <2> QED  BY <2>1, <2>4, On, CalmThen DEF Calm, Acting
<1>2. CASE Intent
  <2> DEFINE a == TakeAny(Adv(cur))
             c == Emit(a, "INTENT", 0)
             fn == IF Tok(c) = "{" THEN "block" ELSE "expr"
  <2>1. At("intent") /\ Leads(cur, cur) /\ Then(c, Frames(<<fn>>))
    BY <1>2, OnTop DEF Intent
  <2>2. Leads(cur, a)
    BY <1>0, <2>1, LeadsUtil
  <2> HIDE DEF a
  <2>3. Leads(cur, c)
    BY <2>2, LeadsEmit, LeadsZero, Neutrals
  <2> HIDE DEF c
  <2>4. fn # "lex"
    OBVIOUS
  <2> HIDE DEF fn
  <2>5. Even(Frames(<<fn>>), Len(c.syms))
    BY <2>3, <2>4, OnCall
  <2> QED  BY <2>1, <2>3, <2>5, CalmThen DEF Calm, Acting
<1>3. CASE FastExec
  <2> DEFINE d == Emit(Adv(cur), "ASM_BLOCK", 0)
             c == Consume(d, "{")
             f == F("asm")
             g == FExpect("}")
             h == FEmit("ASM_BLOCK", 0)
  <2>1. At("fastexec") /\ Leads(cur, cur) /\ Then(c, <<f, g, h>>)
    BY <1>3, OnTop DEF FastExec
  <2>2. Leads(cur, Adv(cur))
    BY <1>0, <2>1, LeadsUtil
  <2>3. Leads(cur, d)
    BY <2>2, LeadsEmit, LeadsZero, Neutrals
  <2> HIDE DEF d
  <2>4. Leads(cur, c)
    BY <1>0, <2>3, LeadsUtil
  <2> HIDE DEF c
  <2>5. EvenFrame(f, Len(c.syms)) /\ EvenFrame(g, Len(c.syms)) /\ EvenFrame(h, Len(c.syms))
    BY <2>4, On, OnExpect, OnEmit, LeadsZero, Neutrals
  <2> HIDE DEF f, g, h
  <2> QED  BY <2>1, <2>4, <2>5, Evens, CalmThen DEF Calm, Acting
<1>4. CASE Asm
  <2> DEFINE a == TakeAny(Adv(cur))
             c == Emit(a, "ASM_LABEL", 0)
             d == Emit(Raw(cur), "ASM_BLOCK", 0)
             e == Match(d, ";")
  <2>1. At("asm") /\ Calm("asm") /\ Leads(cur, cur)
        /\ (Then(cur, <<>>) \/ Again(c, <<>>) \/ Again(e, <<>>))
    BY <1>4, OnTop DEF Asm, Calm, Acting
  <2>2. Leads(cur, a) /\ Leads(cur, Raw(cur))
    BY <1>0, <2>1, LeadsUtil
  <2> HIDE DEF a
  <2>3. Leads(cur, c) /\ Leads(cur, d)
    BY <2>2, LeadsEmit, LeadsZero, Neutrals
  <2> HIDE DEF c, d
  <2>4. Leads(cur, e)
    BY <1>0, <2>3, LeadsUtil
  <2> HIDE DEF e
  <2>5. Even(<<>>, Len(cur.syms)) /\ Even(<<>>, Len(c.syms)) /\ Even(<<>>, Len(e.syms))
    BY EvenNone
  <2> QED  BY <2>1, <2>3, <2>4, <2>5, CalmThen, CalmAgain
<1> QED  BY <1>1, <1>2, <1>3, <1>4

LEMMA Leaving ==
  ASSUME FrontInv, tokens' = tokens, Return \/ Jump \/ Identifier \/ Directives \/ Imports
  PROVE  FrontInv'
<1>0. Source
  BY DEF FrontInv
<1>1. CASE Return
  <2> DEFINE a == Adv(cur)
             b == Expression(a, 0)
             d == IF Tok(a) = ";" THEN Emit(a, "RETURN_VOID", 0) ELSE Emit(b, "RETURN_VAL", 0)
             c == Semicolon(d)
  <2>1. At("return") /\ Leads(cur, cur) /\ Then(c, <<>>)
    BY <1>1, OnTop DEF Return
  <2>2. Leads(cur, a)
    BY <1>0, <2>1, LeadsUtil
  <2> HIDE DEF a
  <2>3. Leads(cur, b)
    BY <1>0, <2>2, LeadsExpression, LeadsZero
  <2> HIDE DEF b
  <2>4. Leads(cur, Emit(a, "RETURN_VOID", 0)) /\ Leads(cur, Emit(b, "RETURN_VAL", 0))
    BY <2>2, <2>3, LeadsEmit, LeadsZero, Neutrals
  <2>5. Leads(cur, d)
    BY <2>4
  <2> HIDE DEF d
  <2>6. Leads(cur, c)
    BY <1>0, <2>5, LeadsUtil
  <2> HIDE DEF c
  <2> QED  BY <2>1, <2>6, On, CalmThen DEF Calm, Acting
<1>2. CASE Jump
  <2> DEFINE a == TakeAny(Adv(cur))
             d == Emit(a, "UNCOND_JUMP", 0)
             c == Semicolon(d)
  <2>1. At("jump") /\ Leads(cur, cur) /\ Then(c, <<>>)
    BY <1>2, OnTop DEF Jump
  <2>2. Leads(cur, a)
    BY <1>0, <2>1, LeadsUtil
  <2> HIDE DEF a
  <2>3. Leads(cur, d)
    BY <2>2, LeadsEmit, LeadsZero, Neutrals
  <2> HIDE DEF d
  <2>4. Leads(cur, c)
    BY <1>0, <2>3, LeadsUtil
  <2> HIDE DEF c
  <2> QED  BY <2>1, <2>4, On, CalmThen DEF Calm, Acting
<1>3. CASE Identifier
  <2> DEFINE a == Adv(Adv(cur))
             c == Emit(a, "LABEL_DEF", 0)
             j == Emit(a, "COND_JUMP", 0)
             d == Semicolon(j)
             x == Expression(cur, 0)
             e == Semicolon(x)
  <2>1. At("identifier") /\ Calm("identifier") /\ Leads(cur, cur)
        /\ (Then(c, <<>>) \/ Then(d, <<>>) \/ Then(e, <<>>))
    BY <1>3, OnTop DEF Identifier, Calm, Acting
  <2>2. Leads(cur, a)
    BY <1>0, <2>1, LeadsUtil
  <2> HIDE DEF a
  <2>3. Leads(cur, c) /\ Leads(cur, j)
    BY <2>2, LeadsEmit, LeadsZero, Neutrals
  <2>4. Leads(cur, x)
    BY <1>0, <2>1, LeadsZero, LeadsExpression
  <2> HIDE DEF c, j, x
  <2>5. Leads(cur, d) /\ Leads(cur, e)
    BY <1>0, <2>3, <2>4, LeadsUtil
  <2> HIDE DEF d, e
  <2>6. Even(<<>>, Len(c.syms)) /\ Even(<<>>, Len(d.syms)) /\ Even(<<>>, Len(e.syms))
    BY EvenNone
  <2> QED  BY <2>1, <2>3, <2>5, <2>6, CalmThen
<1>4. CASE Directives
  <2> DEFINE a == Raw(Adv(cur))
             d == Emit(a, "EXPR", 0)
             c == Match(d, ";")
  <2>1. At("directives") /\ Leads(cur, cur) /\ Then(c, <<>>)
    BY <1>4, OnTop DEF Directives
  <2>2. Leads(cur, a)
    BY <1>0, <2>1, LeadsUtil
  <2> HIDE DEF a
  <2>3. Leads(cur, d)
    BY <2>2, LeadsEmit, LeadsZero, Neutrals
  <2> HIDE DEF d
  <2>4. Leads(cur, c)
    BY <1>0, <2>3, LeadsUtil
  <2> HIDE DEF c
  <2> QED  BY <2>1, <2>4, On, CalmThen DEF Calm, Acting
<1>5. CASE Imports
  <2> DEFINE p == TakeAny(Adv(cur))
             a == IF Tok(p) = "as" THEN TakeAny(Adv(p)) ELSE p
             d == Emit(a, "USE_MOD", 0)
             c == Semicolon(d)
  <2>1. At("imports") /\ Leads(cur, cur) /\ Then(c, <<>>)
    BY <1>5, OnTop DEF Imports
  <2>2. Leads(cur, p)
    BY <1>0, <2>1, LeadsUtil
  <2> HIDE DEF p
  <2>3. Leads(cur, a)
    BY <1>0, <2>2, LeadsUtil
  <2> HIDE DEF a
  <2>4. Leads(cur, d)
    BY <2>3, LeadsEmit, LeadsZero, Neutrals
  <2> HIDE DEF d
  <2>5. Leads(cur, c)
    BY <1>0, <2>4, LeadsUtil
  <2> HIDE DEF c
  <2> QED  BY <2>1, <2>5, On, CalmThen DEF Calm, Acting
<1> QED  BY <1>1, <1>2, <1>3, <1>4, <1>5

(* A step of the lexer adds at most one token.                             *)
Extends(ts, us) == us = ts \/ \E x : us = Append(ts, x)

LEMMA MoveExtends ==
  /\ \A c : Move(c) \/ Report(c) => Extends(tokens, tokens')
  /\ \A t, v, c : Yield(t, v, c) => Extends(tokens, tokens')
  BY DEF Move, Report, Yield, Extends

LEMMA LexerExtends == ASSUME NextToken PROVE Extends(tokens, tokens')
<1>1. CASE Blank
  BY <1>1, MoveExtends DEF Blank
<1>2. CASE LineComment
  BY <1>2, MoveExtends DEF LineComment
<1>3. CASE BlockComment
  BY <1>3, MoveExtends DEF BlockComment
<1>4. CASE EndOfSource
  BY <1>4, MoveExtends DEF EndOfSource
<1>5. CASE Operator
  BY <1>5, MoveExtends DEF Operator
<1>6. CASE Word
  BY <1>6, MoveExtends DEF Word
<1>7. CASE Number
  BY <1>7, MoveExtends DEF Number
<1>8. CASE String
  BY <1>8, MoveExtends DEF String
<1>9. CASE Char
  BY <1>9, MoveExtends DEF Char
<1>10. CASE Single
  BY <1>10, MoveExtends DEF Single
<1>11. CASE Unknown
  BY <1>11, MoveExtends DEF Unknown
<1> QED
  BY <1>1, <1>2, <1>3, <1>4, <1>5, <1>6, <1>7, <1>8, <1>9, <1>10, <1>11 DEF NextToken

LEMMA FreshIs ==
  /\ Fresh.pos = 1 /\ Fresh.sid = 0 /\ Fresh.bad = FALSE /\ Fresh.syms = <<>> /\ Fresh.code = <<>>
  /\ Fresh = [pos |-> Fresh.pos, sid |-> Fresh.sid, bad |-> Fresh.bad, syms |-> Fresh.syms,
              code |-> Fresh.code, params |-> Fresh.params]
  /\ Nest(Fresh) = <<>>
<1>1. /\ Fresh.pos = 1 /\ Fresh.sid = 0 /\ Fresh.bad = FALSE /\ Fresh.syms = <<>> /\ Fresh.code = <<>>
      /\ Fresh = [pos |-> Fresh.pos, sid |-> Fresh.sid, bad |-> Fresh.bad, syms |-> Fresh.syms,
                  code |-> Fresh.code, params |-> Fresh.params]
  BY DEF Fresh
<1>2. Ops(Fresh.code) = <<>>
  BY <1>1 DEF Ops
<1> QED  BY <1>1, <1>2, AfterNone DEF Nest

(* What Good says of a cursor on given tokens.                             *)
GoodOver(c, ts) ==
  /\ c = [pos |-> c.pos, sid |-> c.sid, bad |-> c.bad, syms |-> c.syms, code |-> c.code,
          params |-> c.params]
  /\ c.pos \in 1..Len(ts) /\ c.bad \in BOOLEAN /\ c.sid \in Ids(c)
  /\ IsSeq(c.syms) /\ IsSeq(c.code)
  /\ \A i \in 1..Len(c.syms) : c.syms[i].id = i /\ c.syms[i].prefix \in Prefix
  /\ \A k \in 1..Len(c.code) : c.code[k].symbolId \in Ids(c) /\ c.code[k].operandId \in Ids(c)

LEMMA FreshGood == ASSUME NEW ts, IsSeq(ts), ts # <<>> PROVE GoodOver(Fresh, ts)
<1>1. Fresh.pos \in 1..Len(ts)
  BY FreshIs DEF IsSeq
<1>2. Len(Fresh.syms) = 0 /\ Len(Fresh.code) = 0 /\ IsSeq(Fresh.syms) /\ IsSeq(Fresh.code)
  BY FreshIs DEF IsSeq
<1>3. Fresh.bad \in BOOLEAN /\ Fresh.sid \in Ids(Fresh)
  <2>1. Fresh.bad \in BOOLEAN
    BY FreshIs, Zenon
  <2>2. Fresh.sid \in 0..Len(Fresh.syms)
    BY <1>2, FreshIs
  <2> QED  BY <2>1, <2>2 DEF Ids
<1>4. \A i \in 1..Len(Fresh.syms) : Fresh.syms[i].id = i /\ Fresh.syms[i].prefix \in Prefix
  BY <1>2
<1>5. \A k \in 1..Len(Fresh.code) :
        Fresh.code[k].symbolId \in Ids(Fresh) /\ Fresh.code[k].operandId \in Ids(Fresh)
  BY <1>2
<1>6. Fresh = [pos |-> Fresh.pos, sid |-> Fresh.sid, bad |-> Fresh.bad, syms |-> Fresh.syms,
               code |-> Fresh.code, params |-> Fresh.params]
  BY FreshIs
<1> HIDE DEF Fresh
<1> QED  BY <1>1, <1>2, <1>3, <1>4, <1>5, <1>6, Zenon DEF GoodOver

LEMMA LexFrame == After(Nest(Fresh), Ops(<<F("lex")>>)) = <<>>
<1> DEFINE f == F("lex")
<1>1. f.op = "none" /\ Neutral("none")
  <2>1. f.op = "none"
    BY DEF F
  <2> QED  BY <2>1, IsNeutral
<1> HIDE DEF f
<1>2. Ops(<<f>>) = <<f.op>>
  BY DEF Ops
<1>3. Len(Ops(<<f>>)) \in Nat /\ \A i \in 1..Len(Ops(<<f>>)) : Neutral(Ops(<<f>>)[i])
  BY <1>1, <1>2
<1>4. After(<<>>, Ops(<<f>>)) = <<>>
  BY <1>3, AfterNeutral
<1> QED  BY <1>4, FreshIs DEF f

LEMMA ParseFrame == IsStack(<<F("parse")>>, 0) /\ After(Nest(Fresh), Ops(<<F("parse")>>)) = <<>>
<1>1. EvenFrame(F("parse"), 0)
  BY Plain
<1>2. Even(<<F("parse")>>, 0)
  BY <1>1, EvenOne
<1>3. <<>> \in Due
  BY DEF Due
<1> QED  BY <1>2, <1>3, FreshIs DEF Even

LEMMA AtLex == ASSUME FrontInv, At("lex") PROVE cur = Fresh /\ stack = <<F("lex")>>
<1>1. CASE IsStack(stack, Len(cur.syms))
  <2>1. FrameOk(Head(stack), Len(cur.syms))
    BY <1>1, HeadAndTail DEF IsStack, At
  <2> QED  BY <2>1 DEF FrameOk, At
<1> QED  BY <1>1 DEF FrontInv, StackOk

(* The parser's own steps.                                                 *)
LEMMA NextKeeps == ASSUME FrontInv, Next, UNCHANGED lexVars PROVE FrontInv'
<1>1. tokens' = tokens
  BY DEF lexVars
<1>2. CASE \/ EmitFrame \/ ExpectFrame \/ ExprFrame \/ AnyFrame
           \/ RawFrame \/ RawToComma \/ SemiFrame \/ OptSemi
  BY <1>1, <1>2, Helpers
<1>3. CASE Parse \/ Statement \/ Leave \/ Block \/ Statements \/ Body
  BY <1>1, <1>3, Dispatchers
<1>4. CASE \/ HandleExpression \/ Flow \/ Relocate \/ Chain \/ Rolling \/ AfterRolling
           \/ Catch \/ Fallback
  BY <1>1, <1>4, Handles
<1>5. CASE LoopRange \/ LoopForeach \/ LoopInfinite \/ Loop \/ Unroll
  BY <1>1, <1>5, Looping
<1>6. CASE Variable \/ Constant \/ Params \/ Lambda \/ LambdaBody
  BY <1>1, <1>6, Definitions
<1>7. CASE Function \/ FunctionBody \/ ExternFunction \/ ExternType
  BY <1>1, <1>7, Functions
<1>8. CASE Group \/ Members \/ TypeInGroup \/ TypeDefinition \/ TypeBlock \/ Fields \/ Separator
  BY <1>1, <1>8, Types
<1>9. CASE GroupMember
  BY <1>1, <1>9, MemberKeeps
<1>10. CASE If \/ Else \/ Branches \/ Patterns
  BY <1>1, <1>10, Branching
<1>11. CASE Select \/ Scan
  BY <1>1, <1>11, Choosing
<1>12. CASE Rules \/ RuleParams \/ RuleBegin \/ ApplyRules \/ OnRule
  BY <1>1, <1>12, Ruling
<1>13. CASE RuleItems
  BY <1>1, <1>13, Items
<1>14. CASE Panic \/ Intent \/ FastExec \/ Asm
  BY <1>1, <1>14, Commands
<1>15. CASE Return \/ Jump \/ Identifier \/ Directives \/ Imports
  BY <1>1, <1>15, Leaving
<1> QED
  BY <1>2, <1>3, <1>4, <1>5, <1>6, <1>7, <1>8, <1>9, <1>10, <1>11, <1>12, <1>13, <1>14, <1>15
  DEF Next

(* The stage before it.                                                    *)
LEMMA LexKeeps == ASSUME FrontInv, Lex PROVE FrontInv'
<1>1. Extends(tokens, tokens') /\ UNCHANGED vars
  BY LexerExtends DEF Lex
<1>2. IsSeq(tokens')
  <2>1. IsSeq(tokens) /\ \A x : IsSeq(Append(tokens, x))
    BY AppendSeq DEF FrontInv
  <2> QED  BY <1>1, <2>1 DEF Extends
<1>3. toks' = toks /\ cur' = cur /\ stack' = stack
  BY <1>1 DEF vars
<1>4. Source' /\ Good(cur)'
  BY <1>3 DEF FrontInv, Source, Good
<1>5. StackOk' /\ After(Nest(cur), Ops(stack))' = <<>>
  BY <1>3 DEF FrontInv, StackOk
<1>6. IsSeq(tokens)'
  BY <1>2 DEF IsSeq
<1> QED  BY <1>4, <1>5, <1>6 DEF FrontInv

LEMMA HandOverKeeps == ASSUME FrontInv, HandOver PROVE FrontInv'
<1>1. cur = Fresh /\ cur' = cur /\ toks' = tokens /\ tokens' = tokens /\ stack' = <<F("parse")>>
  BY AtLex DEF HandOver, lexVars
<1>2. IsSeq(tokens) /\ tokens # <<>> /\ Last(tokens).t = "EOF"
  BY DEF FrontInv, HandOver, Lexed
<1>3. Source'
  BY <1>1, <1>2 DEF Source, Last
<1>4. GoodOver(Fresh, tokens)
  BY <1>2, FreshGood
<1>5. Good(cur)'
  <2>1. GoodOver(cur', toks')
    BY <1>1, <1>4
  <2> QED  BY <2>1 DEF Good, GoodOver
<1>6. StackOk'
  BY <1>1, FreshIs, ParseFrame DEF StackOk
<1>7. After(Nest(cur), Ops(stack))' = <<>>
  BY <1>1, ParseFrame
<1> QED  BY <1>1, <1>2, <1>3, <1>5, <1>6, <1>7 DEF FrontInv

LEMMA LexErrorsKeep == ASSUME FrontInv, LexErrors PROVE FrontInv'
<1>1. cur = Fresh /\ cur' = Fails(cur) /\ toks' = toks /\ tokens' = tokens /\ stack' = <<>>
  BY AtLex DEF LexErrors, lexVars
<1>2. Good(cur) /\ Steady(cur, Fails(cur))
  BY FailsSteady DEF FrontInv
<1>3. GoodOver(Fails(cur), toks) /\ Nest(Fails(cur)) = <<>>
  BY <1>1, <1>2, FreshIs DEF Steady, Good, GoodOver
<1>4. Good(cur)' /\ Nest(cur)' = <<>>
  <2>1. GoodOver(cur', toks') /\ Nest(cur') = <<>>
    BY <1>1, <1>3
  <2> QED  BY <2>1 DEF Good, GoodOver
<1>5. IsStack(stack, Len(cur.syms))' /\ Ops(stack)' = <<>>
  BY <1>1 DEF IsStack, IsSeq, Ops
<1>6. After(Nest(cur), Ops(stack))' = <<>>
  BY <1>4, <1>5, AfterNone
<1> QED  BY <1>1, <1>4, <1>5, <1>6 DEF FrontInv, StackOk, Source

-------------------------------------------------------------------------------
(* The theorems.                                                           *)

LEMMA FrontInitInv == ASSUME FrontInit PROVE FrontInv
<1>1. IsSeq(tokens)
  <2>1. tokens = <<>>
    BY DEF FrontInit, LexStage, LexInit, ParseStage
  <2>2. <<>> \in Seq({})
    OBVIOUS
  <2>3. IsSeq(<<>>)
    BY <2>2, SeqIsSeq
  <2> QED  BY <2>1, <2>3
<1>2. cur = Fresh /\ (stack = <<F("lex")>> \/ stack = <<F("parse")>>)
  BY DEF FrontInit, LexStage, ParseStage, Init
<1>3. Source
  <2>1. CASE LexStage
    BY <2>1 DEF LexStage, Source, IsSeq, EOF
  <2>2. CASE ParseStage
    <3>1. PICK s \in Sources : toks = Append(s, EOF)
      BY <2>2 DEF ParseStage, Init
    <3>2. IsSeq(s)
      BY SourcesAssumption, SeqIsSeq
    <3>3. IsSeq(toks) /\ Len(toks) = Len(s) + 1 /\ toks[Len(toks)] = EOF
      BY <3>1, <3>2, AppendSeq
    <3>4. Len(s) \in Nat
      BY <3>2 DEF IsSeq
    <3> QED  BY <3>3, <3>4 DEF Source, EOF
  <2> QED  BY <2>1, <2>2 DEF FrontInit
<1>4. Good(cur)
  <2>1. GoodOver(Fresh, toks)
    BY <1>3, FreshGood DEF Source
  <2> QED  BY <1>2, <2>1 DEF Good, GoodOver
<1>5. StackOk /\ After(Nest(cur), Ops(stack)) = <<>>
  <2>1. CASE stack = <<F("lex")>>
    BY <1>2, <2>1, LexFrame DEF StackOk
  <2>2. CASE stack = <<F("parse")>>
    BY <1>2, <2>2, FreshIs, ParseFrame DEF StackOk
  <2> QED  BY <1>2, <2>1, <2>2
<1> QED  BY <1>1, <1>3, <1>4, <1>5 DEF FrontInv

LEMMA FrontStep == ASSUME FrontInv, [FrontNext]_frontVars PROVE FrontInv'
<1>1. CASE Lex
  BY <1>1, LexKeeps
<1>2. CASE HandOver
  BY <1>2, HandOverKeeps
<1>3. CASE LexErrors
  BY <1>3, LexErrorsKeep
<1>4. CASE Next /\ UNCHANGED lexVars
  BY <1>4, NextKeeps
<1>5. CASE UNCHANGED frontVars
  BY <1>5 DEF frontVars, FrontInv, Source, Good, StackOk, Nest, IsStack, FrameOk, Mute, Ids
<1> QED  BY <1>1, <1>2, <1>3, <1>4, <1>5 DEF FrontNext

(* The invariant, for every text and every sequence of tokens.             *)
THEOREM Invariance == FrontSpec => []FrontInv
<1> QED  BY FrontInitInv, FrontStep, PTL DEF FrontSpec

(* The parser's cursor stays on a token, its symbols carry their own       *)
(* position as id, and no active function holds an id the table lacks.     *)
THEOREM TypeCorrect == FrontSpec => []TypeOK
<1>1. ASSUME FrontInv PROVE TypeOK
  <2>1. Good(cur) /\ IsSeq(cur.syms)
    BY <1>1 DEF FrontInv, Good
  <2>2. cur.pos \in 1..Len(toks) /\ cur.bad \in BOOLEAN
    BY <2>1 DEF Good
  <2>3. \A i \in DOMAIN cur.syms : cur.syms[i].id = i /\ cur.syms[i].prefix \in Prefix
    BY <2>1 DEF Good, IsSeq
  <2>4. \A i \in DOMAIN stack : stack[i].sid \in 0..Len(cur.syms)
    <3>1. CASE stack = <<F("lex")>> /\ cur = Fresh
      BY <3>1, FreshIs DEF F
    <3>2. CASE IsStack(stack, Len(cur.syms))
      BY <3>2 DEF IsStack, IsSeq, FrameOk
    <3> QED  BY <1>1, <3>1, <3>2 DEF FrontInv, StackOk
  <2> QED  BY <2>2, <2>3, <2>4 DEF TypeOK
<1> QED  BY <1>1, Invariance, PTL

(* The instruction stream is well nested at every moment, in a correct     *)
(* source and in a broken one: each active function closes what it opened. *)
THEOREM Nested == FrontSpec => []WellNested
<1>1. ASSUME FrontInv PROVE WellNested
  <2>1. IsSeq(Ops(cur.code))
    BY <1>1, OpsSeq DEF FrontInv, Good
  <2>2. IsSeq(Ops(stack))
    <3>1. CASE stack = <<F("lex")>>
      BY <3>1 DEF Ops, IsSeq
    <3>2. CASE IsStack(stack, Len(cur.syms))
      BY <3>2, OpsSeq DEF IsStack
    <3> QED  BY <1>1, <3>1, <3>2 DEF FrontInv, StackOk
  <2>3. After(<<>>, Ops(cur.code) \o Ops(stack)) = After(After(<<>>, Ops(cur.code)), Ops(stack))
    BY <2>1, <2>2, AfterConcat
  <2> QED  BY <1>1, <2>3 DEF FrontInv, Nest, WellNested
<1> QED  BY <1>1, Invariance, PTL

(* Whatever the source, and not only an error-free one: an instruction's   *)
(* ids are 0 or in the symbol table, so the analyzer's A2000 cannot be     *)
(* about a file this parser wrote.                                         *)
THEOREM IdsAlwaysResolve == FrontSpec => [](Resolved(cur.syms, cur.code) /\ CleanParsePassesAnalysis)
<1>1. ASSUME FrontInv PROVE Resolved(cur.syms, cur.code)
  <2>1. IsSeq(cur.syms) /\ IsSeq(cur.code)
    BY <1>1 DEF FrontInv, Good
  <2>2. Ids(cur) \subseteq Known(cur.syms) \union {0}
    <3>1. \A i \in 1..Len(cur.syms) : cur.syms[i].id = i /\ i \in DOMAIN cur.syms
      BY <1>1, <2>1 DEF FrontInv, Good, IsSeq
    <3> QED  BY <2>1, <3>1 DEF Ids, Known, IsSeq
  <2>3. ASSUME NEW k \in DOMAIN cur.code PROVE Undefined(cur.syms, cur.code[k]) = {}
    <3> DEFINE x == cur.code[k]
    <3>1. k \in 1..Len(cur.code)
      BY <2>1 DEF IsSeq
    <3>2. x.symbolId \in Ids(cur) /\ x.operandId \in Ids(cur)
      BY <1>1, <3>1 DEF FrontInv, Good
    <3> HIDE DEF x
    <3>3. \A j \in DOMAIN CheckedIds(x) : CheckedIds(x)[j] \in {x.symbolId, x.operandId}
      BY DEF CheckedIds
    <3>4. Undefined(cur.syms, x) = {}
      BY <2>2, <3>2, <3>3 DEF Undefined
    <3> QED  BY <3>4 DEF x
  <2> QED  BY <2>3 DEF Resolved
<1>2. Resolved(cur.syms, cur.code) => CleanParsePassesAnalysis
  BY DEF CleanParsePassesAnalysis
<1> QED  BY <1>1, <1>2, Invariance, PTL

===============================================================================
