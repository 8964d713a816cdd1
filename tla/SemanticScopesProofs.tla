------------------------- MODULE SemanticScopesProofs -------------------------
(***************************************************************************)
(* What the run of SemanticScopes checks on some programs, proved for every*)
(* tree.  First the scopes: those that semantic_check opens and closes, the*)
(* depth of each symbol and the return type that is compared are those of  *)
(* the tree (IInv).  Then the names: the symbol table holds the names that *)
(* were declared before in the scopes around, and a use refers to the      *)
(* innermost of them (NInv).                                               *)
(***************************************************************************)
EXTENDS SemanticScopes, SequenceTheorems, FunctionTheorems, FiniteSetTheorems,
        WellFoundedInduction, TLAPS

-------------------------------------------------------------------------------
(* Sequences of whatever, and the least of some numbers.                   *)
IsSeq(s) == Len(s) \in Nat /\ s = [i \in 1..Len(s) |-> s[i]]

LEMMA SeqIsSeq == ASSUME NEW S, NEW s \in Seq(S) PROVE IsSeq(s)
<1>1. s \in [1..Len(s) -> S] /\ Len(s) \in Nat
  BY LenProperties
<1> QED  BY <1>1 DEF IsSeq

LEMMA SeqOver ==
  ASSUME NEW s, IsSeq(s), NEW S, \A i \in 1..Len(s) : s[i] \in S PROVE s \in Seq(S)
<1>1. s \in [1..Len(s) -> S] /\ Len(s) \in Nat
  BY DEF IsSeq
<1> QED  BY <1>1, SeqDef

LEMMA AppendSeq ==
  ASSUME NEW s, IsSeq(s), NEW x
  PROVE  /\ IsSeq(Append(s, x)) /\ Len(Append(s, x)) = Len(s) + 1
         /\ Append(s, x)[Len(s) + 1] = x
         /\ \A i \in 1..Len(s) : Append(s, x)[i] = s[i]
<1> DEFINE S == {s[i] : i \in 1..Len(s)} \union {x}
<1>1. s \in Seq(S) /\ x \in S
  <2>1. x \in S /\ \A i \in 1..Len(s) : s[i] \in S
    OBVIOUS
  <2> HIDE DEF S
  <2> QED  BY <2>1, SeqOver
<1> HIDE DEF S
<1>2. /\ Append(s, x) \in Seq(S) /\ Len(Append(s, x)) = Len(s) + 1
      /\ \A i \in 1..Len(s) : Append(s, x)[i] = s[i]
      /\ Append(s, x)[Len(s) + 1] = x
  BY <1>1, AppendProperties
<1>3. IsSeq(Append(s, x))
  BY <1>2, SeqIsSeq
<1> QED  BY <1>2, <1>3

LEMMA ConcatSeq ==
  ASSUME NEW s, NEW t, IsSeq(s), IsSeq(t)
  PROVE  /\ IsSeq(s \o t) /\ Len(s \o t) = Len(s) + Len(t)
         /\ \A i \in 1..Len(s) : (s \o t)[i] = s[i]
         /\ \A i \in 1..Len(t) : (s \o t)[Len(s) + i] = t[i]
<1>1. PICK S : s \in Seq(S) /\ t \in Seq(S)
  <2> DEFINE S == {s[i] : i \in 1..Len(s)} \union {t[i] : i \in 1..Len(t)}
  <2>1. (\A i \in 1..Len(s) : s[i] \in S) /\ \A i \in 1..Len(t) : t[i] \in S
    OBVIOUS
  <2> HIDE DEF S
  <2> QED  BY <2>1, SeqOver
<1>2. /\ s \o t \in Seq(S) /\ Len(s \o t) = Len(s) + Len(t)
      /\ \A i \in 1..(Len(s) + Len(t)) :
           (s \o t)[i] = IF i <= Len(s) THEN s[i] ELSE t[i - Len(s)]
  BY <1>1, ConcatProperties
<1>3. Len(s) \in Nat /\ Len(t) \in Nat
  BY <1>1, LenProperties
<1>4. IsSeq(s \o t)
  BY <1>2, SeqIsSeq
<1>5. ASSUME NEW i \in 1..Len(s) PROVE (s \o t)[i] = s[i]
  BY <1>2, <1>3
<1>6. ASSUME NEW i \in 1..Len(t) PROVE (s \o t)[Len(s) + i] = t[i]
  <2>1. Len(s) + i \in 1..(Len(s) + Len(t)) /\ ~(Len(s) + i <= Len(s))
        /\ Len(s) + i - Len(s) = i
    BY <1>3
  <2> HIDE <1>3
  <2> QED  BY <1>2, <2>1
<1> QED  BY <1>2, <1>4, <1>5, <1>6

LEMMA Least ==
  ASSUME NEW T \in SUBSET Nat, T # {} PROVE \E n \in T : \A m \in T : n <= m
<1>1. PICK n \in T : \A m \in T : <<m, n>> \notin OpToRel(<, Nat)
  BY NatLessThanWellFounded, WFMin
<1>2. \A m \in T : ~(m < n)
  BY <1>1 DEF OpToRel
<1> QED  BY <1>2

-------------------------------------------------------------------------------
(* The tree.                                                               *)

Nodes == 1..Len(ast)
TreeInv == ast \in Programs

LEMMA TreeIs ==
  ASSUME TreeInv
  PROVE  /\ Len(ast) \in Nat /\ 1 \in Nodes /\ DOMAIN ast = Nodes /\ ast[1].type = "PROGRAM"
         /\ \A c \in Nodes :
              /\ c \in Nat /\ 1 <= c
              /\ DOMAIN ast[c].at = DOMAIN Blank(ast[c].type).at
              /\ \A m \in Pointers \intersect DOMAIN ast[c].at :
                   ast[c].at[m] \in {NULL} \union (c + 1)..Len(ast)
              /\ \A k, l \in Links(ast, c) : k = l
              /\ \A q \in ListOf(ast, c, "fields") \union ListOf(ast, c, "data") :
                   ast[q].type = "VAR_DECL"
              /\ \A q \in ListOf(ast, c, "variants") : ast[q].type = "ENUM_VARIANT"
  BY ProgramsAssumption DEF TreeInv, Nodes

(* A member that leads to a node.                                          *)
Leads(p, m, q) == /\ p \in Nodes /\ m \in Pointers /\ m \in DOMAIN ast[p].at
                  /\ ast[p].at[m] = q /\ q # NULL

LEMMA LinkIs ==
  ASSUME TreeInv, NEW p, NEW m, NEW q, Leads(p, m, q)
  PROVE  /\ q \in Nodes /\ p < q /\ Links(ast, q) = {<<p, m>>}
<1>1. p \in Nodes /\ p \in Nat /\ 1 <= p /\ m \in Pointers \intersect DOMAIN ast[p].at
      /\ Len(ast) \in Nat
  BY TreeIs DEF Leads
<1>2. ast[p].at[m] = q /\ q # NULL
  BY DEF Leads
<1>3. q \in (p + 1)..Len(ast)
  <2>1. q \in {NULL} \union (p + 1)..Len(ast)
    BY <1>1, <1>2, TreeIs
  <2> QED  BY <1>2, <2>1
<1>4. q \in Nodes /\ p < q
  BY <1>1, <1>3 DEF Nodes
<1>5. <<p, m>> \in Links(ast, q)
  BY <1>1, <1>2, <1>3 DEF Links
<1>6. \A k, l \in Links(ast, q) : k = l
  BY <1>4, TreeIs
<1> QED  BY <1>4, <1>5, <1>6

(* The recursive function of Enclosing exists: the least prefix of the tree*)
(* for which none does could be continued from the one before it.          *)
Scope(l)    == IF l[2] # "next" /\ ast[l[1]].type \in Opens THEN {l[1]} ELSE {}
UpAt(h, p)  == UNION {h[l[1]] \union Scope(l) : l \in Links(ast, p)}
IsUp(h, n)  == h = [p \in 1..n |-> UpAt(h, p)]

LEMMA UpAtOf ==
  ASSUME NEW g, NEW h, NEW p \in Nat, \A r \in 1..(p - 1) : g[r] = h[r]
  PROVE  UpAt(g, p) = UpAt(h, p)
<1>1. \A l \in Links(ast, p) : g[l[1]] = h[l[1]]
  BY DEF Links
<1> QED  BY <1>1 DEF UpAt

LEMMA UpExists == ASSUME NEW n \in Nat PROVE \E h : IsUp(h, n)
<1> DEFINE Ok(m) == \E h : IsUp(h, m)
           Bad == {m \in 0..n : ~Ok(m)}
<1> SUFFICES ASSUME Bad # {} PROVE FALSE
  OBVIOUS
<1>1. PICK m \in Bad : \A l \in Bad : m <= l
  <2>1. Bad \in SUBSET Nat
    OBVIOUS
  <2> HIDE DEF Bad
  <2> QED  BY <2>1, Least
<1>2. CASE m = 0
  <2> DEFINE g == [p \in 1..0 |-> {}]
  <2>1. g = [p \in 1..0 |-> UpAt(g, p)]
    OBVIOUS
  <2>2. IsUp(g, 0)
    BY <2>1 DEF IsUp
  <2> QED  BY <1>1, <1>2, <2>2
<1>3. CASE m # 0
  <2>1. m - 1 \in 0..n /\ m - 1 \notin Bad /\ m \in Nat
    BY <1>1, <1>3
  <2>2. PICK h : IsUp(h, m - 1)
    BY <2>1
  <2>3. h = [p \in 1..(m - 1) |-> UpAt(h, p)]
    BY <2>2 DEF IsUp
  <2> DEFINE g == [p \in 1..m |-> UpAt(h, p)]
  <2>4. \A r \in 1..(m - 1) : g[r] = h[r]
    <3> TAKE r \in 1..(m - 1)
    <3>1. r \in 1..m /\ h[r] = UpAt(h, r)
      BY <2>1, <2>3
    <3> QED  BY <3>1
  <2>5. ASSUME NEW p \in 1..m PROVE UpAt(h, p) = UpAt(g, p)
    <3>1. p \in Nat /\ \A r \in 1..(p - 1) : r \in 1..(m - 1)
      BY <2>1
    <3> HIDE DEF g
    <3> QED  BY <2>4, <3>1, UpAtOf
  <2>6. g = [p \in 1..m |-> UpAt(g, p)]
    BY <2>5
  <2>7. IsUp(g, m)
    BY <2>6 DEF IsUp
  <2> HIDE DEF g
  <2> QED  BY <1>1, <2>7
<1> QED  BY <1>2, <1>3

LEMMA EnclosingIs ==
  ASSUME TreeInv, NEW q \in Nodes
  PROVE  Enclosing(q) = UNION {Enclosing(l[1]) \union Scope(l) : l \in Links(ast, q)}
<1> DEFINE U == CHOOSE up : up = [p \in Nodes |-> UpAt(up, p)]
<1>1. \A p : Enclosing(p) = U[p]
  BY TreeIs DEF Enclosing, UpAt, Scope
<1>2. U = [p \in Nodes |-> UpAt(U, p)]
  <2>1. \E h : h = [p \in Nodes |-> UpAt(h, p)]
    <3>1. PICK h : IsUp(h, Len(ast))
      BY TreeIs, UpExists
    <3>2. h = [p \in Nodes |-> UpAt(h, p)]
      BY <3>1 DEF IsUp, Nodes
    <3> QED  BY <3>2, Zenon
  <2> QED  BY <2>1, Zenon
<1> HIDE DEF U
<1>3. U[q] = UpAt(U, q)
  BY <1>2
<1> QED  BY <1>1, <1>3 DEF UpAt

(* What a node that opens a scope adds to what encloses it.                *)
Within(p) == Enclosing(p) \union (IF ast[p].type \in Opens THEN {p} ELSE {})

LEMMA LinkScope ==
  ASSUME TreeInv, NEW p, NEW m, NEW q, Leads(p, m, q)
  PROVE  Enclosing(q) = IF m = "next" THEN Enclosing(p) ELSE Within(p)
<1>1. q \in Nodes /\ Links(ast, q) = {<<p, m>>}
  BY LinkIs
<1>2. Enclosing(q) = Enclosing(p) \union Scope(<<p, m>>)
  BY <1>1, EnclosingIs
<1> QED  BY <1>2 DEF Scope, Within

LEMMA EnclosingBefore ==
  ASSUME TreeInv, NEW q \in Nodes
  PROVE  /\ Enclosing(q) \subseteq 1..(q - 1)
         /\ \A s \in Enclosing(q) : ast[s].type \in Opens
<1> DEFINE Good(p) == /\ Enclosing(p) \subseteq 1..(p - 1)
                      /\ \A s \in Enclosing(p) : ast[s].type \in Opens
           Bad == {p \in Nodes : ~Good(p)}
<1> SUFFICES ASSUME Bad # {} PROVE FALSE
  OBVIOUS
<1>1. PICK p \in Bad : \A r \in Bad : p <= r
  <2>1. Bad \in SUBSET Nat
    BY TreeIs DEF Nodes
  <2> HIDE DEF Bad
  <2> QED  BY <2>1, Least
<1>2. p \in Nodes /\ p \in Nat /\ ~Good(p) /\ Len(ast) \in Nat
  BY <1>1, TreeIs
<1>3. ASSUME NEW l \in Links(ast, p)
      PROVE  l[1] \in 1..(p - 1) /\ Good(l[1])
  <2>1. l[1] \in 1..(p - 1)
    BY DEF Links
  <2>2. l[1] \in Nodes /\ l[1] \notin Bad
    BY <1>1, <1>2, <2>1 DEF Nodes
  <2> QED  BY <2>1, <2>2
<1>4. ASSUME NEW s \in Enclosing(p) PROVE s \in 1..(p - 1) /\ ast[s].type \in Opens
  <2>1. PICK l \in Links(ast, p) : s \in Enclosing(l[1]) \union Scope(l)
    BY <1>2, EnclosingIs
  <2>2. l[1] \in 1..(p - 1) /\ Good(l[1])
    BY <1>3
  <2>3. CASE s \in Enclosing(l[1])
    BY <1>2, <2>2, <2>3
  <2>4. CASE s \in Scope(l)
    BY <2>2, <2>4 DEF Scope
  <2> QED  BY <2>1, <2>3, <2>4
<1>5. Good(p)
  BY <1>4
<1> QED  BY <1>2, <1>5

LEMMA EnclosingSize ==
  ASSUME TreeInv, NEW q \in Nodes
  PROVE  /\ IsFiniteSet(Enclosing(q)) /\ Cardinality(Enclosing(q)) \in Nat
         /\ q \notin Enclosing(q)
         /\ IsFiniteSet(Enclosing(q) \union {q})
         /\ Cardinality(Enclosing(q) \union {q}) = Cardinality(Enclosing(q)) + 1
<1>1. q \in Nat /\ Enclosing(q) \subseteq 1..(q - 1)
  BY EnclosingBefore, TreeIs
<1>2. IsFiniteSet(Enclosing(q))
  BY <1>1, FS_Interval, FS_Subset
<1>3. q \notin Enclosing(q)
  BY <1>1
<1> QED  BY <1>2, <1>3, FS_AddElement, FS_CardinalityType

LEMMA TailSeq ==
  ASSUME NEW s, IsSeq(s), Len(s) # 0
  PROVE  /\ IsSeq(Tail(s)) /\ Len(Tail(s)) = Len(s) - 1 /\ Head(s) = s[1]
         /\ \A i \in 1..(Len(s) - 1) : Tail(s)[i] = s[i + 1]
<1> DEFINE S == {s[i] : i \in 1..Len(s)}
<1>1. s \in Seq(S)
  <2>1. \A i \in 1..Len(s) : s[i] \in S
    OBVIOUS
  <2> HIDE DEF S
  <2> QED  BY <2>1, SeqOver
<1> HIDE DEF S
<1>2. s # <<>> /\ Head(s) = s[1]
  OBVIOUS
<1>3. /\ Tail(s) \in Seq(S) /\ Len(Tail(s)) = Len(s) - 1
      /\ \A i \in 1..Len(Tail(s)) : Tail(s)[i] = s[i + 1]
  BY <1>1, <1>2, HeadTailProperties
<1>4. IsSeq(Tail(s))
  BY <1>3, SeqIsSeq
<1> QED  BY <1>2, <1>3, <1>4

LEMMA OneSeq == ASSUME NEW x PROVE IsSeq(<<x>>) /\ Len(<<x>>) = 1 /\ <<x>>[1] = x
  BY DEF IsSeq

LEMMA NoneSeq == IsSeq(<<>>) /\ Len(<<>>) = 0 /\ \A s : IsSeq(s) /\ Len(s) = 0 => s = <<>>
<1>1. ASSUME NEW s, IsSeq(s), Len(s) = 0 PROVE s = <<>>
  BY <1>1 DEF IsSeq
<1> QED  BY <1>1 DEF IsSeq

-------------------------------------------------------------------------------
(* The scopes that a stack of items has to close.                          *)

Exits(s) == {i \in DOMAIN s : s[i].op = "exit"}
Count(s) == Cardinality(Exits(s))

LEMMA ExitsFinite == ASSUME NEW s, IsSeq(s) PROVE IsFiniteSet(Exits(s)) /\ Count(s) \in Nat
<1>1. Len(s) \in Nat /\ DOMAIN s = 1..Len(s)
  BY DEF IsSeq
<1>2. Exits(s) \in SUBSET (1..Len(s)) /\ IsFiniteSet(1..Len(s))
  BY <1>1, FS_Interval DEF Exits
<1> QED  BY <1>2, FS_Subset, FS_CardinalityType DEF Count

LEMMA CountConcat ==
  ASSUME NEW s, NEW t, IsSeq(s), IsSeq(t) PROVE Count(s \o t) = Count(s) + Count(t)
<1> DEFINE L == Len(s)
           E == Exits(t)
           T == {L + i : i \in E}
           F == [i \in E |-> L + i]
<1>1. /\ L \in Nat /\ Len(t) \in Nat /\ DOMAIN s = 1..L /\ DOMAIN t = 1..Len(t)
      /\ E \subseteq 1..Len(t) /\ IsFiniteSet(E) /\ IsFiniteSet(Exits(s))
  BY ExitsFinite DEF IsSeq, Exits
<1>2. /\ IsSeq(s \o t) /\ DOMAIN (s \o t) = 1..(L + Len(t))
      /\ \A i \in 1..L : (s \o t)[i] = s[i]
      /\ \A i \in 1..Len(t) : (s \o t)[L + i] = t[i]
  BY ConcatSeq DEF IsSeq
<1>3. Exits(s \o t) = Exits(s) \union T
  <2>1. ASSUME NEW i \in Exits(s \o t) PROVE i \in Exits(s) \union T
    <3>1. i \in 1..(L + Len(t)) /\ (s \o t)[i].op = "exit"
      BY <1>2 DEF Exits
    <3>2. CASE i \in 1..L
      BY <1>1, <1>2, <3>1, <3>2 DEF Exits
    <3>3. CASE i \notin 1..L
      <4> DEFINE j == i - L
      <4>1. j \in 1..Len(t) /\ i = L + j
        BY <1>1, <3>1, <3>3
      <4> HIDE DEF j
      <4>2. t[j].op = "exit"
        BY <1>2, <3>1, <4>1
      <4>3. j \in E
        BY <1>1, <4>1, <4>2 DEF Exits
      <4> QED  BY <4>1, <4>3
    <3> QED  BY <3>2, <3>3
  <2>2. ASSUME NEW i \in Exits(s) PROVE i \in Exits(s \o t)
    <3>1. i \in 1..L /\ s[i].op = "exit" /\ i \in 1..(L + Len(t))
      BY <1>1 DEF Exits
    <3> QED  BY <1>2, <3>1 DEF Exits
  <2>3. ASSUME NEW i \in T PROVE i \in Exits(s \o t)
    <3>1. PICK j \in E : i = L + j
      OBVIOUS
    <3>2. j \in 1..Len(t) /\ t[j].op = "exit" /\ i \in 1..(L + Len(t))
      BY <1>1, <3>1 DEF Exits
    <3> QED  BY <1>2, <3>1, <3>2 DEF Exits
  <2> HIDE DEF T
  <2> QED  BY <2>1, <2>2, <2>3
<1>4. IsFiniteSet(T) /\ Cardinality(T) = Cardinality(E)
  <2>1. /\ F \in [E -> T] /\ (\A a, b \in E : F[a] = F[b] => a = b)
        /\ \A x \in T : \E i \in E : F[i] = x
    BY <1>1
  <2> HIDE DEF F, T, E
  <2>2. F \in Bijection(E, T)
    BY <2>1, Fun_IsBij
  <2>3. ExistsBijection(E, T)
    BY <2>2, Fun_ExistsBij
  <2> QED  BY <1>1, <2>3, FS_Bijection
<1>5. Exits(s) \intersect T = {}
  BY <1>1 DEF Exits
<1>6. /\ Cardinality(Exits(s) \union T)
           = Cardinality(Exits(s)) + Cardinality(T) - Cardinality(Exits(s) \intersect T)
      /\ Cardinality(Exits(s)) \in Nat /\ Cardinality(T) \in Nat
  <2> HIDE DEF T
  <2> QED  BY <1>1, <1>4, FS_Union, FS_CardinalityType
<1> HIDE DEF T, E
<1> QED  BY <1>3, <1>4, <1>5, <1>6, FS_EmptySet DEF Count, E

LEMMA CountNone ==
  ASSUME NEW s, IsSeq(s), \A i \in 1..Len(s) : s[i].op # "exit" PROVE Count(s) = 0
<1>1. Exits(s) = {}
  BY DEF Exits, IsSeq
<1> QED  BY <1>1, FS_EmptySet DEF Count

LEMMA CountOne == ASSUME NEW x PROVE Count(<<x>>) = IF x.op = "exit" THEN 1 ELSE 0
<1>1. Exits(<<x>>) = IF x.op = "exit" THEN {1} ELSE {}
  BY DEF Exits
<1> QED  BY <1>1, FS_EmptySet, FS_Singleton DEF Count

LEMMA CountTail ==
  ASSUME NEW s, IsSeq(s), Len(s) # 0
  PROVE  Count(s) = (IF Head(s).op = "exit" THEN 1 ELSE 0) + Count(Tail(s))
<1> DEFINE h == <<Head(s)>>
           t == Tail(s)
<1>1. IsSeq(h) /\ Len(h) = 1 /\ h[1] = Head(s) /\ Len(s) \in Nat
  BY OneSeq DEF IsSeq
<1>2. IsSeq(t) /\ Len(t) = Len(s) - 1 /\ Head(s) = s[1] /\ \A i \in 1..(Len(s) - 1) : t[i] = s[i + 1]
  BY TailSeq
<1> HIDE DEF h, t
<1>3. s = h \o t
  <2>1. /\ IsSeq(h \o t) /\ Len(h \o t) = Len(s) /\ (h \o t)[1] = s[1]
        /\ \A i \in 1..(Len(s) - 1) : (h \o t)[1 + i] = t[i]
    <3>1. 1 \in 1..Len(h) /\ Len(h) + Len(t) = Len(s)
      BY <1>1, <1>2
    <3>2. IsSeq(h) /\ IsSeq(t)
      BY <1>1, <1>2
    <3>3. /\ IsSeq(h \o t) /\ Len(h \o t) = Len(h) + Len(t)
          /\ \A i \in 1..Len(h) : (h \o t)[i] = h[i]
          /\ \A i \in 1..Len(t) : (h \o t)[Len(h) + i] = t[i]
      BY <3>2, ConcatSeq
    <3> QED  BY <1>1, <1>2, <3>1, <3>3
  <2>2. ASSUME NEW i \in 1..Len(s) PROVE (h \o t)[i] = s[i]
    <3>1. CASE i = 1
      BY <2>1, <3>1
    <3>2. CASE i # 1
      <4>1. i - 1 \in 1..(Len(s) - 1) /\ 1 + (i - 1) = i /\ (i - 1) + 1 = i
        BY <1>1, <3>2
      <4> QED  BY <1>2, <2>1, <4>1
    <3> QED  BY <3>1, <3>2
  <2> DEFINE u == h \o t
  <2> HIDE DEF u
  <2>3. IsSeq(s) /\ IsSeq(u) /\ Len(u) = Len(s) /\ \A i \in 1..Len(s) : u[i] = s[i]
    BY <2>1, <2>2 DEF u
  <2>4. s = u
    BY <2>3 DEF IsSeq
  <2> QED  BY <2>4 DEF u
<1>4. Count(h) = IF Head(s).op = "exit" THEN 1 ELSE 0
  BY CountOne DEF h
<1>5. Count(s) = Count(h) + Count(t)
  BY <1>1, <1>2, <1>3, CountConcat
<1> QED  BY <1>4, <1>5 DEF t

-------------------------------------------------------------------------------
(* The scopes that are open and the return type that is compared when an   *)
(* item is on top of the stack, and when it is done.                       *)

FuncsIn(S) == {f \in S : ast[f].type = "FUNC_DECL"}
LastRet(F) == IF F = {} THEN Zero
              ELSE LET f == CHOOSE f \in F : \A g \in F : g <= f IN  ast[f].at["return_type"]
RetOf(S) == LastRet(FuncsIn(S))

Ctx(S, r) == [scopes |-> S, ret |-> r]
Outer(p)  == Ctx(Enclosing(p), RetOf(Enclosing(p)))
Inner(p)  == Ctx(Enclosing(p) \union {p}, RetOf(Enclosing(p) \union {p}))

Done == Ctx({}, Zero)

Before(x) == IF x.op \in {"exit", "range"} THEN Inner(x.node)
             ELSE IF x.op = "restore" THEN Ctx(Enclosing(x.node), ast[x.node].at["return_type"])
             ELSE Outer(x.node)
After(x)  == IF x.op = "exit" THEN Ctx(Enclosing(x.node), RetOf(Enclosing(x.node) \union {x.node}))
             ELSE IF x.op = "restore" THEN Outer(x.node)
             ELSE Before(x)

IsItem(x) ==
  /\ x.node \in Nodes
  /\ x.op = "exit" => ast[x.node].type \in Opens
  /\ x.op = "restore" => ast[x.node].type = "FUNC_DECL" /\ x.saved = RetOf(Enclosing(x.node))
  /\ x.op = "range" => ast[x.node].type = "LOOP"
  /\ x.op = "initialized" => ast[x.node].type = "VAR_DECL"
  /\ x.op = "returned" => ast[x.node].type = "RETURN"
  /\ x.op = "called" => ast[x.node].type = "FUNC_CALL"

LEMMA CtxHas == ASSUME NEW S, NEW r PROVE Ctx(S, r).scopes = S /\ Ctx(S, r).ret = r
  BY DEF Ctx

LEMMA RetWithin ==
  ASSUME TreeInv, NEW p \in Nodes
  PROVE  RetOf(Enclosing(p) \union {p}) = IF ast[p].type = "FUNC_DECL" THEN ast[p].at["return_type"]
                                          ELSE RetOf(Enclosing(p))
<1> DEFINE S == Enclosing(p)
           FS == FuncsIn(S \union {p})
<1>1. S \subseteq 1..(p - 1) /\ p \in Nat
  BY EnclosingBefore, TreeIs
<1>2. CASE ast[p].type = "FUNC_DECL"
  <2>1. p \in FS /\ \A g \in FS : g \in Nat /\ g <= p
    BY <1>1, <1>2 DEF FuncsIn
  <2> HIDE DEF FS
  <2>2. \A f \in FS : (\A g \in FS : g <= f) => f = p
    BY <1>1, <2>1
  <2> DEFINE f == CHOOSE f \in FS : \A g \in FS : g <= f
  <2>3. f = p
    BY <2>1, <2>2, Zenon
  <2>4. LastRet(FS) = ast[f].at["return_type"]
    BY <2>1 DEF LastRet
  <2> HIDE DEF f
  <2>5. RetOf(S \union {p}) = LastRet(FS)
    BY DEF RetOf, FS
  <2> QED  BY <1>2, <2>3, <2>4, <2>5
<1>3. CASE ast[p].type # "FUNC_DECL"
  <2>1. FS = FuncsIn(S)
    BY <1>3 DEF FuncsIn
  <2> HIDE DEF S
  <2>2. RetOf(S \union {p}) = RetOf(S)
    BY <2>1 DEF RetOf, FS
  <2> QED  BY <1>3, <2>2 DEF S
<1> QED  BY <1>2, <1>3

(* Leaving a scope that is not a function's, or a function's in two steps. *)
LEMMA AfterExit ==
  ASSUME TreeInv, NEW p \in Nodes, NEW x, x.op = "exit", x.node = p
  PROVE  /\ ast[p].type # "FUNC_DECL" => After(x) = Outer(p)
         /\ ast[p].type = "FUNC_DECL" => After(x) = Ctx(Enclosing(p), ast[p].at["return_type"])
         /\ Before(x) = Inner(p)
  BY RetWithin DEF After, Before, Outer

Chain(s, A, B) ==
  /\ IsSeq(s)
  /\ \A i \in 1..Len(s) : IsItem(s[i])
  /\ Len(s) = 0 => A = B
  /\ Len(s) # 0 => Before(s[1]) = A /\ After(s[Len(s)]) = B
  /\ \A i \in 1..(Len(s) - 1) : Before(s[i + 1]) = After(s[i])

LEMMA ChainNone == ASSUME NEW A PROVE Chain(<<>>, A, A)
  BY NoneSeq DEF Chain

LEMMA ChainOne == ASSUME NEW x, IsItem(x) PROVE Chain(<<x>>, Before(x), After(x))
<1> DEFINE s == <<x>>
<1>1. IsSeq(s) /\ Len(s) = 1 /\ s[1] = x
  BY OneSeq
<1> HIDE DEF s
<1>2. \A i \in 1..Len(s) : i = 1
  BY <1>1
<1>3. \A i \in 1..(Len(s) - 1) : FALSE
  BY <1>1
<1> QED  BY <1>1, <1>2, <1>3 DEF Chain, s

LEMMA ChainConcat ==
  ASSUME NEW s, NEW t, NEW A, NEW B, NEW C, Chain(s, A, B), Chain(t, B, C)
  PROVE  Chain(s \o t, A, C)
<1> DEFINE u == s \o t
           m == Len(s)
           n == Len(t)
<1>1. IsSeq(s) /\ IsSeq(t) /\ m \in Nat /\ n \in Nat
  BY DEF Chain, IsSeq
<1>2. CASE m = 0
  <2>1. s = <<>> /\ A = B
    BY <1>1, <1>2, NoneSeq DEF Chain
  <2>2. /\ IsSeq(u) /\ Len(u) = n /\ \A i \in 1..n : u[i] = t[i]
    <3>1. /\ IsSeq(u) /\ Len(u) = m + n /\ \A i \in 1..n : u[m + i] = t[i]
      BY <1>1, ConcatSeq
    <3> HIDE DEF u
    <3> QED  BY <1>1, <1>2, <3>1
  <2> HIDE DEF u
  <2>3. u = t
    BY <1>1, <2>2 DEF IsSeq
  <2> QED  BY <2>1, <2>3 DEF u
<1>3. CASE n = 0
  <2>1. B = C
    BY <1>3 DEF Chain
  <2>2. /\ IsSeq(u) /\ Len(u) = m /\ \A i \in 1..m : u[i] = s[i]
    <3>1. /\ IsSeq(u) /\ Len(u) = m + n /\ \A i \in 1..m : u[i] = s[i]
      BY <1>1, ConcatSeq
    <3> HIDE DEF u
    <3> QED  BY <1>1, <1>3, <3>1
  <2> HIDE DEF u
  <2>3. u = s
    BY <1>1, <2>2 DEF IsSeq
  <2> QED  BY <2>1, <2>3 DEF u
<1>4. CASE m # 0 /\ n # 0
  <2>1. /\ IsSeq(u) /\ Len(u) = m + n
        /\ (\A i \in 1..m : u[i] = s[i]) /\ \A i \in 1..n : u[m + i] = t[i]
    BY <1>1, ConcatSeq
  <2> HIDE DEF u
  <2>2. ASSUME NEW i \in 1..(m + n), i \notin 1..m
        PROVE  i - m \in 1..n /\ u[i] = t[i - m]
    <3>1. i - m \in 1..n /\ m + (i - m) = i
      BY <1>1, <2>2
    <3>2. u[m + (i - m)] = t[i - m]
      BY <2>1, <3>1
    <3> QED  BY <3>1, <3>2
  <2>3. \A i \in 1..Len(u) : IsItem(u[i])
    BY <2>1, <2>2 DEF Chain
  <2>4. Before(u[1]) = A /\ After(u[Len(u)]) = C
    <3>1. 1 \in 1..m /\ n \in 1..n
      BY <1>1, <1>4
    <3>2. u[1] = s[1] /\ u[m + n] = t[n]
      BY <2>1, <3>1
    <3> QED  BY <1>4, <2>1, <3>2 DEF Chain
  <2>5. ASSUME NEW i \in 1..(Len(u) - 1) PROVE Before(u[i + 1]) = After(u[i])
    <3>1. i \in 1..(m + n) /\ i + 1 \in 1..(m + n)
      BY <1>1, <2>1
    <3>2. CASE i + 1 \in 1..m
      <4>1. i \in 1..m /\ i \in 1..(m - 1)
        BY <1>1, <3>1, <3>2
      <4>2. u[i] = s[i] /\ u[i + 1] = s[i + 1]
        BY <2>1, <3>2, <4>1
      <4> QED  BY <4>1, <4>2 DEF Chain
    <3>3. CASE i \in 1..m /\ i + 1 \notin 1..m
      <4>1. i = m /\ (i + 1) - m = 1
        BY <1>1, <3>1, <3>3
      <4>2. u[i] = s[m] /\ u[i + 1] = t[1]
        BY <2>1, <2>2, <3>1, <3>3, <4>1
      <4> QED  BY <1>4, <4>2 DEF Chain
    <3>4. CASE i \notin 1..m
      <4>1. i + 1 \notin 1..m /\ (i + 1) - m = (i - m) + 1 /\ i - m \in 1..(n - 1)
        BY <1>1, <2>1, <3>1, <3>4
      <4>2. u[i] = t[i - m] /\ u[i + 1] = t[(i - m) + 1]
        BY <2>2, <3>1, <3>4, <4>1
      <4> QED  BY <4>1, <4>2 DEF Chain
    <3> QED  BY <3>1, <3>2, <3>3, <3>4
  <2>6. Len(u) # 0
    BY <1>1, <1>4, <2>1
  <2> QED  BY <2>1, <2>3, <2>4, <2>5, <2>6 DEF Chain, u
<1> QED  BY <1>2, <1>3, <1>4

LEMMA ChainTail ==
  ASSUME NEW s, NEW A, NEW B, Chain(s, A, B), Len(s) # 0
  PROVE  IsItem(Head(s)) /\ Before(Head(s)) = A /\ Chain(Tail(s), After(Head(s)), B)
<1> DEFINE t == Tail(s)
           n == Len(s)
<1>1. IsSeq(s) /\ n \in Nat /\ 1 \in 1..n
  BY DEF Chain, IsSeq
<1>2. IsSeq(t) /\ Len(t) = n - 1 /\ Head(s) = s[1] /\ \A i \in 1..(n - 1) : t[i] = s[i + 1]
  BY <1>1, TailSeq
<1> HIDE DEF t
<1>3. IsItem(s[1]) /\ Before(s[1]) = A
  BY <1>1 DEF Chain
<1>4. \A i \in 1..Len(t) : IsItem(t[i])
  <2>1. \A i \in 1..(n - 1) : i + 1 \in 1..n
    BY <1>1
  <2> QED  BY <1>2, <2>1 DEF Chain
<1>5. Len(t) = 0 => After(s[1]) = B
  <2>1. Len(t) = 0 => n = 1
    BY <1>1, <1>2
  <2> QED  BY <2>1 DEF Chain
<1>6. Len(t) # 0 => Before(t[1]) = After(s[1]) /\ After(t[Len(t)]) = B
  <2> SUFFICES ASSUME Len(t) # 0 PROVE Before(t[1]) = After(s[1]) /\ After(t[Len(t)]) = B
    OBVIOUS
  <2>1. 1 \in 1..(n - 1) /\ n - 1 \in 1..(n - 1) /\ (n - 1) + 1 = n /\ 1 + 1 = 2
    BY <1>1, <1>2
  <2>2. t[1] = s[1 + 1] /\ t[n - 1] = s[n]
    BY <1>2, <2>1
  <2> QED  BY <1>2, <2>1, <2>2 DEF Chain
<1>7. ASSUME NEW i \in 1..(Len(t) - 1) PROVE Before(t[i + 1]) = After(t[i])
  <2>1. i \in 1..(n - 1) /\ i + 1 \in 1..(n - 1)
    BY <1>1, <1>2
  <2>2. t[i] = s[i + 1] /\ t[i + 1] = s[(i + 1) + 1]
    BY <1>2, <2>1
  <2> QED  BY <2>1, <2>2 DEF Chain
<1> QED  BY <1>2, <1>3, <1>4, <1>5, <1>6, <1>7 DEF Chain, t

-------------------------------------------------------------------------------
(* The members that the cases look into, and where they lead.              *)

Given(t)    == DOMAIN Blank(t).at
OfStruct(s) == {Members[s][i] : i \in DOMAIN Members[s]}
Into        == Pointers \ {"next"}

LEMMA GivenIs ==
  ASSUME NEW t, NEW s, StructOf(t) = s PROVE Given(t) = {"line", "next"} \union OfStruct(s)
  BY DEF Blank, Given, OfStruct

LEMMA NextGiven == \A t : "next" \in Given(t)
  BY DEF Given, Blank

LEMMA StructHas ==
  /\ {"left", "right"} \subseteq OfStruct("ASTBinaryExpr")
  /\ {"operand"} \subseteq OfStruct("ASTUnaryExpr")
  /\ {"callee", "args"} \subseteq OfStruct("ASTCall")
  /\ {"initializer", "inline_type"} \subseteq OfStruct("ASTVarDecl")
  /\ {"params", "return_type", "body"} \subseteq OfStruct("ASTFuncDecl")
  /\ {"fields"} \subseteq OfStruct("ASTStructDecl")
  /\ {"variants"} \subseteq OfStruct("ASTEnumDecl")
  /\ {"data"} \subseteq OfStruct("ASTEnumVariant")
  /\ {"statements"} \subseteq OfStruct("ASTBlock")
  /\ {"members"} \subseteq OfStruct("ASTGroupDecl")
  /\ {"body"} \subseteq OfStruct("ASTThreadBlock")
  /\ {"init", "condition", "increment", "body", "collection", "variable"}
        \subseteq OfStruct("ASTLoop")
  /\ {"expr"} \subseteq OfStruct("ASTNexusCapture")
  /\ {"left", "right", "catch_block"} \subseteq OfStruct("ASTNexusFlow")
  /\ {"statement"} \subseteq OfStruct("ASTNexusLabel")
  /\ {"expr"} \subseteq OfStruct("ASTHalt")
  /\ {"expr"} \subseteq OfStruct("ASTUnpack")
  /\ {"target"} \subseteq OfStruct("ASTIntent")
  /\ {"implementation"} \subseteq OfStruct("ASTMethod")
  /\ {"body"} \subseteq OfStruct("ASTDefer")
<1>1. {"left", "right"} \subseteq OfStruct("ASTBinaryExpr")
  BY DEF Members, OfStruct
<1>2. {"operand"} \subseteq OfStruct("ASTUnaryExpr")
  BY DEF Members, OfStruct
<1>3. {"callee", "args"} \subseteq OfStruct("ASTCall")
  BY DEF Members, OfStruct
<1>4. {"initializer", "inline_type"} \subseteq OfStruct("ASTVarDecl")
  BY DEF Members, OfStruct
<1>5. {"params", "return_type", "body"} \subseteq OfStruct("ASTFuncDecl")
  BY DEF Members, OfStruct
<1>6. {"fields"} \subseteq OfStruct("ASTStructDecl")
  BY DEF Members, OfStruct
<1>7. {"variants"} \subseteq OfStruct("ASTEnumDecl")
  BY DEF Members, OfStruct
<1>8. {"data"} \subseteq OfStruct("ASTEnumVariant")
  BY DEF Members, OfStruct
<1>9. {"statements"} \subseteq OfStruct("ASTBlock")
  BY DEF Members, OfStruct
<1>10. {"members"} \subseteq OfStruct("ASTGroupDecl")
  BY DEF Members, OfStruct
<1>11. {"body"} \subseteq OfStruct("ASTThreadBlock")
  BY DEF Members, OfStruct
<1>12. {"init", "condition", "increment", "body", "collection", "variable"}
          \subseteq OfStruct("ASTLoop")
  BY DEF Members, OfStruct
<1>13. {"expr"} \subseteq OfStruct("ASTNexusCapture")
  BY DEF Members, OfStruct
<1>14. {"left", "right", "catch_block"} \subseteq OfStruct("ASTNexusFlow")
  BY DEF Members, OfStruct
<1>15. {"statement"} \subseteq OfStruct("ASTNexusLabel")
  BY DEF Members, OfStruct
<1>16. {"expr"} \subseteq OfStruct("ASTHalt")
  BY DEF Members, OfStruct
<1>17. {"expr"} \subseteq OfStruct("ASTUnpack")
  BY DEF Members, OfStruct
<1>18. {"target"} \subseteq OfStruct("ASTIntent")
  BY DEF Members, OfStruct
<1>19. {"implementation"} \subseteq OfStruct("ASTMethod")
  BY DEF Members, OfStruct
<1>20. {"body"} \subseteq OfStruct("ASTDefer")
  BY DEF Members, OfStruct
<1> QED  BY <1>1, <1>2, <1>3, <1>4, <1>5, <1>6, <1>7, <1>8, <1>9, <1>10, <1>11, <1>12,
            <1>13, <1>14, <1>15, <1>16, <1>17, <1>18, <1>19, <1>20

LEMMA StructsAre ==
  /\ \A t \in Allocated["ASTCall"] : StructOf(t) = "ASTCall"
  /\ \A t \in {"BINARY_EXPR", "ASSIGNMENT"} : StructOf(t) = "ASTBinaryExpr"
  /\ \A t \in {"UNARY_EXPR", "RETURN", "CAST"} : StructOf(t) = "ASTUnaryExpr"
  /\ \A t \in {"BLOCK", "PROGRAM"} : StructOf(t) = "ASTBlock"
  /\ \A t \in {"STRUCT_DECL", "UNION_DECL"} : StructOf(t) = "ASTStructDecl"
  /\ \A t \in {"NEXUS_CAPTURE", "LISTEN"} : StructOf(t) = "ASTNexusCapture"
  /\ \A t \in {"NEXUS_FLOW", "NEXUS_PIPE"} : StructOf(t) = "ASTNexusFlow"
  /\ StructOf("VAR_DECL") = "ASTVarDecl" /\ StructOf("FUNC_DECL") = "ASTFuncDecl"
  /\ StructOf("ENUM_DECL") = "ASTEnumDecl" /\ StructOf("ENUM_VARIANT") = "ASTEnumVariant"
  /\ StructOf("GROUP_DECL") = "ASTGroupDecl" /\ StructOf("THREAD_BLOCK") = "ASTThreadBlock"
  /\ StructOf("LOOP") = "ASTLoop" /\ StructOf("NEXUS_LABEL") = "ASTNexusLabel"
  /\ StructOf("NEXUS_HALT") = "ASTHalt" /\ StructOf("UNPACK") = "ASTUnpack"
  /\ StructOf("NEXUS_INTENT") = "ASTIntent" /\ StructOf("METHOD") = "ASTMethod"
  /\ StructOf("DEFER") = "ASTDefer"
<1>1. \A t \in Allocated["ASTCall"] : StructOf(t) = "ASTCall"
  BY DEF StructOf, Allocated
<1>2. \A t \in {"BINARY_EXPR", "ASSIGNMENT"} : StructOf(t) = "ASTBinaryExpr"
  BY DEF StructOf, Allocated
<1>3. \A t \in {"UNARY_EXPR", "RETURN", "CAST"} : StructOf(t) = "ASTUnaryExpr"
  BY DEF StructOf, Allocated
<1>4. \A t \in {"BLOCK", "PROGRAM"} : StructOf(t) = "ASTBlock"
  BY DEF StructOf, Allocated
<1>5. \A t \in {"STRUCT_DECL", "UNION_DECL"} : StructOf(t) = "ASTStructDecl"
  BY DEF StructOf, Allocated
<1>6. \A t \in {"NEXUS_CAPTURE", "LISTEN"} : StructOf(t) = "ASTNexusCapture"
  BY DEF StructOf, Allocated
<1>7. \A t \in {"NEXUS_FLOW", "NEXUS_PIPE"} : StructOf(t) = "ASTNexusFlow"
  BY DEF StructOf, Allocated
<1>8. StructOf("VAR_DECL") = "ASTVarDecl" /\ StructOf("FUNC_DECL") = "ASTFuncDecl"
  BY DEF StructOf, Allocated
<1>9. StructOf("ENUM_DECL") = "ASTEnumDecl" /\ StructOf("ENUM_VARIANT") = "ASTEnumVariant"
  BY DEF StructOf, Allocated
<1>10. StructOf("GROUP_DECL") = "ASTGroupDecl" /\ StructOf("THREAD_BLOCK") = "ASTThreadBlock"
  BY DEF StructOf, Allocated
<1>11. StructOf("LOOP") = "ASTLoop" /\ StructOf("NEXUS_LABEL") = "ASTNexusLabel"
  BY DEF StructOf, Allocated
<1>12. StructOf("NEXUS_HALT") = "ASTHalt" /\ StructOf("UNPACK") = "ASTUnpack"
  BY DEF StructOf, Allocated
<1>13. StructOf("NEXUS_INTENT") = "ASTIntent" /\ StructOf("METHOD") = "ASTMethod"
  BY DEF StructOf, Allocated
<1>14. StructOf("DEFER") = "ASTDefer"
  BY DEF StructOf, Allocated
<1> QED  BY <1>1, <1>2, <1>3, <1>4, <1>5, <1>6, <1>7, <1>8, <1>9, <1>10, <1>11, <1>12,
            <1>13, <1>14

(* The members of a type that a case looks into.                           *)
LEMMA MembersOf ==
  /\ \A t \in Allocated["ASTCall"] : {"callee", "args"} \subseteq Given(t)
  /\ \A t \in {"BINARY_EXPR", "ASSIGNMENT"} : {"left", "right"} \subseteq Given(t)
  /\ \A t \in {"UNARY_EXPR", "RETURN", "CAST"} : {"operand"} \subseteq Given(t)
  /\ \A t \in {"BLOCK", "PROGRAM"} : {"statements"} \subseteq Given(t)
  /\ \A t \in {"STRUCT_DECL", "UNION_DECL"} : {"fields"} \subseteq Given(t)
  /\ \A t \in {"NEXUS_CAPTURE", "LISTEN"} : {"expr"} \subseteq Given(t)
  /\ \A t \in {"NEXUS_FLOW", "NEXUS_PIPE"} : {"left", "right", "catch_block"} \subseteq Given(t)
  /\ {"initializer", "inline_type"} \subseteq Given("VAR_DECL")
  /\ {"params", "return_type", "body"} \subseteq Given("FUNC_DECL")
  /\ {"variants"} \subseteq Given("ENUM_DECL") /\ {"data"} \subseteq Given("ENUM_VARIANT")
  /\ {"members"} \subseteq Given("GROUP_DECL") /\ {"body"} \subseteq Given("THREAD_BLOCK")
  /\ {"init", "condition", "increment", "body", "collection", "variable"} \subseteq Given("LOOP")
  /\ {"statement"} \subseteq Given("NEXUS_LABEL") /\ {"expr"} \subseteq Given("NEXUS_HALT")
  /\ {"expr"} \subseteq Given("UNPACK") /\ {"target"} \subseteq Given("NEXUS_INTENT")
  /\ {"implementation"} \subseteq Given("METHOD") /\ {"body"} \subseteq Given("DEFER")
<1>1. ASSUME NEW t PROVE OfStruct(StructOf(t)) \subseteq Given(t)
  BY GivenIs
<1> QED  BY <1>1, StructsAre, StructHas

LEMMA VisitedGiven ==
  ASSUME NEW t, t \notin Cases
  PROVE  /\ Len(Visited(t)) \in Nat /\ DOMAIN Visited(t) = 1..Len(Visited(t))
         /\ \A i \in DOMAIN Visited(t) : Visited(t)[i] \in Given(t) \intersect Into
<1> DEFINE Good(s) == /\ Len(s) \in Nat /\ DOMAIN s = 1..Len(s)
                      /\ \A i \in DOMAIN s : s[i] \in Given(t) \intersect Into
<1> DEFINE Before8 == {"PROGRAM", "BINARY_EXPR", "NEXUS_PIPE", "NEXUS_FLOW", "UNARY_EXPR", "CAST",
                       "NEXUS_HALT", "UNPACK", "NEXUS_INTENT", "METHOD", "DEFER"}
<1>0. Before8 \intersect Allocated["ASTCall"] = {}
  BY DEF Allocated
<1>1. CASE t = "PROGRAM"
  <2>1. Visited(t) = <<"statements">>
    BY <1>0, <1>1 DEF Visited
  <2>2. "statements" \in Given(t) \intersect Into
    BY <1>1, MembersOf DEF Into, Pointers
  <2> QED  BY <2>1, <2>2
<1>2. CASE t = "BINARY_EXPR"
  <2>1. Visited(t) = <<"left", "right">>
    BY <1>0, <1>2 DEF Visited
  <2>2. {"left", "right"} \subseteq Given(t) \intersect Into
    BY <1>2, MembersOf DEF Into, Pointers
  <2> QED  BY <2>1, <2>2
<1>3. CASE t \in {"NEXUS_PIPE", "NEXUS_FLOW"}
  <2>1. Visited(t) = <<"left", "right", "catch_block">>
    BY <1>0, <1>3 DEF Visited
  <2>2. {"left", "right", "catch_block"} \subseteq Given(t) \intersect Into
    BY <1>3, MembersOf DEF Into, Pointers
  <2> QED  BY <2>1, <2>2
<1>4. CASE t \in {"UNARY_EXPR", "CAST"}
  <2>1. Visited(t) = <<"operand">>
    BY <1>0, <1>4 DEF Visited
  <2>2. "operand" \in Given(t) \intersect Into
    BY <1>4, MembersOf DEF Into, Pointers
  <2> QED  BY <2>1, <2>2
<1>5. CASE t \in {"NEXUS_HALT", "UNPACK"}
  <2>1. Visited(t) = <<"expr">>
    BY <1>0, <1>5 DEF Visited
  <2>2. "expr" \in Given(t) \intersect Into
    BY <1>5, MembersOf DEF Into, Pointers
  <2> QED  BY <2>1, <2>2
<1>6. CASE t = "NEXUS_INTENT"
  <2>1. Visited(t) = <<"target">>
    BY <1>0, <1>6 DEF Visited
  <2>2. "target" \in Given(t) \intersect Into
    BY <1>6, MembersOf DEF Into, Pointers
  <2> QED  BY <2>1, <2>2
<1>7. CASE t = "METHOD"
  <2>1. Visited(t) = <<"implementation">>
    BY <1>0, <1>7 DEF Visited
  <2>2. "implementation" \in Given(t) \intersect Into
    BY <1>7, MembersOf DEF Into, Pointers
  <2> QED  BY <2>1, <2>2
<1>8. CASE t = "DEFER"
  <2>1. Visited(t) = <<"body">>
    BY <1>0, <1>8 DEF Visited
  <2>2. "body" \in Given(t) \intersect Into
    BY <1>8, MembersOf DEF Into, Pointers
  <2> QED  BY <2>1, <2>2
<1>9. CASE t \notin Before8 /\ t \in Allocated["ASTCall"] \ {"FUNC_CALL", "ZONE"}
  <2>1. Visited(t) = <<"callee", "args">>
    BY <1>9 DEF Visited
  <2>2. {"callee", "args"} \subseteq Given(t) \intersect Into
    BY <1>9, MembersOf DEF Into, Pointers
  <2> QED  BY <2>1, <2>2
<1>10. CASE t \notin Before8 /\ t \notin Allocated["ASTCall"] \ {"FUNC_CALL", "ZONE"}
  <2>1. Visited(t) = <<>>
    BY <1>10 DEF Visited
  <2> QED  BY <2>1
<1> QED  BY <1>1, <1>2, <1>3, <1>4, <1>5, <1>6, <1>7, <1>8, <1>9, <1>10

LEMMA NodeHas ==
  ASSUME TreeInv, NEW c \in Nodes
  PROVE  /\ DOMAIN ast[c].at = Given(ast[c].type)
         /\ ast[c].at["next"] \in {NULL} \union (c + 1)..Len(ast) /\ c \in Nat /\ 1 <= c
<1>1. "next" \in Pointers /\ "next" \in Given(ast[c].type)
  BY NextGiven DEF Pointers
<1>2. DOMAIN ast[c].at = Given(ast[c].type)
  BY TreeIs DEF Given
<1>3. \A m \in Pointers \intersect DOMAIN ast[c].at :
         ast[c].at[m] \in {NULL} \union (c + 1)..Len(ast)
  BY TreeIs
<1>4. c \in Nat /\ 1 <= c
  BY TreeIs
<1> QED  BY <1>1, <1>2, <1>3, <1>4

(* What there is to check at a member, or at the node behind.              *)
Checkable(q, C) == q = NULL \/ (q \in Nodes /\ Outer(q) = C)
InnerOf(c) == IF ast[c].type \in Opens THEN Inner(c) ELSE Outer(c)

LEMMA MemberLeads ==
  ASSUME TreeInv, NEW c \in Nodes, NEW m \in Into \intersect Given(ast[c].type)
  PROVE  /\ Checkable(ast[c].at[m], InnerOf(c))
         /\ ast[c].at[m] = NULL \/ (ast[c].at[m] \in Nodes /\ Enclosing(ast[c].at[m]) = Within(c))
<1> DEFINE q == ast[c].at[m]
<1>1. CASE q = NULL
  BY <1>1 DEF Checkable
<1>2. CASE q # NULL
  <2>1. Leads(c, m, q)
    BY <1>2, NodeHas DEF Leads, Into
  <2> HIDE DEF q
  <2>2. q \in Nodes /\ Enclosing(q) = Within(c)
    BY <2>1, LinkIs, LinkScope DEF Into
  <2>3. Outer(q) = InnerOf(c)
    BY <2>2 DEF Outer, Inner, InnerOf, Within
  <2> QED  BY <2>2, <2>3 DEF Checkable, q
<1> QED  BY <1>1, <1>2

LEMMA NextLeads ==
  ASSUME TreeInv, NEW c \in Nodes
  PROVE  /\ Checkable(ast[c].at["next"], Outer(c))
         /\ \/ ast[c].at["next"] = NULL
            \/ /\ ast[c].at["next"] \in Nodes /\ c < ast[c].at["next"]
               /\ Enclosing(ast[c].at["next"]) = Enclosing(c)
<1> DEFINE q == ast[c].at["next"]
<1>1. CASE q = NULL
  BY <1>1 DEF Checkable
<1>2. CASE q # NULL
  <2>1. Leads(c, "next", q)
    BY <1>2, NodeHas, NextGiven DEF Leads, Pointers
  <2> HIDE DEF q
  <2>2. q \in Nodes /\ c < q /\ Enclosing(q) = Enclosing(c)
    BY <2>1, LinkIs, LinkScope
  <2>3. Outer(q) = Outer(c)
    BY <2>2 DEF Outer
  <2> QED  BY <2>2, <2>3 DEF Checkable, q
<1> QED  BY <1>1, <1>2

-------------------------------------------------------------------------------
(* Checks of nodes of one scope are a chain that stays in it.              *)

LEMMA ItemHas ==
  ASSUME NEW op, NEW p
  PROVE  Item(op, p).op = op /\ Item(op, p).node = p /\ Item(op, p).saved = Zero
  BY DEF Item

LEMMA CheckItem ==
  ASSUME NEW q \in Nodes
  PROVE  /\ IsItem(Item("check", q)) /\ Before(Item("check", q)) = Outer(q)
         /\ After(Item("check", q)) = Outer(q) /\ Item("check", q).op # "exit"
<1> DEFINE x == Item("check", q)
<1>1. x.op = "check" /\ x.node = q
  BY ItemHas
<1> HIDE DEF x
<1> QED  BY <1>1 DEF IsItem, Before, After, x

LEMMA AppendIs == ASSUME NEW s, IsSeq(s), NEW x PROVE Append(s, x) = s \o <<x>>
<1> DEFINE a == Append(s, x)
           c == s \o <<x>>
           n == Len(s)
<1>1. n \in Nat /\ IsSeq(<<x>>) /\ Len(<<x>>) = 1 /\ <<x>>[1] = x
  BY OneSeq DEF IsSeq
<1>2. IsSeq(a) /\ Len(a) = n + 1 /\ a[n + 1] = x /\ \A i \in 1..n : a[i] = s[i]
  BY AppendSeq
<1>3. IsSeq(c) /\ Len(c) = n + 1 /\ (\A i \in 1..n : c[i] = s[i]) /\ c[n + 1] = x
  <2> DEFINE o == <<x>>
  <2>1. IsSeq(o) /\ Len(o) = 1 /\ o[1] = x
    BY <1>1
  <2> HIDE DEF o
  <2>a. IsSeq(s) /\ IsSeq(o)
    BY <2>1
  <2>2. /\ IsSeq(s \o o) /\ Len(s \o o) = Len(s) + Len(o)
        /\ \A i \in 1..Len(s) : (s \o o)[i] = s[i]
        /\ \A i \in 1..Len(o) : (s \o o)[Len(s) + i] = o[i]
    BY <2>a, ConcatSeq
  <2>3. (s \o o)[n + 1] = x
    BY <2>1, <2>2
  <2> QED  BY <2>1, <2>2, <2>3 DEF o
<1> HIDE DEF a, c
<1>4. ASSUME NEW i \in 1..(n + 1) PROVE a[i] = c[i]
  <2>1. i \in 1..n \/ i = n + 1
    BY <1>1
  <2> QED  BY <1>2, <1>3, <2>1
<1>5. a = [i \in 1..(n + 1) |-> a[i]] /\ c = [i \in 1..(n + 1) |-> c[i]]
  BY <1>2, <1>3 DEF IsSeq
<1>6. a = c
  BY <1>4, <1>5
<1> QED  BY <1>6 DEF a, c

CheckAt(h, ps, i) ==
  IF i = 0 THEN <<>>
  ELSE IF ps[i] = NULL THEN h[i - 1] ELSE Append(h[i - 1], Item("check", ps[i]))
IsCheck(h, ps, n) == h = [i \in 0..n |-> CheckAt(h, ps, i)]

LEMMA CheckExists == ASSUME NEW ps, NEW n \in Nat PROVE \E h : IsCheck(h, ps, n)
<1> DEFINE Ok(m) == \E h : IsCheck(h, ps, m)
           Bad == {m \in 0..n : ~Ok(m)}
<1> SUFFICES ASSUME Bad # {} PROVE FALSE
  OBVIOUS
<1>1. PICK m \in Bad : \A l \in Bad : m <= l
  <2>1. Bad \in SUBSET Nat
    OBVIOUS
  <2> HIDE DEF Bad
  <2> QED  BY <2>1, Least
<1>2. CASE m = 0
  <2> DEFINE g == [i \in 0..0 |-> <<>>]
  <2>1. g = [i \in 0..0 |-> CheckAt(g, ps, i)]
    BY DEF CheckAt
  <2>2. IsCheck(g, ps, 0)
    BY <2>1 DEF IsCheck
  <2> QED  BY <1>1, <1>2, <2>2
<1>3. CASE m # 0
  <2>1. m - 1 \in 0..n /\ m - 1 \notin Bad /\ m \in Nat
    BY <1>1, <1>3
  <2>2. PICK h : IsCheck(h, ps, m - 1)
    BY <2>1
  <2>3. h = [i \in 0..(m - 1) |-> CheckAt(h, ps, i)]
    BY <2>2 DEF IsCheck
  <2> DEFINE g == [i \in 0..m |-> CheckAt(h, ps, i)]
  <2>4. \A r \in 0..(m - 1) : g[r] = h[r]
    <3> TAKE r \in 0..(m - 1)
    <3>1. r \in 0..m /\ h[r] = CheckAt(h, ps, r)
      BY <2>1, <2>3
    <3> QED  BY <3>1
  <2>5. ASSUME NEW i \in 0..m PROVE CheckAt(h, ps, i) = CheckAt(g, ps, i)
    <3>1. i = 0 \/ i - 1 \in 0..(m - 1)
      BY <2>1
    <3> HIDE DEF g
    <3> QED  BY <2>4, <3>1 DEF CheckAt
  <2>6. g = [i \in 0..m |-> CheckAt(g, ps, i)]
    BY <2>5
  <2>7. IsCheck(g, ps, m)
    BY <2>6 DEF IsCheck
  <2> HIDE DEF g
  <2> QED  BY <1>1, <2>7
<1> QED  BY <1>2, <1>3

LEMMA ChecksAre ==
  ASSUME NEW ps, Len(ps) \in Nat
  PROVE  \E h : Checks(ps) = h[Len(ps)] /\ \A i \in 0..Len(ps) : h[i] = CheckAt(h, ps, i)
<1> DEFINE h == CHOOSE check : check = [i \in 0..Len(ps) |-> CheckAt(check, ps, i)]
<1>1. Checks(ps) = h[Len(ps)]
  BY DEF Checks, CheckAt
<1>2. h = [i \in 0..Len(ps) |-> CheckAt(h, ps, i)]
  <2>1. \E check : check = [i \in 0..Len(ps) |-> CheckAt(check, ps, i)]
    <3>1. PICK check : IsCheck(check, ps, Len(ps))
      BY CheckExists
    <3> QED  BY <3>1, Zenon DEF IsCheck
  <2> QED  BY <2>1, Zenon
<1> HIDE DEF h
<1>3. \A i \in 0..Len(ps) : h[i] = CheckAt(h, ps, i)
  BY <1>2
<1> QED  BY <1>1, <1>3

LEMMA ChecksChain ==
  ASSUME TreeInv, NEW ps, Len(ps) \in Nat, NEW C, \A i \in 1..Len(ps) : Checkable(ps[i], C)
  PROVE  Chain(Checks(ps), C, C) /\ Count(Checks(ps)) = 0
<1>1. PICK h : Checks(ps) = h[Len(ps)] /\ \A i \in 0..Len(ps) : h[i] = CheckAt(h, ps, i)
  BY ChecksAre
<1> DEFINE Good(i) == Chain(h[i], C, C) /\ Count(h[i]) = 0
           Bad == {i \in 0..Len(ps) : ~Good(i)}
<1>2. Bad = {}
  <2> SUFFICES ASSUME Bad # {} PROVE FALSE
    OBVIOUS
  <2>1. PICK i \in Bad : \A j \in Bad : i <= j
    <3>1. Bad \in SUBSET Nat
      OBVIOUS
    <3> HIDE DEF Bad
    <3> QED  BY <3>1, Least
  <2>2. i \in 0..Len(ps) /\ h[i] = CheckAt(h, ps, i)
    BY <1>1, <2>1
  <2>3. CASE i = 0
    <3>1. h[i] = <<>>
      BY <2>2, <2>3 DEF CheckAt
    <3>2. Chain(<<>>, C, C) /\ Count(<<>>) = 0
      BY ChainNone, CountNone, NoneSeq
    <3> QED  BY <2>1, <3>1, <3>2
  <2>4. CASE i # 0
    <3>1. i - 1 \in 0..Len(ps) /\ i - 1 \notin Bad /\ i \in 1..Len(ps)
      BY <2>1, <2>2, <2>4
    <3>2. Good(i - 1)
      BY <3>1
    <3>3. CASE ps[i] = NULL
      <4>1. h[i] = h[i - 1]
        BY <2>2, <2>4, <3>3 DEF CheckAt
      <4> QED  BY <2>1, <3>2, <4>1
    <3>4. CASE ps[i] # NULL
      <4> DEFINE x == Item("check", ps[i])
                 s == h[i - 1]
      <4>1. h[i] = Append(s, x)
        BY <2>2, <2>4, <3>4 DEF CheckAt
      <4>2. ps[i] \in Nodes /\ Outer(ps[i]) = C
        BY <3>1, <3>4 DEF Checkable
      <4>3. IsItem(x) /\ Before(x) = C /\ After(x) = C /\ x.op # "exit"
        BY <4>2, CheckItem
      <4>4. Chain(s, C, C) /\ Count(s) = 0 /\ IsSeq(s)
        BY <3>2 DEF Chain
      <4> HIDE DEF x, s
      <4>5. Chain(<<x>>, C, C) /\ Count(<<x>>) = 0 /\ IsSeq(<<x>>)
        BY <4>3, ChainOne, CountOne, OneSeq
      <4>6. Chain(s \o <<x>>, C, C)
        BY <4>4, <4>5, ChainConcat
      <4>7. Count(s \o <<x>>) = 0
        BY <4>4, <4>5, CountConcat
      <4>8. h[i] = s \o <<x>>
        BY <4>1, <4>4, AppendIs
      <4> QED  BY <2>1, <4>6, <4>7, <4>8
    <3> QED  BY <3>3, <3>4
  <2> QED  BY <2>3, <2>4
<1>3. Good(Len(ps))
  BY <1>2
<1> QED  BY <1>1, <1>3

LEMMA FcnSeq ==
  ASSUME NEW n \in Nat, NEW f, f = [i \in 1..n |-> f[i]] PROVE IsSeq(f) /\ Len(f) = n
<1> DEFINE S == {f[i] : i \in 1..n}
<1>1. f \in [1..n -> S]
  OBVIOUS
<1> HIDE DEF S
<1>2. f \in Seq(S)
  BY <1>1, SeqDef
<1>3. IsSeq(f) /\ f \in [1..Len(f) -> S] /\ Len(f) \in Nat
  BY <1>2, SeqIsSeq, LenProperties
<1>4. 1..n = 1..Len(f)
  BY <1>1, <1>3
<1>5. Len(f) = n
  BY <1>3, <1>4
<1> QED  BY <1>3, <1>5

LEMMA CheckOne ==
  ASSUME TreeInv, NEW q, NEW C, Checkable(q, C)
  PROVE  Chain(Checks(<<q>>), C, C) /\ Count(Checks(<<q>>)) = 0
<1> DEFINE ps == <<q>>
<1>1. Len(ps) = 1 /\ ps[1] = q
  OBVIOUS
<1> HIDE DEF ps
<1>2. Len(ps) \in Nat /\ \A i \in 1..Len(ps) : Checkable(ps[i], C)
  BY <1>1
<1>3. Chain(Checks(ps), C, C) /\ Count(Checks(ps)) = 0
  BY <1>2, ChecksChain
<1> QED  BY <1>3 DEF ps

-------------------------------------------------------------------------------
(* The list that starts at a node holds nodes of that node's scope.        *)

FromAt(h, q)  == IF q = NULL THEN <<>> ELSE <<q>> \o h[ast[q].at["next"]]
Reach(n)      == {0} \union (((Len(ast) + 1) - n)..Len(ast))
IsFrom(h, n)  == h = [q \in Reach(n) |-> FromAt(h, q)]

LEMMA FromExists == ASSUME TreeInv, NEW n \in 0..Len(ast) PROVE \E h : IsFrom(h, n)
<1> DEFINE L == Len(ast)
           Ok(m) == \E h : IsFrom(h, m)
           Bad == {m \in 0..n : ~Ok(m)}
<1>0. L \in Nat
  BY TreeIs
<1> SUFFICES ASSUME Bad # {} PROVE FALSE
  <2>1. n \in 0..n
    BY <1>0
  <2>2. Bad = {} => Ok(n)
    BY <2>1
  <2> QED  BY <2>2
<1>1. PICK m \in Bad : \A l \in Bad : m <= l
  <2>1. Bad \in SUBSET Nat
    BY <1>0
  <2> HIDE DEF Bad
  <2> QED  BY <2>1, Least
<1>2. CASE m = 0
  <2> DEFINE g == [q \in Reach(0) |-> <<>>]
  <2>1. \A q \in Reach(0) : q = 0
    BY <1>0 DEF Reach
  <2>2. g = [q \in Reach(0) |-> FromAt(g, q)]
    BY <2>1 DEF FromAt, NULL
  <2>3. IsFrom(g, 0)
    BY <2>2 DEF IsFrom
  <2> QED  BY <1>1, <1>2, <2>3
<1>3. CASE m # 0
  <2>1. m - 1 \in 0..n /\ m - 1 \notin Bad /\ m \in Nat /\ m <= L /\ m \in 0..n
    BY <1>0, <1>1, <1>3
  <2>2. PICK h : IsFrom(h, m - 1)
    BY <2>1
  <2>3. h = [q \in Reach(m - 1) |-> FromAt(h, q)]
    BY <2>2 DEF IsFrom
  <2> DEFINE g == [q \in Reach(m) |-> FromAt(h, q)]
  <2>4. \A r \in Reach(m - 1) : g[r] = h[r]
    <3> TAKE r \in Reach(m - 1)
    <3>1. r \in Reach(m)
      BY <1>0, <2>1 DEF Reach
    <3>2. h[r] = FromAt(h, r)
      BY <2>3
    <3> QED  BY <3>1, <3>2
  <2>5. ASSUME NEW q \in Reach(m) PROVE FromAt(h, q) = FromAt(g, q)
    <3> HIDE DEF g
    <3>1. CASE q = NULL
      BY <3>1 DEF FromAt
    <3>2. CASE q # NULL
      <4>1. q \in Nodes /\ q >= (L + 1) - m
        BY <1>0, <2>1, <3>2 DEF Reach, Nodes, NULL
      <4>2. ast[q].at["next"] \in {NULL} \union (q + 1)..L /\ q \in Nat
        BY <4>1, NodeHas
      <4>3. ast[q].at["next"] \in Reach(m - 1)
        BY <1>0, <2>1, <4>1, <4>2 DEF Reach, NULL
      <4> QED  BY <2>4, <4>3 DEF FromAt
    <3> QED  BY <3>1, <3>2
  <2>6. g = [q \in Reach(m) |-> FromAt(g, q)]
    BY <2>5
  <2>7. IsFrom(g, m)
    BY <2>6 DEF IsFrom
  <2> HIDE DEF g
  <2> QED  BY <1>1, <2>1, <2>7
<1> QED  BY <1>2, <1>3

LEMMA ListsAre ==
  ASSUME TreeInv
  PROVE  \E h : \A q \in 0..Len(ast) : ListAt(ast, q) = h[q] /\ h[q] = FromAt(h, q)
<1> DEFINE h == CHOOSE from : from = [q \in 0..Len(ast) |-> FromAt(from, q)]
<1>1. \A q : ListAt(ast, q) = h[q]
  BY DEF ListAt, FromAt
<1>2. h = [q \in 0..Len(ast) |-> FromAt(h, q)]
  <2>1. \E from : from = [q \in 0..Len(ast) |-> FromAt(from, q)]
    <3>1. Len(ast) \in Nat /\ Len(ast) \in 0..Len(ast)
      BY TreeIs
    <3>2. PICK from : IsFrom(from, Len(ast))
      BY <3>1, FromExists
    <3>3. Reach(Len(ast)) = 0..Len(ast)
      BY <3>1 DEF Reach
    <3>4. from = [q \in 0..Len(ast) |-> FromAt(from, q)]
      BY <3>2, <3>3 DEF IsFrom
    <3> QED  BY <3>4, Zenon
  <2> QED  BY <2>1, Zenon
<1> HIDE DEF h
<1>3. \A q \in 0..Len(ast) : h[q] = FromAt(h, q)
  BY <1>2
<1> QED  BY <1>1, <1>3

LEMMA ListIs ==
  ASSUME TreeInv, NEW p \in 0..Len(ast)
  PROVE  /\ IsSeq(ListAt(ast, p))
         /\ \A i \in 1..Len(ListAt(ast, p)) :
              /\ p \in Nodes /\ ListAt(ast, p)[i] \in Nodes
              /\ Enclosing(ListAt(ast, p)[i]) = Enclosing(p)
<1> DEFINE L == Len(ast)
<1>0. L \in Nat
  BY TreeIs
<1>1. PICK h : \A q \in 0..L : ListAt(ast, q) = h[q] /\ h[q] = FromAt(h, q)
  BY ListsAre
<1> DEFINE Good(q) == /\ IsSeq(h[q])
                      /\ \A i \in 1..Len(h[q]) :
                           q \in Nodes /\ h[q][i] \in Nodes /\ Enclosing(h[q][i]) = Enclosing(q)
           Bad == {n \in 0..L : ~Good(L - n)}
<1>2. Good(0)
  <2>1. 0 \in 0..L /\ FromAt(h, 0) = <<>>
    BY <1>0 DEF FromAt, NULL
  <2>2. h[0] = <<>>
    BY <1>1, <2>1
  <2> QED  BY <2>2, NoneSeq
<1>3. Bad = {}
  <2> SUFFICES ASSUME Bad # {} PROVE FALSE
    OBVIOUS
  <2>1. PICK n \in Bad : \A m \in Bad : n <= m
    <3>1. Bad \in SUBSET Nat
      BY <1>0
    <3> HIDE DEF Bad
    <3> QED  BY <3>1, Least
  <2> DEFINE q == L - n
  <2>2. n \in 0..L /\ q \in 0..L /\ ~Good(q)
    BY <1>0, <2>1
  <2>3. q # 0
    BY <1>2, <2>2
  <2>4. q \in Nodes
    BY <1>0, <2>2, <2>3 DEF Nodes
  <2> DEFINE r == ast[q].at["next"]
  <2>5. r \in {0} \union (q + 1)..L /\ (r = 0 \/ (r \in Nodes /\ Enclosing(r) = Enclosing(q)))
    <3> HIDE DEF q
    <3> QED  BY <2>4, NodeHas, NextLeads DEF NULL
  <2>6. Good(r)
    <3>1. CASE r = 0
      BY <1>2, <3>1
    <3>2. CASE r # 0
      <4> HIDE DEF r
      <4>1. L - r \in 0..L /\ L - r < n /\ L - (L - r) = r
        BY <1>0, <2>2, <2>5, <3>2
      <4>2. \A m \in Bad : ~(m < n)
        BY <1>0, <2>1, <2>2
      <4>3. L - r \notin Bad
        BY <4>1, <4>2
      <4>4. Good(L - (L - r))
        BY <4>1, <4>3
      <4> QED  BY <4>1, <4>4
    <3> QED  BY <3>1, <3>2
  <2>7. h[q] = <<q>> \o h[r]
    BY <1>1, <2>2, <2>3 DEF FromAt, NULL
  <2> HIDE DEF q, r
  <2> DEFINE o == <<q>>
             t == h[r]
  <2>8. IsSeq(o) /\ Len(o) = 1 /\ o[1] = q
    BY OneSeq
  <2>9. IsSeq(t) /\ Len(t) \in Nat
    BY <2>6 DEF IsSeq
  <2>10. h[q] = o \o t
    BY <2>7
  <2> HIDE DEF o, t
  <2>11. /\ IsSeq(o \o t) /\ Len(o \o t) = Len(o) + Len(t)
         /\ \A i \in 1..Len(o) : (o \o t)[i] = o[i]
         /\ \A i \in 1..Len(t) : (o \o t)[Len(o) + i] = t[i]
    <3>1. IsSeq(o) /\ IsSeq(t)
      BY <2>8, <2>9
    <3> QED  BY <3>1, ConcatSeq
  <2>12. ASSUME NEW i \in 1..Len(h[q])
         PROVE  q \in Nodes /\ h[q][i] \in Nodes /\ Enclosing(h[q][i]) = Enclosing(q)
    <3>1. i \in 1..(1 + Len(t))
      BY <2>8, <2>10, <2>11
    <3>2. CASE i = 1
      <4>1. h[q][i] = q
        BY <2>8, <2>10, <2>11, <3>2
      <4> QED  BY <2>4, <4>1
    <3>3. CASE i # 1
      <4>1. i - 1 \in 1..Len(t) /\ 1 + (i - 1) = i
        BY <2>9, <3>1, <3>3
      <4>2. (o \o t)[1 + (i - 1)] = t[i - 1]
        BY <2>8, <2>11, <4>1
      <4>3. h[q][i] = t[i - 1]
        BY <2>10, <4>1, <4>2
      <4>4. r \in Nodes /\ t[i - 1] \in Nodes /\ Enclosing(t[i - 1]) = Enclosing(r)
        BY <2>6, <4>1 DEF t
      <4>5. Enclosing(r) = Enclosing(q)
        BY <2>5, <4>4 DEF Nodes
      <4> QED  BY <2>4, <4>3, <4>4, <4>5
    <3> QED  BY <3>2, <3>3
  <2>13. Good(q)
    BY <2>10, <2>11, <2>12
  <2> QED  BY <2>2, <2>13 DEF q
<1>4. Good(p)
  <2>1. L - p \in 0..L /\ L - (L - p) = p
    BY <1>0
  <2>2. L - p \notin Bad
    BY <1>3
  <2> QED  BY <2>1, <2>2
<1> QED  BY <1>1, <1>4

-------------------------------------------------------------------------------
(* The symbol table: each slot carries the depth of its lexical scope, the *)
(* deeper ones in front, and none is deeper than the check is.             *)

SlotsOk(table, d) ==
  /\ IsSeq(table)
  /\ \A i \in 1..Len(table) :
       /\ table[i].decl \in Nodes /\ table[i].depth \in Nat
       /\ table[i].depth = Cardinality(ScopeOf(table[i].decl))
       /\ table[i].depth <= d
  /\ \A i, j \in 1..Len(table) : j <= i => table[j].depth >= table[i].depth

LEMMA SlotsNone == ASSUME NEW d PROVE SlotsOk(<<>>, d)
<1>1. IsSeq(<<>>) /\ 1..Len(<<>>) = {}
  BY NoneSeq
<1> QED  BY <1>1 DEF SlotsOk

LEMMA SlotsDeeper ==
  ASSUME NEW table, NEW d \in Nat, NEW e \in Nat, SlotsOk(table, d), d <= e
  PROVE  SlotsOk(table, e)
  BY DEF SlotsOk

LEMMA SlotHas ==
  ASSUME NEW name, NEW kind, NEW const, NEW type, NEW params, NEW decl, NEW d
  PROVE  /\ [Slot(name, kind, const, type, params, decl) EXCEPT !.depth = d].depth = d
         /\ [Slot(name, kind, const, type, params, decl) EXCEPT !.depth = d].decl = decl
  BY DEF Slot

LEMMA AddOk ==
  ASSUME NEW table, NEW e \in Nat, SlotsOk(table, e), NEW d \in Nat, e <= d,
         NEW name, NEW kind, NEW const, NEW type, NEW params,
         NEW decl \in Nodes, Cardinality(ScopeOf(decl)) = d
  PROVE  SlotsOk(AddSlot(table, d, Slot(name, kind, const, type, params, decl)), d)
<1> DEFINE x == [Slot(name, kind, const, type, params, decl) EXCEPT !.depth = d]
           o == <<x>>
           u == o \o table
           n == Len(table)
<1>1. AddSlot(table, d, Slot(name, kind, const, type, params, decl)) = u
  BY DEF AddSlot
<1>2. x.depth = d /\ x.decl = decl
  BY SlotHas
<1> HIDE DEF x
<1>3. IsSeq(o) /\ Len(o) = 1 /\ o[1] = x
  BY OneSeq
<1> HIDE DEF o
<1>4. IsSeq(table) /\ n \in Nat
  BY DEF SlotsOk, IsSeq
<1>5. /\ IsSeq(u) /\ Len(u) = Len(o) + n
      /\ \A i \in 1..Len(o) : u[i] = o[i]
      /\ \A i \in 1..n : u[Len(o) + i] = table[i]
  <2>1. IsSeq(o) /\ IsSeq(table)
    BY <1>3, <1>4
  <2> QED  BY <2>1, ConcatSeq
<1> HIDE DEF u
<1>6. u[1] = x /\ Len(u) = n + 1
  BY <1>3, <1>4, <1>5
<1>7. ASSUME NEW i \in 1..(n + 1), i # 1 PROVE i - 1 \in 1..n /\ u[i] = table[i - 1]
  <2>1. i - 1 \in 1..n /\ 1 + (i - 1) = i
    BY <1>4, <1>7
  <2>2. u[1 + (i - 1)] = table[i - 1]
    BY <1>3, <1>5, <2>1
  <2> QED  BY <2>1, <2>2
<1>8. ASSUME NEW i \in 1..Len(u)
      PROVE  /\ u[i].decl \in Nodes /\ u[i].depth \in Nat
             /\ u[i].depth = Cardinality(ScopeOf(u[i].decl)) /\ u[i].depth <= d
  <2>1. CASE i = 1
    BY <1>2, <1>6, <2>1
  <2>2. CASE i # 1
    <3>1. i - 1 \in 1..n /\ u[i] = table[i - 1]
      BY <1>6, <1>7, <2>2
    <3>2. /\ table[i - 1].decl \in Nodes /\ table[i - 1].depth \in Nat
          /\ table[i - 1].depth = Cardinality(ScopeOf(table[i - 1].decl))
          /\ table[i - 1].depth <= e
      BY <3>1 DEF SlotsOk
    <3> QED  BY <3>1, <3>2
  <2> QED  BY <2>1, <2>2
<1>9. ASSUME NEW i \in 1..Len(u), NEW j \in 1..Len(u), j <= i
      PROVE  u[j].depth >= u[i].depth
  <2>1. CASE j = 1
    <3>1. u[j].depth = d /\ u[i].depth <= d /\ u[i].depth \in Nat
      BY <1>2, <1>6, <1>8, <2>1
    <3> QED  BY <3>1
  <2>2. CASE j # 1
    <3>1. i # 1 /\ i \in 1..(n + 1) /\ j \in 1..(n + 1)
      BY <1>4, <1>6, <1>9, <2>2
    <3>2. /\ i - 1 \in 1..n /\ u[i] = table[i - 1]
          /\ j - 1 \in 1..n /\ u[j] = table[j - 1] /\ j - 1 <= i - 1
      BY <1>4, <1>7, <1>9, <2>2, <3>1
    <3> QED  BY <3>2 DEF SlotsOk
  <2> QED  BY <2>1, <2>2
<1> QED  BY <1>1, <1>5, <1>8, <1>9 DEF SlotsOk

(* exit_scope frees the slots in front that have the depth it leaves.      *)
LEMMA PopIs ==
  ASSUME IsSeq(slots)
  PROVE  \E first \in 1..(Len(slots) + 1) :
           /\ first \in 1..Len(slots) => slots[first].depth # depth
           /\ \A k \in 1..(first - 1) : slots[k].depth = depth
           /\ IsSeq(PopSlots) /\ Len(PopSlots) = (Len(slots) - first) + 1
           /\ \A i \in 1..Len(PopSlots) : PopSlots[i] = slots[(first + i) - 1]
<1> DEFINE n == Len(slots)
           kept == {i \in DOMAIN slots : slots[i].depth # depth}
           first == IF kept = {} THEN n + 1
                    ELSE CHOOSE i \in kept : \A j \in kept : i <= j
           u == SubSeq(slots, first, n)
<1>1. PopSlots = u
  BY DEF PopSlots
<1>2. n \in Nat /\ DOMAIN slots = 1..n /\ kept \subseteq 1..n
  BY DEF IsSeq
<1>3. first \in 1..(n + 1) /\ (first \in 1..n => first \in kept) /\ \A k \in kept : first <= k
  <2>1. CASE kept = {}
    BY <1>2, <2>1
  <2>2. CASE kept # {}
    <3>1. \E i \in kept : \A j \in kept : i <= j
      <4>1. kept \in SUBSET Nat
        BY <1>2
      <4> HIDE DEF kept
      <4> QED  BY <2>2, <4>1, Least
    <3>2. first \in kept /\ \A j \in kept : first <= j
      <4> HIDE DEF kept
      <4> QED  BY <2>2, <3>1
    <3> HIDE DEF kept, first
    <3> QED  BY <1>2, <3>2
  <2> QED  BY <2>1, <2>2
<1> HIDE DEF first
<1>4. first \in 1..n => slots[first].depth # depth
  BY <1>3
<1>5. ASSUME NEW k \in 1..(first - 1) PROVE slots[k].depth = depth
  <2>1. k \in 1..n /\ ~(first <= k)
    BY <1>2, <1>3
  <2> QED  BY <1>2, <1>3, <2>1
<1> HIDE DEF kept
<1>6. /\ IsSeq(u) /\ Len(u) = (n - first) + 1
      /\ \A i \in 1..Len(u) : u[i] = slots[(first + i) - 1]
  <2> DEFINE S == {slots[i] : i \in 1..n}
  <2>1. slots \in Seq(S)
    <3>1. \A i \in 1..n : slots[i] \in S
      OBVIOUS
    <3> HIDE DEF S
    <3> QED  BY <1>2, <3>1, SeqOver
  <2> HIDE DEF S
  <2>2. first \in 1..(n + 1) /\ n \in (first - 1)..n /\ first \in Int
    BY <1>2, <1>3
  <2>3. /\ u \in Seq(S) /\ Len(u) = (IF first <= n THEN (n - first) + 1 ELSE 0)
        /\ \A i \in 1..Len(u) : u[i] = slots[(first + i) - 1]
    BY <2>1, <2>2, SubSeqProperties
  <2>4. Len(u) = (n - first) + 1
    BY <1>2, <2>2, <2>3
  <2>5. IsSeq(u)
    BY <2>3, SeqIsSeq
  <2> QED  BY <2>3, <2>4, <2>5
<1> HIDE DEF u, n
<1> QED  BY <1>1, <1>3, <1>4, <1>5, <1>6 DEF n

LEMMA PopOk ==
  ASSUME SlotsOk(slots, depth), depth \in Nat, depth # 0
  PROVE  SlotsOk(PopSlots, depth - 1)
<1> DEFINE n == Len(slots)
           u == PopSlots
<1>1. n \in Nat /\ IsSeq(slots)
  BY DEF SlotsOk, IsSeq
<1>2. PICK first \in 1..(n + 1) :
         /\ first \in 1..n => slots[first].depth # depth
         /\ IsSeq(u) /\ Len(u) = (n - first) + 1
         /\ \A i \in 1..Len(u) : u[i] = slots[(first + i) - 1]
  BY <1>1, PopIs
<1> HIDE DEF u
<1>3. ASSUME NEW i \in 1..Len(u)
      PROVE  /\ (first + i) - 1 \in 1..n /\ first \in 1..n /\ first <= (first + i) - 1
             /\ u[i] = slots[(first + i) - 1]
  BY <1>1, <1>2
<1>4. ASSUME NEW i \in 1..Len(u)
      PROVE  /\ u[i].decl \in Nodes /\ u[i].depth \in Nat
             /\ u[i].depth = Cardinality(ScopeOf(u[i].decl)) /\ u[i].depth <= depth - 1
  <2> DEFINE k == (first + i) - 1
  <2>1. k \in 1..n /\ first \in 1..n /\ first <= k /\ u[i] = slots[k]
    BY <1>3
  <2> HIDE DEF k
  <2>2. /\ slots[k].decl \in Nodes /\ slots[k].depth \in Nat
        /\ slots[k].depth = Cardinality(ScopeOf(slots[k].decl))
    BY <2>1 DEF SlotsOk
  <2>3. slots[first].depth \in Nat /\ slots[first].depth <= depth
        /\ slots[first].depth >= slots[k].depth /\ slots[first].depth # depth
    BY <1>2, <2>1 DEF SlotsOk
  <2> QED  BY <2>1, <2>2, <2>3
<1>5. ASSUME NEW i \in 1..Len(u), NEW j \in 1..Len(u), j <= i
      PROVE  u[j].depth >= u[i].depth
  <2>1. (first + j) - 1 <= (first + i) - 1
    BY <1>1, <1>2, <1>5
  <2> QED  BY <1>3, <2>1 DEF SlotsOk
<1> QED  BY <1>2, <1>4, <1>5 DEF SlotsOk, u

-------------------------------------------------------------------------------
(* What the tree says stays while the tree does.                           *)

LEMMA EnclosingStays == ASSUME UNCHANGED ast PROVE \A q : Enclosing(q)' = Enclosing(q)
  BY DEF Enclosing, Links

LEMMA RetStays == ASSUME UNCHANGED ast, NEW S PROVE RetOf(S)' = RetOf(S)
<1>1. FuncsIn(S)' = FuncsIn(S)
  BY DEF FuncsIn
<1>2. \A F : LastRet(F)' = LastRet(F)
  BY DEF LastRet
<1> QED  BY <1>1, <1>2 DEF RetOf

LEMMA ItemStays ==
  ASSUME UNCHANGED ast, NEW x
  PROVE  Before(x)' = Before(x) /\ After(x)' = After(x) /\ (IsItem(x) => IsItem(x)')
<1>1. Enclosing(x.node)' = Enclosing(x.node)
  BY EnclosingStays
<1>2. RetOf(Enclosing(x.node))' = RetOf(Enclosing(x.node))
  BY <1>1, RetStays DEF RetOf
<1>3. RetOf(Enclosing(x.node) \union {x.node})' = RetOf(Enclosing(x.node) \union {x.node})
  BY <1>1, RetStays DEF RetOf
<1>4. Inner(x.node)' = Inner(x.node) /\ Outer(x.node)' = Outer(x.node)
  BY <1>1, <1>2, <1>3 DEF Inner, Outer
<1>5. Before(x)' = Before(x)
  BY <1>1, <1>4 DEF Before
<1>6. After(x)' = After(x)
  BY <1>1, <1>3, <1>4, <1>5 DEF After
<1>7. IsItem(x) => IsItem(x)'
  BY <1>2 DEF IsItem, Nodes
<1> QED  BY <1>5, <1>6, <1>7

LEMMA ChainStays ==
  ASSUME UNCHANGED ast, NEW s, NEW A, NEW B, Chain(s, A, B) PROVE Chain(s, A, B)'
  BY ItemStays DEF Chain

LEMMA SlotsStay ==
  ASSUME UNCHANGED ast, NEW table, NEW d, SlotsOk(table, d) PROVE SlotsOk(table, d)'
<1>1. \A q : ScopeOf(q)' = ScopeOf(q)
  BY EnclosingStays DEF ScopeOf
<1> QED  BY <1>1 DEF SlotsOk, Nodes

-------------------------------------------------------------------------------
(* The inductive invariant: the stack is a chain of contexts that ends     *)
(* outside the program, and depth, funcType and the table are those of the *)
(* context that is open now.                                               *)

NowOf(s) == IF s = <<>> THEN Done ELSE Before(Head(s))

IInv == /\ TreeInv
        /\ Chain(todo, NowOf(todo), Done)
        /\ depth = Cardinality(NowOf(todo).scopes) /\ funcType = NowOf(todo).ret
        /\ depth = Count(todo)
        /\ SlotsOk(slots, depth)

LEMMA ChainNow == ASSUME NEW s, NEW A, Chain(s, A, Done) PROVE NowOf(s) = A
<1>1. CASE Len(s) = 0
  <2>1. s = <<>> /\ A = Done
    BY <1>1, NoneSeq DEF Chain
  <2> QED  BY <2>1 DEF NowOf
<1>2. CASE Len(s) # 0
  <2>1. s # <<>>
    BY <1>2
  <2>2. Before(Head(s)) = A
    BY <1>2, ChainTail
  <2> QED  BY <2>1, <2>2 DEF NowOf
<1> QED  BY <1>1, <1>2

LEMMA Step ==
  ASSUME TreeInv, UNCHANGED ast, NEW C, Chain(todo', C, Done),
         depth' = Cardinality(C.scopes), funcType' = C.ret, depth' = Count(todo'),
         SlotsOk(slots', depth')
  PROVE  IInv' /\ NowOf(todo)' = C
<1>1. NowOf(todo') = C
  BY ChainNow
<1>2. NowOf(todo)' = C
  <2>1. Before(Head(todo))' = Before(Head(todo'))
    BY ItemStays
  <2> QED  BY <1>1, <2>1 DEF NowOf, Done
<1>3. Chain(todo, NowOf(todo), Done)'
  BY <1>2, ChainStays DEF Done
<1>4. SlotsOk(slots, depth)'
  BY SlotsStay
<1>5. TreeInv'
  BY DEF TreeInv
<1> QED  BY <1>2, <1>3, <1>4, <1>5 DEF IInv, Count, Exits

LEMMA AtHead ==
  ASSUME IInv, todo # <<>>
  PROVE  /\ IsSeq(todo) /\ IsItem(Head(todo)) /\ Here \in Nodes
         /\ Chain(Tail(todo), After(Head(todo)), Done) /\ IsSeq(Tail(todo))
         /\ depth = Cardinality(Before(Head(todo)).scopes)
         /\ funcType = Before(Head(todo)).ret
         /\ depth = (IF Head(todo).op = "exit" THEN 1 ELSE 0) + Count(Tail(todo))
         /\ Count(Tail(todo)) \in Nat /\ depth \in Nat /\ SlotsOk(slots, depth)
<1>1. IsSeq(todo) /\ Chain(todo, NowOf(todo), Done)
  BY DEF IInv, Chain
<1>2. Len(todo) # 0
  BY <1>1, NoneSeq
<1>3. IsItem(Head(todo)) /\ Chain(Tail(todo), After(Head(todo)), Done)
  BY <1>1, <1>2, ChainTail
<1>4. IsSeq(Tail(todo)) /\ Here \in Nodes
  BY <1>3 DEF Chain, IsItem, Here
<1>5. Count(todo) = (IF Head(todo).op = "exit" THEN 1 ELSE 0) + Count(Tail(todo))
  BY <1>1, <1>2, CountTail
<1>6. Count(Tail(todo)) \in Nat
  BY <1>4, ExitsFinite
<1> QED  BY <1>1, <1>3, <1>4, <1>5, <1>6 DEF IInv, NowOf

LEMMA AtCheck ==
  ASSUME IInv, AtItem("check")
  PROVE  /\ todo # <<>> /\ Here \in Nodes /\ TreeInv
         /\ Chain(Tail(todo), Outer(Here), Done) /\ IsSeq(Tail(todo))
         /\ depth = Cardinality(Enclosing(Here)) /\ depth \in Nat
         /\ funcType = RetOf(Enclosing(Here))
         /\ depth = Count(Tail(todo)) /\ SlotsOk(slots, depth)
         /\ Cardinality(Enclosing(Here) \union {Here}) = depth + 1
         /\ Chain(CheckOf("next"), Outer(Here), Outer(Here)) /\ Count(CheckOf("next")) = 0
<1>1. todo # <<>> /\ Head(todo).op = "check" /\ Head(todo).node = Here
  BY DEF AtItem, Here
<1>2. Before(Head(todo)) = Outer(Here) /\ After(Head(todo)) = Outer(Here)
  BY <1>1 DEF Before, After
<1>3. Outer(Here).scopes = Enclosing(Here) /\ Outer(Here).ret = RetOf(Enclosing(Here))
  BY CtxHas DEF Outer
<1>4. Here \in Nodes /\ TreeInv
  BY <1>1, AtHead DEF IInv
<1>5. Cardinality(Enclosing(Here) \union {Here}) = Cardinality(Enclosing(Here)) + 1
  BY <1>4, EnclosingSize
<1>6. Chain(CheckOf("next"), Outer(Here), Outer(Here)) /\ Count(CheckOf("next")) = 0
  BY <1>4, NextLeads, CheckOne DEF CheckOf, Member
<1> QED  BY <1>1, <1>2, <1>3, <1>4, <1>5, <1>6, AtHead

LEMMA MemberChain ==
  ASSUME IInv, AtItem("check"), NEW m \in Into \intersect Given(ast[Here].type)
  PROVE  /\ Chain(CheckOf(m), InnerOf(Here), InnerOf(Here)) /\ Count(CheckOf(m)) = 0
         /\ IsSeq(CheckOf(m))
<1>1. Here \in Nodes /\ TreeInv
  BY AtCheck
<1>2. Checkable(Member(m), InnerOf(Here))
  BY <1>1, MemberLeads DEF Member
<1> QED  BY <1>1, <1>2, CheckOne DEF CheckOf, Chain

(* A step that has `before' checked first: from the context the step leaves*)
(* behind to the one around the node.                                      *)
LEMMA VisitStep ==
  ASSUME IInv, AtItem("check"), NEW before, Visit(before),
         NEW C, Chain(before, C, Outer(Here)),
         depth' = Cardinality(C.scopes), funcType' = C.ret, depth' = depth + Count(before),
         SlotsOk(slots', depth')
  PROVE  IInv' /\ NowOf(todo)' = C
<1> DEFINE n == CheckOf("next")
           t == Tail(todo)
           h == Outer(Here)
<1>1. UNCHANGED ast /\ todo' = before \o n \o t
  BY DEF Visit
<1>2. TreeInv /\ Chain(n, h, h) /\ Chain(t, h, Done) /\ Count(n) = 0 /\ depth = Count(t)
      /\ depth \in Nat
  BY AtCheck
<1> HIDE DEF n, t, h
<1>3. IsSeq(before) /\ IsSeq(n) /\ IsSeq(t)
  BY <1>2 DEF Chain
<1>4. Chain(before, C, h)
  BY DEF h
<1>5. Chain(before \o n, C, h)
  BY <1>2, <1>4, ChainConcat
<1>6. IsSeq(before \o n) /\ Count(before \o n) = Count(before) + Count(n)
  BY <1>3, ConcatSeq, CountConcat
<1>7. Chain((before \o n) \o t, C, Done)
  BY <1>2, <1>5, ChainConcat
<1>8. Count((before \o n) \o t) = Count(before \o n) + Count(t)
  BY <1>3, <1>6, CountConcat
<1>9. Count(before) \in Nat
  BY <1>3, ExitsFinite
<1>10. depth' = Count(todo')
  BY <1>1, <1>2, <1>6, <1>8, <1>9
<1>11. Chain(todo', C, Done)
  BY <1>1, <1>7
<1> QED  BY <1>1, <1>2, <1>10, <1>11, Step

(* A step that goes on with the next item.                                 *)
LEMMA NoneBefore == ASSUME NEW s, IsSeq(s) PROVE <<>> \o s = s
<1> DEFINE e == <<>>
           u == e \o s
<1>1. IsSeq(e) /\ Len(e) = 0
  BY NoneSeq
<1> HIDE DEF e
<1>2. /\ IsSeq(u) /\ Len(u) = Len(e) + Len(s)
      /\ \A i \in 1..Len(s) : u[Len(e) + i] = s[i]
  BY <1>1, ConcatSeq
<1> HIDE DEF u
<1>3. Len(s) \in Nat
  BY DEF IsSeq
<1>4. Len(u) = Len(s) /\ \A i \in 1..Len(s) : u[i] = s[i]
  BY <1>1, <1>2, <1>3
<1>5. u = [i \in 1..Len(s) |-> u[i]] /\ s = [i \in 1..Len(s) |-> s[i]]
  BY <1>2, <1>4 DEF IsSeq
<1>6. u = s
  BY <1>4, <1>5
<1> QED  BY <1>6 DEF u, e

LEMMA NextItem ==
  ASSUME IInv, todo # <<>>, UNCHANGED ast, todo' = Tail(todo) \/ todo' = <<>> \o Tail(todo),
         depth' = Cardinality(After(Head(todo)).scopes), funcType' = After(Head(todo)).ret,
         depth' = depth - (IF Head(todo).op = "exit" THEN 1 ELSE 0),
         SlotsOk(slots', depth')
  PROVE  IInv' /\ NowOf(todo)' = After(Head(todo))
<1>1. /\ Chain(Tail(todo), After(Head(todo)), Done) /\ IsSeq(Tail(todo)) /\ depth \in Nat
      /\ depth = (IF Head(todo).op = "exit" THEN 1 ELSE 0) + Count(Tail(todo))
      /\ Count(Tail(todo)) \in Nat
  BY AtHead
<1>2. todo' = Tail(todo)
  BY <1>1, NoneBefore
<1>3. depth' = Count(todo')
  BY <1>1, <1>2
<1>4. TreeInv
  BY DEF IInv
<1> QED  BY <1>1, <1>2, <1>3, <1>4, Step

(* ... and that leaves the scopes as they are.                             *)
LEMMA SameItem ==
  ASSUME IInv, NEW op, AtItem(op), op \in {"initialized", "returned", "called", "range"},
         UNCHANGED <<ast, depth, funcType>>, todo' = Tail(todo) \/ todo' = <<>> \o Tail(todo),
         SlotsOk(slots', depth')
  PROVE  IInv' /\ NowOf(todo)' = Before(Head(todo))
<1>1. todo # <<>> /\ Head(todo).op = op
  BY DEF AtItem
<1>2. After(Head(todo)) = Before(Head(todo)) /\ Head(todo).op # "exit"
  BY <1>1 DEF After
<1>3. depth = Cardinality(Before(Head(todo)).scopes) /\ funcType = Before(Head(todo)).ret
      /\ depth \in Nat
  BY <1>1, AtHead
<1> QED  BY <1>1, <1>2, <1>3, NextItem

-------------------------------------------------------------------------------
(* The actions: what each of them keeps, and the scopes that are open then.*)

Moves(S) == IInv' /\ NowOf(todo)'.scopes = S
Around   == Enclosing(Here)

LEMMA SameScope ==
  ASSUME IInv, AtItem("check"), NEW before, Visit(before),
         Chain(before, Outer(Here), Outer(Here)), Count(before) = 0,
         UNCHANGED <<depth, funcType>>, SlotsOk(slots', depth)
  PROVE  Moves(Around)
<1>1. Outer(Here).scopes = Enclosing(Here) /\ Outer(Here).ret = RetOf(Enclosing(Here))
  BY CtxHas DEF Outer
<1>2. depth = Cardinality(Enclosing(Here)) /\ funcType = RetOf(Enclosing(Here)) /\ depth \in Nat
  BY AtCheck
<1>3. depth' = depth + Count(before) /\ depth' = depth /\ funcType' = funcType
  BY <1>2
<1>4. IInv' /\ NowOf(todo)' = Outer(Here)
  BY <1>1, <1>2, <1>3, VisitStep
<1> QED  BY <1>1, <1>4 DEF Moves, Around

LEMMA EnterStep ==
  ASSUME IInv, AtItem("check"), ast[Here].type \in Opens, ast[Here].type # "FUNC_DECL",
         NEW checks, Enter(checks), Chain(checks, Inner(Here), Inner(Here)), Count(checks) = 0,
         UNCHANGED funcType, SlotsOk(slots', depth + 1)
  PROVE  Moves(Around \union {Here})
<1> DEFINE x == Item("exit", Here)
           o == <<x>>
           C == Inner(Here)
<1>1. /\ Here \in Nodes /\ TreeInv /\ depth = Cardinality(Enclosing(Here)) /\ depth \in Nat
      /\ funcType = RetOf(Enclosing(Here))
      /\ Cardinality(Enclosing(Here) \union {Here}) = depth + 1
  BY AtCheck
<1>2. C.scopes = Enclosing(Here) \union {Here} /\ C.ret = RetOf(Enclosing(Here) \union {Here})
  BY CtxHas DEF Inner
<1>3. C.ret = funcType
  BY <1>1, <1>2, RetWithin
<1>4. x.op = "exit" /\ x.node = Here
  BY ItemHas
<1>5. IsItem(x)
  BY <1>1, <1>4 DEF IsItem
<1>6. Before(x) = C /\ After(x) = Outer(Here)
  BY <1>1, <1>4, AfterExit
<1>7. depth' = depth + 1 /\ Visit(checks \o o)
  BY DEF Enter
<1> HIDE DEF x, C
<1>8. Chain(o, C, Outer(Here)) /\ Count(o) = 1 /\ IsSeq(o)
  BY <1>4, <1>5, <1>6, ChainOne, CountOne DEF Chain
<1> HIDE DEF o
<1>9. Chain(checks, C, C) /\ IsSeq(checks)
  BY DEF Chain, C
<1>10. Chain(checks \o o, C, Outer(Here))
  BY <1>8, <1>9, ChainConcat
<1>11. Count(checks \o o) = 1
  BY <1>8, <1>9, CountConcat
<1>12. depth' = Cardinality(C.scopes) /\ funcType' = C.ret /\ depth' = depth + Count(checks \o o)
  BY <1>1, <1>2, <1>3, <1>7, <1>11
<1>13. SlotsOk(slots', depth')
  BY <1>7
<1>14. IInv' /\ NowOf(todo)' = C
  BY <1>7, <1>10, <1>12, <1>13, VisitStep
<1> QED  BY <1>2, <1>14 DEF Moves, Around

LEMMA DeclareHere ==
  ASSUME IInv, AtItem("check"), NEW name, NEW kind, NEW const, NEW type, NEW params,
         ast[Here].type \notin OwnScope
  PROVE  SlotsOk(AddSlot(slots, depth, Slot(name, kind, const, type, params, Here)), depth)
<1>1. Here \in Nodes /\ depth = Cardinality(Enclosing(Here)) /\ depth \in Nat /\ SlotsOk(slots, depth)
  BY AtCheck
<1>2. ScopeOf(Here) = Enclosing(Here)
  BY DEF ScopeOf
<1> QED  BY <1>1, <1>2, AddOk

LEMMA DeclareInside ==
  ASSUME IInv, AtItem("check"), NEW name, NEW kind, NEW const, NEW type, NEW params,
         ast[Here].type \in OwnScope
  PROVE  SlotsOk(AddSlot(slots, depth + 1, Slot(name, kind, const, type, params, Here)), depth + 1)
<1>1. Here \in Nodes /\ Cardinality(Enclosing(Here) \union {Here}) = depth + 1 /\ depth \in Nat
      /\ SlotsOk(slots, depth) /\ depth + 1 \in Nat /\ depth <= depth + 1
  BY AtCheck
<1>2. ScopeOf(Here) = Enclosing(Here) \union {Here}
  BY DEF ScopeOf
<1> QED  BY <1>1, <1>2, AddOk

(* The members of a node that opens no scope, one after the other.         *)
LEMMA TwoMembers ==
  ASSUME IInv, AtItem("check"), NEW l \in Into \intersect Given(ast[Here].type),
         NEW m \in Into \intersect Given(ast[Here].type)
  PROVE  /\ Chain(CheckOf(l) \o CheckOf(m), InnerOf(Here), InnerOf(Here))
         /\ Count(CheckOf(l) \o CheckOf(m)) = 0 /\ IsSeq(CheckOf(l) \o CheckOf(m))
<1>1. Chain(CheckOf(l), InnerOf(Here), InnerOf(Here)) /\ Count(CheckOf(l)) = 0 /\ IsSeq(CheckOf(l))
  BY MemberChain
<1>2. Chain(CheckOf(m), InnerOf(Here), InnerOf(Here)) /\ Count(CheckOf(m)) = 0 /\ IsSeq(CheckOf(m))
  BY MemberChain
<1> QED  BY <1>1, <1>2, ChainConcat, CountConcat, ConcatSeq

LEMMA TraverseStep == ASSUME IInv, Traverse PROVE Moves(Around)
<1> DEFINE t == ast[Here].type
           ps == [i \in DOMAIN Visited(t) |-> Member(Visited(t)[i])]
           n == Len(Visited(t))
<1>1. AtItem("check") /\ t \notin Cases /\ Visit(Checks(ps)) /\ UNCHANGED <<slots, depth, funcType>>
  BY DEF Traverse
<1>2. n \in Nat /\ DOMAIN Visited(t) = 1..n
      /\ \A i \in 1..n : Visited(t)[i] \in Given(t) \intersect Into
  BY <1>1, VisitedGiven
<1>3. Here \in Nodes /\ TreeInv /\ SlotsOk(slots, depth)
  BY <1>1, AtCheck
<1>4. t \notin Opens
  BY <1>1 DEF Cases, Opens
<1>5. InnerOf(Here) = Outer(Here)
  BY <1>4 DEF InnerOf
<1>6. \A i \in 1..n : ps[i] = ast[Here].at[Visited(t)[i]]
  BY <1>2 DEF Member
<1>7. \A i \in 1..n : Checkable(ps[i], Outer(Here))
  BY <1>2, <1>3, <1>5, <1>6, MemberLeads
<1>8. ps = [i \in 1..n |-> ps[i]]
  BY <1>2
<1> HIDE DEF ps
<1>9. Len(ps) = n
  BY <1>2, <1>8, FcnSeq
<1>10. Chain(Checks(ps), Outer(Here), Outer(Here)) /\ Count(Checks(ps)) = 0
  BY <1>2, <1>3, <1>7, <1>9, ChecksChain
<1>11. SlotsOk(slots', depth)
  BY <1>1, <1>3
<1> QED  BY <1>1, <1>10, <1>11, SameScope

LEMMA VarDeclStep == ASSUME IInv, VarDecl PROVE Moves(Around)
<1> DEFINE last == IF Member("initializer") # NULL /\ Has(Member("type_name"))
                   THEN <<Item("initialized", Here)>> ELSE <<>>
           both == CheckOf("inline_type") \o CheckOf("initializer")
<1>1. /\ AtItem("check") /\ ast[Here].type = "VAR_DECL" /\ Visit(both \o last)
      /\ UNCHANGED <<depth, funcType>>
  BY DEF VarDecl, AtNode, Here
<1>2. Here \in Nodes /\ TreeInv /\ SlotsOk(slots, depth)
  BY <1>1, AtCheck
<1>3. "inline_type" \in Into \intersect Given(ast[Here].type)
      /\ "initializer" \in Into \intersect Given(ast[Here].type)
  BY <1>1, MembersOf DEF Into, Pointers
<1>4. InnerOf(Here) = Outer(Here)
  BY <1>1 DEF InnerOf, Opens
<1>5. Chain(both, Outer(Here), Outer(Here)) /\ Count(both) = 0 /\ IsSeq(both)
  BY <1>1, <1>3, <1>4, TwoMembers
<1>6. Chain(last, Outer(Here), Outer(Here)) /\ Count(last) = 0 /\ IsSeq(last)
  <2> DEFINE x == Item("initialized", Here)
  <2>1. x.op = "initialized" /\ x.node = Here
    BY ItemHas
  <2> HIDE DEF x
  <2>2. IsItem(x) /\ Before(x) = Outer(Here) /\ After(x) = Outer(Here)
    BY <1>1, <1>2, <2>1 DEF IsItem, Before, After
  <2>3. Chain(<<x>>, Outer(Here), Outer(Here)) /\ Count(<<x>>) = 0 /\ IsSeq(<<x>>)
    BY <2>1, <2>2, ChainOne, CountOne, OneSeq
  <2>4. Chain(<<>>, Outer(Here), Outer(Here)) /\ Count(<<>>) = 0 /\ IsSeq(<<>>)
    BY ChainNone, CountNone, NoneSeq
  <2>5. last = <<x>> \/ last = <<>>
    BY DEF x
  <2> QED  BY <2>3, <2>4, <2>5
<1> HIDE DEF both, last
<1>7. Chain(both \o last, Outer(Here), Outer(Here)) /\ Count(both \o last) = 0
  BY <1>5, <1>6, ChainConcat, CountConcat
<1>8. SlotsOk(slots', depth)
  <2>1. ast[Here].type \notin OwnScope
    BY <1>1 DEF OwnScope
  <2>2. slots' = slots \/ \E const : slots' = AddSlot(slots, depth, Slot(Member("name"), "VAR",
                            const, Member("type_name"), <<>>, Here))
    BY DEF VarDecl
  <2> QED  BY <1>1, <1>2, <2>1, <2>2, DeclareHere
<1> QED  BY <1>1, <1>7, <1>8, SameScope

LEMMA RestsStep == ASSUME IInv, Initialized \/ Returned \/ Called PROVE Moves(Around)
<1>1. PICK op \in {"initialized", "returned", "called"} :
         AtItem(op) /\ Resume(<<>>) /\ UNCHANGED <<slots, depth, funcType>>
  BY DEF Initialized, Returned, Called
<1>2. todo' = <<>> \o Tail(todo) /\ UNCHANGED <<ast, depth, funcType>>
  BY <1>1 DEF Resume
<1>3. SlotsOk(slots', depth')
  BY <1>1 DEF IInv
<1>4. Before(Head(todo)).scopes = Around
  <2>1. Head(todo).op = op /\ Head(todo).node = Here
    BY <1>1 DEF AtItem, Here
  <2>2. Before(Head(todo)) = Outer(Here)
    BY <2>1 DEF Before
  <2> QED  BY <2>2, CtxHas DEF Outer, Around
<1>5. IInv' /\ NowOf(todo)' = Before(Head(todo))
  BY <1>1, <1>2, <1>3, SameItem
<1> QED  BY <1>4, <1>5 DEF Moves

LEMMA IdentifierStep == ASSUME IInv, Identifier PROVE Moves(Around)
<1>1. AtItem("check") /\ Visit(<<>>) /\ UNCHANGED <<slots, depth, funcType>>
  BY DEF Identifier, AtNode
<1>2. Chain(<<>>, Outer(Here), Outer(Here)) /\ Count(<<>>) = 0
  BY ChainNone, CountNone, NoneSeq
<1>3. SlotsOk(slots', depth)
  BY <1>1 DEF IInv
<1> QED  BY <1>1, <1>2, <1>3, SameScope

LEMMA AssignmentStep == ASSUME IInv, Assignment PROVE Moves(Around)
<1>1. /\ AtItem("check") /\ ast[Here].type = "ASSIGNMENT" /\ Visit(CheckOf("left") \o CheckOf("right"))
      /\ UNCHANGED <<slots, depth, funcType>>
  BY DEF Assignment, AtNode, Here
<1>2. /\ "left" \in Into \intersect Given(ast[Here].type)
      /\ "right" \in Into \intersect Given(ast[Here].type)
  BY <1>1, MembersOf DEF Into, Pointers
<1>3. InnerOf(Here) = Outer(Here)
  BY <1>1 DEF InnerOf, Opens
<1>4. SlotsOk(slots', depth)
  BY <1>1 DEF IInv
<1> QED  BY <1>1, <1>2, <1>3, <1>4, TwoMembers, SameScope

(* The declarations that may not hide anything.                            *)
LEMMA OnceStep ==
  ASSUME IInv, AtItem("check"), ast[Here].type \notin OwnScope,
         NEW name, NEW kind, NEW const, NEW type, DeclareOnce(name, kind, const, type),
         NEW before, Visit(before), Chain(before, Outer(Here), Outer(Here)), Count(before) = 0
  PROVE  Moves(Around)
<1>1. slots' = slots \/ slots' = AddSlot(slots, depth, Slot(name, kind, const, type, <<>>, Here))
  BY DEF DeclareOnce
<1>2. SlotsOk(slots, depth)
  BY DEF IInv
<1>3. SlotsOk(slots', depth)
  BY <1>1, <1>2, DeclareHere
<1>4. UNCHANGED <<depth, funcType>>
  BY DEF DeclareOnce
<1> QED  BY <1>3, <1>4, SameScope

LEMMA CaptureStep == ASSUME IInv, Capture PROVE Moves(Around)
<1>1. /\ AtItem("check") /\ ast[Here].type = "NEXUS_CAPTURE" /\ Visit(CheckOf("expr"))
      /\ DeclareOnce(Member("handler_name"), "VAR", FALSE, Zero)
  BY DEF Capture, AtNode, Here
<1>2. "expr" \in Into \intersect Given(ast[Here].type)
  BY <1>1, MembersOf DEF Into, Pointers
<1>3. InnerOf(Here) = Outer(Here) /\ ast[Here].type \notin OwnScope
  BY <1>1 DEF InnerOf, Opens, OwnScope
<1>4. Chain(CheckOf("expr"), Outer(Here), Outer(Here)) /\ Count(CheckOf("expr")) = 0
  BY <1>1, <1>2, <1>3, MemberChain
<1> QED  BY <1>1, <1>3, <1>4, OnceStep

LEMMA LabelStep == ASSUME IInv, Label PROVE Moves(Around)
<1>1. /\ AtItem("check") /\ ast[Here].type = "NEXUS_LABEL" /\ Visit(CheckOf("statement"))
      /\ DeclareOnce(Member("label_name"), "LABEL", TRUE, Zero)
  BY DEF Label, AtNode, Here
<1>2. "statement" \in Into \intersect Given(ast[Here].type)
  BY <1>1, MembersOf DEF Into, Pointers
<1>3. InnerOf(Here) = Outer(Here) /\ ast[Here].type \notin OwnScope
  BY <1>1 DEF InnerOf, Opens, OwnScope
<1>4. Chain(CheckOf("statement"), Outer(Here), Outer(Here)) /\ Count(CheckOf("statement")) = 0
  BY <1>1, <1>2, <1>3, MemberChain
<1> QED  BY <1>1, <1>3, <1>4, OnceStep

LEMMA NewTypeStep == ASSUME IInv, NewType PROVE Moves(Around)
<1>1. /\ AtItem("check") /\ ast[Here].type = "NEWTYPE_DECL" /\ Visit(<<>>)
      /\ DeclareOnce(Member("name"), "NEWTYPE", TRUE, Member("target_type"))
  BY DEF NewType, AtNode, Here
<1>2. ast[Here].type \notin OwnScope
  BY <1>1 DEF OwnScope
<1>3. Chain(<<>>, Outer(Here), Outer(Here)) /\ Count(<<>>) = 0
  BY ChainNone, CountNone, NoneSeq
<1> QED  BY <1>1, <1>2, <1>3, OnceStep

LEMMA ExitScopeStep == ASSUME IInv, ExitScope PROVE Moves(Around)
<1>1. /\ todo # <<>> /\ Head(todo).op = "exit" /\ Head(todo).node = Here
      /\ todo' = <<>> \o Tail(todo) /\ slots' = PopSlots /\ depth' = depth - 1
      /\ UNCHANGED <<ast, funcType>>
  BY DEF ExitScope, AtItem, Here, Resume
<1>2. /\ Here \in Nodes /\ TreeInv /\ SlotsOk(slots, depth) /\ depth \in Nat
      /\ depth = Cardinality(Before(Head(todo)).scopes)
      /\ funcType = Before(Head(todo)).ret
  BY <1>1, AtHead DEF IInv
<1>3. /\ Before(Head(todo)).scopes = Enclosing(Here) \union {Here}
      /\ Before(Head(todo)).ret = RetOf(Enclosing(Here) \union {Here})
  <2>1. Before(Head(todo)) = Inner(Here)
    BY <1>1 DEF Before
  <2> QED  BY <2>1, CtxHas DEF Inner
<1>4. /\ After(Head(todo)).scopes = Enclosing(Here)
      /\ After(Head(todo)).ret = RetOf(Enclosing(Here) \union {Here})
  <2>1. After(Head(todo)) = Ctx(Enclosing(Here), RetOf(Enclosing(Here) \union {Here}))
    BY <1>1 DEF After
  <2> QED  BY <2>1, CtxHas
<1>5. /\ Cardinality(Enclosing(Here)) \in Nat
      /\ Cardinality(Enclosing(Here) \union {Here}) = Cardinality(Enclosing(Here)) + 1
  BY <1>2, EnclosingSize
<1>6. depth = Cardinality(Enclosing(Here)) + 1 /\ depth # 0
  <2>1. depth = Cardinality(Enclosing(Here) \union {Here})
    BY <1>2, <1>3
  <2> QED  BY <1>5, <2>1
<1>7. SlotsOk(slots', depth')
  BY <1>1, <1>2, <1>6, PopOk
<1>8. depth' = Cardinality(After(Head(todo)).scopes) /\ funcType' = After(Head(todo)).ret
  BY <1>1, <1>2, <1>3, <1>4, <1>5, <1>6
<1>9. depth' = depth - (IF Head(todo).op = "exit" THEN 1 ELSE 0)
  BY <1>1
<1>10. IInv' /\ NowOf(todo)' = After(Head(todo))
  BY <1>1, <1>7, <1>8, <1>9, NextItem
<1> QED  BY <1>4, <1>10 DEF Moves, Around

LEMMA RestoreStep == ASSUME IInv, Restore PROVE Moves(Around)
<1>1. /\ todo # <<>> /\ Head(todo).op = "restore" /\ Head(todo).node = Here
      /\ todo' = <<>> \o Tail(todo) /\ funcType' = Head(todo).saved
      /\ UNCHANGED <<ast, slots, depth>>
  BY DEF Restore, AtItem, Here, Resume
<1>2. /\ IsItem(Head(todo)) /\ SlotsOk(slots, depth) /\ depth \in Nat
      /\ depth = Cardinality(Before(Head(todo)).scopes)
  BY <1>1, AtHead
<1>3. Before(Head(todo)).scopes = Enclosing(Here)
  BY <1>1, CtxHas DEF Before
<1>4. After(Head(todo)).scopes = Enclosing(Here) /\ After(Head(todo)).ret = RetOf(Enclosing(Here))
  BY <1>1, CtxHas DEF After, Outer
<1>5. Head(todo).saved = RetOf(Enclosing(Here))
  BY <1>1, <1>2 DEF IsItem
<1>6. depth' = depth - (IF Head(todo).op = "exit" THEN 1 ELSE 0)
  BY <1>1, <1>2
<1>7. IInv' /\ NowOf(todo)' = After(Head(todo))
  BY <1>1, <1>2, <1>3, <1>4, <1>5, <1>6, NextItem
<1> QED  BY <1>4, <1>7 DEF Moves, Around

LEMMA RangeStep == ASSUME IInv, RangeVariable PROVE Moves(Around \union {Here})
<1> DEFINE c == Member("condition")
<1>1. /\ AtItem("range") /\ todo # <<>> /\ Head(todo).op = "range" /\ Head(todo).node = Here
      /\ todo' = Tail(todo) /\ UNCHANGED <<ast, depth, funcType>>
  BY DEF RangeVariable, AtItem, Here
<1>2. /\ IsItem(Head(todo)) /\ SlotsOk(slots, depth) /\ depth \in Nat /\ TreeInv /\ Here \in Nodes
      /\ depth = Cardinality(Before(Head(todo)).scopes)
  BY <1>1, AtHead DEF IInv
<1>3. ast[Here].type = "LOOP"
  BY <1>1, <1>2 DEF IsItem
<1>4. depth = Cardinality(Enclosing(Here) \union {Here})
  BY <1>1, <1>2, CtxHas DEF Before, Inner
<1>5. ASSUME RangeAt(c)
      PROVE  c \in Nodes /\ Cardinality(ScopeOf(c)) = depth
  <2>1. ast[c].type = "BINARY_EXPR" /\ c # NULL
    BY <1>5 DEF RangeAt, TypeAt
  <2>2. "condition" \in Into \intersect Given(ast[Here].type)
    BY <1>3, MembersOf DEF Into, Pointers
  <2>3. c \in Nodes /\ Enclosing(c) = Within(Here)
    BY <1>2, <2>1, <2>2, MemberLeads DEF Member
  <2>4. Within(Here) = Enclosing(Here) \union {Here}
    BY <1>3 DEF Within, Opens
  <2>5. ScopeOf(c) = Enclosing(c)
    BY <2>1 DEF ScopeOf, OwnScope
  <2> QED  BY <1>4, <2>3, <2>4, <2>5
<1>6. SlotsOk(slots', depth)
  <2>1. \/ slots' = slots
        \/ /\ RangeAt(c)
           /\ slots' = AddSlot(slots, depth, Slot("it", "VAR", FALSE, "i32", <<>>, c))
    BY DEF RangeVariable
  <2> HIDE DEF c
  <2>2. ASSUME RangeAt(c)
        PROVE  SlotsOk(AddSlot(slots, depth, Slot("it", "VAR", FALSE, "i32", <<>>, c)), depth)
    <3>1. c \in Nodes /\ Cardinality(ScopeOf(c)) = depth /\ depth <= depth
      BY <1>2, <1>5, <2>2
    <3> QED  BY <1>2, <3>1, AddOk
  <2> QED  BY <1>2, <2>1, <2>2
<1>7. SlotsOk(slots', depth')
  BY <1>1, <1>6
<1>8. IInv' /\ NowOf(todo)' = Before(Head(todo))
  BY <1>1, <1>7, SameItem
<1>9. Before(Head(todo)).scopes = Around \union {Here}
  BY <1>1, CtxHas DEF Before, Inner, Around
<1> QED  BY <1>8, <1>9 DEF Moves

(* The fields of a type that is declared, list after list.                 *)
JoinAt(h, lists, i) == IF i = 0 THEN <<>> ELSE h[i - 1] \o ListAt(ast, lists[i])
IsJoin(h, lists, n) == h = [i \in 0..n |-> JoinAt(h, lists, i)]

LEMMA JoinExists == ASSUME NEW lists, NEW n \in Nat PROVE \E h : IsJoin(h, lists, n)
<1> DEFINE Ok(m) == \E h : IsJoin(h, lists, m)
           Bad == {m \in 0..n : ~Ok(m)}
<1> SUFFICES ASSUME Bad # {} PROVE FALSE
  OBVIOUS
<1>1. PICK m \in Bad : \A l \in Bad : m <= l
  <2>1. Bad \in SUBSET Nat
    OBVIOUS
  <2> HIDE DEF Bad
  <2> QED  BY <2>1, Least
<1>2. CASE m = 0
  <2> DEFINE g == [i \in 0..0 |-> <<>>]
  <2>1. g = [i \in 0..0 |-> JoinAt(g, lists, i)]
    BY DEF JoinAt
  <2>2. IsJoin(g, lists, 0)
    BY <2>1 DEF IsJoin
  <2> QED  BY <1>1, <1>2, <2>2
<1>3. CASE m # 0
  <2>1. m - 1 \in 0..n /\ m - 1 \notin Bad /\ m \in Nat
    BY <1>1, <1>3
  <2>2. PICK h : IsJoin(h, lists, m - 1)
    BY <2>1
  <2>3. h = [i \in 0..(m - 1) |-> JoinAt(h, lists, i)]
    BY <2>2 DEF IsJoin
  <2> DEFINE g == [i \in 0..m |-> JoinAt(h, lists, i)]
  <2>4. \A r \in 0..(m - 1) : g[r] = h[r]
    <3> TAKE r \in 0..(m - 1)
    <3>1. r \in 0..m /\ h[r] = JoinAt(h, lists, r)
      BY <2>1, <2>3
    <3> QED  BY <3>1
  <2>5. ASSUME NEW i \in 0..m PROVE JoinAt(h, lists, i) = JoinAt(g, lists, i)
    <3>1. i = 0 \/ i - 1 \in 0..(m - 1)
      BY <2>1
    <3> HIDE DEF g
    <3> QED  BY <2>4, <3>1 DEF JoinAt
  <2>6. g = [i \in 0..m |-> JoinAt(g, lists, i)]
    BY <2>5
  <2>7. IsJoin(g, lists, m)
    BY <2>6 DEF IsJoin
  <2> HIDE DEF g
  <2> QED  BY <1>1, <2>7
<1> QED  BY <1>2, <1>3

Holds(s, T) == IsSeq(s) /\ \A i \in 1..Len(s) : s[i] \in T

LEMMA HoldsConcat ==
  ASSUME NEW s, NEW t, NEW T, Holds(s, T), Holds(t, T) PROVE Holds(s \o t, T)
<1> DEFINE u == s \o t
           m == Len(s)
<1>1. IsSeq(s) /\ IsSeq(t) /\ m \in Nat /\ Len(t) \in Nat
  BY DEF Holds, IsSeq
<1>2. /\ IsSeq(u) /\ Len(u) = m + Len(t)
      /\ (\A i \in 1..m : u[i] = s[i]) /\ \A i \in 1..Len(t) : u[m + i] = t[i]
  BY <1>1, ConcatSeq
<1> HIDE DEF u
<1>3. ASSUME NEW i \in 1..Len(u) PROVE u[i] \in T
  <2>1. CASE i \in 1..m
    BY <1>2, <2>1 DEF Holds
  <2>2. CASE i \notin 1..m
    <3>1. i - m \in 1..Len(t) /\ m + (i - m) = i
      BY <1>1, <1>2, <2>2
    <3>2. u[m + (i - m)] = t[i - m]
      BY <1>2, <3>1
    <3> QED  BY <3>1, <3>2 DEF Holds
  <2> QED  BY <2>1, <2>2
<1> QED  BY <1>2, <1>3 DEF Holds, u

LEMMA FieldsHold ==
  ASSUME NEW lists, Len(lists) \in Nat, NEW T,
         \A i \in 1..Len(lists) : Holds(ListAt(ast, lists[i]), T)
  PROVE  Holds(Fields(lists), T)
<1> DEFINE h == CHOOSE join : join = [i \in 0..Len(lists) |-> JoinAt(join, lists, i)]
<1>1. Fields(lists) = h[Len(lists)]
  BY DEF Fields, JoinAt
<1>2. h = [i \in 0..Len(lists) |-> JoinAt(h, lists, i)]
  <2>1. \E join : join = [i \in 0..Len(lists) |-> JoinAt(join, lists, i)]
    <3>1. PICK join : IsJoin(join, lists, Len(lists))
      BY JoinExists
    <3> QED  BY <3>1, Zenon DEF IsJoin
  <2> QED  BY <2>1, Zenon
<1> HIDE DEF h
<1>3. \A i \in 0..Len(lists) : h[i] = JoinAt(h, lists, i)
  BY <1>2
<1> DEFINE Bad == {i \in 0..Len(lists) : ~Holds(h[i], T)}
<1>4. Bad = {}
  <2> SUFFICES ASSUME Bad # {} PROVE FALSE
    OBVIOUS
  <2>1. PICK i \in Bad : \A j \in Bad : i <= j
    <3>1. Bad \in SUBSET Nat
      OBVIOUS
    <3> HIDE DEF Bad
    <3> QED  BY <3>1, Least
  <2>2. i \in 0..Len(lists) /\ h[i] = JoinAt(h, lists, i)
    BY <1>3, <2>1
  <2>3. CASE i = 0
    <3>1. h[i] = <<>>
      BY <2>2, <2>3 DEF JoinAt
    <3>2. Holds(<<>>, T)
      BY NoneSeq DEF Holds
    <3> QED  BY <2>1, <3>1, <3>2
  <2>4. CASE i # 0
    <3>1. i - 1 \in 0..Len(lists) /\ i - 1 \notin Bad /\ i \in 1..Len(lists)
      BY <2>1, <2>2, <2>4
    <3>2. Holds(h[i - 1], T) /\ Holds(ListAt(ast, lists[i]), T)
      BY <3>1
    <3>3. h[i] = h[i - 1] \o ListAt(ast, lists[i])
      BY <2>2, <2>4 DEF JoinAt
    <3>4. Holds(h[i], T)
      BY <3>2, <3>3, HoldsConcat
    <3> QED  BY <2>1, <3>4
  <2> QED  BY <2>3, <2>4
<1>5. Holds(h[Len(lists)], T)
  BY <1>4
<1> QED  BY <1>1, <1>5

(* The variables of one scope.                                             *)
Variables(S) == {q \in Nodes : ast[q].type = "VAR_DECL" /\ Enclosing(q) = S}

LEMMA DeclareTypeStep ==
  ASSUME IInv, AtItem("check"), ast[Here].type \notin Opens, NEW kind, NEW lists,
         Len(lists) \in Nat, DeclareType(kind, lists),
         \A i \in 1..Len(lists) : Holds(ListAt(ast, lists[i]), Variables(Enclosing(Here)))
  PROVE  Moves(Around)
<1> DEFINE again == Has(Member("name")) /\ Found(slots, Member("name"))
           fields == IF again THEN <<>> ELSE Fields(lists)
           ps == [i \in DOMAIN fields |-> ast[fields[i]].at["inline_type"]]
           n == Len(fields)
<1>1. /\ Visit(Checks(ps)) /\ UNCHANGED <<depth, funcType>>
      /\ \/ slots' = slots
         \/ slots' = AddSlot(slots, depth, Slot(Member("name"), kind, TRUE, Zero, <<>>, Here))
  BY DEF DeclareType
<1>2. Here \in Nodes /\ TreeInv /\ SlotsOk(slots, depth)
  BY AtCheck
<1>3. Holds(fields, Variables(Enclosing(Here)))
  <2>1. Holds(<<>>, Variables(Enclosing(Here)))
    BY NoneSeq DEF Holds
  <2>2. Holds(Fields(lists), Variables(Enclosing(Here)))
    BY FieldsHold
  <2> QED  BY <2>1, <2>2
<1> HIDE DEF fields
<1>4. n \in Nat /\ DOMAIN fields = 1..n
  BY <1>3 DEF Holds, IsSeq
<1>5. ASSUME NEW i \in 1..n PROVE Checkable(ps[i], Outer(Here))
  <2> DEFINE q == fields[i]
  <2>1. q \in Nodes /\ ast[q].type = "VAR_DECL" /\ Enclosing(q) = Enclosing(Here)
    BY <1>3 DEF Holds, Variables
  <2>2. ps[i] = ast[q].at["inline_type"]
    BY <1>4
  <2> HIDE DEF q
  <2>3. "inline_type" \in Into \intersect Given(ast[q].type)
    BY <2>1, MembersOf DEF Into, Pointers
  <2>4. InnerOf(q) = Outer(Here)
    BY <2>1 DEF InnerOf, Outer, Opens
  <2> QED  BY <1>2, <2>1, <2>2, <2>3, <2>4, MemberLeads
<1>6. ps = [i \in 1..n |-> ps[i]]
  BY <1>4
<1> HIDE DEF ps
<1>7. Len(ps) = n
  BY <1>4, <1>6, FcnSeq
<1>8. Chain(Checks(ps), Outer(Here), Outer(Here)) /\ Count(Checks(ps)) = 0
  BY <1>2, <1>4, <1>5, <1>7, ChecksChain
<1>9. SlotsOk(slots', depth)
  <2>1. ast[Here].type \notin OwnScope
    BY DEF OwnScope, Opens
  <2> QED  BY <1>1, <1>2, <2>1, DeclareHere
<1> QED  BY <1>1, <1>8, <1>9, SameScope

LEMMA StructDeclStep == ASSUME IInv, StructDecl PROVE Moves(Around)
<1> DEFINE p == Member("fields")
           list == ListAt(ast, p)
<1>1. /\ AtItem("check") /\ ast[Here].type \in {"STRUCT_DECL", "UNION_DECL"}
      /\ \E kind : DeclareType(kind, <<p>>)
  BY DEF StructDecl, AtNode, Here
<1>2. Here \in Nodes /\ TreeInv
  BY <1>1, AtCheck
<1>3. ast[Here].type \notin Opens
  BY <1>1 DEF Opens
<1>4. "fields" \in Into \intersect Given(ast[Here].type)
  BY <1>1, MembersOf DEF Into, Pointers
<1>5. p = NULL \/ (p \in Nodes /\ Enclosing(p) = Enclosing(Here))
  BY <1>2, <1>3, <1>4, MemberLeads DEF Member, Within
<1>6. p \in 0..Len(ast)
  BY <1>2, <1>5, TreeIs DEF NULL, Nodes
<1>7. {list[i] : i \in DOMAIN list} = ListOf(ast, Here, "fields")
  BY <1>2, <1>4, NodeHas DEF ListOf, Member
<1>8. \A q \in ListOf(ast, Here, "fields") : ast[q].type = "VAR_DECL"
  BY <1>2, TreeIs
<1>9. /\ IsSeq(list)
      /\ \A i \in 1..Len(list) :
           p \in Nodes /\ list[i] \in Nodes /\ Enclosing(list[i]) = Enclosing(p)
  BY <1>2, <1>6, ListIs
<1>10. p \in Nodes => Enclosing(p) = Enclosing(Here)
  BY <1>5 DEF Nodes, NULL
<1> HIDE DEF list
<1>11. \A i \in 1..Len(list) : ast[list[i]].type = "VAR_DECL"
  BY <1>7, <1>8, <1>9 DEF IsSeq
<1>12. Holds(list, Variables(Enclosing(Here)))
  BY <1>9, <1>10, <1>11 DEF Holds, Variables
<1> DEFINE lists == <<p>>
<1>13. Len(lists) = 1 /\ lists[1] = p
  OBVIOUS
<1>14. \E kind : DeclareType(kind, lists)
  BY <1>1
<1> HIDE DEF lists, p
<1>15. Len(lists) \in Nat
       /\ \A i \in 1..Len(lists) : Holds(ListAt(ast, lists[i]), Variables(Enclosing(Here)))
  BY <1>12, <1>13 DEF list
<1> QED  BY <1>1, <1>3, <1>14, <1>15, DeclareTypeStep

LEMMA EnumDeclStep == ASSUME IInv, EnumDecl PROVE Moves(Around)
<1> DEFINE p == Member("variants")
           variants == ListAt(ast, p)
           lists == [i \in DOMAIN variants |-> ast[variants[i]].at["data"]]
           n == Len(variants)
<1>1. /\ AtItem("check") /\ ast[Here].type = "ENUM_DECL" /\ DeclareType("ENUM", lists)
  BY DEF EnumDecl, AtNode, Here
<1>2. Here \in Nodes /\ TreeInv
  BY <1>1, AtCheck
<1>3. ast[Here].type \notin Opens
  BY <1>1 DEF Opens
<1>4. "variants" \in Into \intersect Given(ast[Here].type)
  BY <1>1, MembersOf DEF Into, Pointers
<1>5. p = NULL \/ (p \in Nodes /\ Enclosing(p) = Enclosing(Here))
  BY <1>2, <1>3, <1>4, MemberLeads DEF Member, Within
<1>6. p \in 0..Len(ast)
  BY <1>2, <1>5, TreeIs DEF NULL, Nodes
<1>7. {variants[i] : i \in DOMAIN variants} = ListOf(ast, Here, "variants")
  BY <1>2, <1>4, NodeHas DEF ListOf, Member
<1>8. \A q \in ListOf(ast, Here, "variants") : ast[q].type = "ENUM_VARIANT"
  BY <1>2, TreeIs
<1>9. /\ IsSeq(variants)
      /\ \A i \in 1..n :
           p \in Nodes /\ variants[i] \in Nodes /\ Enclosing(variants[i]) = Enclosing(p)
  BY <1>2, <1>6, ListIs
<1>10. p \in Nodes => Enclosing(p) = Enclosing(Here)
  BY <1>5 DEF Nodes, NULL
<1> HIDE DEF p, variants
<1>11. n \in Nat /\ DOMAIN variants = 1..n
  BY <1>9 DEF IsSeq
<1>12. \A i \in 1..n : ast[variants[i]].type = "ENUM_VARIANT"
  BY <1>7, <1>8, <1>11
<1>13. ASSUME NEW i \in 1..n PROVE Holds(ListAt(ast, lists[i]), Variables(Enclosing(Here)))
  <2> DEFINE c == variants[i]
             q == ast[c].at["data"]
             list == ListAt(ast, q)
  <2>1. c \in Nodes /\ ast[c].type = "ENUM_VARIANT" /\ Enclosing(c) = Enclosing(Here)
    BY <1>9, <1>10, <1>12
  <2>2. lists[i] = q
    BY <1>11
  <2> HIDE DEF c
  <2>3. "data" \in Into \intersect Given(ast[c].type)
    BY <2>1, MembersOf DEF Into, Pointers
  <2>4. q = NULL \/ (q \in Nodes /\ Enclosing(q) = Enclosing(Here))
    BY <1>2, <2>1, <2>3, MemberLeads DEF Within, Opens
  <2>5. q \in 0..Len(ast)
    BY <1>2, <2>4, TreeIs DEF NULL, Nodes
  <2>6. {list[j] : j \in DOMAIN list} = ListOf(ast, c, "data")
    BY <1>2, <2>1, <2>3, NodeHas DEF ListOf
  <2>7. \A v \in ListOf(ast, c, "data") : ast[v].type = "VAR_DECL"
    BY <1>2, <2>1, TreeIs
  <2> HIDE DEF q
  <2>8. /\ IsSeq(list)
        /\ \A j \in 1..Len(list) :
             q \in Nodes /\ list[j] \in Nodes /\ Enclosing(list[j]) = Enclosing(q)
    BY <1>2, <2>5, ListIs
  <2>9. q \in Nodes => Enclosing(q) = Enclosing(Here)
    BY <2>4 DEF Nodes, NULL
  <2> HIDE DEF list
  <2>10. \A j \in 1..Len(list) : ast[list[j]].type = "VAR_DECL"
    BY <2>6, <2>7, <2>8 DEF IsSeq
  <2>11. Holds(list, Variables(Enclosing(Here)))
    BY <2>8, <2>9, <2>10 DEF Holds, Variables
  <2> QED  BY <2>2, <2>11 DEF list
<1>14. lists = [i \in 1..n |-> lists[i]]
  BY <1>11
<1> HIDE DEF lists
<1>15. Len(lists) = n
  BY <1>11, <1>14, FcnSeq
<1> QED  BY <1>1, <1>3, <1>11, <1>13, <1>15, DeclareTypeStep

(* Items that leave the context as it was, and close no scope.             *)
Keeps(s, C) == IsSeq(s) /\ Chain(s, C, C) /\ Count(s) = 0

LEMMA KeepsConcat ==
  ASSUME NEW s, NEW t, NEW C, Keeps(s, C), Keeps(t, C) PROVE Keeps(s \o t, C)
<1>1. IsSeq(s) /\ IsSeq(t) /\ Chain(s, C, C) /\ Chain(t, C, C) /\ Count(s) = 0 /\ Count(t) = 0
  BY DEF Keeps
<1>2. IsSeq(s \o t)
  BY <1>1, ConcatSeq
<1>3. Chain(s \o t, C, C)
  BY <1>1, ChainConcat
<1>4. Count(s \o t) = 0
  BY <1>1, CountConcat
<1> QED  BY <1>2, <1>3, <1>4 DEF Keeps

LEMMA KeepsNone == ASSUME NEW C PROVE Keeps(<<>>, C)
  BY ChainNone, CountNone, NoneSeq DEF Keeps

LEMMA KeepsMember ==
  ASSUME IInv, AtItem("check"), NEW m \in Into \intersect Given(ast[Here].type)
  PROVE  Keeps(CheckOf(m), InnerOf(Here))
  BY MemberChain DEF Keeps

LEMMA KeepsItem ==
  ASSUME NEW x, IsItem(x), After(x) = Before(x), x.op # "exit" PROVE Keeps(<<x>>, Before(x))
  BY ChainOne, CountOne, OneSeq DEF Keeps

LEMMA BlockStep == ASSUME IInv, Block PROVE Moves(Around \union {Here})
<1>1. AtItem("check") /\ UNCHANGED funcType
  BY DEF Block, AtNode
<1>2. SlotsOk(slots, depth) /\ depth \in Nat
  BY <1>1, AtCheck
<1>3. SlotsOk(slots, depth + 1)
  <2>1. depth + 1 \in Nat /\ depth <= depth + 1
    BY <1>2
  <2> QED  BY <1>2, <2>1, SlotsDeeper
<1>4. ASSUME NEW m \in Into \intersect Given(ast[Here].type), Enter(CheckOf(m)),
             ast[Here].type \in Opens, ast[Here].type # "FUNC_DECL", SlotsOk(slots', depth + 1)
      PROVE  Moves(Around \union {Here})
  <2>1. InnerOf(Here) = Inner(Here)
    BY <1>4 DEF InnerOf
  <2>2. Chain(CheckOf(m), Inner(Here), Inner(Here)) /\ Count(CheckOf(m)) = 0
    BY <1>1, <2>1, MemberChain
  <2> QED  BY <1>1, <1>4, <2>2, EnterStep
<1>5. CASE AtNode({"BLOCK"}) /\ Enter(CheckOf("statements")) /\ UNCHANGED slots
  <2>1. ast[Here].type = "BLOCK"
    BY <1>5 DEF AtNode, Here
  <2>2. "statements" \in Into \intersect Given(ast[Here].type)
    BY <2>1, MembersOf DEF Into, Pointers
  <2>3. ast[Here].type \in Opens /\ ast[Here].type # "FUNC_DECL"
    BY <2>1 DEF Opens
  <2> QED  BY <1>3, <1>4, <1>5, <2>2, <2>3
<1>6. CASE AtNode({"GROUP_DECL"}) /\ Enter(CheckOf("members")) /\ UNCHANGED slots
  <2>1. ast[Here].type = "GROUP_DECL"
    BY <1>6 DEF AtNode, Here
  <2>2. "members" \in Into \intersect Given(ast[Here].type)
    BY <2>1, MembersOf DEF Into, Pointers
  <2>3. ast[Here].type \in Opens /\ ast[Here].type # "FUNC_DECL"
    BY <2>1 DEF Opens
  <2> QED  BY <1>3, <1>4, <1>6, <2>2, <2>3
<1>7. CASE AtNode({"THREAD_BLOCK"}) /\ Enter(CheckOf("body")) /\ UNCHANGED slots
  <2>1. ast[Here].type = "THREAD_BLOCK"
    BY <1>7 DEF AtNode, Here
  <2>2. "body" \in Into \intersect Given(ast[Here].type)
    BY <2>1, MembersOf DEF Into, Pointers
  <2>3. ast[Here].type \in Opens /\ ast[Here].type # "FUNC_DECL"
    BY <2>1 DEF Opens
  <2> QED  BY <1>3, <1>4, <1>7, <2>2, <2>3
<1>8. CASE /\ AtNode({"LISTEN"}) /\ Enter(CheckOf("expr"))
           /\ slots' = AddSlot(slots, depth + 1,
                               Slot(Member("handler_name"), "VAR", TRUE, "any", <<>>, Here))
  <2>1. ast[Here].type = "LISTEN"
    BY <1>8 DEF AtNode, Here
  <2>2. "expr" \in Into \intersect Given(ast[Here].type)
    BY <2>1, MembersOf DEF Into, Pointers
  <2>3. ast[Here].type \in Opens /\ ast[Here].type # "FUNC_DECL" /\ ast[Here].type \in OwnScope
    BY <2>1 DEF Opens, OwnScope
  <2>4. SlotsOk(slots', depth + 1)
    BY <1>1, <1>8, <2>3, DeclareInside
  <2> QED  BY <1>4, <1>8, <2>2, <2>3, <2>4
<1> QED  BY <1>5, <1>6, <1>7, <1>8 DEF Block

LEMMA ReturnStep == ASSUME IInv, Return PROVE Moves(Around)
<1> DEFINE x == Item("returned", Here)
           o == <<x>>
           e == CheckOf("operand")
<1>1. /\ AtItem("check") /\ ast[Here].type = "RETURN" /\ Visit(e \o o)
      /\ UNCHANGED <<slots, depth, funcType>>
  BY DEF Return, AtNode, Here
<1>2. Here \in Nodes /\ SlotsOk(slots, depth)
  BY <1>1, AtCheck
<1>3. "operand" \in Into \intersect Given(ast[Here].type)
  BY <1>1, MembersOf DEF Into, Pointers
<1>4. InnerOf(Here) = Outer(Here)
  BY <1>1 DEF InnerOf, Opens
<1>5. Keeps(e, Outer(Here))
  BY <1>1, <1>3, <1>4, KeepsMember
<1>6. x.op = "returned" /\ x.node = Here
  BY ItemHas
<1> HIDE DEF x
<1>7. IsItem(x) /\ Before(x) = Outer(Here) /\ After(x) = Outer(Here)
  BY <1>1, <1>2, <1>6 DEF IsItem, Before, After
<1>8. Keeps(o, Outer(Here))
  BY <1>6, <1>7, KeepsItem
<1> HIDE DEF e, o
<1>9. Chain(e \o o, Outer(Here), Outer(Here)) /\ Count(e \o o) = 0
  BY <1>5, <1>8, KeepsConcat DEF Keeps
<1>10. SlotsOk(slots', depth)
  BY <1>1, <1>2
<1> QED  BY <1>1, <1>9, <1>10, SameScope

LEMMA FuncCallStep == ASSUME IInv, FuncCall PROVE Moves(Around)
<1> DEFINE x == Item("called", Here)
           o == <<x>>
           c == CheckOf("callee")
           a == CheckOf("args")
<1>1. /\ AtItem("check") /\ ast[Here].type = "FUNC_CALL" /\ Visit((c \o o) \o a)
      /\ UNCHANGED <<slots, depth, funcType>>
  BY DEF FuncCall, AtNode, Here
<1>2. Here \in Nodes /\ SlotsOk(slots, depth)
  BY <1>1, AtCheck
<1>3. /\ "callee" \in Into \intersect Given(ast[Here].type)
      /\ "args" \in Into \intersect Given(ast[Here].type)
  <2>1. "FUNC_CALL" \in Allocated["ASTCall"]
    BY DEF Allocated
  <2> QED  BY <1>1, <2>1, MembersOf DEF Into, Pointers
<1>4. InnerOf(Here) = Outer(Here)
  BY <1>1 DEF InnerOf, Opens
<1>5. Keeps(c, Outer(Here)) /\ Keeps(a, Outer(Here))
  BY <1>1, <1>3, <1>4, KeepsMember
<1>6. x.op = "called" /\ x.node = Here
  BY ItemHas
<1> HIDE DEF x
<1>7. IsItem(x) /\ Before(x) = Outer(Here) /\ After(x) = Outer(Here)
  BY <1>1, <1>2, <1>6 DEF IsItem, Before, After
<1>8. Keeps(o, Outer(Here))
  BY <1>6, <1>7, KeepsItem
<1> HIDE DEF a, c, o
<1>9. Keeps((c \o o) \o a, Outer(Here))
  BY <1>5, <1>8, KeepsConcat
<1>10. SlotsOk(slots', depth)
  BY <1>1, <1>2
<1> QED  BY <1>1, <1>9, <1>10, SameScope DEF Keeps

LEMMA LoopStep == ASSUME IInv, Loop PROVE Moves(Around \union {Here})
<1> DEFINE C == Inner(Here)
           x == Item("range", Here)
           o == <<x>>
<1>1. AtItem("check") /\ ast[Here].type = "LOOP" /\ UNCHANGED funcType
  BY DEF Loop, AtNode, Here
<1>2. Here \in Nodes /\ SlotsOk(slots, depth) /\ depth \in Nat
  BY <1>1, AtCheck
<1>3. /\ "variable" \in Into \intersect Given(ast[Here].type)
      /\ "collection" \in Into \intersect Given(ast[Here].type)
      /\ "body" \in Into \intersect Given(ast[Here].type)
      /\ "init" \in Into \intersect Given(ast[Here].type)
      /\ "condition" \in Into \intersect Given(ast[Here].type)
      /\ "increment" \in Into \intersect Given(ast[Here].type)
  BY <1>1, MembersOf DEF Into, Pointers
<1>4. InnerOf(Here) = C /\ ast[Here].type \in Opens /\ ast[Here].type # "FUNC_DECL"
      /\ ast[Here].type \in OwnScope
  BY <1>1 DEF InnerOf, Opens, OwnScope
<1>5. x.op = "range" /\ x.node = Here
  BY ItemHas
<1> HIDE DEF x
<1>6. IsItem(x) /\ Before(x) = C /\ After(x) = C
  BY <1>1, <1>2, <1>5 DEF IsItem, Before, After
<1> HIDE DEF C
<1>7. Keeps(o, C)
  BY <1>5, <1>6, KeepsItem
<1>8. /\ Keeps(CheckOf("variable"), C) /\ Keeps(CheckOf("collection"), C)
      /\ Keeps(CheckOf("body"), C) /\ Keeps(CheckOf("init"), C)
      /\ Keeps(CheckOf("condition"), C) /\ Keeps(CheckOf("increment"), C)
  BY <1>1, <1>3, <1>4, KeepsMember
<1>9. SlotsOk(slots', depth + 1)
  <2>1. SlotsOk(slots, depth + 1)
    <3>1. depth + 1 \in Nat /\ depth <= depth + 1
      BY <1>2
    <3> QED  BY <1>2, <3>1, SlotsDeeper
  <2>2. ASSUME NEW name, NEW type PROVE SlotsOk(Implicit(name, type), depth + 1)
    <3>1. SlotsOk(AddSlot(slots, depth + 1, Slot(name, "VAR", FALSE, type, <<>>, Here)), depth + 1)
      BY <1>1, <1>4, DeclareInside
    <3> QED  BY <2>1, <3>1 DEF Implicit
  <2>3. ASSUME NEW p, NEW type PROVE SlotsOk(LoopVariable(p, type), depth + 1)
    BY <2>1, <2>2 DEF LoopVariable
  <2>4. \/ slots' = slots
        \/ \E p, type : slots' = LoopVariable(p, type)
    BY DEF Loop
  <2> QED  BY <2>1, <2>3, <2>4
<1>10. ASSUME NEW checks, Enter(checks), Keeps(checks, C)
       PROVE  Moves(Around \union {Here})
  BY <1>1, <1>4, <1>9, <1>10, EnterStep DEF Keeps, C
<1>11. CASE Member("loop_type") = "foreach"
  <2> DEFINE v == IF TypeAt(Member("variable")) \in {"VAR_DECL", "IDENTIFIER"}
                  THEN CheckOf("variable") ELSE <<>>
             checks == (v \o CheckOf("collection")) \o CheckOf("body")
  <2>1. Enter(checks)
    BY <1>11 DEF Loop
  <2>2. Keeps(v, C)
    BY <1>8, KeepsNone
  <2> HIDE DEF v
  <2>3. Keeps(checks, C)
    BY <1>8, <2>2, KeepsConcat
  <2> QED  BY <1>10, <2>1, <2>3
<1>12. CASE Member("loop_type") # "foreach"
  <2> DEFINE a == CheckOf("init") \o o
             b == a \o CheckOf("condition")
             c == b \o CheckOf("increment")
             checks == c \o CheckOf("body")
  <2>1. Enter(checks)
    BY <1>12 DEF Loop, x
  <2> HIDE DEF o
  <2>2. Keeps(a, C)
    BY <1>7, <1>8, KeepsConcat
  <2> HIDE DEF a
  <2>3. Keeps(b, C)
    BY <1>8, <2>2, KeepsConcat
  <2> HIDE DEF b
  <2>4. Keeps(c, C)
    BY <1>8, <2>3, KeepsConcat
  <2> HIDE DEF c
  <2>5. Keeps(checks, C)
    BY <1>8, <2>4, KeepsConcat
  <2> QED  BY <1>10, <2>1, <2>5
<1> QED  BY <1>11, <1>12

LEMMA ChainTwo ==
  ASSUME NEW x, NEW y, IsItem(x), IsItem(y), After(x) = Before(y), x.op = "exit", y.op # "exit"
  PROVE  /\ Chain(<<x, y>>, Before(x), After(y)) /\ Count(<<x, y>>) = 1 /\ IsSeq(<<x, y>>)
<1> DEFINE a == <<x>>
           b == <<y>>
<1>1. Chain(a, Before(x), After(x)) /\ Count(a) = 1 /\ IsSeq(a)
  BY ChainOne, CountOne, OneSeq
<1>2. Chain(b, Before(y), After(y)) /\ Count(b) = 0 /\ IsSeq(b)
  BY ChainOne, CountOne, OneSeq
<1>3. <<x, y>> = a \o b
  <2> DEFINE u == <<x, y>>
             v == Append(a, y)
  <2>1. u = [i \in 1..2 |-> u[i]] /\ u[1] = x /\ u[2] = y
    OBVIOUS
  <2>2. Len(a) = 1 /\ a[1] = x
    OBVIOUS
  <2> HIDE DEF u, a
  <2>3. IsSeq(v) /\ Len(v) = Len(a) + 1 /\ v[Len(a) + 1] = y /\ \A i \in 1..Len(a) : v[i] = a[i]
    BY <1>1, AppendSeq
  <2> HIDE DEF v
  <2>4. v = [i \in 1..2 |-> v[i]] /\ v[1] = x /\ v[2] = y
    BY <2>2, <2>3 DEF IsSeq
  <2>5. \A i \in 1..2 : u[i] = v[i]
    BY <2>1, <2>4
  <2>6. u = v
    BY <2>1, <2>4, <2>5
  <2>7. v = a \o b
    BY <1>1, AppendIs DEF v
  <2> QED  BY <2>6, <2>7 DEF u
<1> HIDE DEF a, b
<1>4. Chain(a \o b, Before(x), After(y))
  BY <1>1, <1>2, ChainConcat
<1>5. Count(a \o b) = 1 /\ IsSeq(a \o b)
  BY <1>1, <1>2, CountConcat, ConcatSeq
<1> QED  BY <1>3, <1>4, <1>5

LEMMA FuncDeclStep == ASSUME IInv, FuncDecl PROVE Moves(Around \union {Here})
<1> DEFINE C == Inner(Here)
           x == Item("exit", Here)
           y == [op |-> "restore", node |-> Here, saved |-> funcType]
           xy == <<x, y>>
           p == CheckOf("params")
           b == CheckOf("body")
           before == (p \o b) \o xy
<1>1. /\ AtItem("check") /\ ast[Here].type = "FUNC_DECL" /\ Visit(before)
      /\ depth' = depth + 1 /\ funcType' = ast[Here].at["return_type"]
  BY DEF FuncDecl, AtNode, Here, Member
<1>2. /\ Here \in Nodes /\ TreeInv /\ SlotsOk(slots, depth) /\ depth \in Nat
      /\ depth = Cardinality(Enclosing(Here)) /\ funcType = RetOf(Enclosing(Here))
      /\ Cardinality(Enclosing(Here) \union {Here}) = depth + 1
  BY <1>1, AtCheck
<1>3. /\ "params" \in Into \intersect Given(ast[Here].type)
      /\ "body" \in Into \intersect Given(ast[Here].type)
  BY <1>1, MembersOf DEF Into, Pointers
<1>4. InnerOf(Here) = C /\ ast[Here].type \in Opens /\ ast[Here].type \notin OwnScope
  BY <1>1 DEF InnerOf, Opens, OwnScope
<1>5. C.scopes = Enclosing(Here) \union {Here} /\ C.ret = ast[Here].at["return_type"]
  BY <1>1, <1>2, CtxHas, RetWithin DEF Inner
<1>6. x.op = "exit" /\ x.node = Here
  BY ItemHas
<1>7. y.op = "restore" /\ y.node = Here /\ y.saved = funcType
  OBVIOUS
<1> HIDE DEF x, y
<1>8. IsItem(x) /\ IsItem(y)
  BY <1>1, <1>2, <1>4, <1>6, <1>7 DEF IsItem
<1>9. Before(x) = C /\ After(x) = Ctx(Enclosing(Here), ast[Here].at["return_type"])
  BY <1>1, <1>2, <1>6, AfterExit
<1>10. Before(y) = Ctx(Enclosing(Here), ast[Here].at["return_type"]) /\ After(y) = Outer(Here)
  BY <1>7 DEF Before, After
<1> HIDE DEF C
<1>11. Chain(xy, C, Outer(Here)) /\ Count(xy) = 1 /\ IsSeq(xy)
  BY <1>6, <1>7, <1>8, <1>9, <1>10, ChainTwo
<1>12. Keeps(p, C) /\ Keeps(b, C)
  BY <1>1, <1>3, <1>4, KeepsMember
<1> HIDE DEF p, b, xy
<1>13. Keeps(p \o b, C)
  BY <1>12, KeepsConcat
<1>14. Chain(before, C, Outer(Here))
  BY <1>11, <1>13, ChainConcat DEF Keeps
<1>15. Count(before) = 1
  BY <1>11, <1>13, CountConcat DEF Keeps
<1>16. SlotsOk(slots', depth')
  <2>1. \/ slots' = slots
        \/ \E types : slots' = AddSlot(slots, depth, Slot(Member("name"), "FUNC", TRUE,
                                         Member("return_type"), types, Here))
    BY DEF FuncDecl
  <2>2. SlotsOk(slots', depth)
    BY <1>1, <1>2, <1>4, <2>1, DeclareHere
  <2>3. depth + 1 \in Nat /\ depth <= depth + 1
    BY <1>2
  <2> QED  BY <1>1, <1>2, <2>2, <2>3, SlotsDeeper
<1> HIDE DEF before
<1>17. depth' = Cardinality(C.scopes) /\ funcType' = C.ret /\ depth' = depth + Count(before)
  BY <1>1, <1>2, <1>5, <1>15
<1>18. IInv' /\ NowOf(todo)' = C
  BY <1>1, <1>14, <1>16, <1>17, VisitStep
<1> QED  BY <1>5, <1>18 DEF Moves, Around

-------------------------------------------------------------------------------
(* The program node is enclosed by nothing.                                *)
LEMMA RootIs == ASSUME TreeInv PROVE Enclosing(1) = {} /\ Outer(1) = Done
<1>1. 1 \in Nodes /\ Enclosing(1) \subseteq 1..(1 - 1)
  BY TreeIs, EnclosingBefore
<1>2. Enclosing(1) = {}
  BY <1>1
<1>3. RetOf({}) = Zero
  BY DEF RetOf, LastRet, FuncsIn
<1> QED  BY <1>2, <1>3 DEF Outer, Done

LEMMA InitHolds == ASSUME Init PROVE IInv
<1> DEFINE x == Item("check", 1)
<1>1. /\ TreeInv /\ todo = <<x>> /\ slots = <<>> /\ depth = 0 /\ funcType = Zero
  BY DEF Init, TreeInv
<1>2. IsItem(x) /\ Before(x) = Done /\ After(x) = Done /\ x.op # "exit"
  BY <1>1, TreeIs, CheckItem, RootIs
<1> HIDE DEF x
<1>3. Chain(todo, Done, Done) /\ Count(todo) = 0
  BY <1>1, <1>2, ChainOne, CountOne
<1>4. NowOf(todo) = Done
  BY <1>3, ChainNow
<1>5. Done.scopes = {} /\ Done.ret = Zero /\ Cardinality({}) = 0
  BY CtxHas, FS_EmptySet DEF Done
<1>6. SlotsOk(slots, depth)
  BY <1>1, SlotsNone
<1> QED  BY <1>1, <1>3, <1>4, <1>5, <1>6 DEF IInv

LEMMA NextHolds == ASSUME IInv, [Next]_vars PROVE IInv'
<1>1. CASE UNCHANGED vars
  <2>1. UNCHANGED <<ast, todo, slots, depth, funcType>>
    BY <1>1 DEF vars
  <2>2. /\ TreeInv /\ Chain(todo', NowOf(todo), Done) /\ depth' = Cardinality(NowOf(todo).scopes)
        /\ funcType' = NowOf(todo).ret /\ depth' = Count(todo') /\ SlotsOk(slots', depth')
    BY <2>1 DEF IInv
  <2> QED  BY <2>1, <2>2, Step
<1>2. CASE Next
  BY <1>2, TraverseStep, VarDeclStep, RestsStep, IdentifierStep, AssignmentStep, CaptureStep,
     LabelStep, NewTypeStep, StructDeclStep, EnumDeclStep, ExitScopeStep, BlockStep,
     FuncDeclStep, RestoreStep, ReturnStep, FuncCallStep, LoopStep, RangeStep DEF Next, Moves
<1> QED  BY <1>1, <1>2

(* The stack is a chain of contexts that ends outside the program; depth,  *)
(* the return type that is compared and the depths in the symbol table are *)
(* those of the context on top: for every tree, in every state.            *)
THEOREM Invariance == Spec => []IInv
<1>1. Init => IInv
  BY InitHolds
<1>2. IInv /\ [Next]_vars => IInv'
  BY NextHolds
<1> QED  BY <1>1, <1>2, PTL DEF Spec

(* exit_scope frees what was added in its scope and nothing else: depth    *)
(* counts the scopes that are open, and each slot carries the depth of its *)
(* lexical scope, the deeper ones in front.                                *)
THEOREM ScopesAreBalanced == Spec => []ScopesBalanced
<1>1. IInv => ScopesBalanced
  <2> SUFFICES ASSUME IInv PROVE ScopesBalanced
    OBVIOUS
  <2>1. depth = Cardinality({i \in DOMAIN todo : todo[i].op = "exit"})
    BY DEF IInv, Count, Exits
  <2>2. SlotsOk(slots, depth)
    BY DEF IInv
  <2>3. DOMAIN slots = 1..Len(slots) /\ Len(slots) \in Nat
    BY <2>2 DEF SlotsOk, IsSeq
  <2>4. ASSUME NEW i \in DOMAIN slots
        PROVE  /\ slots[i].depth = Cardinality(ScopeOf(slots[i].decl))
               /\ slots[i].depth <= depth
               /\ \A j \in 1..i : slots[j].depth >= slots[i].depth
    <3>1. i \in 1..Len(slots) /\ \A j \in 1..i : j \in 1..Len(slots) /\ j <= i
      BY <2>3
    <3> QED  BY <2>2, <3>1 DEF SlotsOk
  <2> QED  BY <2>1, <2>4 DEF ScopesBalanced
<1> QED  BY <1>1, Invariance, PTL

(* A return is compared with the return type of the innermost function     *)
(* around it, also after a function nested in that one has ended.          *)
THEOREM ReturnsMatchEnclosing == Spec => []ReturnTypeIsEnclosing
<1>1. IInv => ReturnTypeIsEnclosing
  <2> SUFFICES ASSUME IInv, AtItem("check") \/ AtItem("returned")
               PROVE  funcType = RetOf(Enclosing(Here))
    BY DEF ReturnTypeIsEnclosing, RetOf, LastRet, FuncsIn
  <2>1. /\ todo # <<>> /\ Head(todo).op \in {"check", "returned"} /\ Head(todo).node = Here
    BY DEF AtItem, Here
  <2>2. Before(Head(todo)) = Outer(Here)
    BY <2>1 DEF Before
  <2>3. Outer(Here).ret = RetOf(Enclosing(Here))
    BY CtxHas DEF Outer
  <2> QED  BY <2>1, <2>2, <2>3, AtHead
<1> QED  BY <1>1, Invariance, PTL

-------------------------------------------------------------------------------
(* A node and what hangs on it, by whatever members: the nodes that are in *)
(* every set with the node in it that the members do not lead out of.      *)

Child(p, q) == \E m : Leads(p, m, q)
Closed(S)   == \A p \in S : \A q : Child(p, q) => q \in S
Sub(p)      == {q \in Nodes : \A S \in SUBSET Nodes : p \in S /\ Closed(S) => q \in S}

LEMMA ChildIs ==
  ASSUME TreeInv, NEW p, NEW q, Child(p, q)
  PROVE  /\ p \in Nodes /\ q \in Nodes /\ p \in Nat /\ q \in Nat /\ p < q
         /\ \A r : Child(r, q) => r = p
<1>1. PICK m : Leads(p, m, q)
  BY DEF Child
<1>2. p \in Nodes /\ q \in Nodes /\ p < q /\ Links(ast, q) = {<<p, m>>}
  BY <1>1, LinkIs DEF Leads
<1>3. ASSUME NEW r, Child(r, q) PROVE r = p
  <2>1. PICK k : Leads(r, k, q)
    BY <1>3 DEF Child
  <2>2. Links(ast, q) = {<<r, k>>}
    BY <2>1, LinkIs
  <2>3. <<r, k>> = <<p, m>>
    BY <1>2, <2>2
  <2> QED  BY <2>3
<1> QED  BY <1>2, <1>3, TreeIs

LEMMA SubIs ==
  ASSUME TreeInv, NEW p \in Nodes
  PROVE  p \in Sub(p) /\ Closed(Sub(p)) /\ Sub(p) \in SUBSET Nodes
<1>1. p \in Sub(p) /\ Sub(p) \in SUBSET Nodes
  BY DEF Sub
<1>2. ASSUME NEW x \in Sub(p), NEW y, Child(x, y) PROVE y \in Sub(p)
  <2>1. y \in Nodes
    BY <1>2, ChildIs
  <2>2. ASSUME NEW S \in SUBSET Nodes, p \in S, Closed(S) PROVE y \in S
    <3>1. x \in S
      BY <2>2 DEF Sub
    <3> QED  BY <1>2, <2>2, <3>1 DEF Closed
  <2> QED  BY <2>1, <2>2 DEF Sub
<1> QED  BY <1>1, <1>2 DEF Closed

LEMMA SubLeast ==
  ASSUME NEW p, NEW S \in SUBSET Nodes, p \in S, Closed(S) PROVE Sub(p) \subseteq S
  BY DEF Sub

LEMMA SubDown ==
  ASSUME TreeInv, NEW p \in Nodes, NEW q \in Sub(p) PROVE Sub(q) \subseteq Sub(p)
  BY SubIs, SubLeast

LEMMA SubChild ==
  ASSUME TreeInv, NEW p, NEW q, Child(p, q) PROVE q \in Sub(p) /\ Sub(q) \subseteq Sub(p)
<1>1. p \in Nodes
  BY ChildIs
<1>2. q \in Sub(p)
  BY <1>1, SubIs DEF Closed
<1> QED  BY <1>1, <1>2, SubDown

(* A node comes before what hangs on it.                                   *)
LEMMA SubAfter ==
  ASSUME TreeInv, NEW p \in Nodes, NEW q \in Sub(p) PROVE p <= q /\ q \in Nodes
<1> DEFINE S == {x \in Nodes : p <= x}
<1>1. S \in SUBSET Nodes /\ p \in S
  BY TreeIs
<1>2. ASSUME NEW x \in S, NEW y, Child(x, y) PROVE y \in S
  <2>1. x \in Nat /\ y \in Nat /\ x < y /\ y \in Nodes /\ p \in Nat /\ p <= x
    BY <1>2, ChildIs, TreeIs
  <2>2. p <= y
    BY <2>1
  <2> QED  BY <2>1, <2>2
<1>3. Closed(S)
  BY <1>2 DEF Closed
<1> HIDE DEF S
<1>4. q \in S
  BY <1>1, <1>3, SubLeast
<1> QED  BY <1>4 DEF S

(* What hangs on q and is not q hangs on q with its parent.                *)
LEMMA SubUp ==
  ASSUME TreeInv, NEW q \in Nodes, NEW p, NEW c, Child(p, c), c \in Sub(q), c # q
  PROVE  p \in Sub(q)
<1> DEFINE S == Sub(q) \ {c}
<1> SUFFICES ASSUME p \notin Sub(q) PROVE FALSE
  OBVIOUS
<1>1. S \in SUBSET Nodes /\ q \in S
  BY SubIs
<1>2. ASSUME NEW x \in S, NEW y, Child(x, y) PROVE y \in S
  <2>1. y \in Sub(q)
    BY <1>2, SubIs DEF Closed
  <2>2. y # c
    BY <1>2, ChildIs
  <2> QED  BY <2>1, <2>2
<1>3. Closed(S)
  BY <1>2 DEF Closed
<1>4. c \in S
  <2> HIDE DEF S
  <2> QED  BY <1>1, <1>3, SubLeast
<1> QED  BY <1>4

(* Of two nodes with a common one hanging on them, one hangs on the other. *)
LEMMA SubEither ==
  ASSUME TreeInv, NEW p \in Nodes, NEW q \in Nodes, NEW t \in Sub(p), t \in Sub(q)
  PROVE  p \in Sub(q) \/ q \in Sub(p)
<1> DEFINE S == Sub(q) \ Sub(p)
<1> SUFFICES ASSUME p \notin Sub(q), q \notin Sub(p) PROVE FALSE
  OBVIOUS
<1>1. S \in SUBSET Nodes /\ q \in S
  BY SubIs
<1>2. ASSUME NEW x \in S, NEW y, Child(x, y) PROVE y \in S
  <2>1. y \in Sub(q)
    BY <1>2, SubIs DEF Closed
  <2>2. y # p
    BY <2>1
  <2>3. y \notin Sub(p)
    BY <1>2, <2>2, SubUp
  <2> QED  BY <2>1, <2>3
<1>3. Closed(S)
  BY <1>2 DEF Closed
<1>4. t \in S
  <2> HIDE DEF S
  <2> QED  BY <1>1, <1>3, SubLeast
<1> QED  BY <1>4

LEMMA LinkChild ==
  ASSUME TreeInv, NEW q \in Nodes, NEW l \in Links(ast, q) PROVE Child(l[1], q)
<1>1. /\ l[1] \in 1..(q - 1) /\ l[2] \in Pointers /\ l[2] \in DOMAIN ast[l[1]].at
      /\ ast[l[1]].at[l[2]] = q
  BY DEF Links
<1>2. l[1] \in Nodes /\ q # NULL
  BY <1>1, TreeIs DEF Nodes, NULL
<1>3. Leads(l[1], l[2], q)
  BY <1>1, <1>2 DEF Leads
<1> QED  BY <1>3 DEF Child

(* A node hangs on those that enclose it, which enclose one another.       *)
LEMMA EnclosingSub ==
  ASSUME TreeInv, NEW q \in Nodes
  PROVE  \A s \in Enclosing(q) : /\ s \in Nodes /\ s # q /\ q \in Sub(s)
                                 /\ Enclosing(s) \subseteq Enclosing(q)
<1> DEFINE Good(p) == \A s \in Enclosing(p) : /\ s \in Nodes /\ p \in Sub(s)
                                              /\ Enclosing(s) \subseteq Enclosing(p)
           Bad == {p \in Nodes : ~Good(p)}
<1>1. Bad = {}
  <2> SUFFICES ASSUME Bad # {} PROVE FALSE
    OBVIOUS
  <2>1. PICK p \in Bad : \A r \in Bad : p <= r
    <3>1. Bad \in SUBSET Nat
      BY TreeIs
    <3> HIDE DEF Bad
    <3> QED  BY <3>1, Least
  <2>2. p \in Nodes /\ ~Good(p)
    BY <2>1
  <2>3. ASSUME NEW s \in Enclosing(p)
        PROVE  s \in Nodes /\ p \in Sub(s) /\ Enclosing(s) \subseteq Enclosing(p)
    <3>1. PICK l \in Links(ast, p) : s \in Enclosing(l[1]) \union Scope(l)
      BY <2>2, EnclosingIs
    <3> DEFINE r == l[1]
    <3>2. Child(r, p)
      BY <2>2, LinkChild
    <3>3. Enclosing(r) \union Scope(l) \subseteq Enclosing(p)
      BY <2>2, EnclosingIs
    <3>4. s \in Enclosing(r) \/ s = r
      BY <3>1 DEF Scope
    <3> HIDE DEF r
    <3>5. r \in Nodes /\ r < p /\ r \in Nat /\ p \in Nat
      BY <3>2, ChildIs
    <3>6. Good(r)
      <4>1. r \notin Bad
        <5>1. ~(p <= r)
          BY <3>5
        <5> QED  BY <2>1, <5>1
      <4> QED  BY <3>5, <4>1
    <3>7. CASE s \in Enclosing(r)
      <4>1. s \in Nodes /\ r \in Sub(s) /\ Enclosing(s) \subseteq Enclosing(r)
        BY <3>6, <3>7
      <4>2. p \in Sub(s)
        BY <3>2, <4>1, SubIs DEF Closed
      <4> QED  BY <3>3, <4>1, <4>2
    <3>8. CASE s = r
      BY <3>2, <3>3, <3>5, <3>8, SubChild
    <3> QED  BY <3>4, <3>7, <3>8
  <2> QED  BY <2>2, <2>3
<1>2. q \notin Enclosing(q)
  BY EnclosingSize
<1> QED  BY <1>1, <1>2

-------------------------------------------------------------------------------
(* What a step puts on the stack: checks of nodes that hang on the node    *)
(* here, or on nodes that it looks into without a check, the set B.        *)

Top(B) == /\ B \in SUBSET Nodes /\ Here \in B
          /\ \A b \in B : b = Here \/ \E f \in B : Child(f, b)

LEMMA TopHere == ASSUME Here \in Nodes PROVE Top({Here})
  BY DEF Top

LEMMA TopSub == ASSUME TreeInv, NEW B, Top(B) PROVE B \subseteq Sub(Here)
<1> DEFINE Bad == B \ Sub(Here)
<1> SUFFICES ASSUME Bad # {} PROVE FALSE
  OBVIOUS
<1>1. PICK b \in Bad : \A r \in Bad : b <= r
  <2>1. Bad \in SUBSET Nat
    BY TreeIs DEF Top
  <2> HIDE DEF Bad
  <2> QED  BY <2>1, Least
<1>2. Here \in Nodes /\ Here \in Sub(Here)
  BY SubIs DEF Top
<1>3. PICK f \in B : Child(f, b)
  BY <1>1, <1>2 DEF Top
<1>4. f < b /\ f \in Nat /\ b \in Nat
  BY <1>3, ChildIs
<1>5. f \in Sub(Here)
  <2>1. ~(b <= f)
    BY <1>4
  <2> QED  BY <1>1, <2>1
<1>6. b \in Sub(Here)
  BY <1>2, <1>3, <1>5, SubIs DEF Closed
<1> QED  BY <1>1, <1>6

LEMMA TopApart ==
  ASSUME TreeInv, NEW B, Top(B), NEW f \in B, NEW t, Child(f, t), t \notin B
  PROVE  Sub(t) \subseteq Sub(Here) \ B
<1> DEFINE S == Sub(t) \ B
<1>1. t \in Nodes /\ Here \in Nodes /\ t \in Sub(Here)
  <2>1. f \in Sub(Here) /\ t \in Nodes /\ Here \in Nodes
    BY TopSub, ChildIs DEF Top
  <2> QED  BY <2>1, SubIs DEF Closed
<1>2. Here \notin Sub(t)
  <2> SUFFICES ASSUME Here \in Sub(t) PROVE FALSE
    OBVIOUS
  <2>1. Here <= t /\ t <= Here /\ t \in Nat /\ Here \in Nat
    BY <1>1, SubAfter, TreeIs
  <2>2. t = Here
    BY <2>1
  <2> QED  BY <2>2 DEF Top
<1>3. S \in SUBSET Nodes /\ t \in S
  BY <1>1, SubIs
<1>4. ASSUME NEW x \in S, NEW y, Child(x, y) PROVE y \in S
  <2>1. y \in Sub(t)
    BY <1>1, <1>4, SubIs DEF Closed
  <2>2. y # Here
    BY <1>2, <2>1
  <2>3. y \notin B
    BY <1>4, <2>2, ChildIs DEF Top
  <2> QED  BY <2>1, <2>3
<1>5. Closed(S)
  BY <1>4 DEF Closed
<1>6. Sub(t) \subseteq S
  <2> HIDE DEF S
  <2> QED  BY <1>3, <1>5, SubLeast
<1>7. Sub(t) \subseteq Sub(Here)
  BY <1>1, SubDown
<1> QED  BY <1>6, <1>7

Kids(s, B, M) ==
  /\ IsSeq(s)
  /\ \A i \in 1..Len(s) : IF s[i].op = "check"
                          THEN s[i].node \notin B /\ \E f \in B, m \in M : Leads(f, m, s[i].node)
                          ELSE s[i].node = Here
  /\ \A i, j \in 1..Len(s) :
       i # j /\ s[i].op = "check" /\ s[j].op = "check" => s[i].node # s[j].node

(* An index of two sequences put together is one of the first, or of the   *)
(* second behind it.                                                       *)
LEMMA ConcatAt ==
  ASSUME NEW s, NEW t, IsSeq(s) /\ IsSeq(t), NEW i \in 1..Len(s \o t)
  PROVE  \/ i \in 1..Len(s) /\ (s \o t)[i] = s[i]
         \/ i \notin 1..Len(s) /\ i - Len(s) \in 1..Len(t) /\ (s \o t)[i] = t[i - Len(s)]
<1> DEFINE u == s \o t
           m == Len(s)
           n == Len(t)
<1>1. /\ Len(u) = m + n /\ (\A k \in 1..m : u[k] = s[k]) /\ \A k \in 1..n : u[m + k] = t[k]
  BY ConcatSeq
<1>2. m \in Nat /\ n \in Nat /\ i \in 1..(m + n)
  BY <1>1 DEF IsSeq
<1> HIDE DEF u, m, n
<1>3. CASE i \notin 1..m
  <2>1. i - m \in 1..n /\ m + (i - m) = i
    BY <1>2, <1>3
  <2>2. u[m + (i - m)] = t[i - m]
    BY <1>1, <2>1
  <2> QED  BY <1>3, <2>1, <2>2 DEF u, m, n
<1>4. CASE i \in 1..m
  BY <1>1, <1>4 DEF u, m
<1> QED  BY <1>3, <1>4

LEMMA KidsConcat ==
  ASSUME TreeInv, NEW s, NEW t, NEW B, NEW M, NEW N, Kids(s, B, M), Kids(t, B, N),
         M \intersect N = {}
  PROVE  Kids(s \o t, B, M \union N)
<1> DEFINE u == s \o t
           m == Len(s)
           n == Len(t)
<1>1. IsSeq(s) /\ IsSeq(t) /\ m \in Nat
  BY DEF Kids, IsSeq
<1>2. IsSeq(u)
  BY <1>1, ConcatSeq
<1>3. \A i \in 1..Len(u) : \/ i \in 1..m /\ u[i] = s[i]
                           \/ i \notin 1..m /\ i - m \in 1..n /\ u[i] = t[i - m]
  BY <1>1, ConcatAt
<1> HIDE DEF u, m, n
<1>4. ASSUME NEW i \in 1..m, s[i].op = "check"
      PROVE  s[i].node \notin B /\ \E f \in B, k \in M : Leads(f, k, s[i].node)
  BY <1>4 DEF Kids, m
<1>5. ASSUME NEW i \in 1..n, t[i].op = "check"
      PROVE  t[i].node \notin B /\ \E f \in B, k \in N : Leads(f, k, t[i].node)
  BY <1>5 DEF Kids, n
<1>6. \A i \in 1..Len(u) : IF u[i].op = "check"
         THEN u[i].node \notin B /\ \E f \in B, k \in M \union N : Leads(f, k, u[i].node)
         ELSE u[i].node = Here
  <2> TAKE i \in 1..Len(u)
  <2>1. CASE i \in 1..m /\ u[i] = s[i]
    <3>1. CASE s[i].op = "check"
      BY <1>4, <2>1, <3>1
    <3>2. CASE s[i].op # "check"
      BY <2>1, <3>2 DEF Kids, m
    <3> QED  BY <3>1, <3>2
  <2>2. CASE i - m \in 1..n /\ u[i] = t[i - m]
    <3>1. CASE t[i - m].op = "check"
      BY <1>5, <2>2, <3>1
    <3>2. CASE t[i - m].op # "check"
      BY <2>2, <3>2 DEF Kids, n
    <3> QED  BY <3>1, <3>2
  <2> QED  BY <1>3, <2>1, <2>2
<1>7. ASSUME NEW i \in 1..m, NEW j \in 1..n, s[i].op = "check", t[j].op = "check"
      PROVE  s[i].node # t[j].node
  <2>1. PICK f \in B, k \in M : Leads(f, k, s[i].node)
    BY <1>4, <1>7
  <2>2. PICK g \in B, l \in N : Leads(g, l, t[j].node)
    BY <1>5, <1>7
  <2> SUFFICES ASSUME s[i].node = t[j].node PROVE FALSE
    OBVIOUS
  <2>3. Links(ast, s[i].node) = {<<f, k>>} /\ Links(ast, s[i].node) = {<<g, l>>}
    BY <2>1, <2>2, LinkIs
  <2>4. <<f, k>> = <<g, l>>
    BY <2>3
  <2>5. k = l
    BY <2>4
  <2> QED  BY <2>5
<1>8. \A i, j \in 1..Len(u) :
        i # j /\ u[i].op = "check" /\ u[j].op = "check" => u[i].node # u[j].node
  <2> SUFFICES ASSUME NEW i \in 1..Len(u), NEW j \in 1..Len(u), i # j,
                      u[i].op = "check", u[j].op = "check"
               PROVE  u[i].node # u[j].node
    OBVIOUS
  <2>1. CASE i \in 1..m /\ j \in 1..m
    <3>1. u[i] = s[i] /\ u[j] = s[j]
      BY <1>3, <2>1
    <3> QED  BY <2>1, <3>1 DEF Kids, m
  <2>2. CASE i \in 1..m /\ j \notin 1..m
    <3>1. u[i] = s[i] /\ u[j] = t[j - m] /\ j - m \in 1..n
      BY <1>3, <2>2
    <3> QED  BY <1>7, <2>2, <3>1
  <2>3. CASE i \notin 1..m /\ j \in 1..m
    <3>1. u[j] = s[j] /\ u[i] = t[i - m] /\ i - m \in 1..n
      BY <1>3, <2>3
    <3> QED  BY <1>7, <2>3, <3>1
  <2>4. CASE i \notin 1..m /\ j \notin 1..m
    <3>1. u[i] = t[i - m] /\ i - m \in 1..n /\ u[j] = t[j - m] /\ j - m \in 1..n
      BY <1>3, <2>4
    <3>2. i - m # j - m
      BY <1>1
    <3> QED  BY <3>1, <3>2 DEF Kids, n
  <2> QED  BY <2>1, <2>2, <2>3, <2>4
<1> QED  BY <1>2, <1>6, <1>8 DEF Kids, u

LEMMA KidsNone == ASSUME NEW B, NEW M PROVE Kids(<<>>, B, M)
<1>1. IsSeq(<<>>) /\ 1..Len(<<>>) = {}
  BY NoneSeq
<1> QED  BY <1>1 DEF Kids

LEMMA KidsItem ==
  ASSUME NEW x, x.op # "check", x.node = Here, NEW B PROVE Kids(<<x>>, B, {})
<1> DEFINE o == <<x>>
<1>1. IsSeq(o) /\ Len(o) = 1 /\ o[1] = x
  BY OneSeq
<1> HIDE DEF o
<1>2. \A i \in 1..Len(o) : o[i] = x
  BY <1>1
<1> QED  BY <1>1, <1>2 DEF Kids, o

LEMMA KidsMore == ASSUME NEW s, NEW B, NEW M, Kids(s, B, M), NEW N, M \subseteq N PROVE Kids(s, B, N)
  BY DEF Kids

LEMMA AppendAt ==
  ASSUME NEW s, IsSeq(s), NEW x, NEW i \in 1..Len(Append(s, x))
  PROVE  \/ i \in 1..Len(s) /\ Append(s, x)[i] = s[i]
         \/ i = Len(s) + 1 /\ Append(s, x)[i] = x
<1> DEFINE a == Append(s, x)
           n == Len(s)
<1>1. Len(a) = n + 1 /\ a[n + 1] = x /\ (\A k \in 1..n : a[k] = s[k]) /\ n \in Nat
  BY AppendSeq DEF IsSeq
<1> HIDE DEF a, n
<1>2. i \in 1..n \/ i = n + 1
  BY <1>1 DEF a
<1> QED  BY <1>1, <1>2 DEF a, n

LEMMA ChecksKids ==
  ASSUME NEW ps, Len(ps) \in Nat, NEW B, NEW M,
         \A i \in 1..Len(ps) : ps[i] # NULL =>
            ps[i] \notin B /\ \E f \in B, m \in M : Leads(f, m, ps[i]),
         \A i, j \in 1..Len(ps) : i # j /\ ps[i] # NULL => ps[i] # ps[j]
  PROVE  Kids(Checks(ps), B, M)
<1>1. PICK h : Checks(ps) = h[Len(ps)] /\ \A i \in 0..Len(ps) : h[i] = CheckAt(h, ps, i)
  BY ChecksAre
<1> DEFINE From(i, k) == /\ h[i][k].op = "check"
                         /\ \E j \in 1..i : h[i][k].node = ps[j] /\ ps[j] # NULL
           Good(i) == Kids(h[i], B, M) /\ \A k \in 1..Len(h[i]) : From(i, k)
           Bad == {i \in 0..Len(ps) : ~Good(i)}
<1>2. Bad = {}
  <2> SUFFICES ASSUME Bad # {} PROVE FALSE
    OBVIOUS
  <2>1. PICK i \in Bad : \A j \in Bad : i <= j
    <3>1. Bad \in SUBSET Nat
      OBVIOUS
    <3> HIDE DEF Bad
    <3> QED  BY <3>1, Least
  <2>2. i \in 0..Len(ps) /\ h[i] = CheckAt(h, ps, i) /\ ~Good(i)
    BY <1>1, <2>1
  <2>3. CASE i = 0
    <3>1. h[i] = <<>>
      BY <2>2, <2>3 DEF CheckAt
    <3>2. 1..Len(h[i]) = {}
      BY <3>1
    <3>3. Kids(h[i], B, M)
      BY <3>1, KidsNone
    <3> QED  BY <2>2, <3>2, <3>3
  <2>4. CASE i # 0
    <3>1. i - 1 \in 0..Len(ps) /\ i - 1 \notin Bad /\ i \in 1..Len(ps)
      BY <2>1, <2>2, <2>4
    <3>2. Good(i - 1)
      BY <3>1
    <3>3. CASE ps[i] = NULL
      <4>1. h[i] = h[i - 1]
        BY <2>2, <2>4, <3>3 DEF CheckAt
      <4>2. \A j \in 1..(i - 1) : j \in 1..i
        BY <3>1
      <4>3. Good(i)
        BY <3>2, <4>1, <4>2
      <4> QED  BY <2>2, <4>3
    <3>4. CASE ps[i] # NULL
      <4> DEFINE x == Item("check", ps[i])
                 s == h[i - 1]
                 a == h[i]
      <4>1. a = Append(s, x)
        BY <2>2, <2>4, <3>4 DEF CheckAt
      <4>2. x.op = "check" /\ x.node = ps[i]
        BY ItemHas
      <4>3. IsSeq(s) /\ Kids(s, B, M)
        BY <3>2 DEF Kids
      <4>4. IsSeq(a)
        BY <4>1, <4>3, AppendSeq
      <4>5. \A k \in 1..Len(a) : \/ k \in 1..Len(s) /\ a[k] = s[k]
                                 \/ k = Len(s) + 1 /\ a[k] = x
        BY <4>1, <4>3, AppendAt
      <4>6. ASSUME NEW k \in 1..Len(s)
            PROVE  /\ s[k].op = "check" /\ s[k].node # ps[i]
                   /\ \E j \in 1..i : s[k].node = ps[j] /\ ps[j] # NULL
        <5>1. PICK j \in 1..(i - 1) : s[k].op = "check" /\ s[k].node = ps[j] /\ ps[j] # NULL
          BY <3>2
        <5>2. j \in 1..i /\ j \in 1..Len(ps) /\ j # i
          BY <3>1
        <5> QED  BY <3>1, <5>1, <5>2
      <4> HIDE DEF x, s
      <4>7. \A k \in 1..Len(a) : From(i, k)
        <5> TAKE k \in 1..Len(a)
        <5>1. CASE k \in 1..Len(s) /\ a[k] = s[k]
          BY <4>6, <5>1
        <5>2. CASE a[k] = x
          <6>1. i \in 1..i
            BY <3>1
          <6> QED  BY <3>4, <4>2, <5>2, <6>1
        <5> QED  BY <4>5, <5>1, <5>2
      <4>8. \A k \in 1..Len(a) : a[k].node \notin B /\ \E f \in B, m \in M : Leads(f, m, a[k].node)
        <5> TAKE k \in 1..Len(a)
        <5>1. CASE k \in 1..Len(s) /\ a[k] = s[k]
          BY <4>3, <4>6, <5>1 DEF Kids
        <5>2. CASE a[k] = x
          BY <3>1, <3>4, <4>2, <5>2
        <5> QED  BY <4>5, <5>1, <5>2
      <4>9. \A k, l \in 1..Len(a) : k # l => a[k].node # a[l].node
        <5> SUFFICES ASSUME NEW k \in 1..Len(a), NEW l \in 1..Len(a), k # l
                     PROVE  a[k].node # a[l].node
          OBVIOUS
        <5>1. CASE k \in 1..Len(s) /\ a[k] = s[k] /\ l \in 1..Len(s) /\ a[l] = s[l]
          BY <4>3, <4>6, <5>1 DEF Kids
        <5>2. CASE a[k] = x /\ l \in 1..Len(s) /\ a[l] = s[l]
          BY <4>2, <4>6, <5>2
        <5>3. CASE a[l] = x /\ k \in 1..Len(s) /\ a[k] = s[k]
          BY <4>2, <4>6, <5>3
        <5> QED  BY <4>5, <5>1, <5>2, <5>3
      <4> HIDE DEF a
      <4>10. Kids(a, B, M)
        <5>1. \A k \in 1..Len(a) : a[k].op = "check"
          BY <4>7 DEF a
        <5> QED  BY <4>4, <4>8, <4>9, <5>1 DEF Kids
      <4> QED  BY <2>2, <4>7, <4>10 DEF a
    <3> QED  BY <3>3, <3>4
  <2> QED  BY <2>3, <2>4
<1>3. Len(ps) \in 0..Len(ps)
  OBVIOUS
<1> QED  BY <1>1, <1>2, <1>3

LEMMA MemberLink ==
  ASSUME TreeInv, NEW c \in Nodes, NEW m \in Pointers \intersect Given(ast[c].type),
         ast[c].at[m] # NULL
  PROVE  Leads(c, m, ast[c].at[m]) /\ ast[c].at[m] \in Nodes /\ c < ast[c].at[m]
<1>1. Leads(c, m, ast[c].at[m])
  BY NodeHas DEF Leads
<1> QED  BY <1>1, LinkIs

LEMMA KidsMember ==
  ASSUME TreeInv, Here \in Nodes, NEW m \in Pointers \intersect Given(ast[Here].type),
         NEW B, Here \in B, Member(m) \notin B
  PROVE  Kids(CheckOf(m), B, {m})
<1> DEFINE q == Member(m)
           ps == <<q>>
<1>1. Len(ps) = 1 /\ ps[1] = q
  OBVIOUS
<1>2. q # NULL => Leads(Here, m, q)
  BY MemberLink DEF Member
<1> HIDE DEF ps, q
<1>3. \A i \in 1..Len(ps) : i = 1
  BY <1>1
<1>4. \A i \in 1..Len(ps) : ps[i] # NULL => ps[i] \notin B /\ \E f \in B, k \in {m} : Leads(f, k, ps[i])
  BY <1>1, <1>2, <1>3 DEF q
<1>5. \A i, j \in 1..Len(ps) : i # j /\ ps[i] # NULL => ps[i] # ps[j]
  BY <1>3
<1>6. Kids(Checks(ps), B, {m})
  BY <1>1, <1>4, <1>5, ChecksKids
<1> QED  BY <1>6 DEF CheckOf, ps, q

LEMMA KidsHere ==
  ASSUME TreeInv, Here \in Nodes, NEW m \in Pointers \intersect Given(ast[Here].type)
  PROVE  Kids(CheckOf(m), {Here}, {m})
<1>1. Member(m) # Here
  <2>1. CASE Member(m) = NULL
    BY <2>1, TreeIs DEF NULL, Nodes
  <2>2. CASE Member(m) # NULL
    <3>1. Here < Member(m) /\ Here \in Nat
      BY <2>2, MemberLink, TreeIs DEF Member
    <3> QED  BY <3>1
  <2> QED  BY <2>1, <2>2
<1> QED  BY <1>1, KidsMember

-------------------------------------------------------------------------------
(* The order of the checks.  No two nodes still to be checked hang on one  *)
(* another, and nothing that was seen hangs on one of them, but for the    *)
(* condition of a loop, whose range is looked at before it is checked.     *)

Apart(s) ==
  \A i, j \in 1..Len(s) :
    i # j /\ s[i].op = "check" /\ s[j].op = "check" => s[j].node \notin Sub(s[i].node)

Unseen(s, S) ==
  \A i \in 1..Len(s) : s[i].op = "check" =>
    \A d \in S : d \in Sub(s[i].node) => d = s[i].node /\ IsRange(d)

Ranged(s, S) ==
  \A i \in 1..Len(s) : s[i].op = "check" /\ IsRange(s[i].node) /\ s[i].node \notin S =>
    \E j \in 1..(i - 1) : s[j].op = "range" /\ ast[s[j].node].at["condition"] = s[i].node

Order(s, S) ==
  /\ S \subseteq Nodes /\ Apart(s) /\ Unseen(s, S) /\ Ranged(s, S)
  /\ \A i \in 1..Len(s) : s[i].op = "range" => s[i].node \in S

LEMMA RangedConcat ==
  ASSUME NEW s, NEW t, IsSeq(s) /\ IsSeq(t), NEW S, Ranged(s, S), Ranged(t, S)
  PROVE  Ranged(s \o t, S)
<1> DEFINE u == s \o t
           m == Len(s)
           n == Len(t)
<1>1. /\ Len(u) = m + n /\ (\A i \in 1..m : u[i] = s[i]) /\ (\A i \in 1..n : u[m + i] = t[i])
      /\ m \in Nat /\ n \in Nat
  BY ConcatSeq DEF IsSeq
<1>2. \A i \in 1..Len(u) : \/ i \in 1..m /\ u[i] = s[i]
                           \/ i \notin 1..m /\ i - m \in 1..n /\ u[i] = t[i - m]
  BY ConcatAt
<1> HIDE DEF u, m, n
<1> SUFFICES ASSUME NEW i \in 1..Len(u), u[i].op = "check", IsRange(u[i].node), u[i].node \notin S
             PROVE  \E j \in 1..(i - 1) :
                      u[j].op = "range" /\ ast[u[j].node].at["condition"] = u[i].node
  BY DEF Ranged, u
<1>3. CASE i \in 1..m /\ u[i] = s[i]
  <2>1. PICK j \in 1..(i - 1) : s[j].op = "range" /\ ast[s[j].node].at["condition"] = s[i].node
    BY <1>3 DEF Ranged, m
  <2>2. j \in 1..m
    BY <1>1, <1>3
  <2>3. u[j] = s[j]
    BY <1>1, <2>2
  <2> QED  BY <1>3, <2>1, <2>3
<1>4. CASE i \notin 1..m /\ i - m \in 1..n /\ u[i] = t[i - m]
  <2>1. PICK j \in 1..((i - m) - 1) :
          t[j].op = "range" /\ ast[t[j].node].at["condition"] = t[i - m].node
    BY <1>4 DEF Ranged, n
  <2>2. j \in 1..n /\ m + j \in 1..(i - 1)
    BY <1>1, <1>4
  <2>3. u[m + j] = t[j]
    BY <1>1, <2>2
  <2> QED  BY <1>4, <2>1, <2>2, <2>3
<1> QED  BY <1>2, <1>3, <1>4

LEMMA RangedTail ==
  ASSUME NEW s, IsSeq(s), Len(s) # 0, Head(s).op # "range", NEW S, NEW T, S \subseteq T, Ranged(s, S)
  PROVE  Ranged(Tail(s), T)
<1> DEFINE t == Tail(s)
<1>1. /\ Len(t) = Len(s) - 1 /\ Head(s) = s[1] /\ (\A i \in 1..(Len(s) - 1) : t[i] = s[i + 1])
      /\ Len(s) \in Nat
  BY TailSeq DEF IsSeq
<1> HIDE DEF t
<1> SUFFICES ASSUME NEW i \in 1..Len(t), t[i].op = "check", IsRange(t[i].node), t[i].node \notin T
             PROVE  \E j \in 1..(i - 1) :
                      t[j].op = "range" /\ ast[t[j].node].at["condition"] = t[i].node
  BY DEF Ranged, t
<1>2. i + 1 \in 1..Len(s) /\ t[i] = s[i + 1] /\ (i + 1) - 1 = i
  BY <1>1
<1>3. PICK j \in 1..((i + 1) - 1) :
        s[j].op = "range" /\ ast[s[j].node].at["condition"] = s[i + 1].node
  BY <1>2 DEF Ranged
<1>4. j # 1
  BY <1>1, <1>3
<1>5. j - 1 \in 1..(i - 1) /\ j - 1 \in 1..(Len(s) - 1) /\ (j - 1) + 1 = j
  BY <1>1, <1>2, <1>3, <1>4
<1>6. t[j - 1] = s[j]
  BY <1>1, <1>5
<1> QED  BY <1>2, <1>3, <1>5, <1>6

(* The condition of a loop is no other member of another node.             *)
LEMMA RangeLink ==
  ASSUME TreeInv, NEW f, NEW m, NEW q, Leads(f, m, q), IsRange(q)
  PROVE  m = "condition" /\ ast[f].type = "LOOP"
<1>1. PICK l \in 1..(q - 1) : ast[l].type = "LOOP" /\ ast[l].at["condition"] = q
  BY DEF IsRange
<1>2. q \in Nodes /\ Links(ast, q) = {<<f, m>>} /\ q # NULL
  BY LinkIs DEF Leads
<1>3. l \in Nodes
  BY <1>2, TreeIs DEF Nodes
<1>4. "condition" \in Pointers /\ "condition" \in Given(ast[l].type)
  BY <1>1, MembersOf DEF Pointers
<1>5. Leads(l, "condition", q)
  BY <1>1, <1>2, <1>3, <1>4, NodeHas DEF Leads
<1>6. Links(ast, q) = {<<l, "condition">>}
  BY <1>5, LinkIs
<1>7. <<f, m>> = <<l, "condition">>
  BY <1>2, <1>6
<1> QED  BY <1>1, <1>7

LEMMA KidsRanged ==
  ASSUME TreeInv, NEW s, NEW B, NEW M, Kids(s, B, M), "condition" \notin M, NEW S
  PROVE  Ranged(s, S)
<1> SUFFICES ASSUME NEW i \in 1..Len(s), s[i].op = "check", IsRange(s[i].node) PROVE FALSE
  BY DEF Ranged
<1>1. PICK f \in B, m \in M : Leads(f, m, s[i].node)
  BY DEF Kids
<1> QED  BY <1>1, RangeLink

(* A node is checked, and what it leads to is still to be checked then.    *)
LEMMA OrderPush ==
  ASSUME TreeInv, IsSeq(todo), Len(todo) # 0, Head(todo).op = "check",
         \A i \in 1..Len(todo) : todo[i].node \in Nodes, Order(todo, seen),
         NEW s, NEW B, NEW M, Top(B), Kids(s, B, M), Ranged(s, seen \union {Here})
  PROVE  Order(s \o Tail(todo), seen \union {Here})
<1> DEFINE t == Tail(todo)
           u == s \o t
           m == Len(s)
           n == Len(t)
           S == seen \union {Here}
<1>1. /\ IsSeq(t) /\ n = Len(todo) - 1 /\ todo[1].op = "check" /\ todo[1].node = Here
      /\ Head(todo).op # "range"
      /\ (\A i \in 1..n : t[i] = todo[i + 1] /\ i + 1 \in 1..Len(todo) /\ i + 1 # 1)
      /\ 1 \in 1..Len(todo) /\ IsSeq(s) /\ Here \in Nodes /\ m \in Nat
  <2>1. /\ IsSeq(t) /\ n = Len(todo) - 1 /\ Head(todo) = todo[1]
        /\ \A i \in 1..(Len(todo) - 1) : t[i] = todo[i + 1]
    BY TailSeq
  <2>2. Len(todo) \in Nat /\ IsSeq(s) /\ Len(s) \in Nat
    BY DEF IsSeq, Kids
  <2> HIDE DEF t, m
  <2>3. 1 \in 1..Len(todo) /\ \A i \in 1..n : i + 1 \in 1..Len(todo) /\ i + 1 # 1
    BY <2>1, <2>2
  <2> QED  BY <2>1, <2>2, <2>3 DEF Here, m
<1>2. IsSeq(u) /\ \A i \in 1..Len(u) : \/ i \in 1..m /\ u[i] = s[i]
                                       \/ i \notin 1..m /\ i - m \in 1..n /\ u[i] = t[i - m]
  BY <1>1, ConcatAt, ConcatSeq
<1>3. Ranged(u, S)
  <2>1. Ranged(t, S)
    BY <1>1, RangedTail DEF Order
  <2>2. IsSeq(s) /\ IsSeq(t)
    BY <1>1
  <2> HIDE DEF t, S
  <2> QED  BY <2>1, <2>2, RangedConcat DEF S
<1> HIDE DEF t, u, m, n
<1>4. ASSUME NEW i \in 1..m, s[i].op = "check"
      PROVE  /\ s[i].node \in Nodes /\ Sub(s[i].node) \subseteq Sub(Here) \ B
             /\ s[i].node \in Sub(Here) /\ \E f \in B : Child(f, s[i].node)
  <2>1. s[i].node \notin B /\ \E f \in B : Child(f, s[i].node)
    BY <1>4 DEF Kids, Child, m
  <2>2. s[i].node \in Nodes
    BY <2>1, ChildIs
  <2>3. Sub(s[i].node) \subseteq Sub(Here) \ B
    BY <2>1, TopApart
  <2> QED  BY <2>1, <2>2, <2>3, SubIs
<1>5. ASSUME NEW i \in 1..n, t[i].op = "check"
      PROVE  t[i].node \in Nodes /\ t[i].node \notin Sub(Here) /\ Here \notin Sub(t[i].node)
  <2>1. i + 1 \in 1..Len(todo) /\ i + 1 # 1 /\ t[i] = todo[i + 1]
    BY <1>1
  <2>2. Apart(todo)
    BY DEF Order
  <2> QED  BY <1>1, <1>5, <2>1, <2>2 DEF Apart
<1>6. Apart(u)
  <2> SUFFICES ASSUME NEW i \in 1..Len(u), NEW j \in 1..Len(u), i # j,
                      u[i].op = "check", u[j].op = "check"
               PROVE  u[j].node \notin Sub(u[i].node)
    BY DEF Apart
  <2>1. CASE i \in 1..m /\ u[i] = s[i] /\ j \in 1..m /\ u[j] = s[j]
    <3>1. PICK f \in B : Child(f, s[j].node)
      BY <1>4, <2>1
    <3>2. s[i].node \in Nodes /\ f \notin Sub(s[i].node)
      BY <1>4, <2>1
    <3>3. s[j].node # s[i].node
      BY <2>1 DEF Kids, m
    <3> QED  BY <2>1, <3>1, <3>2, <3>3, SubUp
  <2>2. CASE i \in 1..m /\ u[i] = s[i] /\ j - m \in 1..n /\ u[j] = t[j - m]
    BY <1>4, <1>5, <2>2
  <2>3. CASE i - m \in 1..n /\ u[i] = t[i - m] /\ j \in 1..m /\ u[j] = s[j]
    <3>1. t[i - m].node \in Nodes /\ t[i - m].node \notin Sub(Here) /\ Here \notin Sub(t[i - m].node)
      BY <1>5, <2>3
    <3>2. s[j].node \in Sub(Here)
      BY <1>4, <2>3
    <3> QED  BY <1>1, <2>3, <3>1, <3>2, SubEither
  <2>4. CASE i \notin 1..m /\ i - m \in 1..n /\ u[i] = t[i - m]
             /\ j \notin 1..m /\ j - m \in 1..n /\ u[j] = t[j - m]
    <3>1. (i - m) + 1 \in 1..Len(todo) /\ t[i - m] = todo[(i - m) + 1]
          /\ (j - m) + 1 \in 1..Len(todo) /\ t[j - m] = todo[(j - m) + 1]
      BY <1>1, <2>4
    <3>2. (i - m) + 1 # (j - m) + 1
      BY <1>1
    <3>3. Apart(todo)
      BY DEF Order
    <3> QED  BY <2>4, <3>1, <3>2, <3>3 DEF Apart
  <2> QED  BY <1>2, <2>1, <2>2, <2>3, <2>4
<1>7. Unseen(u, S)
  <2> SUFFICES ASSUME NEW i \in 1..Len(u), u[i].op = "check", NEW d \in S, d \in Sub(u[i].node)
               PROVE  d = u[i].node /\ IsRange(d)
    BY DEF Unseen
  <2>0. Unseen(todo, seen)
    BY DEF Order
  <2>1. CASE i \in 1..m /\ u[i] = s[i]
    <3>1. d \in Sub(Here) /\ d \notin B
      BY <1>4, <2>1
    <3>2. d # Here
      BY <3>1 DEF Top
    <3>3. d \in seen
      BY <3>2
    <3>4. d = Here
      BY <1>1, <2>0, <3>1, <3>3 DEF Unseen
    <3> QED  BY <3>2, <3>4
  <2>2. CASE i - m \in 1..n /\ u[i] = t[i - m]
    <3>1. Here \notin Sub(t[i - m].node)
      BY <1>5, <2>2
    <3>2. d \in seen
      BY <2>2, <3>1
    <3>3. (i - m) + 1 \in 1..Len(todo) /\ t[i - m] = todo[(i - m) + 1]
      BY <1>1, <2>2
    <3> QED  BY <2>0, <2>2, <3>2, <3>3 DEF Unseen
  <2> QED  BY <1>2, <2>1, <2>2
<1>8. \A i \in 1..Len(u) : u[i].op = "range" => u[i].node \in S
  <2> TAKE i \in 1..Len(u)
  <2>1. CASE i \in 1..m /\ u[i] = s[i]
    BY <2>1 DEF Kids, m
  <2>2. CASE i - m \in 1..n /\ u[i] = t[i - m]
    <3>1. (i - m) + 1 \in 1..Len(todo) /\ t[i - m] = todo[(i - m) + 1]
      BY <1>1, <2>2
    <3> QED  BY <2>2, <3>1 DEF Order
  <2> QED  BY <1>2, <2>1, <2>2
<1>9. S \subseteq Nodes
  BY <1>1 DEF Order
<1> QED  BY <1>3, <1>6, <1>7, <1>8, <1>9 DEF Order, u, t

(* An item goes, of a node that was seen; a loop's range is seen with it.  *)
LEMMA OrderTail ==
  ASSUME TreeInv, IsSeq(todo), Len(todo) # 0, Order(todo, seen), NEW T,
         \A i \in 1..Len(todo) : todo[i].node \in Nodes,
         \/ Head(todo).op # "range" /\ T = seen
         \/ /\ Head(todo).op = "range" /\ ast[Here].type = "LOOP"
            /\ \/ T = seen /\ ~RangeAt(Member("condition"))
               \/ T = seen \union {Member("condition")} /\ RangeAt(Member("condition"))
  PROVE  Order(Tail(todo), T)
<1> DEFINE t == Tail(todo)
           n == Len(t)
           c == Member("condition")
<1>1. /\ IsSeq(t) /\ n = Len(todo) - 1 /\ todo[1] = Head(todo) /\ 1 \in 1..Len(todo)
      /\ (\A i \in 1..n : t[i] = todo[i + 1] /\ i + 1 \in 1..Len(todo)) /\ n \in Nat
  <2>1. /\ IsSeq(t) /\ n = Len(todo) - 1 /\ Head(todo) = todo[1]
        /\ \A i \in 1..(Len(todo) - 1) : t[i] = todo[i + 1]
    BY TailSeq
  <2>2. Len(todo) \in Nat
    BY DEF IsSeq
  <2> HIDE DEF t
  <2>3. 1 \in 1..Len(todo) /\ \A i \in 1..n : i + 1 \in 1..Len(todo)
    BY <2>1, <2>2
  <2> QED  BY <2>1, <2>2, <2>3
<1> HIDE DEF t, n
<1>2. Here \in Nodes /\ seen \subseteq T
  BY <1>1 DEF Here
<1>3. ASSUME Head(todo).op = "range", RangeAt(c)
      PROVE  /\ ast[Here].type = "LOOP" /\ Leads(Here, "condition", c) /\ c \in Nodes
             /\ IsRange(c) /\ Here \in seen
  <2>1. ast[Here].type = "LOOP"
    BY <1>3
  <2>2. "condition" \in Pointers \intersect Given(ast[Here].type)
    BY <2>1, MembersOf DEF Pointers
  <2>3. c # NULL /\ ast[c].type = "BINARY_EXPR" /\ ast[c].at["op"] = ".."
    BY <1>3 DEF RangeAt, TypeAt
  <2>4. Leads(Here, "condition", c) /\ c \in Nodes /\ Here < c
    BY <1>2, <2>2, <2>3, MemberLink DEF Member
  <2>5. Here \in 1..(c - 1)
    BY <1>2, <2>4, TreeIs DEF Nodes
  <2>6. IsRange(c)
    BY <2>1, <2>3, <2>5 DEF IsRange, Member
  <2>7. Here \in seen
    BY <1>1, <1>3 DEF Order, Here
  <2> QED  BY <2>1, <2>4, <2>6, <2>7
<1>4. T \subseteq Nodes
  BY <1>3 DEF Order
<1>5. Apart(t)
  <2> SUFFICES ASSUME NEW i \in 1..n, NEW j \in 1..n, i # j, t[i].op = "check", t[j].op = "check"
               PROVE  t[j].node \notin Sub(t[i].node)
    BY DEF Apart, n
  <2>1. /\ i + 1 \in 1..Len(todo) /\ t[i] = todo[i + 1] /\ j + 1 \in 1..Len(todo)
        /\ t[j] = todo[j + 1] /\ i + 1 # j + 1
    BY <1>1
  <2> QED  BY <2>1 DEF Order, Apart
<1>6. Unseen(t, T)
  <2> SUFFICES ASSUME NEW i \in 1..n, t[i].op = "check", NEW d \in T, d \in Sub(t[i].node)
               PROVE  d = t[i].node /\ IsRange(d)
    BY DEF Unseen, n
  <2>1. i + 1 \in 1..Len(todo) /\ t[i] = todo[i + 1] /\ Unseen(todo, seen) /\ t[i].node \in Nodes
    BY <1>1 DEF Order
  <2>2. CASE d \in seen
    BY <2>1, <2>2 DEF Unseen
  <2>3. CASE d \notin seen
    <3>1. d = c /\ Head(todo).op = "range" /\ RangeAt(c)
      BY <2>3
    <3>2. /\ ast[Here].type = "LOOP" /\ Leads(Here, "condition", c) /\ IsRange(c) /\ Here \in seen
      BY <1>3, <3>1
    <3>3. Here \notin Sub(t[i].node)
      <4> SUFFICES ASSUME Here \in Sub(t[i].node) PROVE FALSE
        OBVIOUS
      <4>1. IsRange(Here)
        BY <2>1, <3>2 DEF Unseen
      <4> QED  BY <3>2, <4>1 DEF IsRange
    <3>4. Child(Here, c)
      BY <3>2 DEF Child
    <3>5. d = t[i].node
      BY <2>1, <3>1, <3>3, <3>4, SubUp
    <3> QED  BY <3>1, <3>2, <3>5
  <2> QED  BY <2>2, <2>3
<1>7. Ranged(t, T)
  <2>1. Ranged(todo, seen)
    BY DEF Order
  <2>2. CASE Head(todo).op # "range"
    BY <1>2, <2>1, <2>2, RangedTail DEF t
  <2>3. CASE Head(todo).op = "range"
    <3> SUFFICES ASSUME NEW i \in 1..n, t[i].op = "check", IsRange(t[i].node), t[i].node \notin T
                 PROVE  \E j \in 1..(i - 1) :
                          t[j].op = "range" /\ ast[t[j].node].at["condition"] = t[i].node
      BY DEF Ranged, n
    <3>1. i + 1 \in 1..Len(todo) /\ t[i] = todo[i + 1] /\ t[i].node \notin seen /\ (i + 1) - 1 = i
      BY <1>1, <1>2
    <3>2. PICK j \in 1..((i + 1) - 1) :
            todo[j].op = "range" /\ ast[todo[j].node].at["condition"] = t[i].node
      BY <2>1, <3>1 DEF Ranged
    <3>3. j # 1
      <4> SUFFICES ASSUME j = 1 PROVE FALSE
        OBVIOUS
      <4>1. c = t[i].node
        BY <1>1, <3>2 DEF Here, Member
      <4>2. RangeAt(c)
        <5>1. ast[c].type = "BINARY_EXPR" /\ ast[c].at["op"] = ".."
          BY <4>1 DEF IsRange
        <5>2. c # NULL
          BY <1>1, <3>1, <4>1, TreeIs DEF NULL, Nodes
        <5> QED  BY <5>1, <5>2 DEF RangeAt, TypeAt
      <4>3. c \in T
        BY <2>3, <4>2
      <4> QED  BY <4>1, <4>3
    <3>4. j - 1 \in 1..(i - 1) /\ j - 1 \in 1..n /\ (j - 1) + 1 = j
      BY <1>1, <3>1, <3>2, <3>3
    <3>5. t[j - 1] = todo[j]
      BY <1>1, <3>4
    <3> QED  BY <3>2, <3>4, <3>5
  <2> QED  BY <2>2, <2>3
<1>8. \A i \in 1..n : t[i].op = "range" => t[i].node \in T
  BY <1>1, <1>2 DEF Order
<1> QED  BY <1>4, <1>5, <1>6, <1>7, <1>8 DEF Order, t, n

-------------------------------------------------------------------------------
(* A list runs along `next', and meets no other list that starts elsewhere.*)

LEMMA ListLinks ==
  ASSUME TreeInv, NEW p \in 0..Len(ast)
  PROVE  /\ IsSeq(ListAt(ast, p))
         /\ Len(ListAt(ast, p)) # 0 => ListAt(ast, p)[1] = p
         /\ \A i \in 1..Len(ListAt(ast, p)) :
              /\ ListAt(ast, p)[i] \in Nodes
              /\ i = 1 \/ Leads(ListAt(ast, p)[i - 1], "next", ListAt(ast, p)[i])
<1> DEFINE L == Len(ast)
<1>0. L \in Nat
  BY TreeIs
<1>1. PICK h : \A q \in 0..L : ListAt(ast, q) = h[q] /\ h[q] = FromAt(h, q)
  BY ListsAre
<1> DEFINE Good(q) == /\ Len(h[q]) # 0 => h[q][1] = q
                      /\ \A i \in 1..Len(h[q]) : i = 1 \/ Leads(h[q][i - 1], "next", h[q][i])
           Bad == {n \in 0..L : ~Good(L - n)}
<1>2. ASSUME NEW q \in 0..L
      PROVE  IsSeq(h[q]) /\ \A i \in 1..Len(h[q]) : h[q][i] \in Nodes
  BY <1>1, ListIs
<1>3. Good(0)
  <2>1. 0 \in 0..L /\ FromAt(h, 0) = <<>>
    BY <1>0 DEF FromAt, NULL
  <2>2. h[0] = <<>>
    BY <1>1, <2>1
  <2>3. Len(h[0]) = 0 /\ 1..Len(h[0]) = {}
    BY <2>2
  <2> QED  BY <2>3
<1>4. Bad = {}
  <2> SUFFICES ASSUME Bad # {} PROVE FALSE
    OBVIOUS
  <2>1. PICK n \in Bad : \A m \in Bad : n <= m
    <3>1. Bad \in SUBSET Nat
      BY <1>0
    <3> HIDE DEF Bad
    <3> QED  BY <3>1, Least
  <2> DEFINE q == L - n
  <2>2. n \in 0..L /\ q \in 0..L /\ ~Good(q)
    BY <1>0, <2>1
  <2>3. q # 0
    BY <1>3, <2>2
  <2>4. q \in Nodes
    BY <1>0, <2>2, <2>3 DEF Nodes
  <2> DEFINE r == ast[q].at["next"]
  <2>5. r \in {0} \union (q + 1)..L /\ (r # 0 => Leads(q, "next", r))
    <3> HIDE DEF q
    <3>1. r \in {0} \union (q + 1)..L
      BY <2>4, NodeHas DEF NULL
    <3>2. "next" \in Pointers \intersect Given(ast[q].type)
      BY NextGiven DEF Pointers
    <3>3. r # 0 => Leads(q, "next", r)
      BY <2>4, <3>2, MemberLink DEF NULL
    <3> QED  BY <3>1, <3>3
  <2>6. r \in 0..L /\ Good(r)
    <3>1. CASE r = 0
      BY <1>0, <1>3, <3>1
    <3>2. CASE r # 0
      <4> HIDE DEF r
      <4>1. L - r \in 0..L /\ L - r < n /\ L - (L - r) = r /\ r \in 0..L
        BY <1>0, <2>2, <2>5, <3>2
      <4>2. \A m \in Bad : ~(m < n)
        BY <1>0, <2>1, <2>2
      <4>3. L - r \notin Bad
        BY <4>1, <4>2
      <4>4. Good(L - (L - r))
        BY <4>1, <4>3
      <4> QED  BY <4>1, <4>4
    <3> QED  BY <3>1, <3>2
  <2>7. h[q] = <<q>> \o h[r]
    BY <1>1, <2>2, <2>3 DEF FromAt, NULL
  <2>7a. r = 0 => h[r] = <<>>
    <3>1. 0 \in 0..L /\ FromAt(h, 0) = <<>>
      BY <1>0 DEF FromAt, NULL
    <3> QED  BY <1>1, <3>1
  <2> HIDE DEF q, r
  <2> DEFINE o == <<q>>
             t == h[r]
  <2>8. IsSeq(o) /\ Len(o) = 1 /\ o[1] = q
    BY OneSeq
  <2>9. IsSeq(t) /\ Len(t) \in Nat /\ (r = 0 => Len(t) = 0) /\ (Len(t) # 0 => t[1] = r)
        /\ \A i \in 1..Len(t) : i = 1 \/ Leads(t[i - 1], "next", t[i])
    BY <1>2, <2>6, <2>7a DEF IsSeq
  <2>10. h[q] = o \o t
    BY <2>7
  <2> HIDE DEF o, t
  <2>11. /\ IsSeq(o \o t) /\ Len(o \o t) = Len(o) + Len(t)
         /\ \A i \in 1..Len(o) : (o \o t)[i] = o[i]
         /\ \A i \in 1..Len(t) : (o \o t)[Len(o) + i] = t[i]
    <3>1. IsSeq(o) /\ IsSeq(t)
      BY <2>8, <2>9
    <3> QED  BY <3>1, ConcatSeq
  <2> DEFINE g == h[q]
  <2>12. Len(g) = 1 + Len(t) /\ g[1] = q /\ \A i \in 1..Len(t) : g[1 + i] = t[i]
    BY <2>8, <2>10, <2>11
  <2> HIDE DEF g
  <2>13. ASSUME NEW i \in 1..Len(g), i # 1 PROVE Leads(g[i - 1], "next", g[i])
    <3>1. i - 1 \in 1..Len(t) /\ 1 + (i - 1) = i /\ Len(t) # 0
      BY <2>9, <2>12, <2>13
    <3>2. g[i] = t[i - 1]
      BY <2>12, <3>1
    <3>3. CASE i - 1 = 1
      <4>1. g[i - 1] = q /\ g[i] = r /\ r # 0
        BY <2>9, <2>12, <3>1, <3>2, <3>3
      <4> QED  BY <2>5, <4>1
    <3>4. CASE i - 1 # 1
      <4>1. (i - 1) - 1 \in 1..Len(t) /\ 1 + ((i - 1) - 1) = i - 1
        BY <2>9, <3>1, <3>4
      <4>2. g[i - 1] = t[(i - 1) - 1]
        BY <2>12, <4>1
      <4>3. Leads(t[(i - 1) - 1], "next", t[i - 1])
        BY <2>9, <3>1, <3>4
      <4> QED  BY <3>2, <4>2, <4>3
    <3> QED  BY <3>3, <3>4
  <2>14. Good(q)
    BY <2>12, <2>13 DEF g
  <2> QED  BY <2>2, <2>14 DEF q
<1>5. Good(p)
  <2>1. L - p \in 0..L /\ L - (L - p) = p
    BY <1>0
  <2>2. L - p \notin Bad
    BY <1>4
  <2> QED  BY <2>1, <2>2
<1> QED  BY <1>1, <1>2, <1>5

(* The list starts where a node looks in, not where another one goes on.   *)
Starts(p) == \E f, m : Leads(f, m, p) /\ m # "next"

LEMMA ListsMeet ==
  ASSUME TreeInv, NEW p, NEW q, Starts(p), Starts(q),
         NEW i \in 1..Len(ListAt(ast, p)), NEW j \in 1..Len(ListAt(ast, q)),
         ListAt(ast, p)[i] = ListAt(ast, q)[j]
  PROVE  p = q /\ i = j
<1> DEFINE P == ListAt(ast, p)
           Q == ListAt(ast, q)
<1>1. \A r : Starts(r) => r \in Nodes /\ \A f : ~Leads(f, "next", r)
  <2> SUFFICES ASSUME NEW r, NEW f, NEW m, Leads(f, m, r), m # "next"
               PROVE  r \in Nodes /\ \A g : ~Leads(g, "next", r)
    BY DEF Starts
  <2>1. r \in Nodes /\ Links(ast, r) = {<<f, m>>}
    BY LinkIs
  <2>2. ASSUME NEW g, Leads(g, "next", r) PROVE FALSE
    <3>1. Links(ast, r) = {<<g, "next">>}
      BY <2>2, LinkIs
    <3>2. <<g, "next">> = <<f, m>>
      BY <2>1, <3>1
    <3> QED  BY <3>2
  <2> QED  BY <2>1, <2>2
<1>2. p \in 0..Len(ast) /\ q \in 0..Len(ast)
  BY <1>1, TreeIs DEF Nodes
<1>3. /\ Len(P) \in Nat /\ Len(Q) \in Nat
      /\ \A k \in 1..Len(P) : (k = 1 /\ P[k] = p) \/ (k # 1 /\ Leads(P[k - 1], "next", P[k]))
      /\ \A k \in 1..Len(Q) : (k = 1 /\ Q[k] = q) \/ (k # 1 /\ Leads(Q[k - 1], "next", Q[k]))
  <2>1. IsSeq(P) /\ IsSeq(Q) /\ (Len(P) # 0 => P[1] = p) /\ (Len(Q) # 0 => Q[1] = q)
        /\ (\A k \in 1..Len(P) : k = 1 \/ Leads(P[k - 1], "next", P[k]))
        /\ (\A k \in 1..Len(Q) : k = 1 \/ Leads(Q[k - 1], "next", Q[k]))
    BY <1>2, ListLinks
  <2> HIDE DEF P, Q
  <2>2. Len(P) \in Nat /\ Len(Q) \in Nat
    BY <2>1 DEF IsSeq
  <2> QED  BY <2>1, <2>2
<1> DEFINE Bad == {k \in 1..Len(P) : \E l \in 1..Len(Q) : P[k] = Q[l] /\ ~(p = q /\ k = l)}
<1> SUFFICES ASSUME Bad # {} PROVE FALSE
  OBVIOUS
<1> HIDE DEF P, Q
<1>4. PICK k \in Bad : \A r \in Bad : k <= r
  <2>1. Bad \in SUBSET Nat
    BY <1>3
  <2> HIDE DEF Bad
  <2> QED  BY <2>1, Least
<1>5. PICK l \in 1..Len(Q) : P[k] = Q[l] /\ ~(p = q /\ k = l)
  BY <1>4
<1>6. k \in 1..Len(P)
  BY <1>4
<1>7. k # 1 /\ l # 1
  BY <1>1, <1>3, <1>5, <1>6
<1>8. Leads(P[k - 1], "next", P[k]) /\ Leads(Q[l - 1], "next", P[k])
  BY <1>3, <1>5, <1>6, <1>7
<1>9. P[k - 1] = Q[l - 1]
  <2>1. Links(ast, P[k]) = {<<P[k - 1], "next">>} /\ Links(ast, P[k]) = {<<Q[l - 1], "next">>}
    BY <1>8, LinkIs
  <2>2. <<P[k - 1], "next">> = <<Q[l - 1], "next">>
    BY <2>1
  <2> QED  BY <2>2
<1>10. k - 1 \in 1..Len(P) /\ l - 1 \in 1..Len(Q) /\ ~(k <= k - 1)
  BY <1>3, <1>5, <1>6, <1>7
<1>11. k - 1 \notin Bad
  BY <1>4, <1>10
<1>12. p = q /\ k - 1 = l - 1
  BY <1>9, <1>10, <1>11
<1>13. k = l
  BY <1>3, <1>5, <1>6, <1>12
<1> QED  BY <1>5, <1>12, <1>13

-------------------------------------------------------------------------------
(* The fields of a type: no field is met twice.                            *)

Differ(s) == IsSeq(s) /\ \A i, j \in 1..Len(s) : i # j => s[i] # s[j]

LEMMA DifferConcat ==
  ASSUME NEW s, NEW t, Differ(s), Differ(t), \A i \in 1..Len(s), j \in 1..Len(t) : s[i] # t[j]
  PROVE  Differ(s \o t)
<1> DEFINE u == s \o t
           m == Len(s)
           n == Len(t)
<1>1. IsSeq(s) /\ IsSeq(t) /\ m \in Nat
  BY DEF Differ, IsSeq
<1>2. IsSeq(u) /\ \A i \in 1..Len(u) : \/ i \in 1..m /\ u[i] = s[i]
                                       \/ i \notin 1..m /\ i - m \in 1..n /\ u[i] = t[i - m]
  BY <1>1, ConcatSeq, ConcatAt
<1> HIDE DEF u
<1>3. \A i, j \in 1..Len(u) : i # j => u[i] # u[j]
  <2> SUFFICES ASSUME NEW i \in 1..Len(u), NEW j \in 1..Len(u), i # j PROVE u[i] # u[j]
    OBVIOUS
  <2>1. CASE i \notin 1..m /\ i - m \in 1..n /\ u[i] = t[i - m]
             /\ j \notin 1..m /\ j - m \in 1..n /\ u[j] = t[j - m]
    <3>1. i - m # j - m
      BY <1>1
    <3> QED  BY <2>1, <3>1 DEF Differ
  <2>2. CASE i \in 1..m /\ u[i] = s[i] /\ j \in 1..m /\ u[j] = s[j]
    BY <2>2 DEF Differ
  <2> QED  BY <1>2, <2>1, <2>2
<1> QED  BY <1>2, <1>3 DEF Differ, u

LEMMA FieldsDiffer ==
  ASSUME TreeInv, NEW lists, Len(lists) \in Nat, 
         \A i \in 1..Len(lists) : lists[i] = NULL \/ Starts(lists[i]),
         \A i, j \in 1..Len(lists) : i # j /\ lists[i] # NULL => lists[i] # lists[j]
  PROVE  Differ(Fields(lists))
<1> DEFINE h == CHOOSE join : join = [i \in 0..Len(lists) |-> JoinAt(join, lists, i)]
<1>1. Fields(lists) = h[Len(lists)]
  BY DEF Fields, JoinAt
<1>2. h = [i \in 0..Len(lists) |-> JoinAt(h, lists, i)]
  <2>1. \E join : join = [i \in 0..Len(lists) |-> JoinAt(join, lists, i)]
    <3>1. PICK join : IsJoin(join, lists, Len(lists))
      BY JoinExists
    <3> QED  BY <3>1, Zenon DEF IsJoin
  <2> QED  BY <2>1, Zenon
<1> HIDE DEF h
<1>3. \A i \in 0..Len(lists) : h[i] = JoinAt(h, lists, i)
  BY <1>2
<1>4. ASSUME NEW i \in 1..Len(lists)
      PROVE  /\ Differ(ListAt(ast, lists[i]))
             /\ Len(ListAt(ast, lists[i])) # 0 => Starts(lists[i])
  <2>1. CASE lists[i] = NULL
    <3>1. ListAt(ast, NULL) = <<>>
      <4>1. PICK g : \A q \in 0..Len(ast) : ListAt(ast, q) = g[q] /\ g[q] = FromAt(g, q)
        BY ListsAre
      <4>2. NULL \in 0..Len(ast)
        BY TreeIs DEF NULL
      <4> QED  BY <4>1, <4>2 DEF FromAt
    <3> QED  BY <2>1, <3>1, NoneSeq DEF Differ
  <2>2. CASE Starts(lists[i])
    <3>1. lists[i] \in 0..Len(ast)
      BY <2>2, LinkIs, TreeIs DEF Starts, Nodes
    <3>2. IsSeq(ListAt(ast, lists[i]))
      BY <3>1, ListLinks
    <3> QED  BY <2>2, <3>2, ListsMeet DEF Differ
  <2> QED  BY <2>1, <2>2
<1> DEFINE From(i, x) == \E j \in 1..i : \E l \in 1..Len(ListAt(ast, lists[j])) :
                             x = ListAt(ast, lists[j])[l]
           Good(i) == Differ(h[i]) /\ \A k \in 1..Len(h[i]) : From(i, h[i][k])
           Bad == {i \in 0..Len(lists) : ~Good(i)}
<1>5. Bad = {}
  <2> SUFFICES ASSUME Bad # {} PROVE FALSE
    OBVIOUS
  <2>1. PICK i \in Bad : \A j \in Bad : i <= j
    <3>1. Bad \in SUBSET Nat
      OBVIOUS
    <3> HIDE DEF Bad
    <3> QED  BY <3>1, Least
  <2>2. i \in 0..Len(lists) /\ h[i] = JoinAt(h, lists, i) /\ ~Good(i)
    BY <1>3, <2>1
  <2>3. CASE i = 0
    <3>1. h[i] = <<>>
      BY <2>2, <2>3 DEF JoinAt
    <3>2. 1..Len(h[i]) = {} /\ IsSeq(h[i])
      BY <3>1, NoneSeq
    <3> QED  BY <2>2, <3>2 DEF Differ
  <2>4. CASE i # 0
    <3>1. i - 1 \in 0..Len(lists) /\ i - 1 \notin Bad /\ i \in 1..Len(lists)
      BY <2>1, <2>2, <2>4
    <3> DEFINE s == h[i - 1]
               t == ListAt(ast, lists[i])
    <3>2. Differ(s) /\ \A k \in 1..Len(s) : From(i - 1, s[k])
      BY <3>1
    <3>3. h[i] = s \o t
      BY <2>2, <2>4 DEF JoinAt
    <3>4. Differ(t)
      BY <1>4, <3>1
    <3>5. \A k \in 1..Len(s), l \in 1..Len(t) : s[k] # t[l]
      <4> SUFFICES ASSUME NEW k \in 1..Len(s), NEW l \in 1..Len(t), s[k] = t[l] PROVE FALSE
        OBVIOUS
      <4>1. PICK j \in 1..(i - 1) : \E e \in 1..Len(ListAt(ast, lists[j])) :
              s[k] = ListAt(ast, lists[j])[e]
        BY <3>2
      <4>2. PICK e \in 1..Len(ListAt(ast, lists[j])) : s[k] = ListAt(ast, lists[j])[e]
        BY <4>1
      <4>3. j \in 1..Len(lists) /\ j # i
        BY <3>1
      <4>4. Starts(lists[j]) /\ Starts(lists[i])
        <5>1. Len(ListAt(ast, lists[j])) # 0 /\ Len(t) # 0
          <6>1. 1..Len(ListAt(ast, lists[j])) # {} /\ 1..Len(t) # {}
            BY <4>2
          <6> QED  BY <6>1
        <5> QED  BY <1>4, <3>1, <4>3, <5>1
      <4>5. lists[j] = lists[i]
        BY <4>2, <4>4, ListsMeet
      <4>6. lists[j] # NULL
        BY <4>4, LinkIs, TreeIs DEF Starts, Leads
      <4> QED  BY <3>1, <4>3, <4>5, <4>6
    <3> HIDE DEF s, t
    <3>6. Differ(h[i])
      BY <3>2, <3>3, <3>4, <3>5, DifferConcat
    <3>7. \A k \in 1..Len(h[i]) : From(i, h[i][k])
      <4> TAKE k \in 1..Len(h[i])
      <4>1. IsSeq(s) /\ IsSeq(t)
        BY <3>2, <3>4 DEF Differ
      <4>2. \/ k \in 1..Len(s) /\ h[i][k] = s[k]
            \/ k - Len(s) \in 1..Len(t) /\ h[i][k] = t[k - Len(s)]
        BY <3>3, <4>1, ConcatAt
      <4>3. CASE k \in 1..Len(s) /\ h[i][k] = s[k]
        <5>1. From(i - 1, s[k])
          BY <3>2, <4>3
        <5>2. \A j \in 1..(i - 1) : j \in 1..i
          BY <3>1
        <5> QED  BY <4>3, <5>1, <5>2
      <4>4. CASE k - Len(s) \in 1..Len(t) /\ h[i][k] = t[k - Len(s)]
        <5>1. i \in 1..i
          BY <3>1
        <5> QED  BY <4>4, <5>1 DEF t
      <4> QED  BY <4>2, <4>3, <4>4
    <3> QED  BY <2>2, <3>6, <3>7
  <2> QED  BY <2>3, <2>4
<1>6. Len(lists) \in 0..Len(lists)
  OBVIOUS
<1> QED  BY <1>1, <1>5, <1>6

(* What a type looks into without checking it: its fields, or its variants *)
(* and their fields.                                                       *)
Parts(E) ==
  /\ E \in SUBSET Nodes
  /\ \A b \in E :
       /\ ast[b].type \in {"VAR_DECL", "ENUM_VARIANT"}
       /\ \/ \E m \in {"fields", "variants"} : Leads(Here, m, b)
          \/ \E f \in E, m \in {"data", "next"} : Leads(f, m, b)

LEMMA PartsTop ==
  ASSUME TreeInv, Here \in Nodes, ast[Here].type \notin {"VAR_DECL", "ENUM_VARIANT"},
         NEW E, Parts(E)
  PROVE  Top(E \union {Here}) /\ Member("next") \notin E \union {Here}
<1> DEFINE B == E \union {Here}
           q == Member("next")
<1>1. Top(B)
  BY DEF Top, Parts, Child
<1>2. ASSUME q \in B PROVE FALSE
  <2>1. q # NULL
    BY <1>2, TreeIs DEF Parts, NULL, Nodes
  <2>2. "next" \in Pointers \intersect Given(ast[Here].type)
    BY NextGiven DEF Pointers
  <2>3. Leads(Here, "next", q) /\ Here < q /\ Here \in Nat
    BY <2>1, <2>2, MemberLink, TreeIs DEF Member
  <2> HIDE DEF q, B
  <2>4. q \in E
    BY <1>2, <2>3 DEF B
  <2>5. Links(ast, q) = {<<Here, "next">>}
    BY <2>3, LinkIs
  <2>6. CASE \E m \in {"fields", "variants"} : Leads(Here, m, q)
    <3>1. PICK m \in {"fields", "variants"} : Leads(Here, m, q)
      BY <2>6
    <3>2. Links(ast, q) = {<<Here, m>>} /\ Links(ast, q) = {<<Here, "next">>}
      BY <2>5, <3>1, LinkIs
    <3>3. <<Here, m>> = <<Here, "next">>
      BY <3>2
    <3>4. m = "next"
      BY <3>3
    <3> QED  BY <3>4
  <2>7. CASE \E f \in E, m \in {"data", "next"} : Leads(f, m, q)
    <3>1. PICK f \in E, m \in {"data", "next"} : Leads(f, m, q)
      BY <2>7
    <3>2. Links(ast, q) = {<<f, m>>} /\ Links(ast, q) = {<<Here, "next">>}
      BY <2>5, <3>1, LinkIs
    <3>3. <<f, m>> = <<Here, "next">>
      BY <3>2
    <3>4. f = Here
      BY <3>3
    <3> QED  BY <3>4 DEF Parts
  <2> QED  BY <2>4, <2>6, <2>7 DEF Parts
<1> QED  BY <1>1, <1>2

LEMMA InlineKids ==
  ASSUME TreeInv, Here \in Nodes, ast[Here].type \notin {"VAR_DECL", "ENUM_VARIANT"},
         NEW E, Parts(E), NEW F, Differ(F),
         \A i \in 1..Len(F) : F[i] \in E /\ ast[F[i]].type = "VAR_DECL"
  PROVE  Kids(Checks([i \in DOMAIN F |-> ast[F[i]].at["inline_type"]]),
              E \union {Here}, {"inline_type"})
<1> DEFINE B == E \union {Here}
           n == Len(F)
           ps == [i \in DOMAIN F |-> ast[F[i]].at["inline_type"]]
<1>1. n \in Nat /\ DOMAIN F = 1..n
  BY DEF Differ, IsSeq
<1>2. ps = [i \in 1..n |-> ps[i]] /\ \A i \in 1..n : ps[i] = ast[F[i]].at["inline_type"]
  BY <1>1
<1> HIDE DEF ps
<1>3. Len(ps) = n
  BY <1>1, <1>2, FcnSeq
<1>4. Top(B)
  BY PartsTop
<1>5. ASSUME NEW i \in 1..n, ps[i] # NULL
      PROVE  ps[i] \notin B /\ Leads(F[i], "inline_type", ps[i]) /\ F[i] \in B
  <2> DEFINE f == F[i]
             t == ps[i]
  <2>1. f \in E /\ f \in Nodes /\ ast[f].type = "VAR_DECL" /\ t = ast[f].at["inline_type"]
    BY <1>2 DEF Parts
  <2> HIDE DEF f, t
  <2>2. "inline_type" \in Pointers \intersect Given(ast[f].type)
    BY <2>1, MembersOf DEF Pointers
  <2>3. Leads(f, "inline_type", t) /\ f < t /\ t \in Nodes
    BY <1>5, <2>1, <2>2, MemberLink DEF t
  <2>4. t # Here
    <3>1. f \in B
      BY <2>1
    <3>2. f \in Sub(Here)
      BY <1>4, <3>1, TopSub
    <3>3. Here <= f /\ Here \in Nat /\ f \in Nat
      BY <2>1, <3>2, SubAfter, TreeIs
    <3> QED  BY <2>3, <3>3
  <2>5. t \notin E
    <3> SUFFICES ASSUME t \in E PROVE FALSE
      OBVIOUS
    <3>1. PICK g, m : m \in {"fields", "variants", "data", "next"} /\ Leads(g, m, t)
      <4>1. CASE \E m \in {"fields", "variants"} : Leads(Here, m, t)
        <5>1. PICK m \in {"fields", "variants"} : Leads(Here, m, t)
          BY <4>1
        <5> QED  BY <5>1
      <4>2. CASE \E g \in E, m \in {"data", "next"} : Leads(g, m, t)
        <5>1. PICK g \in E, m \in {"data", "next"} : Leads(g, m, t)
          BY <4>2
        <5> QED  BY <5>1
      <4> QED  BY <4>1, <4>2 DEF Parts
    <3>2. Links(ast, t) = {<<g, m>>} /\ Links(ast, t) = {<<f, "inline_type">>}
      BY <2>3, <3>1, LinkIs
    <3>3. <<g, m>> = <<f, "inline_type">>
      BY <3>2
    <3>4. m = "inline_type"
      BY <3>3
    <3> QED  BY <3>1, <3>4
  <2> QED  BY <2>1, <2>3, <2>4, <2>5 DEF f, t
<1>6. ASSUME NEW i \in 1..n, NEW j \in 1..n, i # j, ps[i] # NULL PROVE ps[i] # ps[j]
  <2> SUFFICES ASSUME ps[i] = ps[j] PROVE FALSE
    OBVIOUS
  <2>1. Leads(F[i], "inline_type", ps[i]) /\ Leads(F[j], "inline_type", ps[i])
    BY <1>5, <1>6
  <2>2. Links(ast, ps[i]) = {<<F[i], "inline_type">>} /\ Links(ast, ps[i]) = {<<F[j], "inline_type">>}
    BY <2>1, LinkIs
  <2>3. <<F[i], "inline_type">> = <<F[j], "inline_type">>
    BY <2>2
  <2>4. F[i] = F[j]
    BY <2>3
  <2> QED  BY <1>6, <2>4 DEF Differ
<1> HIDE DEF B, n
<1>7. Kids(Checks(ps), B, {"inline_type"})
  <2>1. \A i \in 1..Len(ps) : ps[i] # NULL =>
           ps[i] \notin B /\ \E f \in B, m \in {"inline_type"} : Leads(f, m, ps[i])
    BY <1>3, <1>5
  <2>2. \A i, j \in 1..Len(ps) : i # j /\ ps[i] # NULL => ps[i] # ps[j]
    BY <1>3, <1>6
  <2>3. Len(ps) \in Nat
    BY <1>1, <1>3
  <2> QED  BY <2>1, <2>2, <2>3, ChecksKids
<1> QED  BY <1>7 DEF ps, B

-------------------------------------------------------------------------------
(* A step that pushes the checks of what hangs on the node here keeps the  *)
(* stack in order.                                                         *)

Push(before) ==
  /\ Visit(before) /\ Ranged(before, seen \union {Here})
  /\ \E B, M : Top(B) /\ Member("next") \notin B /\ Kids(before, B, M) /\ "next" \notin M

LEMMA TodoNodes ==
  ASSUME IInv, todo # <<>>
  PROVE  IsSeq(todo) /\ Len(todo) # 0 /\ \A i \in 1..Len(todo) : todo[i].node \in Nodes
<1>1. Chain(todo, NowOf(todo), Done) /\ IsSeq(todo)
  BY DEF IInv, Chain
<1>2. \A i \in 1..Len(todo) : todo[i].node \in Nodes
  BY <1>1 DEF Chain, IsItem
<1> QED  BY <1>1, <1>2, NoneSeq

LEMMA PushOrder ==
  ASSUME IInv, AtItem("check"), Order(todo, seen), NEW before, Push(before)
  PROVE  Order(todo', seen')
<1> DEFINE nx == CheckOf("next")
           t == Tail(todo)
           s == before \o nx
<1>1. PICK B, M : Top(B) /\ Member("next") \notin B /\ Kids(before, B, M) /\ "next" \notin M
  BY DEF Push
<1>2. Here \in Nodes /\ TreeInv /\ Head(todo).op = "check" /\ todo # <<>>
  BY AtCheck DEF AtItem
<1>3. IsSeq(todo) /\ Len(todo) # 0 /\ \A i \in 1..Len(todo) : todo[i].node \in Nodes
  BY <1>2, TodoNodes
<1>4. "next" \in Pointers \intersect Given(ast[Here].type) /\ Here \in B
  BY <1>1, NextGiven DEF Pointers, Top
<1>5. Kids(nx, B, {"next"})
  BY <1>1, <1>2, <1>4, KidsMember
<1>6. Kids(s, B, M \union {"next"})
  BY <1>1, <1>2, <1>5, KidsConcat
<1>7. Ranged(before, seen \union {Here}) /\ Ranged(nx, seen \union {Here})
  BY <1>2, <1>5, KidsRanged DEF Push
<1>8. IsSeq(before) /\ IsSeq(nx) /\ IsSeq(t)
  BY <1>1, <1>3, <1>5, TailSeq DEF Kids
<1>9. Ranged(s, seen \union {Here})
  BY <1>7, <1>8, RangedConcat
<1>10. todo' = s \o t /\ seen' = seen \union {Here}
  BY DEF Push, Visit
<1> HIDE DEF s, t
<1>11. Order(s \o Tail(todo), seen \union {Here})
  BY <1>1, <1>2, <1>3, <1>6, <1>9, OrderPush
<1> QED  BY <1>10, <1>11 DEF t

(* Nodes that hang on the node here itself.                                *)
LEMMA PushHere ==
  ASSUME IInv, AtItem("check"), NEW before, Visit(before), NEW M, Kids(before, {Here}, M),
         "next" \notin M, Ranged(before, seen \union {Here}) \/ "condition" \notin M
  PROVE  Push(before)
<1>1. Here \in Nodes /\ TreeInv
  BY AtCheck
<1>2. Top({Here})
  BY <1>1, TopHere
<1>3. Member("next") \notin {Here}
  <2>1. "next" \in Pointers \intersect Given(ast[Here].type)
    BY NextGiven DEF Pointers
  <2>2. CASE Member("next") = NULL
    BY <1>1, <2>2, TreeIs DEF NULL, Nodes
  <2>3. CASE Member("next") # NULL
    <3>1. Here < Member("next") /\ Here \in Nat
      BY <1>1, <2>1, <2>3, MemberLink, TreeIs DEF Member
    <3> QED  BY <3>1
  <2> QED  BY <2>2, <2>3
<1>4. Ranged(before, seen \union {Here})
  BY <1>1, KidsRanged
<1> QED  BY <1>2, <1>3, <1>4 DEF Push

LEMMA KidsNext ==
  ASSUME IInv, AtItem("check"), NEW l \in Pointers \intersect Given(ast[Here].type),
         NEW m \in Pointers \intersect Given(ast[Here].type), l # m
  PROVE  Kids(CheckOf(l) \o CheckOf(m), {Here}, {l, m})
<1>1. Here \in Nodes /\ TreeInv
  BY AtCheck
<1>2. Kids(CheckOf(l), {Here}, {l}) /\ Kids(CheckOf(m), {Here}, {m})
  BY <1>1, KidsHere
<1>3. Kids(CheckOf(l) \o CheckOf(m), {Here}, {l} \union {m})
  BY <1>1, <1>2, KidsConcat
<1>4. {l} \union {m} = {l, m}
  OBVIOUS
<1> QED  BY <1>3, <1>4

(* The fields of a type that is declared.                                  *)
LEMMA TypePush ==
  ASSUME IInv, AtItem("check"), ast[Here].type \notin {"VAR_DECL", "ENUM_VARIANT"},
         NEW kind, NEW lists, DeclareType(kind, lists), NEW E, Parts(E), Differ(Fields(lists)),
         \A i \in 1..Len(Fields(lists)) :
            Fields(lists)[i] \in E /\ ast[Fields(lists)[i]].type = "VAR_DECL"
  PROVE  \E before : Push(before)
<1> DEFINE again == Has(Member("name")) /\ Found(slots, Member("name"))
           F == IF again THEN <<>> ELSE Fields(lists)
           before == Checks([i \in DOMAIN F |-> ast[F[i]].at["inline_type"]])
<1>1. Visit(before)
  BY DEF DeclareType
<1>2. Here \in Nodes /\ TreeInv
  BY AtCheck
<1>3. Differ(F) /\ \A i \in 1..Len(F) : F[i] \in E /\ ast[F[i]].type = "VAR_DECL"
  <2>1. IsSeq(<<>>) /\ 1..Len(<<>>) = {}
    BY NoneSeq
  <2>2. Differ(<<>>)
    BY <2>1 DEF Differ
  <2> QED  BY <2>1, <2>2
<1> HIDE DEF F
<1>4. Kids(before, E \union {Here}, {"inline_type"})
  BY <1>2, <1>3, InlineKids
<1>5. Top(E \union {Here}) /\ Member("next") \notin E \union {Here}
  BY <1>2, PartsTop
<1> HIDE DEF before
<1>6. Ranged(before, seen \union {Here})
  <2>1. "condition" \notin {"inline_type"}
    OBVIOUS
  <2> QED  BY <1>2, <1>4, <2>1, KidsRanged
<1>7. "next" \notin {"inline_type"}
  OBVIOUS
<1>8. Push(before)
  BY <1>1, <1>4, <1>5, <1>6, <1>7 DEF Push
<1> QED  BY <1>8

(* A list that a member of a node starts, if it has any elements.          *)
LEMMA ListStarts ==
  ASSUME TreeInv, NEW c \in Nodes, NEW m \in Into \intersect Given(ast[c].type)
  PROVE  /\ IsSeq(ListAt(ast, ast[c].at[m]))
         /\ ast[c].at[m] = NULL \/ (Leads(c, m, ast[c].at[m]) /\ Starts(ast[c].at[m]))
         /\ \A i \in 1..Len(ListAt(ast, ast[c].at[m])) :
              LET q == ListAt(ast, ast[c].at[m])[i]
              IN  /\ q \in Nodes
                  /\ \/ Leads(c, m, q)
                     \/ \E f \in 1..Len(ListAt(ast, ast[c].at[m])) :
                          Leads(ListAt(ast, ast[c].at[m])[f], "next", q)
<1> DEFINE p == ast[c].at[m]
           list == ListAt(ast, p)
<1>1. m \in Pointers \intersect Given(ast[c].type) /\ m # "next"
  BY DEF Into
<1>2. p = NULL \/ (Leads(c, m, p) /\ p \in Nodes)
  BY <1>1, MemberLink
<1>3. p \in 0..Len(ast)
  BY <1>2, TreeIs DEF NULL, Nodes
<1>4. p = NULL \/ (Leads(c, m, p) /\ Starts(p))
  BY <1>1, <1>2 DEF Starts
<1> HIDE DEF p
<1>5. /\ IsSeq(list) /\ (Len(list) # 0 => list[1] = p)
      /\ \A i \in 1..Len(list) : list[i] \in Nodes /\ (i = 1 \/ Leads(list[i - 1], "next", list[i]))
  BY <1>3, ListLinks
<1> HIDE DEF list
<1>6. Len(list) \in Nat
  BY <1>5 DEF IsSeq
<1>7. ASSUME NEW i \in 1..Len(list)
      PROVE  /\ list[i] \in Nodes
             /\ \/ Leads(c, m, list[i])
                \/ \E f \in 1..Len(list) : Leads(list[f], "next", list[i])
  <2>1. CASE i = 1
    <3>1. list[i] = p /\ list[i] \in Nodes
      BY <1>5, <1>6, <2>1
    <3>2. p # NULL
      BY <3>1, TreeIs DEF NULL, Nodes
    <3> QED  BY <1>4, <3>1, <3>2
  <2>2. CASE i # 1
    <3>1. i - 1 \in 1..Len(list) /\ Leads(list[i - 1], "next", list[i])
      BY <1>5, <1>6, <2>2
    <3> QED  BY <1>5, <3>1
  <2> QED  BY <2>1, <2>2
<1> QED  BY <1>4, <1>5, <1>7 DEF p, list

LEMMA StructPush == ASSUME IInv, StructDecl PROVE \E before : Push(before)
<1> DEFINE p == ast[Here].at["fields"]
           list == ListAt(ast, p)
           E == {list[i] : i \in 1..Len(list)}
           lists == <<p>>
<1>1. /\ AtItem("check") /\ ast[Here].type \in {"STRUCT_DECL", "UNION_DECL"}
      /\ \E kind : DeclareType(kind, lists)
  BY DEF StructDecl, AtNode, Here, Member
<1>2. Here \in Nodes /\ TreeInv
  BY <1>1, AtCheck
<1>3. "fields" \in Into \intersect Given(ast[Here].type)
  BY <1>1, MembersOf DEF Into, Pointers
<1>4. /\ IsSeq(list) /\ (p = NULL \/ (Leads(Here, "fields", p) /\ Starts(p)))
      /\ \A i \in 1..Len(list) :
           /\ list[i] \in Nodes
           /\ Leads(Here, "fields", list[i]) \/ \E f \in 1..Len(list) : Leads(list[f], "next", list[i])
  BY <1>2, <1>3, ListStarts
<1>5. Len(lists) = 1 /\ lists[1] = p
  OBVIOUS
<1>6. \A q \in ListOf(ast, Here, "fields") : ast[q].type = "VAR_DECL"
  BY <1>2, TreeIs
<1>7. {list[i] : i \in DOMAIN list} = ListOf(ast, Here, "fields")
  BY <1>2, <1>3, NodeHas DEF ListOf
<1> HIDE DEF list
<1>8. DOMAIN list = 1..Len(list)
  BY <1>4 DEF IsSeq
<1>9. \A b \in E : ast[b].type = "VAR_DECL"
  BY <1>6, <1>7, <1>8
<1>10. Parts(E)
  <2>1. E \in SUBSET Nodes
    BY <1>4
  <2>2. ASSUME NEW b \in E
        PROVE  \/ \E m \in {"fields", "variants"} : Leads(Here, m, b)
               \/ \E f \in E, m \in {"data", "next"} : Leads(f, m, b)
    <3>1. PICK i \in 1..Len(list) : b = list[i]
      OBVIOUS
    <3>2. Leads(Here, "fields", b) \/ \E f \in E : Leads(f, "next", b)
      BY <1>4, <3>1
    <3> QED  BY <3>2
  <2> HIDE DEF E
  <2> QED  BY <1>9, <2>1, <2>2 DEF Parts
<1> HIDE DEF lists, p
<1>11. Len(lists) \in Nat /\ \A i \in 1..Len(lists) : i = 1
  BY <1>5
<1>12. Differ(Fields(lists))
  <2>1. \A i \in 1..Len(lists) : lists[i] = NULL \/ Starts(lists[i])
    BY <1>4, <1>5, <1>11
  <2>2. \A i, j \in 1..Len(lists) : i # j /\ lists[i] # NULL => lists[i] # lists[j]
    BY <1>11
  <2> QED  BY <1>2, <1>11, <2>1, <2>2, FieldsDiffer
<1>13. Holds(Fields(lists), E)
  <2>1. Holds(list, E)
    BY <1>4 DEF Holds
  <2>2. \A i \in 1..Len(lists) : Holds(ListAt(ast, lists[i]), E)
    BY <1>5, <1>11, <2>1 DEF list
  <2> HIDE DEF E
  <2> QED  BY <1>11, <2>2, FieldsHold
<1>14. \A i \in 1..Len(Fields(lists)) :
          Fields(lists)[i] \in E /\ ast[Fields(lists)[i]].type = "VAR_DECL"
  BY <1>9, <1>13 DEF Holds
<1>15. ast[Here].type \notin {"VAR_DECL", "ENUM_VARIANT"}
  BY <1>1
<1>16. PICK kind : DeclareType(kind, lists)
  BY <1>1 DEF lists
<1> HIDE DEF E
<1> QED  BY <1>1, <1>10, <1>12, <1>14, <1>15, <1>16, TypePush

LEMMA EnumPush == ASSUME IInv, EnumDecl PROVE \E before : Push(before)
<1> DEFINE p == ast[Here].at["variants"]
           variants == ListAt(ast, p)
           n == Len(variants)
           data(c) == ListAt(ast, ast[c].at["data"])
           V == {variants[i] : i \in 1..n}
           D == {q \in Nodes : \E c \in V : \E j \in 1..Len(data(c)) : q = data(c)[j]}
           E == V \union D
           lists == [i \in DOMAIN variants |-> ast[variants[i]].at["data"]]
<1>1. AtItem("check") /\ ast[Here].type = "ENUM_DECL" /\ DeclareType("ENUM", lists)
  BY DEF EnumDecl, AtNode, Here, Member
<1>2. Here \in Nodes /\ TreeInv
  BY <1>1, AtCheck
<1>3. "variants" \in Into \intersect Given(ast[Here].type)
  BY <1>1, MembersOf DEF Into, Pointers
<1>4. /\ IsSeq(variants) /\ (p = NULL \/ (Leads(Here, "variants", p) /\ Starts(p)))
      /\ \A i \in 1..n :
           /\ variants[i] \in Nodes
           /\ \/ Leads(Here, "variants", variants[i])
              \/ \E f \in 1..n : Leads(variants[f], "next", variants[i])
  BY <1>2, <1>3, ListStarts
<1>5. \A q \in ListOf(ast, Here, "variants") : ast[q].type = "ENUM_VARIANT"
  BY <1>2, TreeIs
<1>6. {variants[i] : i \in DOMAIN variants} = ListOf(ast, Here, "variants")
  BY <1>2, <1>3, NodeHas DEF ListOf
<1>7. ASSUME NEW i \in 1..n, NEW j \in 1..n, variants[i] = variants[j] PROVE i = j
  <2>1. Len(variants) # 0 => variants[1] = p
    <3>1. p \in 0..Len(ast)
      <4>1. p = NULL \/ p \in Nodes
        BY <1>2, <1>4, LinkIs
      <4> QED  BY <1>2, <4>1, TreeIs DEF NULL, Nodes
    <3> QED  BY <1>2, <3>1, ListLinks
  <2>2. p # NULL
    <3>1. n # 0 /\ 1 \in 1..n
      BY <1>4 DEF IsSeq
    <3>2. p \in Nodes
      BY <1>4, <2>1, <3>1
    <3> QED  BY <1>2, <3>2, TreeIs DEF NULL
  <2>3. Starts(p)
    BY <1>4, <2>2
  <2> QED  BY <1>2, <1>7, <2>3, ListsMeet
<1> HIDE DEF p, variants, data
<1>8. n \in Nat /\ DOMAIN variants = 1..n
  BY <1>4 DEF IsSeq
<1>9. \A c \in V : c \in Nodes /\ ast[c].type = "ENUM_VARIANT"
  BY <1>4, <1>5, <1>6, <1>8
<1>10. ASSUME NEW c \in V
       PROVE  /\ IsSeq(data(c)) /\ Holds(data(c), D)
              /\ \/ ast[c].at["data"] = NULL
                 \/ Leads(c, "data", ast[c].at["data"]) /\ Starts(ast[c].at["data"])
              /\ \A j \in 1..Len(data(c)) :
                   /\ ast[data(c)[j]].type = "VAR_DECL" /\ data(c)[j] \in Nodes
                   /\ \/ Leads(c, "data", data(c)[j])
                      \/ \E f \in 1..Len(data(c)) : Leads(data(c)[f], "next", data(c)[j])
  <2>1. c \in Nodes /\ ast[c].type = "ENUM_VARIANT"
    BY <1>9
  <2>2. "data" \in Into \intersect Given(ast[c].type)
    BY <2>1, MembersOf DEF Into, Pointers
  <2>3. /\ IsSeq(data(c))
        /\ \/ ast[c].at["data"] = NULL
           \/ Leads(c, "data", ast[c].at["data"]) /\ Starts(ast[c].at["data"])
        /\ \A j \in 1..Len(data(c)) :
             /\ data(c)[j] \in Nodes
             /\ \/ Leads(c, "data", data(c)[j])
                \/ \E f \in 1..Len(data(c)) : Leads(data(c)[f], "next", data(c)[j])
    BY <1>2, <2>1, <2>2, ListStarts DEF data
  <2>4. \A q \in ListOf(ast, c, "data") : ast[q].type = "VAR_DECL"
    BY <1>2, <2>1, TreeIs
  <2>5. {data(c)[j] : j \in DOMAIN data(c)} = ListOf(ast, c, "data")
    BY <1>2, <2>1, <2>2, NodeHas DEF ListOf, data
  <2>6. \A j \in 1..Len(data(c)) : ast[data(c)[j]].type = "VAR_DECL"
    BY <2>3, <2>4, <2>5 DEF IsSeq
  <2>7. Holds(data(c), D)
    BY <2>3 DEF Holds
  <2> QED  BY <2>3, <2>6, <2>7
<1>11. Parts(E)
  <2>1. E \in SUBSET Nodes
    BY <1>9
  <2>2. ASSUME NEW b \in E
        PROVE  /\ ast[b].type \in {"VAR_DECL", "ENUM_VARIANT"}
               /\ \/ \E m \in {"fields", "variants"} : Leads(Here, m, b)
                  \/ \E f \in E, m \in {"data", "next"} : Leads(f, m, b)
    <3>1. CASE b \in V
      <4>1. PICK i \in 1..n : b = variants[i]
        BY <3>1
      <4>2. Leads(Here, "variants", b) \/ \E f \in V : Leads(f, "next", b)
        BY <1>4, <4>1
      <4> QED  BY <1>9, <3>1, <4>2
    <3>2. CASE b \in D
      <4>1. PICK c \in V : \E j \in 1..Len(data(c)) : b = data(c)[j]
        BY <3>2
      <4>2. PICK j \in 1..Len(data(c)) : b = data(c)[j]
        BY <4>1
      <4>3. ast[b].type = "VAR_DECL"
        BY <1>10, <4>2
      <4>4. \A f \in 1..Len(data(c)) : data(c)[f] \in D
        BY <1>10 DEF Holds
      <4>5. Leads(c, "data", b) \/ \E f \in D : Leads(f, "next", b)
        BY <1>10, <4>2, <4>4
      <4> QED  BY <4>3, <4>5
    <3> QED  BY <3>1, <3>2
  <2> HIDE DEF E
  <2> QED  BY <2>1, <2>2 DEF Parts
<1>12. lists = [i \in 1..n |-> lists[i]] /\ \A i \in 1..n : lists[i] = ast[variants[i]].at["data"]
  BY <1>8
<1> HIDE DEF lists
<1>13. Len(lists) = n
  BY <1>8, <1>12, FcnSeq
<1>14. \A i \in 1..n : variants[i] \in V
  OBVIOUS
<1> HIDE DEF V, D
<1>15. Differ(Fields(lists))
  <2>1. \A i \in 1..n : lists[i] = NULL \/ (Leads(variants[i], "data", lists[i]) /\ Starts(lists[i]))
    BY <1>10, <1>12, <1>14
  <2>2. ASSUME NEW i \in 1..n, NEW j \in 1..n, i # j, lists[i] # NULL PROVE lists[i] # lists[j]
    <3> SUFFICES ASSUME lists[i] = lists[j] PROVE FALSE
      OBVIOUS
    <3>1. Leads(variants[i], "data", lists[i]) /\ Leads(variants[j], "data", lists[i])
      BY <2>1, <2>2
    <3>2. /\ Links(ast, lists[i]) = {<<variants[i], "data">>}
          /\ Links(ast, lists[i]) = {<<variants[j], "data">>}
      BY <1>2, <3>1, LinkIs
    <3>3. <<variants[i], "data">> = <<variants[j], "data">>
      BY <3>2
    <3>4. variants[i] = variants[j]
      BY <3>3
    <3> QED  BY <1>7, <2>2, <3>4
  <2>3. \A i \in 1..Len(lists) : lists[i] = NULL \/ Starts(lists[i])
    BY <1>13, <2>1
  <2>4. \A i, j \in 1..Len(lists) : i # j /\ lists[i] # NULL => lists[i] # lists[j]
    BY <1>13, <2>2
  <2> QED  BY <1>2, <1>8, <1>13, <2>3, <2>4, FieldsDiffer
<1>16. Holds(Fields(lists), {q \in E : ast[q].type = "VAR_DECL"})
  <2> DEFINE T == {q \in E : ast[q].type = "VAR_DECL"}
  <2>1. \A i \in 1..Len(lists) : Holds(ListAt(ast, lists[i]), T)
    <3> TAKE i \in 1..Len(lists)
    <3>1. variants[i] \in V /\ ListAt(ast, lists[i]) = data(variants[i])
      BY <1>12, <1>13, <1>14 DEF data
    <3>2. IsSeq(data(variants[i])) /\ Holds(data(variants[i]), T)
      BY <1>10, <3>1 DEF Holds
    <3> QED  BY <3>1, <3>2
  <2> HIDE DEF T
  <2>2. Holds(Fields(lists), T)
    BY <1>8, <1>13, <2>1, FieldsHold
  <2> QED  BY <2>2 DEF T
<1> HIDE DEF E
<1>17. \A i \in 1..Len(Fields(lists)) :
          Fields(lists)[i] \in E /\ ast[Fields(lists)[i]].type = "VAR_DECL"
  BY <1>16 DEF Holds
<1>18. ast[Here].type \notin {"VAR_DECL", "ENUM_VARIANT"}
  BY <1>1
<1> QED  BY <1>1, <1>11, <1>15, <1>17, <1>18, TypePush

(* What a case without a scope of its own looks into, each member once.    *)
LEMMA VisitedIs ==
  ASSUME NEW t
  PROVE  /\ \A i, j \in DOMAIN Visited(t) : i # j => Visited(t)[i] # Visited(t)[j]
         /\ \A i \in DOMAIN Visited(t) : Visited(t)[i] # "condition"
<1>0. {"PROGRAM", "BINARY_EXPR", "NEXUS_PIPE", "NEXUS_FLOW", "UNARY_EXPR", "CAST",
       "NEXUS_HALT", "UNPACK", "NEXUS_INTENT", "METHOD", "DEFER"} \intersect Allocated["ASTCall"] = {}
  BY DEF Allocated
<1>1. Visited(t) \in {<<"statements">>, <<"left", "right">>, <<"left", "right", "catch_block">>,
                      <<"operand">>, <<"expr">>, <<"target">>, <<"implementation">>, <<"body">>,
                      <<"callee", "args">>, <<>>}
  BY <1>0 DEF Visited
<1> HIDE DEF Visited
<1> QED  BY <1>1

LEMMA TraversePush == ASSUME IInv, Traverse PROVE \E before : Push(before)
<1> DEFINE t == ast[Here].type
           vs == Visited(t)
           ps == [i \in DOMAIN vs |-> Member(vs[i])]
           n == Len(vs)
           M == {vs[i] : i \in 1..n}
<1>1. AtItem("check") /\ t \notin Cases /\ Visit(Checks(ps))
  BY DEF Traverse
<1>2. Here \in Nodes /\ TreeInv
  BY <1>1, AtCheck
<1>3. /\ n \in Nat /\ DOMAIN vs = 1..n
      /\ \A i \in 1..n : vs[i] \in Given(t) \intersect Into
  BY <1>1, VisitedGiven
<1>4. /\ \A i, j \in 1..n : i # j => vs[i] # vs[j]
      /\ \A i \in 1..n : vs[i] # "condition"
  BY <1>3, VisitedIs
<1> HIDE DEF vs
<1>5. ps = [i \in 1..n |-> ps[i]] /\ \A i \in 1..n : ps[i] = Member(vs[i])
  BY <1>3
<1> HIDE DEF ps
<1>6. Len(ps) = n
  BY <1>3, <1>5, FcnSeq
<1>7. ASSUME NEW i \in 1..n, ps[i] # NULL
      PROVE  Leads(Here, vs[i], ps[i]) /\ ps[i] # Here
  <2>1. vs[i] \in Pointers \intersect Given(t) /\ ps[i] = ast[Here].at[vs[i]]
    BY <1>3, <1>5 DEF Into, Member
  <2>2. Leads(Here, vs[i], ps[i]) /\ Here < ps[i] /\ Here \in Nat
    BY <1>2, <1>7, <2>1, MemberLink, TreeIs
  <2> QED  BY <2>2
<1>8. ASSUME NEW i \in 1..n, NEW j \in 1..n, i # j, ps[i] # NULL PROVE ps[i] # ps[j]
  <2> SUFFICES ASSUME ps[i] = ps[j] PROVE FALSE
    OBVIOUS
  <2>1. Leads(Here, vs[i], ps[i]) /\ Leads(Here, vs[j], ps[i])
    BY <1>7, <1>8
  <2>2. Links(ast, ps[i]) = {<<Here, vs[i]>>} /\ Links(ast, ps[i]) = {<<Here, vs[j]>>}
    BY <1>2, <2>1, LinkIs
  <2>3. <<Here, vs[i]>> = <<Here, vs[j]>>
    BY <2>2
  <2>4. vs[i] = vs[j]
    BY <2>3
  <2> QED  BY <1>4, <1>8, <2>4
<1>9. Kids(Checks(ps), {Here}, M)
  <2>1. \A i \in 1..Len(ps) : ps[i] # NULL =>
           ps[i] \notin {Here} /\ \E f \in {Here}, m \in M : Leads(f, m, ps[i])
    BY <1>6, <1>7
  <2>2. \A i, j \in 1..Len(ps) : i # j /\ ps[i] # NULL => ps[i] # ps[j]
    BY <1>6, <1>8
  <2>3. Len(ps) \in Nat
    BY <1>3, <1>6
  <2> QED  BY <2>1, <2>2, <2>3, ChecksKids
<1>10. "next" \notin M /\ "condition" \notin M
  BY <1>3, <1>4 DEF Into
<1> HIDE DEF M
<1> QED  BY <1>1, <1>9, <1>10, PushHere

LEMMA OneMember ==
  ASSUME IInv, AtItem("check"), NEW m \in Into \intersect Given(ast[Here].type)
  PROVE  Kids(CheckOf(m), {Here}, {m}) /\ "next" \notin {m} /\ TreeInv
<1>1. Here \in Nodes /\ TreeInv /\ m \in Pointers \intersect Given(ast[Here].type) /\ m # "next"
  BY AtCheck DEF Into
<1> QED  BY <1>1, KidsHere

LEMMA KidsPush ==
  ASSUME IInv, AtItem("check"), NEW before, Visit(before),
         NEW M, Kids(before, {Here}, M), "next" \notin M, "condition" \notin M
  PROVE  \E b : Push(b)
  BY PushHere

LEMMA VarDeclPush == ASSUME IInv, VarDecl PROVE \E before : Push(before)
<1> DEFINE x == Item("initialized", Here)
           last == IF Member("initializer") # NULL /\ Has(Member("type_name"))
                   THEN <<x>> ELSE <<>>
           both == CheckOf("inline_type") \o CheckOf("initializer")
           M == {"inline_type", "initializer"}
<1>1. AtItem("check") /\ ast[Here].type = "VAR_DECL" /\ Visit(both \o last)
  BY DEF VarDecl, AtNode, Here
<1>2. "inline_type" \in Pointers \intersect Given(ast[Here].type)
      /\ "initializer" \in Pointers \intersect Given(ast[Here].type)
  BY <1>1, MembersOf DEF Pointers
<1>3. "inline_type" # "initializer"
  OBVIOUS
<1>4. Kids(both, {Here}, M)
  BY <1>1, <1>2, <1>3, KidsNext
<1>5. x.op = "initialized" /\ x.node = Here
  BY ItemHas
<1> HIDE DEF x, both
<1>6. Kids(last, {Here}, {})
  BY <1>5, KidsItem, KidsNone
<1> HIDE DEF last
<1>7. TreeInv /\ M \intersect {} = {}
  BY DEF IInv
<1>8. Kids(both \o last, {Here}, M \union {})
  BY <1>4, <1>6, <1>7, KidsConcat
<1>9. M \union {} = M /\ "next" \notin M /\ "condition" \notin M
  OBVIOUS
<1> HIDE DEF M
<1> QED  BY <1>1, <1>8, <1>9, KidsPush

LEMMA AssignmentPush == ASSUME IInv, Assignment PROVE \E before : Push(before)
<1>1. AtItem("check") /\ ast[Here].type = "ASSIGNMENT" /\ Visit(CheckOf("left") \o CheckOf("right"))
  BY DEF Assignment, AtNode, Here
<1>2. "left" \in Pointers \intersect Given(ast[Here].type)
      /\ "right" \in Pointers \intersect Given(ast[Here].type)
  BY <1>1, MembersOf DEF Pointers
<1>3. "left" # "right" /\ "next" \notin {"left", "right"} /\ "condition" \notin {"left", "right"}
  OBVIOUS
<1>4. Kids(CheckOf("left") \o CheckOf("right"), {Here}, {"left", "right"})
  BY <1>1, <1>2, <1>3, KidsNext
<1> QED  BY <1>1, <1>3, <1>4, KidsPush

LEMMA PlainPush ==
  ASSUME IInv, Identifier \/ NewType \/ Capture \/ Label PROVE \E before : Push(before)
<1>1. CASE Identifier \/ NewType
  <2>1. AtItem("check") /\ Visit(<<>>)
    BY <1>1 DEF Identifier, NewType, AtNode
  <2>2. Kids(<<>>, {Here}, {}) /\ "next" \notin {} /\ "condition" \notin {}
    BY KidsNone
  <2> QED  BY <2>1, <2>2, KidsPush
<1>2. CASE Capture
  <2>1. AtItem("check") /\ ast[Here].type = "NEXUS_CAPTURE" /\ Visit(CheckOf("expr"))
    BY <1>2 DEF Capture, AtNode, Here
  <2>2. "expr" \in Into \intersect Given(ast[Here].type) /\ "condition" \notin {"expr"}
    BY <2>1, MembersOf DEF Into, Pointers
  <2>3. Kids(CheckOf("expr"), {Here}, {"expr"}) /\ "next" \notin {"expr"}
    BY <2>1, <2>2, OneMember
  <2> QED  BY <2>1, <2>2, <2>3, KidsPush
<1>3. CASE Label
  <2>1. AtItem("check") /\ ast[Here].type = "NEXUS_LABEL" /\ Visit(CheckOf("statement"))
    BY <1>3 DEF Label, AtNode, Here
  <2>2. "statement" \in Into \intersect Given(ast[Here].type) /\ "condition" \notin {"statement"}
    BY <2>1, MembersOf DEF Into, Pointers
  <2>3. Kids(CheckOf("statement"), {Here}, {"statement"}) /\ "next" \notin {"statement"}
    BY <2>1, <2>2, OneMember
  <2> QED  BY <2>1, <2>2, <2>3, KidsPush
<1> QED  BY <1>1, <1>2, <1>3

LEMMA EnterPush ==
  ASSUME IInv, AtItem("check"), NEW checks, Enter(checks), NEW M, Kids(checks, {Here}, M),
         "next" \notin M, Ranged(checks, seen \union {Here}) \/ "condition" \notin M
  PROVE  \E before : Push(before)
<1> DEFINE x == Item("exit", Here)
           o == <<x>>
           S == seen \union {Here}
<1>1. Visit(checks \o o) /\ TreeInv
  BY DEF Enter, IInv
<1>2. x.op = "exit" /\ x.node = Here
  BY ItemHas
<1> HIDE DEF x
<1>3. Kids(o, {Here}, {})
  BY <1>2, KidsItem
<1> HIDE DEF o, S
<1>4. M \intersect {} = {} /\ M \union {} = M /\ "condition" \notin {}
  OBVIOUS
<1>5. Kids(checks \o o, {Here}, M \union {})
  BY <1>1, <1>3, <1>4, KidsConcat
<1>6. Kids(checks \o o, {Here}, M)
  BY <1>4, <1>5
<1>7. Ranged(checks, S) /\ Ranged(o, S)
  BY <1>1, <1>3, <1>4, KidsRanged DEF S
<1>8. IsSeq(checks) /\ IsSeq(o)
  BY <1>3 DEF Kids
<1>9. Ranged(checks \o o, S)
  BY <1>7, <1>8, RangedConcat
<1>10. Push(checks \o o)
  BY <1>1, <1>6, <1>9, PushHere DEF S
<1> QED  BY <1>10

LEMMA BlockPush == ASSUME IInv, Block PROVE \E before : Push(before)
<1>1. AtItem("check")
  BY DEF Block, AtNode
<1>2. ASSUME NEW m \in Into \intersect Given(ast[Here].type), Enter(CheckOf(m)), m # "condition"
      PROVE  \E before : Push(before)
  <2>1. Kids(CheckOf(m), {Here}, {m}) /\ "next" \notin {m} /\ "condition" \notin {m}
    BY <1>1, <1>2, OneMember
  <2> QED  BY <1>1, <1>2, <2>1, EnterPush
<1>3. CASE AtNode({"BLOCK"}) /\ Enter(CheckOf("statements"))
  <2>1. ast[Here].type = "BLOCK"
    BY <1>3 DEF AtNode, Here
  <2>2. "statements" \in Into \intersect Given(ast[Here].type) /\ "statements" # "condition"
    BY <2>1, MembersOf DEF Into, Pointers
  <2> QED  BY <1>2, <1>3, <2>2
<1>4. CASE AtNode({"GROUP_DECL"}) /\ Enter(CheckOf("members"))
  <2>1. ast[Here].type = "GROUP_DECL"
    BY <1>4 DEF AtNode, Here
  <2>2. "members" \in Into \intersect Given(ast[Here].type) /\ "members" # "condition"
    BY <2>1, MembersOf DEF Into, Pointers
  <2> QED  BY <1>2, <1>4, <2>2
<1>5. CASE AtNode({"THREAD_BLOCK"}) /\ Enter(CheckOf("body"))
  <2>1. ast[Here].type = "THREAD_BLOCK"
    BY <1>5 DEF AtNode, Here
  <2>2. "body" \in Into \intersect Given(ast[Here].type) /\ "body" # "condition"
    BY <2>1, MembersOf DEF Into, Pointers
  <2> QED  BY <1>2, <1>5, <2>2
<1>6. CASE AtNode({"LISTEN"}) /\ Enter(CheckOf("expr"))
  <2>1. ast[Here].type = "LISTEN"
    BY <1>6 DEF AtNode, Here
  <2>2. "expr" \in Into \intersect Given(ast[Here].type) /\ "expr" # "condition"
    BY <2>1, MembersOf DEF Into, Pointers
  <2> QED  BY <1>2, <1>6, <2>2
<1> QED  BY <1>3, <1>4, <1>5, <1>6 DEF Block

LEMMA FuncDeclPush == ASSUME IInv, FuncDecl PROVE \E before : Push(before)
<1> DEFINE x == Item("exit", Here)
           y == [op |-> "restore", node |-> Here, saved |-> funcType]
           xy == <<x, y>>
           pb == CheckOf("params") \o CheckOf("body")
           M == {"params", "body"}
<1>1. AtItem("check") /\ ast[Here].type = "FUNC_DECL" /\ Visit(pb \o xy) /\ TreeInv
  BY DEF FuncDecl, AtNode, Here, IInv
<1>2. "params" \in Pointers \intersect Given(ast[Here].type)
      /\ "body" \in Pointers \intersect Given(ast[Here].type) /\ "params" # "body"
  BY <1>1, MembersOf DEF Pointers
<1>3. Kids(pb, {Here}, M)
  BY <1>1, <1>2, KidsNext
<1>4. x.op = "exit" /\ x.node = Here /\ y.op = "restore" /\ y.node = Here
  BY ItemHas
<1> HIDE DEF x, y
<1>5. Kids(xy, {Here}, {})
  <2>1. IsSeq(xy) /\ Len(xy) = 2 /\ xy[1] = x /\ xy[2] = y
    BY DEF IsSeq
  <2> HIDE DEF xy
  <2>2. \A i \in 1..Len(xy) : xy[i] = x \/ xy[i] = y
    BY <2>1
  <2>3. \A i \in 1..Len(xy) : xy[i].op # "check" /\ xy[i].node = Here
    BY <1>4, <2>2
  <2> QED  BY <2>1, <2>3 DEF Kids
<1> HIDE DEF pb, xy
<1>6. M \intersect {} = {} /\ M \union {} = M /\ "next" \notin M /\ "condition" \notin M
  OBVIOUS
<1> HIDE DEF M
<1>7. Kids(pb \o xy, {Here}, M \union {})
  BY <1>1, <1>3, <1>5, <1>6, KidsConcat
<1> QED  BY <1>1, <1>6, <1>7, KidsPush

LEMMA ReturnPush == ASSUME IInv, Return PROVE \E before : Push(before)
<1> DEFINE x == Item("returned", Here)
           o == <<x>>
           e == CheckOf("operand")
           M == {"operand"}
<1>1. AtItem("check") /\ ast[Here].type = "RETURN" /\ Visit(e \o o)
  BY DEF Return, AtNode, Here
<1>2. "operand" \in Into \intersect Given(ast[Here].type)
  BY <1>1, MembersOf DEF Into, Pointers
<1>3. Kids(e, {Here}, M) /\ TreeInv
  BY <1>1, <1>2, OneMember
<1>4. x.op = "returned" /\ x.node = Here
  BY ItemHas
<1> HIDE DEF x
<1>5. Kids(o, {Here}, {})
  BY <1>4, KidsItem
<1> HIDE DEF e, o
<1>6. M \intersect {} = {} /\ M \union {} = M /\ "next" \notin M /\ "condition" \notin M
  OBVIOUS
<1> HIDE DEF M
<1>7. Kids(e \o o, {Here}, M \union {})
  BY <1>3, <1>5, <1>6, KidsConcat
<1> QED  BY <1>1, <1>6, <1>7, KidsPush

LEMMA FuncCallPush == ASSUME IInv, FuncCall PROVE \E before : Push(before)
<1> DEFINE x == Item("called", Here)
           o == <<x>>
           c == CheckOf("callee")
           a == CheckOf("args")
<1>1. AtItem("check") /\ ast[Here].type = "FUNC_CALL" /\ Visit((c \o o) \o a)
  BY DEF FuncCall, AtNode, Here
<1>2. /\ "callee" \in Into \intersect Given(ast[Here].type)
      /\ "args" \in Into \intersect Given(ast[Here].type)
  <2>1. "FUNC_CALL" \in Allocated["ASTCall"]
    BY DEF Allocated
  <2> QED  BY <1>1, <2>1, MembersOf DEF Into, Pointers
<1>3. Kids(c, {Here}, {"callee"}) /\ Kids(a, {Here}, {"args"}) /\ TreeInv
  BY <1>1, <1>2, OneMember
<1>4. x.op = "called" /\ x.node = Here
  BY ItemHas
<1> HIDE DEF x
<1>5. Kids(o, {Here}, {})
  BY <1>4, KidsItem
<1> HIDE DEF a, c, o
<1>6. Kids(c \o o, {Here}, {"callee"} \union {})
  BY <1>3, <1>5, KidsConcat
<1>7. Kids(c \o o, {Here}, {"callee"}) /\ {"callee"} \intersect {"args"} = {}
  BY <1>6
<1>8. Kids((c \o o) \o a, {Here}, {"callee"} \union {"args"})
  BY <1>3, <1>7, KidsConcat
<1>9. "next" \notin {"callee"} \union {"args"} /\ "condition" \notin {"callee"} \union {"args"}
  OBVIOUS
<1> QED  BY <1>1, <1>8, <1>9, KidsPush

(* The range of a loop is looked at before the loop's condition is checked.*)
LEMMA RangeFirst ==
  ASSUME NEW s, IsSeq(s), NEW x, x.op = "range", x.node = Here, NEW t, Kids(t, {Here}, {"condition"}),
         NEW S, Ranged(s, S)
  PROVE  Ranged((s \o <<x>>) \o t, S)
<1> DEFINE o == <<x>>
           a == s \o o
           u == a \o t
           m == Len(s)
<1>1. IsSeq(o) /\ Len(o) = 1 /\ o[1] = x /\ m \in Nat /\ IsSeq(t)
  BY OneSeq DEF IsSeq, Kids
<1> HIDE DEF o
<1>2. IsSeq(a) /\ Len(a) = m + 1 /\ a[m + 1] = x
  <2>1. /\ IsSeq(s \o o) /\ Len(s \o o) = Len(s) + Len(o)
        /\ \A i \in 1..Len(o) : (s \o o)[Len(s) + i] = o[i]
    <3>1. IsSeq(s) /\ IsSeq(o)
      BY <1>1
    <3> QED  BY <3>1, ConcatSeq
  <2> HIDE DEF a
  <2>2. 1 \in 1..Len(o)
    BY <1>1
  <2>3. IsSeq(a) /\ Len(a) = m + Len(o) /\ a[m + 1] = o[1]
    BY <2>1, <2>2 DEF a
  <2> QED  BY <1>1, <2>3
<1>3. Ranged(a, S)
  <2>1. Ranged(o, S)
    <3> SUFFICES ASSUME NEW i \in 1..Len(o), o[i].op = "check" PROVE FALSE
      BY DEF Ranged
    <3>1. o[i] = x
      BY <1>1
    <3> QED  BY <3>1
  <2>2. IsSeq(s) /\ IsSeq(o)
    BY <1>1
  <2> QED  BY <2>1, <2>2, RangedConcat
<1> HIDE DEF a
<1>4. IsSeq(u) /\ (\A i \in 1..Len(a) : u[i] = a[i])
  BY <1>1, <1>2, ConcatSeq
<1>5. \A i \in 1..Len(u) : \/ i \in 1..Len(a) /\ u[i] = a[i]
                           \/ i \notin 1..Len(a) /\ i - Len(a) \in 1..Len(t) /\ u[i] = t[i - Len(a)]
  <2>1. IsSeq(a) /\ IsSeq(t)
    BY <1>1, <1>2
  <2> QED  BY <2>1, ConcatAt
<1> HIDE DEF u, m
<1> SUFFICES ASSUME NEW i \in 1..Len(u), u[i].op = "check", IsRange(u[i].node), u[i].node \notin S
             PROVE  \E j \in 1..(i - 1) :
                      u[j].op = "range" /\ ast[u[j].node].at["condition"] = u[i].node
  BY DEF Ranged, u, a, o
<1>6. CASE i \in 1..Len(a) /\ u[i] = a[i]
  <2>1. PICK j \in 1..(i - 1) : a[j].op = "range" /\ ast[a[j].node].at["condition"] = a[i].node
    BY <1>3, <1>6 DEF Ranged
  <2>2. j \in 1..Len(a)
    BY <1>1, <1>2, <1>6
  <2> QED  BY <1>4, <1>6, <2>1, <2>2
<1>7. CASE i \notin 1..Len(a) /\ i - Len(a) \in 1..Len(t) /\ u[i] = t[i - Len(a)]
  <2> DEFINE k == i - Len(a)
  <2>1. k \in 1..Len(t) /\ t[k].op = "check" /\ u[i] = t[k]
    BY <1>7
  <2> HIDE DEF k
  <2>2. Leads(Here, "condition", u[i].node)
    BY <2>1 DEF Kids
  <2>3. ast[Here].at["condition"] = u[i].node
    BY <2>2 DEF Leads
  <2>4. m + 1 \in 1..Len(a) /\ m + 1 \in 1..(i - 1)
    BY <1>1, <1>2, <1>7
  <2>5. u[m + 1] = x
    BY <1>2, <1>4, <2>4
  <2> QED  BY <2>3, <2>4, <2>5
<1> QED  BY <1>5, <1>6, <1>7

LEMMA LoopPush == ASSUME IInv, Loop PROVE \E before : Push(before)
<1> DEFINE S == seen \union {Here}
<1>1. AtItem("check") /\ ast[Here].type = "LOOP" /\ TreeInv
  BY DEF Loop, AtNode, Here, IInv
<1>2. /\ "variable" \in Into \intersect Given(ast[Here].type)
      /\ "collection" \in Into \intersect Given(ast[Here].type)
      /\ "body" \in Into \intersect Given(ast[Here].type)
      /\ "init" \in Into \intersect Given(ast[Here].type)
      /\ "condition" \in Into \intersect Given(ast[Here].type)
      /\ "increment" \in Into \intersect Given(ast[Here].type)
  BY <1>1, MembersOf DEF Into, Pointers
<1>3. /\ Kids(CheckOf("variable"), {Here}, {"variable"})
      /\ Kids(CheckOf("collection"), {Here}, {"collection"})
      /\ Kids(CheckOf("body"), {Here}, {"body"})
      /\ Kids(CheckOf("init"), {Here}, {"init"})
      /\ Kids(CheckOf("condition"), {Here}, {"condition"})
      /\ Kids(CheckOf("increment"), {Here}, {"increment"})
  BY <1>1, <1>2, OneMember
<1>4. CASE Member("loop_type") = "foreach"
  <2> DEFINE v == IF TypeAt(Member("variable")) \in {"VAR_DECL", "IDENTIFIER"}
                  THEN CheckOf("variable") ELSE <<>>
             a == v \o CheckOf("collection")
             checks == a \o CheckOf("body")
  <2>1. Enter(checks)
    BY <1>4 DEF Loop
  <2>2. Kids(v, {Here}, {"variable"})
    BY <1>3, KidsNone
  <2>3. {"variable"} \intersect {"collection"} = {}
        /\ ({"variable"} \union {"collection"}) \intersect {"body"} = {}
    OBVIOUS
  <2> HIDE DEF v
  <2>4. Kids(a, {Here}, {"variable"} \union {"collection"})
    BY <1>1, <1>3, <2>2, <2>3, KidsConcat
  <2> HIDE DEF a
  <2>5. Kids(checks, {Here}, ({"variable"} \union {"collection"}) \union {"body"})
    BY <1>1, <1>3, <2>3, <2>4, KidsConcat
  <2>6. "next" \notin ({"variable"} \union {"collection"}) \union {"body"}
        /\ "condition" \notin ({"variable"} \union {"collection"}) \union {"body"}
    OBVIOUS
  <2> HIDE DEF checks
  <2> QED  BY <1>1, <2>1, <2>5, <2>6, EnterPush
<1>5. CASE Member("loop_type") # "foreach"
  <2> DEFINE x == Item("range", Here)
             o == <<x>>
             a == CheckOf("init") \o o
             b == a \o CheckOf("condition")
             c == b \o CheckOf("increment")
             checks == c \o CheckOf("body")
             A == {"init"} \union {}
             B == A \union {"condition"}
             C == B \union {"increment"}
             D == C \union {"body"}
  <2>1. Enter(checks)
    BY <1>5 DEF Loop
  <2>2. x.op = "range" /\ x.node = Here
    BY ItemHas
  <2>3. /\ A \intersect {"condition"} = {} /\ B \intersect {"increment"} = {}
        /\ C \intersect {"body"} = {} /\ "next" \notin D
        /\ "condition" \notin {"init"} /\ "condition" \notin {"increment"}
        /\ "condition" \notin {"body"} /\ {"init"} \intersect {} = {}
    OBVIOUS
  <2> HIDE DEF x
  <2>4. Kids(o, {Here}, {})
    BY <2>2, KidsItem
  <2>5. Kids(a, {Here}, A)
    <3> HIDE DEF o
    <3> QED  BY <1>1, <1>3, <2>3, <2>4, KidsConcat
  <2>6. Ranged(CheckOf("init"), S) /\ IsSeq(CheckOf("init"))
    <3>1. Ranged(CheckOf("init"), S)
      BY <1>1, <1>3, <2>3, KidsRanged
    <3> QED  BY <1>3, <3>1 DEF Kids
  <2>7. Ranged(b, S)
    <3> HIDE DEF S
    <3> QED  BY <1>3, <2>2, <2>6, RangeFirst
  <2> HIDE DEF A, a, S
  <2>8. Kids(b, {Here}, B)
    BY <1>1, <1>3, <2>3, <2>5, KidsConcat
  <2> HIDE DEF B, b
  <2>9. Kids(c, {Here}, C)
    BY <1>1, <1>3, <2>3, <2>8, KidsConcat
  <2>10. Ranged(c, S)
    <3>1. Ranged(CheckOf("increment"), S)
      BY <1>1, <1>3, <2>3, KidsRanged
    <3>2. IsSeq(b) /\ IsSeq(CheckOf("increment"))
      BY <1>3, <2>8 DEF Kids
    <3> QED  BY <2>7, <3>1, <3>2, RangedConcat
  <2> HIDE DEF C, c
  <2>11. Kids(checks, {Here}, D)
    BY <1>1, <1>3, <2>3, <2>9, KidsConcat
  <2>12. Ranged(checks, S)
    <3>1. Ranged(CheckOf("body"), S)
      BY <1>1, <1>3, <2>3, KidsRanged
    <3>2. IsSeq(c) /\ IsSeq(CheckOf("body"))
      BY <1>3, <2>9 DEF Kids
    <3> QED  BY <2>10, <3>1, <3>2, RangedConcat
  <2> HIDE DEF D, checks
  <2> QED  BY <1>1, <2>1, <2>3, <2>11, <2>12, EnterPush DEF S
<1> QED  BY <1>4, <1>5

-------------------------------------------------------------------------------
(* The names: every slot is of a declaration that was seen, in a scope that*)
(* is open; and a name declared in a scope that is open has a slot, at the *)
(* depth of that scope unless the name was taken and the code does not hide*)
(* it: that is reported, but for the variables of a loop.                  *)

Clean(found) == \A e \in found : e[1] \notin {"REDEFINED", "FUNC_REDEFINED"}
Hides(d)     == ast[d].type # "LOOP" /\ ~IsRange(d)
Size(d)      == Cardinality(ScopeOf(d))

Kept(table, found, d, name) ==
  \E i \in 1..Len(table) :
    /\ table[i].name = name /\ table[i].depth <= Size(d)
    /\ Clean(found) /\ Hides(d) => table[i].depth = Size(d)

Names(table, found, S, C) ==
  /\ \A i \in 1..Len(table) :
       /\ table[i].decl \in S /\ table[i].name \in Declares(table[i].decl)
       /\ ScopeOf(table[i].decl) \subseteq C
  /\ \A d \in S : \A name \in Declares(d) :
       ScopeOf(d) \subseteq C => Kept(table, found, d, name)

NInv == IInv /\ Order(todo, seen) /\ Names(slots, errors, seen, NowOf(todo).scopes)

LEMMA SubStays == ASSUME UNCHANGED ast, NEW p PROVE Sub(p)' = Sub(p)
<1>1. \A q, r : Child(q, r)' <=> Child(q, r)
  BY DEF Child, Leads, Nodes
<1>2. \A S : Closed(S)' <=> Closed(S)
  BY <1>1 DEF Closed
<1>3. ASSUME NEW q PROVE q \in Sub(p)' <=> q \in Sub(p)
  BY <1>2 DEF Sub, Nodes
<1> QED  BY <1>3

LEMMA RangeStays == ASSUME UNCHANGED ast, NEW d PROVE IsRange(d)' <=> IsRange(d)
  BY DEF IsRange

LEMMA OrderStays == ASSUME UNCHANGED ast, NEW s, NEW S, Order(s, S) PROVE Order(s, S)'
<1>1. \A p : Sub(p)' = Sub(p)
  BY SubStays
<1>2. \A d : IsRange(d)' <=> IsRange(d)
  BY RangeStays
<1>3. Apart(s)'
  BY <1>1 DEF Order, Apart
<1>4. Unseen(s, S)'
  BY <1>1, <1>2 DEF Order, Unseen
<1>5. Ranged(s, S)'
  BY <1>2 DEF Order, Ranged
<1> QED  BY <1>3, <1>4, <1>5 DEF Order, Nodes

LEMMA NamesStay ==
  ASSUME UNCHANGED ast, NEW table, NEW found, NEW S, NEW C, Names(table, found, S, C)
  PROVE  Names(table, found, S, C)'
<1>1. \A d : IsRange(d)' <=> IsRange(d)
  BY RangeStays
<1>2. \A d : ScopeOf(d)' = ScopeOf(d)
  BY EnclosingStays DEF ScopeOf
<1>3. \A d : LoopNames(d)' = LoopNames(d)
  BY DEF LoopNames, TypeAt
<1>4. \A d : Declares(d)' = Declares(d)
  BY <1>1, <1>3 DEF Declares
<1>5. \A d : Size(d)' = Size(d) /\ (Hides(d)' <=> Hides(d))
  BY <1>1, <1>2 DEF Size, Hides
<1>6. \A d, name : Kept(table, found, d, name)' <=> Kept(table, found, d, name)
  BY <1>5 DEF Kept, Clean
<1> QED  BY <1>2, <1>4, <1>6 DEF Names

(* What holds of the next state's stack, slots and scopes holds then.      *)
LEMMA NamesStep ==
  ASSUME UNCHANGED ast, NEW C, Moves(C), Order(todo', seen'), Names(slots', errors', seen', C)
  PROVE  NInv'
<1>1. Order(todo, seen)'
  BY OrderStays
<1>2. Names(slots', errors', seen', NowOf(todo)'.scopes)
  BY DEF Moves
<1>3. Names(slots, errors, seen, NowOf(todo).scopes)'
  BY <1>2, NamesStay
<1> QED  BY <1>1, <1>3 DEF NInv, Moves

(* The slots after one was put in front of them.                           *)
LEMMA FrontSlot ==
  ASSUME NEW table, IsSeq(table), NEW x
  PROVE  /\ 1 \in 1..Len(<<x>> \o table) /\ (<<x>> \o table)[1] = x
         /\ \A i \in 1..Len(table) : /\ i + 1 \in 1..Len(<<x>> \o table)
                                     /\ (<<x>> \o table)[i + 1] = table[i]
         /\ \A i \in 1..Len(<<x>> \o table) :
              \/ (<<x>> \o table)[i] = x
              \/ \E j \in 1..Len(table) : (<<x>> \o table)[i] = table[j]
<1> DEFINE o == <<x>>
           u == o \o table
           n == Len(table)
<1>1. IsSeq(o) /\ Len(o) = 1 /\ o[1] = x /\ n \in Nat
  BY OneSeq DEF IsSeq
<1> HIDE DEF o
<1>2. /\ Len(u) = Len(o) + n /\ (\A i \in 1..Len(o) : u[i] = o[i])
      /\ \A i \in 1..n : u[Len(o) + i] = table[i]
  <2>1. IsSeq(o) /\ IsSeq(table)
    BY <1>1
  <2> QED  BY <2>1, ConcatSeq
<1>3. \A i \in 1..Len(u) : \/ i \in 1..Len(o) /\ u[i] = o[i]
                           \/ i - Len(o) \in 1..n /\ u[i] = table[i - Len(o)]
  <2>1. IsSeq(o) /\ IsSeq(table)
    BY <1>1
  <2> QED  BY <2>1, ConcatAt
<1> HIDE DEF u, n
<1>4. 1 \in 1..Len(u) /\ u[1] = x
  BY <1>1, <1>2
<1>5. ASSUME NEW i \in 1..n PROVE i + 1 \in 1..Len(u) /\ u[i + 1] = table[i]
  <2>1. 1 + i = i + 1 /\ u[1 + i] = table[i]
    BY <1>1, <1>2
  <2> QED  BY <1>1, <1>2, <2>1
<1>6. ASSUME NEW i \in 1..Len(u) PROVE u[i] = x \/ \E j \in 1..n : u[i] = table[j]
  <2>1. CASE i \in 1..Len(o) /\ u[i] = o[i]
    BY <1>1, <2>1
  <2>2. CASE i - Len(o) \in 1..n /\ u[i] = table[i - Len(o)]
    BY <2>2
  <2> QED  BY <1>3, <2>1, <2>2
<1> QED  BY <1>4, <1>5, <1>6 DEF u, o, n

LEMMA NowAt ==
  ASSUME IInv, AtItem("check") PROVE NowOf(todo).scopes = Around
<1>1. todo # <<>> /\ Head(todo).op = "check" /\ Head(todo).node = Here
  BY DEF AtItem, Here
<1>2. NowOf(todo) = Outer(Here)
  BY <1>1 DEF NowOf, Before
<1> QED  BY <1>2, CtxHas DEF Outer, Around

(* Nothing that hangs on the node here was seen.                           *)
LEMMA NewHere ==
  ASSUME IInv, Order(todo, seen), AtItem("check")
  PROVE  /\ \A d \in seen : d \in Sub(Here) => d = Here /\ IsRange(d)
         /\ IsRange(Here) => Here \in seen
<1>1. todo # <<>> /\ Head(todo).op = "check" /\ Head(todo).node = Here
  BY DEF AtItem, Here
<1>2. Head(todo) = todo[1] /\ 1 \in 1..Len(todo)
  <2>1. IsSeq(todo) /\ Len(todo) # 0
    BY <1>1, TodoNodes
  <2> QED  BY <2>1, TailSeq DEF IsSeq
<1>3. \A d \in seen : d \in Sub(Here) => d = Here /\ IsRange(d)
  BY <1>1, <1>2 DEF Order, Unseen
<1>4. ASSUME IsRange(Here), Here \notin seen PROVE FALSE
  <2>1. \E j \in 1..(1 - 1) : todo[j].op = "range"
    BY <1>1, <1>2, <1>4 DEF Order, Ranged
  <2> QED  BY <2>1
<1> QED  BY <1>3, <1>4

Adds(x) == /\ slots' = <<x>> \o slots /\ x.decl = Here /\ x.name \in Declares(Here)
           /\ x.depth = Size(Here)

LEMMA KeptStays ==
  ASSUME IsSeq(slots), NEW x, slots' = slots \/ slots' = <<x>> \o slots, errors \subseteq errors',
         NEW d, NEW name, Kept(slots, errors, d, name)
  PROVE  Kept(slots', errors', d, name)
<1>1. PICK i \in 1..Len(slots) :
         /\ slots[i].name = name /\ slots[i].depth <= Size(d)
         /\ Clean(errors) /\ Hides(d) => slots[i].depth = Size(d)
  BY DEF Kept
<1>2. Clean(errors') => Clean(errors)
  BY DEF Clean
<1>3. \E j \in 1..Len(slots') : slots'[j] = slots[i]
  BY FrontSlot
<1> QED  BY <1>1, <1>2, <1>3 DEF Kept

LEMMA NamesVisit ==
  ASSUME NInv, AtItem("check"), NEW before, Push(before), NEW C, Moves(C),
         C = Around \/ (C = Around \union {Here} /\ ast[Here].type \in Opens),
         ScopeOf(Here) \subseteq C, errors \subseteq errors',
         slots' = slots \/ \E x : Adds(x),
         Here \notin seen => \A name \in Declares(Here) : Kept(slots', errors', Here, name)
  PROVE  NInv'
<1>1. IInv /\ Order(todo, seen) /\ IsSeq(slots) /\ Here \in Nodes /\ TreeInv
  <2>1. IInv
    BY DEF NInv
  <2> QED  BY <2>1, AtCheck DEF NInv, SlotsOk
<1>2. Names(slots, errors, seen, Around)
  BY <1>1, NowAt DEF NInv
<1>3. PICK x : slots' = slots \/ Adds(x)
  OBVIOUS
<1>4. seen' = seen \union {Here} /\ UNCHANGED ast
  BY DEF Push, Visit
<1>5. ASSUME NEW d \in seen, ScopeOf(d) \subseteq C PROVE ScopeOf(d) \subseteq Around
  <2> SUFFICES ASSUME Here \in ScopeOf(d), ast[Here].type \in Opens PROVE FALSE
    BY <1>5
  <2>1. ~IsRange(Here)
    BY DEF IsRange, Opens
  <2>2. d \notin Sub(Here)
    <3>1. d \in Sub(Here) => d = Here /\ IsRange(d)
      BY <1>1, NewHere
    <3> QED  BY <2>1, <3>1
  <2>3. d \in Nodes
    BY <1>1 DEF Order
  <2>4. Here \in Sub(Here)
    BY <1>1, SubIs
  <2>5. Here \notin Enclosing(d)
    BY <1>1, <2>2, <2>3, EnclosingSub
  <2>6. Here # d
    BY <2>2, <2>4
  <2> QED  BY <2>5, <2>6 DEF ScopeOf
<1>6. ASSUME NEW i \in 1..Len(slots')
      PROVE  /\ slots'[i].decl \in seen' /\ slots'[i].name \in Declares(slots'[i].decl)
             /\ ScopeOf(slots'[i].decl) \subseteq C
  <2>1. \/ \E j \in 1..Len(slots) : slots'[i] = slots[j]
        \/ Adds(x) /\ slots'[i] = x
    <3>1. CASE slots' = slots
      BY <3>1
    <3>2. CASE Adds(x)
      <4>1. slots' = <<x>> \o slots
        BY <3>2 DEF Adds
      <4>2. i \in 1..Len(<<x>> \o slots)
        BY <4>1
      <4> QED  BY <1>1, <3>2, <4>1, <4>2, FrontSlot
    <3> QED  BY <1>3, <3>1, <3>2
  <2>2. CASE \E j \in 1..Len(slots) : slots'[i] = slots[j]
    <3>1. PICK j \in 1..Len(slots) : slots'[i] = slots[j]
      BY <2>2
    <3>2. /\ slots[j].decl \in seen /\ slots[j].name \in Declares(slots[j].decl)
          /\ ScopeOf(slots[j].decl) \subseteq Around
      BY <1>2 DEF Names
    <3> QED  BY <1>4, <3>1, <3>2
  <2>3. CASE Adds(x) /\ slots'[i] = x
    BY <1>4, <2>3 DEF Adds
  <2> QED  BY <2>1, <2>2, <2>3
<1>7. ASSUME NEW d \in seen', NEW name \in Declares(d), ScopeOf(d) \subseteq C
      PROVE  Kept(slots', errors', d, name)
  <2>1. CASE d \in seen
    <3>1. Kept(slots, errors, d, name)
      BY <1>2, <1>5, <1>7, <2>1 DEF Names
    <3>2. slots' = slots \/ slots' = <<x>> \o slots
      BY <1>3 DEF Adds
    <3> QED  BY <1>1, <3>1, <3>2, KeptStays
  <2>2. CASE d \notin seen
    BY <1>4, <1>7, <2>2
  <2> QED  BY <2>1, <2>2
<1>8. Names(slots', errors', seen', C)
  BY <1>6, <1>7 DEF Names
<1>9. Order(todo', seen')
  BY <1>1, PushOrder
<1> QED  BY <1>4, <1>8, <1>9, NamesStep

(* The names that a node declares.                                         *)
Naming == {"VAR_DECL", "NEWTYPE_DECL", "FUNC_DECL", "STRUCT_DECL", "UNION_DECL", "ENUM_DECL",
           "NEXUS_CAPTURE", "LISTEN", "NEXUS_LABEL", "LOOP"}

LEMMA DeclaresOf ==
  ASSUME NEW d
  PROVE  /\ ast[d].type \in {"VAR_DECL", "NEWTYPE_DECL"} => Declares(d) = {ast[d].at["name"]}
         /\ ast[d].type \in {"FUNC_DECL", "STRUCT_DECL", "UNION_DECL", "ENUM_DECL"} =>
              Declares(d) = {ast[d].at["name"]} \ {Zero}
         /\ ast[d].type \in {"NEXUS_CAPTURE", "LISTEN"} => Declares(d) = {ast[d].at["handler_name"]}
         /\ ast[d].type = "NEXUS_LABEL" => Declares(d) = {ast[d].at["label_name"]}
         /\ ast[d].type = "LOOP" => Declares(d) = LoopNames(d)
         /\ IsRange(d) => Declares(d) = {"it"}
         /\ ast[d].type \notin Naming /\ ~IsRange(d) => Declares(d) = {}
<1>1. IsRange(d) => ast[d].type = "BINARY_EXPR"
  BY DEF IsRange
<1> QED  BY <1>1 DEF Declares, Naming

LEMMA SizeHere ==
  ASSUME IInv, AtItem("check")
  PROVE  /\ Size(Here) = (IF ast[Here].type \in OwnScope THEN depth + 1 ELSE depth)
         /\ Size(Here) \in Nat /\ depth \in Nat /\ depth <= Size(Here)
         /\ ScopeOf(Here) = Around \union (IF ast[Here].type \in OwnScope THEN {Here} ELSE {})
<1>1. /\ depth = Cardinality(Enclosing(Here)) /\ depth \in Nat
      /\ Cardinality(Enclosing(Here) \union {Here}) = depth + 1
  BY AtCheck
<1>2. CASE ast[Here].type \in OwnScope
  <2>1. ScopeOf(Here) = Enclosing(Here) \union {Here}
    BY <1>2 DEF ScopeOf
  <2> QED  BY <1>1, <1>2, <2>1 DEF Size, Around
<1>3. CASE ast[Here].type \notin OwnScope
  <2>1. ScopeOf(Here) = Enclosing(Here)
    BY <1>3 DEF ScopeOf
  <2> QED  BY <1>1, <1>3, <2>1 DEF Size, Around
<1> QED  BY <1>2, <1>3

LEMMA KeptFound ==
  ASSUME IInv, AtItem("check"), NEW name, Found(slots, name), slots' = slots,
         ~Clean(errors') \/ ~Hides(Here)
  PROVE  Kept(slots', errors', Here, name)
<1>1. SlotsOk(slots, depth) /\ depth \in Nat /\ Size(Here) \in Nat /\ depth <= Size(Here)
  BY SizeHere DEF IInv
<1>2. PICK i \in 1..Len(slots) : slots[i].name = name
  BY <1>1 DEF Found, SlotsOk, IsSeq
<1>3. slots[i].depth \in Nat /\ slots[i].depth <= depth
  BY <1>1 DEF SlotsOk
<1>4. slots[i].depth <= Size(Here)
  BY <1>1, <1>3
<1> QED  BY <1>2, <1>4 DEF Kept

LEMMA AddsSlot ==
  ASSUME IInv, AtItem("check"), NEW name, NEW kind, NEW const, NEW type, NEW params, NEW d,
         name \in Declares(Here), d = Size(Here),
         slots' = AddSlot(slots, d, Slot(name, kind, const, type, params, Here))
  PROVE  (\E x : Adds(x)) /\ Kept(slots', errors', Here, name)
<1> DEFINE x == [Slot(name, kind, const, type, params, Here) EXCEPT !.depth = d]
<1>1. x.name = name /\ x.depth = d /\ x.decl = Here
  BY DEF Slot
<1>2. slots' = <<x>> \o slots
  BY DEF AddSlot
<1> HIDE DEF x
<1>3. Adds(x)
  BY <1>1, <1>2 DEF Adds
<1>4. IsSeq(slots) /\ Size(Here) \in Nat
  BY SizeHere DEF IInv, SlotsOk
<1>5. 1 \in 1..Len(slots') /\ slots'[1] = x
  BY <1>2, <1>4, FrontSlot
<1>6. x.depth = Size(Here) /\ x.depth <= Size(Here)
  BY <1>1, <1>4
<1> QED  BY <1>1, <1>3, <1>5, <1>6 DEF Kept

(* A step that declares nothing.                                           *)
LEMMA QuietNames ==
  ASSUME NInv, AtItem("check"), ast[Here].type \notin Naming, NEW before, Push(before),
         NEW C, Moves(C), C = Around \/ (C = Around \union {Here} /\ ast[Here].type \in Opens),
         errors \subseteq errors', slots' = slots
  PROVE  NInv'
<1>1. IInv /\ Order(todo, seen)
  BY DEF NInv
<1>2. ast[Here].type \notin OwnScope
  BY DEF Naming, OwnScope
<1>3. ScopeOf(Here) \subseteq C
  BY <1>1, <1>2, SizeHere
<1>4. Here \notin seen => Declares(Here) = {}
  BY <1>1, NewHere, DeclaresOf
<1>5. Here \notin seen => \A name \in Declares(Here) : Kept(slots', errors', Here, name)
  BY <1>4
<1> QED  BY <1>3, <1>5, NamesVisit

(* One that declares a name in the scope around the node.                  *)
LEMMA OuterNames ==
  ASSUME NInv, AtItem("check"), ast[Here].type \notin OwnScope, NEW before, Push(before),
         NEW C, Moves(C), C = Around \/ (C = Around \union {Here} /\ ast[Here].type \in Opens),
         errors \subseteq errors', NEW name, Declares(Here) \subseteq {name},
         \/ slots' = slots /\ (Declares(Here) = {} \/ (Found(slots, name) /\ ~Clean(errors')))
         \/ /\ name \in Declares(Here)
            /\ \E kind, const, type, params :
                 slots' = AddSlot(slots, depth, Slot(name, kind, const, type, params, Here))
  PROVE  NInv'
<1>1. IInv
  BY DEF NInv
<1>2. ScopeOf(Here) = Around /\ Size(Here) = depth
  BY <1>1, SizeHere
<1>3. (slots' = slots \/ \E x : Adds(x))
      /\ \A n \in Declares(Here) : Kept(slots', errors', Here, n)
  <2>1. CASE slots' = slots /\ (Declares(Here) = {} \/ (Found(slots, name) /\ ~Clean(errors')))
    <3>1. \A n \in Declares(Here) : n = name /\ Found(slots, name) /\ ~Clean(errors')
      BY <2>1
    <3> QED  BY <1>1, <2>1, <3>1, KeptFound
  <2>2. CASE /\ name \in Declares(Here)
             /\ \E kind, const, type, params :
                  slots' = AddSlot(slots, depth, Slot(name, kind, const, type, params, Here))
    <3>1. (\E x : Adds(x)) /\ Kept(slots', errors', Here, name)
      BY <1>1, <1>2, <2>2, AddsSlot
    <3>2. \A n \in Declares(Here) : n = name
      OBVIOUS
    <3> QED  BY <3>1, <3>2
  <2> QED  BY <2>1, <2>2
<1>4. ScopeOf(Here) \subseteq C
  BY <1>2
<1> QED  BY <1>3, <1>4, NamesVisit

(* One that declares it in the scope of the node itself.                   *)
LEMMA InnerNames ==
  ASSUME NInv, AtItem("check"), ast[Here].type \in OwnScope, NEW before, Push(before),
         Moves(Around \union {Here}), errors \subseteq errors',
         \/ slots' = slots /\ \A n \in Declares(Here) : Found(slots, n) /\ ~Hides(Here)
         \/ \E name, kind, const, type, params :
              /\ Declares(Here) = {name}
              /\ slots' = AddSlot(slots, depth + 1, Slot(name, kind, const, type, params, Here))
  PROVE  NInv'
<1> DEFINE C == Around \union {Here}
<1>1. IInv
  BY DEF NInv
<1>2. ScopeOf(Here) \subseteq C /\ Size(Here) = depth + 1
  BY <1>1, SizeHere
<1>3. (slots' = slots \/ \E x : Adds(x))
      /\ \A n \in Declares(Here) : Kept(slots', errors', Here, n)
  <2>1. CASE slots' = slots /\ \A n \in Declares(Here) : Found(slots, n) /\ ~Hides(Here)
    BY <1>1, <2>1, KeptFound
  <2>2. CASE \E name, kind, const, type, params :
              /\ Declares(Here) = {name}
              /\ slots' = AddSlot(slots, depth + 1, Slot(name, kind, const, type, params, Here))
    <3>1. PICK name, kind, const, type, params :
              /\ Declares(Here) = {name}
              /\ slots' = AddSlot(slots, depth + 1, Slot(name, kind, const, type, params, Here))
      BY <2>2
    <3>2. (\E x : Adds(x)) /\ Kept(slots', errors', Here, name)
      BY <1>1, <1>2, <3>1, AddsSlot
    <3> QED  BY <3>1, <3>2
  <2> QED  BY <2>1, <2>2
<1>4. ast[Here].type \in Opens /\ C = Around \union {Here}
  BY DEF OwnScope, Opens
<1>5. Moves(C)
  OBVIOUS
<1> HIDE DEF C
<1> QED  BY <1>2, <1>3, <1>4, <1>5, NamesVisit

-------------------------------------------------------------------------------
(* The actions.                                                            *)

LEMMA Quiet ==
  ASSUME NInv, Traverse \/ Identifier \/ Assignment \/ Return \/ FuncCall
  PROVE  NInv'
<1>1. IInv
  BY DEF NInv
<1>2. AtItem("check") /\ ast[Here].type \notin Naming /\ slots' = slots /\ errors \subseteq errors'
  <2>1. CASE Traverse
    BY <2>1 DEF Traverse, Report, Cases, Naming
  <2>2. CASE Identifier
    BY <2>2 DEF Identifier, AtNode, Here, Report, Naming
  <2>3. CASE Assignment
    <3>1. /\ AtItem("check") /\ ast[Here].type = "ASSIGNMENT" /\ slots' = slots
          /\ \E found : Report(found)
      BY <2>3, Zenon DEF Assignment, AtNode, Here
    <3> QED  BY <3>1 DEF Report, Naming
  <2>4. CASE Return
    BY <2>4 DEF Return, AtNode, Here, Naming
  <2>5. CASE FuncCall
    BY <2>5 DEF FuncCall, AtNode, Here, Naming
  <2> QED  BY <2>1, <2>2, <2>3, <2>4, <2>5
<1>3. Moves(Around)
  BY <1>1, TraverseStep, IdentifierStep, AssignmentStep, ReturnStep, FuncCallStep
<1>4. PICK before : Push(before)
  BY <1>1, TraversePush, PlainPush, AssignmentPush, ReturnPush, FuncCallPush
<1> QED  BY <1>2, <1>3, <1>4, QuietNames

LEMMA VarDeclNames == ASSUME NInv, VarDecl PROVE NInv'
<1> DEFINE name == Member("name")
           again == Found(slots, name) /\ FindSlot(slots, name).depth = depth
<1>1. IInv
  BY DEF NInv
<1>2. AtItem("check") /\ ast[Here].type = "VAR_DECL"
  BY DEF VarDecl, AtNode, Here
<1>3. Declares(Here) = {name} /\ ast[Here].type \notin OwnScope
  BY <1>2, DeclaresOf DEF OwnScope, Member
<1>4. PICK found : errors' = errors \union (At("REDEFINED", again) \union found)
  BY DEF VarDecl, Report
<1>5. slots' = IF again THEN slots
               ELSE AddSlot(slots, depth, Slot(name, "VAR", Member("is_const") # Zero,
                                               Member("type_name"), <<>>, Here))
  BY DEF VarDecl
<1>6. CASE again
  <2>1. <<"REDEFINED", Here>> \in errors'
    BY <1>4, <1>6 DEF At
  <2>2. <<"REDEFINED", Here>>[1] = "REDEFINED"
    OBVIOUS
  <2>3. ~Clean(errors')
    BY <2>1, <2>2 DEF Clean
  <2>4. slots' = slots /\ Found(slots, name)
    BY <1>5, <1>6
  <2> HIDE DEF name, again
  <2>5. Moves(Around) /\ \E before : Push(before)
    BY <1>1, VarDeclStep, VarDeclPush
  <2>6. errors \subseteq errors'
    BY <1>4
  <2> QED  BY <1>2, <1>3, <2>3, <2>4, <2>5, <2>6, OuterNames
<1>7. CASE ~again
  <2>1. \E kind, const, type, params :
          slots' = AddSlot(slots, depth, Slot(name, kind, const, type, params, Here))
    BY <1>5, <1>7, Zenon
  <2> HIDE DEF name, again
  <2>2. Moves(Around) /\ \E before : Push(before)
    BY <1>1, VarDeclStep, VarDeclPush
  <2>3. errors \subseteq errors'
    BY <1>4
  <2> QED  BY <1>2, <1>3, <2>1, <2>2, <2>3, OuterNames
<1> QED  BY <1>6, <1>7

LEMMA OnceNames ==
  ASSUME NInv, AtItem("check"), ast[Here].type \notin OwnScope, NEW before, Push(before),
         Moves(Around), NEW name, NEW kind, NEW const, NEW type,
         DeclareOnce(name, kind, const, type), Declares(Here) = {name}
  PROVE  NInv'
<1>1. errors' = errors \union At("REDEFINED", Found(slots, name))
  BY DEF DeclareOnce, Report
<1>2. errors \subseteq errors'
  BY <1>1
<1>3. CASE Found(slots, name)
  <2>1. <<"REDEFINED", Here>> \in errors' /\ <<"REDEFINED", Here>>[1] = "REDEFINED"
    BY <1>1, <1>3 DEF At
  <2>2. ~Clean(errors')
    BY <2>1 DEF Clean
  <2>3. slots' = slots
    BY <1>3 DEF DeclareOnce
  <2> QED  BY <1>2, <1>3, <2>2, <2>3, OuterNames
<1>4. CASE ~Found(slots, name)
  <2>1. slots' = AddSlot(slots, depth, Slot(name, kind, const, type, <<>>, Here))
    BY <1>4 DEF DeclareOnce
  <2>2. \E k, c, t, params : slots' = AddSlot(slots, depth, Slot(name, k, c, t, params, Here))
    BY <2>1, Zenon
  <2> QED  BY <1>2, <2>2, OuterNames
<1> QED  BY <1>3, <1>4

LEMMA OnceActions == ASSUME NInv, Capture \/ Label \/ NewType PROVE NInv'
<1>1. IInv
  BY DEF NInv
<1>2. PICK before : Push(before)
  BY <1>1, PlainPush
<1>3. Moves(Around)
  BY <1>1, CaptureStep, LabelStep, NewTypeStep
<1>4. CASE Capture
  <2>1. AtItem("check") /\ ast[Here].type = "NEXUS_CAPTURE"
        /\ DeclareOnce(Member("handler_name"), "VAR", FALSE, Zero)
    BY <1>4 DEF Capture, AtNode, Here
  <2>2. ast[Here].type \notin OwnScope /\ Declares(Here) = {Member("handler_name")}
    BY <2>1, DeclaresOf DEF OwnScope, Member
  <2> QED  BY <1>2, <1>3, <2>1, <2>2, OnceNames
<1>5. CASE Label
  <2>1. AtItem("check") /\ ast[Here].type = "NEXUS_LABEL"
        /\ DeclareOnce(Member("label_name"), "LABEL", TRUE, Zero)
    BY <1>5 DEF Label, AtNode, Here
  <2>2. ast[Here].type \notin OwnScope /\ Declares(Here) = {Member("label_name")}
    BY <2>1, DeclaresOf DEF OwnScope, Member
  <2> QED  BY <1>2, <1>3, <2>1, <2>2, OnceNames
<1>6. CASE NewType
  <2>1. AtItem("check") /\ ast[Here].type = "NEWTYPE_DECL"
        /\ DeclareOnce(Member("name"), "NEWTYPE", TRUE, Member("target_type"))
    BY <1>6 DEF NewType, AtNode, Here
  <2>2. ast[Here].type \notin OwnScope /\ Declares(Here) = {Member("name")}
    BY <2>1, DeclaresOf DEF OwnScope, Member
  <2> QED  BY <1>2, <1>3, <2>1, <2>2, OnceNames
<1> QED  BY <1>4, <1>5, <1>6

LEMMA TypeNames == ASSUME NInv, StructDecl \/ EnumDecl PROVE NInv'
<1> DEFINE name == Member("name")
           again == Has(name) /\ Found(slots, name)
<1>1. IInv
  BY DEF NInv
<1>2. /\ AtItem("check") /\ ast[Here].type \in {"STRUCT_DECL", "UNION_DECL", "ENUM_DECL"}
      /\ \E kind, lists : DeclareType(kind, lists)
  <2>1. CASE StructDecl
    BY <2>1, Zenon DEF StructDecl, AtNode, Here
  <2>2. CASE EnumDecl
    BY <2>2, Zenon DEF EnumDecl, AtNode, Here
  <2> QED  BY <2>1, <2>2
<1>3. Declares(Here) = {name} \ {Zero} /\ ast[Here].type \notin OwnScope
  BY <1>2, DeclaresOf DEF OwnScope, Member
<1>4. PICK kind, lists : DeclareType(kind, lists)
  BY <1>2
<1>5. PICK found : errors' = errors \union (At("REDEFINED", again) \union found)
  BY <1>4 DEF DeclareType, Report
<1>6. slots' = IF Has(name) /\ ~again
               THEN AddSlot(slots, depth, Slot(name, kind, TRUE, Zero, <<>>, Here)) ELSE slots
  BY <1>4 DEF DeclareType
<1>7. Moves(Around) /\ \E before : Push(before)
  BY <1>1, StructDeclStep, EnumDeclStep, StructPush, EnumPush
<1>8. errors \subseteq errors' /\ Declares(Here) \subseteq {name}
  BY <1>3, <1>5
<1>9. CASE again
  <2>1. <<"REDEFINED", Here>> \in errors' /\ <<"REDEFINED", Here>>[1] = "REDEFINED"
    BY <1>5, <1>9 DEF At
  <2>2. ~Clean(errors')
    BY <2>1 DEF Clean
  <2>3. slots' = slots /\ Found(slots, name)
    BY <1>6, <1>9
  <2> HIDE DEF name, again
  <2> QED  BY <1>2, <1>3, <1>7, <1>8, <2>2, <2>3, OuterNames
<1>10. CASE ~again /\ Has(name)
  <2>1. \E k, const, type, params :
          slots' = AddSlot(slots, depth, Slot(name, k, const, type, params, Here))
    BY <1>6, <1>10, Zenon
  <2>2. name \in Declares(Here)
    BY <1>3, <1>10 DEF Has
  <2> HIDE DEF name, again
  <2> QED  BY <1>2, <1>3, <1>7, <1>8, <2>1, <2>2, OuterNames
<1>11. CASE ~Has(name)
  <2>1. slots' = slots /\ Declares(Here) = {}
    BY <1>3, <1>6, <1>11 DEF Has
  <2> HIDE DEF name, again
  <2> QED  BY <1>2, <1>3, <1>7, <1>8, <2>1, OuterNames
<1> QED  BY <1>9, <1>10, <1>11

LEMMA FuncDeclNames == ASSUME NInv, FuncDecl PROVE NInv'
<1> DEFINE name == Member("name")
           again == Has(name) /\ Found(slots, name) /\ FindSlot(slots, name).depth = depth
<1>1. IInv
  BY DEF NInv
<1>2. AtItem("check") /\ ast[Here].type = "FUNC_DECL"
  BY DEF FuncDecl, AtNode, Here
<1>3. Declares(Here) = {name} \ {Zero} /\ ast[Here].type \notin OwnScope /\ ast[Here].type \in Opens
  BY <1>2, DeclaresOf DEF OwnScope, Opens, Member
<1>4. errors' = errors \union At("FUNC_REDEFINED", again)
  BY DEF FuncDecl, Report
<1>5. \/ slots' = slots /\ (again \/ ~Has(name))
      \/ /\ ~again /\ Has(name)
         /\ \E types : slots' = AddSlot(slots, depth, Slot(name, "FUNC", TRUE,
                                          Member("return_type"), types, Here))
  BY DEF FuncDecl
<1>6. Moves(Around \union {Here}) /\ \E before : Push(before)
  BY <1>1, FuncDeclStep, FuncDeclPush
<1>7. errors \subseteq errors' /\ Declares(Here) \subseteq {name}
  BY <1>3, <1>4
<1>8. CASE slots' = slots /\ again
  <2>1. <<"FUNC_REDEFINED", Here>> \in errors' /\ <<"FUNC_REDEFINED", Here>>[1] = "FUNC_REDEFINED"
    BY <1>4, <1>8 DEF At
  <2>2. ~Clean(errors')
    BY <2>1 DEF Clean
  <2>3. Found(slots, name)
    BY <1>8
  <2> HIDE DEF name, again
  <2> QED  BY <1>2, <1>3, <1>6, <1>7, <1>8, <2>2, <2>3, OuterNames
<1>9. CASE slots' = slots /\ ~Has(name)
  <2>1. Declares(Here) = {}
    BY <1>3, <1>9 DEF Has
  <2> HIDE DEF name, again
  <2> QED  BY <1>2, <1>3, <1>6, <1>7, <1>9, <2>1, OuterNames
<1>10. CASE /\ ~again /\ Has(name)
            /\ \E types : slots' = AddSlot(slots, depth, Slot(name, "FUNC", TRUE,
                                             Member("return_type"), types, Here))
  <2>1. name \in Declares(Here)
    BY <1>3, <1>10 DEF Has
  <2>2. \E k, const, type, params :
          slots' = AddSlot(slots, depth, Slot(name, k, const, type, params, Here))
    BY <1>10, Zenon
  <2> HIDE DEF name, again
  <2> QED  BY <1>2, <1>3, <1>6, <1>7, <2>1, <2>2, OuterNames
<1> QED  BY <1>5, <1>8, <1>9, <1>10

LEMMA BlockNames == ASSUME NInv, Block PROVE NInv'
<1>1. IInv
  BY DEF NInv
<1>2. Moves(Around \union {Here}) /\ \E before : Push(before)
  BY <1>1, BlockStep, BlockPush
<1>3. errors \subseteq errors'
  BY DEF Block
<1>4. CASE AtNode({"BLOCK", "GROUP_DECL", "THREAD_BLOCK"}) /\ slots' = slots
  <2>1. AtItem("check") /\ ast[Here].type \notin Naming /\ ast[Here].type \in Opens
    BY <1>4 DEF AtNode, Here, Naming, Opens
  <2> DEFINE C == Around \union {Here}
  <2>2. C = Around \union {Here} /\ Moves(C)
    BY <1>2
  <2> HIDE DEF C
  <2> QED  BY <1>2, <1>3, <1>4, <2>1, <2>2, QuietNames
<1>5. CASE /\ AtNode({"LISTEN"})
           /\ slots' = AddSlot(slots, depth + 1,
                               Slot(Member("handler_name"), "VAR", TRUE, "any", <<>>, Here))
  <2>1. AtItem("check") /\ ast[Here].type = "LISTEN"
    BY <1>5 DEF AtNode, Here
  <2>2. ast[Here].type \in OwnScope /\ Declares(Here) = {Member("handler_name")}
    BY <2>1, DeclaresOf DEF OwnScope, Member
  <2>3. \E name, kind, const, type, params :
          /\ Declares(Here) = {name}
          /\ slots' = AddSlot(slots, depth + 1, Slot(name, kind, const, type, params, Here))
    BY <1>5, <2>2, Zenon
  <2> QED  BY <1>2, <1>3, <2>1, <2>2, <2>3, InnerNames
<1>6. \/ AtNode({"BLOCK", "GROUP_DECL", "THREAD_BLOCK"}) /\ slots' = slots
      \/ /\ AtNode({"LISTEN"})
         /\ slots' = AddSlot(slots, depth + 1,
                             Slot(Member("handler_name"), "VAR", TRUE, "any", <<>>, Here))
  BY DEF Block, AtNode
<1> QED  BY <1>4, <1>5, <1>6

(* The variable that a loop may declare is the one its members name.       *)
LEMMA LoopNamed == ASSUME NInv, Loop PROVE NInv'
<1> DEFINE Taken == slots' = slots /\ \A n \in Declares(Here) : Found(slots, n) /\ ~Hides(Here)
           Added == \E name, kind, const, type, params :
                      /\ Declares(Here) = {name}
                      /\ slots' = AddSlot(slots, depth + 1,
                                          Slot(name, kind, const, type, params, Here))
<1>1. IInv
  BY DEF NInv
<1>2. AtItem("check") /\ ast[Here].type = "LOOP" /\ errors \subseteq errors'
  BY DEF Loop, AtNode, Here
<1>3. Moves(Around \union {Here}) /\ \E before : Push(before)
  BY <1>1, LoopStep, LoopPush
<1>4. ast[Here].type \in OwnScope /\ Declares(Here) = LoopNames(Here) /\ ~Hides(Here)
  BY <1>2, DeclaresOf DEF OwnScope, Hides
<1>5. ASSUME NEW name, NEW type, slots' = Implicit(name, type), LoopNames(Here) = {name}
      PROVE  Taken \/ Added
  <2>1. CASE Found(slots, name)
    <3>1. slots' = slots
      BY <1>5, <2>1 DEF Implicit
    <3> QED  BY <1>4, <1>5, <2>1, <3>1
  <2>2. CASE ~Found(slots, name)
    <3>1. slots' = AddSlot(slots, depth + 1, Slot(name, "VAR", FALSE, type, <<>>, Here))
      BY <1>5, <2>2 DEF Implicit
    <3>2. Added
      BY <1>4, <1>5, <3>1, Zenon
    <3> QED  BY <3>2
  <2> QED  BY <2>1, <2>2
<1>6. ASSUME Member("loop_type") = "foreach" PROVE Taken \/ Added
  <2> DEFINE p == Member("variable")
  <2>1. slots' = IF TypeAt(p) = "IDENTIFIER" THEN LoopVariable(p, "any") ELSE slots
    BY <1>6 DEF Loop
  <2>2. LoopNames(Here) = IF TypeAt(p) = "IDENTIFIER" THEN {ast[p].at["name"]} ELSE {}
    BY <1>6 DEF LoopNames, Member
  <2>3. CASE TypeAt(p) = "IDENTIFIER"
    <3>1. slots' = Implicit(ast[p].at["name"], "any")
      BY <2>1, <2>3 DEF LoopVariable
    <3>2. LoopNames(Here) = {ast[p].at["name"]}
      BY <2>2, <2>3
    <3> HIDE DEF p, Taken, Added
    <3> QED  BY <1>5, <3>1, <3>2
  <2>4. CASE TypeAt(p) # "IDENTIFIER"
    BY <1>4, <2>1, <2>2, <2>4
  <2> QED  BY <2>3, <2>4
<1>7. ASSUME Member("loop_type") # "foreach" PROVE Taken \/ Added
  <2> DEFINE p == Member("init")
             v == ast[p].at["left"]
  <2>1. slots' = LoopVariable(p, "i32")
    BY <1>7 DEF Loop
  <2>2. CASE TypeAt(p) = "IDENTIFIER"
    <3>1. slots' = Implicit(ast[p].at["name"], "i32")
      BY <2>1, <2>2 DEF LoopVariable
    <3>2. LoopNames(Here) = {ast[p].at["name"]}
      BY <1>7, <2>2 DEF LoopNames, Member
    <3> HIDE DEF p, Taken, Added
    <3> QED  BY <1>5, <3>1, <3>2
  <2>3. CASE TypeAt(p) = "ASSIGNMENT" /\ TypeAt(v) = "IDENTIFIER"
    <3>1. PICK type : slots' = Implicit(ast[v].at["name"], type)
      BY <2>1, <2>3 DEF LoopVariable
    <3>2. LoopNames(Here) = {ast[v].at["name"]}
      BY <1>7, <2>3 DEF LoopNames, Member
    <3> HIDE DEF p, v, Taken, Added
    <3> QED  BY <1>5, <3>1, <3>2
  <2>4. CASE TypeAt(p) # "IDENTIFIER" /\ ~(TypeAt(p) = "ASSIGNMENT" /\ TypeAt(v) = "IDENTIFIER")
    <3>1. slots' = slots
      BY <2>1, <2>4 DEF LoopVariable
    <3>2. LoopNames(Here) = {}
      BY <1>7, <2>4 DEF LoopNames, Member
    <3> QED  BY <1>4, <3>1, <3>2
  <2> QED  BY <2>2, <2>3, <2>4
<1>8. Taken \/ Added
  BY <1>6, <1>7
<1> QED  BY <1>2, <1>3, <1>4, <1>8, InnerNames

(* The steps that go on with the item behind.                              *)
LEMMA ItemOrder ==
  ASSUME NInv, todo # <<>>, Head(todo).op # "range", Resume(<<>>) PROVE Order(todo', seen')
<1>1. IInv /\ Order(todo, seen) /\ TreeInv
  BY DEF NInv, IInv
<1>2. IsSeq(todo) /\ Len(todo) # 0 /\ \A i \in 1..Len(todo) : todo[i].node \in Nodes
  BY <1>1, TodoNodes
<1>3. Order(Tail(todo), seen)
  BY <1>1, <1>2, OrderTail
<1>4. IsSeq(Tail(todo))
  BY <1>1, AtHead
<1>5. todo' = Tail(todo) /\ seen' = seen
  BY <1>4, NoneBefore DEF Resume
<1> QED  BY <1>3, <1>5

LEMMA ItemNames ==
  ASSUME NInv, todo # <<>>, Head(todo).op # "range", Resume(<<>>), slots' = slots,
         errors \subseteq errors', Moves(NowOf(todo).scopes)
  PROVE  NInv'
<1> DEFINE C == NowOf(todo).scopes
<1>1. Order(todo', seen') /\ IsSeq(slots) /\ UNCHANGED <<ast, seen>>
  BY ItemOrder DEF NInv, IInv, SlotsOk, Resume
<1>2. Names(slots, errors, seen, C) /\ Moves(C)
  BY DEF NInv
<1> HIDE DEF C
<1>3. ASSUME NEW d \in seen, NEW name \in Declares(d), ScopeOf(d) \subseteq C
      PROVE  Kept(slots', errors', d, name)
  <2>1. Kept(slots, errors, d, name)
    BY <1>2, <1>3 DEF Names
  <2> QED  BY <1>1, <2>1, KeptStays
<1>4. Names(slots', errors', seen', C)
  BY <1>1, <1>2, <1>3 DEF Names
<1> QED  BY <1>1, <1>2, <1>4, NamesStep

LEMMA RestsNames == ASSUME NInv, Initialized \/ Returned \/ Called PROVE NInv'
<1>1. PICK op \in {"initialized", "returned", "called"} : AtItem(op)
  BY DEF Initialized, Returned, Called
<1>2. Resume(<<>>) /\ slots' = slots
  BY DEF Initialized, Returned, Called
<1>3. errors \subseteq errors'
  BY DEF Initialized, Returned, Called, Report
<1>4. IInv
  BY DEF NInv
<1>5. Moves(Around)
  BY <1>4, RestsStep
<1>6. todo # <<>> /\ Head(todo).op = op /\ Head(todo).node = Here
  BY <1>1 DEF AtItem, Here
<1>7. NowOf(todo).scopes = Around
  <2>1. NowOf(todo) = Outer(Here)
    BY <1>6 DEF NowOf, Before
  <2> QED  BY <2>1, CtxHas DEF Outer, Around
<1>8. Moves(NowOf(todo).scopes) /\ Head(todo).op # "range"
  BY <1>5, <1>6, <1>7
<1> QED  BY <1>2, <1>3, <1>6, <1>8, ItemNames

LEMMA RestoreNames == ASSUME NInv, Restore PROVE NInv'
<1>1. /\ todo # <<>> /\ Head(todo).op = "restore" /\ Head(todo).node = Here
      /\ Resume(<<>>) /\ slots' = slots /\ errors' = errors
  BY DEF Restore, AtItem, Here
<1>2. IInv
  BY DEF NInv
<1>3. Moves(Around)
  BY <1>2, RestoreStep
<1>4. NowOf(todo).scopes = Around
  BY <1>1, CtxHas DEF NowOf, Before, Around
<1>5. Moves(NowOf(todo).scopes) /\ Head(todo).op # "range"
  BY <1>1, <1>3, <1>4
<1> QED  BY <1>1, <1>5, ItemNames

(* Leaving a scope: the slots that stay are those of the scopes around it. *)
LEMMA ExitNames == ASSUME NInv, ExitScope PROVE NInv'
<1> DEFINE n == Len(slots)
           u == PopSlots
           e == Cardinality(Around)
<1>1. /\ todo # <<>> /\ Head(todo).op = "exit" /\ Head(todo).node = Here
      /\ Resume(<<>>) /\ slots' = u /\ errors' = errors /\ UNCHANGED <<ast, seen>>
  BY DEF ExitScope, AtItem, Here, Resume
<1>2. IInv
  BY DEF NInv
<1>3. Moves(Around) /\ Order(todo', seen')
  BY <1>1, <1>2, ExitScopeStep, ItemOrder
<1>4. /\ Here \in Nodes /\ TreeInv /\ SlotsOk(slots, depth) /\ depth \in Nat
      /\ depth = Cardinality(Before(Head(todo)).scopes) /\ NowOf(todo) = Before(Head(todo))
  BY <1>1, <1>2, AtHead DEF IInv, NowOf
<1>5. NowOf(todo).scopes = Around \union {Here}
  <2>1. Before(Head(todo)) = Inner(Here)
    BY <1>1 DEF Before
  <2> QED  BY <1>4, <2>1, CtxHas DEF Inner, Around
<1>6. /\ IsFiniteSet(Around) /\ e \in Nat /\ depth = e + 1 /\ IsFiniteSet(Around \union {Here})
      /\ Cardinality(Around \union {Here}) = depth
  <2>1. Cardinality(Around \union {Here}) = e + 1 /\ IsFiniteSet(Around) /\ e \in Nat
        /\ IsFiniteSet(Around \union {Here})
    BY <1>4, EnclosingSize DEF Around
  <2> QED  BY <1>4, <1>5, <2>1
<1> HIDE DEF e, u
<1>7. Names(slots, errors, seen, Around \union {Here}) /\ Order(todo, seen)
  BY <1>5 DEF NInv
<1>8. n \in Nat /\ IsSeq(slots)
  BY <1>4 DEF SlotsOk, IsSeq
<1>9. PICK first \in 1..(n + 1) :
         /\ first \in 1..n => slots[first].depth # depth
         /\ \A k \in 1..(first - 1) : slots[k].depth = depth
         /\ IsSeq(u) /\ Len(u) = (n - first) + 1
         /\ \A i \in 1..Len(u) : u[i] = slots[(first + i) - 1]
  BY <1>8, PopIs DEF u
<1>10. ASSUME NEW d \in Nodes, Here \in ScopeOf(d)
       PROVE  Around \union {Here} \subseteq ScopeOf(d)
  <2>1. CASE Here \in Enclosing(d)
    BY <1>4, <1>10, <2>1, EnclosingSub DEF ScopeOf, Around
  <2>2. CASE Here = d
    BY <1>10, <2>2 DEF ScopeOf, Around
  <2> QED  BY <1>10, <2>1, <2>2 DEF ScopeOf
<1>11. ASSUME NEW i \in 1..Len(u)
       PROVE  /\ u[i].decl \in seen /\ u[i].name \in Declares(u[i].decl)
              /\ ScopeOf(u[i].decl) \subseteq Around
  <2> DEFINE k == (first + i) - 1
             d == slots[k].decl
  <2>1. k \in 1..n /\ first \in 1..n /\ first <= k /\ u[i] = slots[k]
    BY <1>8, <1>9
  <2> HIDE DEF k
  <2>2. /\ slots[k].depth \in Nat /\ slots[k].depth = Cardinality(ScopeOf(d)) /\ d \in Nodes
    BY <1>4, <2>1 DEF SlotsOk
  <2>3. slots[first].depth \in Nat /\ slots[first].depth <= depth
        /\ slots[first].depth >= slots[k].depth /\ slots[first].depth # depth
    BY <1>4, <1>9, <2>1 DEF SlotsOk
  <2>4. d \in seen /\ slots[k].name \in Declares(d) /\ ScopeOf(d) \subseteq Around \union {Here}
    BY <1>7, <2>1 DEF Names
  <2>5. Here \notin ScopeOf(d)
    <3> SUFFICES ASSUME Here \in ScopeOf(d) PROVE FALSE
      OBVIOUS
    <3>1. ScopeOf(d) = Around \union {Here}
      BY <1>10, <2>2, <2>4
    <3>2. slots[k].depth = depth
      BY <1>6, <2>2, <3>1
    <3> QED  BY <1>4, <2>3, <3>2
  <2> QED  BY <2>1, <2>4, <2>5
<1>12. ASSUME NEW d \in seen, NEW name \in Declares(d), ScopeOf(d) \subseteq Around
       PROVE  Kept(u, errors, d, name)
  <2>1. Kept(slots, errors, d, name)
    BY <1>7, <1>12 DEF Names
  <2>2. PICK k \in 1..n :
           /\ slots[k].name = name /\ slots[k].depth <= Size(d)
           /\ Clean(errors) /\ Hides(d) => slots[k].depth = Size(d)
    BY <2>1 DEF Kept
  <2>3. Size(d) \in Nat /\ Size(d) <= e
    <3>1. IsFiniteSet(ScopeOf(d)) /\ Cardinality(ScopeOf(d)) <= Cardinality(Around)
      BY <1>6, <1>12, FS_Subset
    <3> QED  BY <3>1, FS_CardinalityType DEF Size, e
  <2>4. slots[k].depth \in Nat
    BY <1>4 DEF SlotsOk
  <2>5. slots[k].depth # depth
    BY <1>6, <2>2, <2>3, <2>4
  <2>6. k \notin 1..(first - 1)
    BY <1>9, <2>5
  <2>7. (k - first) + 1 \in 1..Len(u) /\ (first + ((k - first) + 1)) - 1 = k
    BY <1>8, <1>9, <2>6
  <2>8. u[(k - first) + 1] = slots[k]
    BY <1>9, <2>7
  <2> QED  BY <2>2, <2>7, <2>8 DEF Kept
<1>13. Names(slots', errors', seen', Around)
  BY <1>1, <1>11, <1>12 DEF Names
<1> QED  BY <1>1, <1>3, <1>13, NamesStep

(* The range of a loop's condition is looked at.                           *)
LEMMA RangeNames == ASSUME NInv, RangeVariable PROVE NInv'
<1> DEFINE c == Member("condition")
           C == Around \union {Here}
           x == [Slot("it", "VAR", FALSE, "i32", <<>>, c) EXCEPT !.depth = depth]
<1>1. /\ AtItem("range") /\ todo # <<>> /\ Head(todo).op = "range" /\ Head(todo).node = Here
      /\ todo' = Tail(todo) /\ UNCHANGED <<ast, errors>>
  BY DEF RangeVariable, AtItem, Here
<1>2. IInv /\ TreeInv /\ Order(todo, seen)
  BY DEF NInv, IInv
<1>3. /\ IsItem(Head(todo)) /\ SlotsOk(slots, depth) /\ depth \in Nat /\ Here \in Nodes
      /\ depth = Cardinality(Before(Head(todo)).scopes)
  BY <1>1, <1>2, AtHead
<1>4. ast[Here].type = "LOOP"
  BY <1>1, <1>3 DEF IsItem
<1>5. NowOf(todo).scopes = C /\ depth = Cardinality(C)
  <2>1. Before(Head(todo)) = Inner(Here) /\ NowOf(todo) = Before(Head(todo))
    BY <1>1 DEF Before, NowOf
  <2> QED  BY <1>3, <2>1, CtxHas DEF Inner, Around
<1>6. Moves(C) /\ Names(slots, errors, seen, C)
  BY <1>2, <1>5, RangeStep DEF NInv
<1>7. ASSUME RangeAt(c)
      PROVE  /\ IsRange(c) /\ Declares(c) = {"it"} /\ ScopeOf(c) = C
  <2>1. ast[c].type = "BINARY_EXPR" /\ c # NULL /\ ast[c].at["op"] = ".."
    BY <1>7 DEF RangeAt, TypeAt
  <2>2. "condition" \in Into \intersect Given(ast[Here].type)
    BY <1>4, MembersOf DEF Into, Pointers
  <2>3. c \in Nodes /\ Enclosing(c) = Within(Here)
    BY <1>2, <1>3, <2>1, <2>2, MemberLeads DEF Member
  <2>4. Leads(Here, "condition", c)
    BY <1>2, <1>3, <2>1, <2>2, NodeHas DEF Leads, Member, Into
  <2>5. Here < c /\ Here \in Nat /\ 1 <= Here /\ c \in Nat
    BY <1>2, <1>3, <2>3, <2>4, LinkIs, TreeIs
  <2>6. Here \in 1..(c - 1)
    BY <2>5
  <2>7. IsRange(c)
    BY <1>4, <2>1, <2>6 DEF IsRange, Member
  <2>8. Within(Here) = C
    BY <1>4 DEF Within, Opens, Around
  <2>9. ScopeOf(c) = Enclosing(c)
    BY <2>1 DEF ScopeOf, OwnScope
  <2> QED  BY <2>3, <2>7, <2>8, <2>9, DeclaresOf
<1>8. /\ seen' = IF RangeAt(c) THEN seen \union {c} ELSE seen
      /\ slots' = IF RangeAt(c) /\ ~Found(slots, "it") THEN <<x>> \o slots ELSE slots
  BY DEF RangeVariable, AddSlot
<1>9. x.name = "it" /\ x.depth = depth /\ x.decl = c
  BY DEF Slot
<1>10. Order(todo', seen')
  <2>1. IsSeq(todo) /\ Len(todo) # 0 /\ \A i \in 1..Len(todo) : todo[i].node \in Nodes
    BY <1>1, <1>2, TodoNodes
  <2> QED  BY <1>1, <1>2, <1>4, <1>8, <2>1, OrderTail
<1> HIDE DEF c, x, C
<1>11. IsSeq(slots) /\ Len(slots) \in Nat /\ (slots' = slots \/ slots' = <<x>> \o slots)
  BY <1>3, <1>8 DEF SlotsOk, IsSeq
<1>12. ASSUME NEW i \in 1..Len(slots')
       PROVE  /\ slots'[i].decl \in seen' /\ slots'[i].name \in Declares(slots'[i].decl)
              /\ ScopeOf(slots'[i].decl) \subseteq C
  <2>1. \/ \E j \in 1..Len(slots) : slots'[i] = slots[j]
        \/ RangeAt(c) /\ slots'[i] = x
    <3>1. CASE slots' = slots
      BY <3>1
    <3>2. CASE RangeAt(c) /\ slots' = <<x>> \o slots
      <4>1. i \in 1..Len(<<x>> \o slots)
        BY <3>2
      <4> QED  BY <1>11, <3>2, <4>1, FrontSlot
    <3> QED  BY <1>8, <3>1, <3>2
  <2>2. CASE \E j \in 1..Len(slots) : slots'[i] = slots[j]
    <3>1. PICK j \in 1..Len(slots) : slots'[i] = slots[j]
      BY <2>2
    <3>2. /\ slots[j].decl \in seen /\ slots[j].name \in Declares(slots[j].decl)
          /\ ScopeOf(slots[j].decl) \subseteq C
      BY <1>6 DEF Names
    <3> QED  BY <1>8, <3>1, <3>2
  <2>3. CASE RangeAt(c) /\ slots'[i] = x
    BY <1>7, <1>8, <1>9, <2>3
  <2> QED  BY <2>1, <2>2, <2>3
<1>13. ASSUME RangeAt(c) PROVE Kept(slots', errors', c, "it")
  <2>1. Size(c) = depth /\ ~Hides(c)
    BY <1>5, <1>7, <1>13 DEF Size, Hides
  <2>2. CASE Found(slots, "it")
    <3>1. PICK i \in 1..Len(slots) : slots[i].name = "it"
      BY <1>11, <2>2 DEF Found, IsSeq
    <3>2. slots[i].depth <= depth
      BY <1>3 DEF SlotsOk
    <3>3. slots' = slots
      BY <1>8, <2>2
    <3> QED  BY <2>1, <3>1, <3>2, <3>3 DEF Kept
  <2>3. CASE ~Found(slots, "it")
    <3>1. slots' = <<x>> \o slots
      BY <1>8, <1>13, <2>3
    <3>2. 1 \in 1..Len(slots') /\ slots'[1] = x
      BY <1>11, <3>1, FrontSlot
    <3>3. x.depth <= Size(c) /\ x.depth = Size(c)
      BY <1>3, <1>9, <2>1
    <3> QED  BY <1>9, <3>2, <3>3 DEF Kept
  <2> QED  BY <2>2, <2>3
<1>14. ASSUME NEW d \in seen', NEW name \in Declares(d), ScopeOf(d) \subseteq C
       PROVE  Kept(slots', errors', d, name)
  <2>1. CASE d \in seen
    <3>1. Kept(slots, errors, d, name) /\ errors \subseteq errors'
      BY <1>1, <1>6, <1>14, <2>1 DEF Names
    <3> QED  BY <1>11, <3>1, KeptStays
  <2>2. CASE d \notin seen
    <3>1. RangeAt(c) /\ d = c
      BY <1>8, <2>2
    <3>2. name = "it"
      BY <1>7, <3>1
    <3> QED  BY <1>13, <3>1, <3>2
  <2> QED  BY <2>1, <2>2
<1>15. Names(slots', errors', seen', C)
  BY <1>12, <1>14 DEF Names
<1> QED  BY <1>1, <1>6, <1>10, <1>15, NamesStep

(* Every state.                                                            *)
LEMMA InitNames == ASSUME Init PROVE NInv
<1> DEFINE x == Item("check", 1)
<1>1. /\ TreeInv /\ todo = <<x>> /\ slots = <<>> /\ seen = {} /\ IInv
  BY InitHolds DEF Init, TreeInv
<1>2. x.op = "check" /\ x.node = 1
  BY DEF Item
<1>3. ~IsRange(1)
  BY DEF IsRange
<1> HIDE DEF x
<1>4. IsSeq(todo) /\ Len(todo) = 1 /\ todo[1] = x
  BY <1>1, OneSeq
<1>5. Apart(todo) /\ Unseen(todo, seen)
  BY <1>1, <1>4 DEF Apart, Unseen
<1>6. Ranged(todo, seen)
  BY <1>2, <1>3, <1>4 DEF Ranged
<1>7. Order(todo, seen)
  BY <1>1, <1>2, <1>4, <1>5, <1>6 DEF Order
<1>8. 1..Len(slots) = {}
  BY <1>1, NoneSeq
<1>9. Names(slots, errors, seen, NowOf(todo).scopes)
  BY <1>1, <1>8 DEF Names
<1> QED  BY <1>1, <1>7, <1>9 DEF NInv

LEMMA NextNames == ASSUME NInv, [Next]_vars PROVE NInv'
<1>1. CASE UNCHANGED vars
  <2>1. UNCHANGED <<ast, todo, slots, depth, funcType, errors, seen>>
    BY <1>1 DEF vars
  <2>2. IInv' /\ IInv /\ Order(todo', seen') /\ Names(slots', errors', seen', NowOf(todo).scopes)
    BY <1>1, <2>1, NextHolds DEF NInv
  <2>3. NowOf(todo)' = NowOf(todo)
    <3>1. Before(Head(todo))' = Before(Head(todo'))
      BY <2>1, ItemStays
    <3> QED  BY <2>1, <3>1 DEF NowOf, Done
  <2>4. Moves(NowOf(todo).scopes)
    BY <2>2, <2>3 DEF Moves
  <2> QED  BY <2>1, <2>2, <2>4, NamesStep
<1>2. CASE Next
  BY <1>2, Quiet, VarDeclNames, OnceActions, TypeNames, FuncDeclNames, BlockNames, LoopNamed,
     RestsNames, RestoreNames, ExitNames, RangeNames DEF Next
<1> QED  BY <1>1, <1>2

(* find_slot: the newest slot of a name, which is there.                   *)
LEMMA FindSlotIs ==
  ASSUME NEW table, IsSeq(table), NEW name, Found(table, name)
  PROVE  \E k \in 1..Len(table) :
           /\ FindSlot(table, name) = table[k] /\ table[k].name = name
           /\ \A i \in 1..Len(table) : table[i].name = name => k <= i
<1> DEFINE T == {i \in 1..Len(table) : table[i].name = name}
           k == CHOOSE i \in DOMAIN table :
                  table[i].name = name /\ \A j \in 1..(i - 1) : table[j].name # name
<1>1. DOMAIN table = 1..Len(table) /\ Len(table) \in Nat
  BY DEF IsSeq
<1>2. PICK n \in T : \A i \in T : n <= i
  <2>1. T \in SUBSET Nat /\ T # {}
    BY <1>1 DEF Found
  <2> HIDE DEF T
  <2> QED  BY <2>1, Least
<1>3. ASSUME NEW j \in 1..(n - 1) PROVE table[j].name # name
  <2>1. j \in 1..Len(table) /\ ~(n <= j)
    BY <1>1, <1>2
  <2> QED  BY <1>2, <2>1
<1>4. n \in DOMAIN table /\ table[n].name = name
  BY <1>1, <1>2
<1>5. k \in DOMAIN table /\ table[k].name = name /\ \A j \in 1..(k - 1) : table[j].name # name
  BY <1>3, <1>4
<1>6. FindSlot(table, name) = table[k]
  BY DEF FindSlot
<1> HIDE DEF k
<1>7. ASSUME NEW i \in 1..Len(table), table[i].name = name PROVE k <= i
  <2>1. i \notin 1..(k - 1)
    BY <1>5, <1>7
  <2> QED  BY <1>1, <1>5, <2>1
<1> QED  BY <1>1, <1>5, <1>6, <1>7

(* The checks come to nodes in such an order, and leave such slots, that   *)
(* the slots are those of the declarations that were seen in the scopes    *)
(* that are open: for every tree, in every state.                          *)
THEOREM NamesInvariance == Spec => []NInv
<1>1. Init => NInv
  BY InitNames
<1>2. NInv /\ [Next]_vars => NInv'
  BY NextNames
<1> QED  BY <1>1, <1>2, PTL DEF Spec

(* Whenever a node is checked the symbol table holds exactly the names that*)
(* are in scope there: no scope leaks a name, and none is closed too early.*)
THEOREM NamesAreLexical == Spec => []ResolvesLexically
<1>1. NInv => ResolvesLexically
  <2> SUFFICES ASSUME NInv, AtItem("check"), NEW name
               PROVE  Found(slots, name) <=> Visible(name, Here) # {}
    BY DEF ResolvesLexically
  <2>1. IInv /\ IsSeq(slots)
    BY DEF NInv, IInv, SlotsOk
  <2>2. Names(slots, errors, seen, Enclosing(Here))
    BY <2>1, NowAt DEF NInv, Around
  <2>3. DOMAIN slots = 1..Len(slots)
    BY <2>1 DEF IsSeq
  <2>4. ASSUME Found(slots, name) PROVE Visible(name, Here) # {}
    <3>1. PICK i \in 1..Len(slots) : slots[i].name = name
      BY <2>3, <2>4 DEF Found
    <3>2. slots[i].decl \in Visible(name, Here)
      BY <2>2, <3>1 DEF Names, Visible
    <3> QED  BY <3>2
  <2>5. ASSUME Visible(name, Here) # {} PROVE Found(slots, name)
    <3>1. PICK d \in seen : name \in Declares(d) /\ ScopeOf(d) \subseteq Enclosing(Here)
      BY <2>5 DEF Visible
    <3>2. Kept(slots, errors, d, name)
      BY <2>2, <3>1 DEF Names
    <3> QED  BY <2>3, <3>2 DEF Kept, Found
  <2> QED  BY <2>4, <2>5
<1> QED  BY <1>1, NamesInvariance, PTL

(* A use means the innermost declaration: while nothing was reported as    *)
(* redefined, none that is visible at an identifier lies in a smaller scope*)
(* than the one find_slot returns.                                         *)
THEOREM UsesMeanInnermost == Spec => []InnermostWins
<1>1. NInv => InnermostWins
  <2> DEFINE name == Member("name")
             found == FindSlot(slots, name)
             chosen == ScopeOf(found.decl)
  <2> SUFFICES ASSUME NInv, AtNode({"IDENTIFIER"}), Found(slots, name), Clean(errors),
                      NEW d \in Visible(name, Here), Hides(d), chosen \subseteq ScopeOf(d)
               PROVE  chosen = ScopeOf(d)
    BY DEF InnermostWins, Clean, Hides
  <2>1. IInv /\ SlotsOk(slots, depth) /\ IsSeq(slots) /\ AtItem("check")
    BY DEF NInv, IInv, SlotsOk, AtNode
  <2>2. Names(slots, errors, seen, Enclosing(Here)) /\ Here \in Nodes /\ TreeInv
    BY <2>1, NowAt, AtCheck DEF NInv, Around
  <2>3. d \in seen /\ name \in Declares(d) /\ ScopeOf(d) \subseteq Enclosing(Here)
    BY DEF Visible
  <2> HIDE DEF name, found, chosen
  <2>4. PICK i \in 1..Len(slots) : slots[i].name = name /\ slots[i].depth = Size(d)
    BY <2>2, <2>3 DEF Names, Kept
  <2>5. PICK k \in 1..Len(slots) : found = slots[k] /\ k <= i
    BY <2>1, <2>4, FindSlotIs DEF found
  <2>6. /\ slots[k].depth = Cardinality(chosen) /\ slots[k].depth \in Nat
        /\ slots[i].depth \in Nat /\ slots[k].depth >= slots[i].depth
    BY <2>1, <2>5 DEF SlotsOk, chosen
  <2>7. IsFiniteSet(ScopeOf(d))
    <3>1. IsFiniteSet(Enclosing(Here))
      BY <2>2, EnclosingSize
    <3> QED  BY <2>3, <3>1, FS_Subset
  <2>8. /\ Cardinality(chosen) <= Cardinality(ScopeOf(d))
        /\ Cardinality(chosen) = Cardinality(ScopeOf(d)) => chosen = ScopeOf(d)
    BY <2>7, FS_Subset
  <2>9. Cardinality(chosen) \in Nat /\ Cardinality(ScopeOf(d)) \in Nat
        /\ Cardinality(chosen) >= Cardinality(ScopeOf(d))
    BY <2>4, <2>6 DEF Size
  <2> QED  BY <2>8, <2>9
<1> QED  BY <1>1, NamesInvariance, PTL

===============================================================================
