----------------------------- MODULE CParserProofs -----------------------------
(***************************************************************************)
(* What the run of CParser checks on a sample of every construct, proved   *)
(* for every source: a NULL in the place of a node always comes with a     *)
(* reported error, and the tree groups operators as their levels say.      *)
(*                                                                         *)
(* Both rest on one invariant of the cursor and the stack (Good).  It only *)
(* speaks of runs without an error: what had_error has been set for may    *)
(* lack anything.  Each frame promises how tight the node it returns binds *)
(* (Out) and relies on what the frame before it returned (In), and a frame *)
(* that is to fill in a member of a node owes it (Owes).                   *)
(***************************************************************************)
EXTENDS CParser, SequenceTheorems, FiniteSetTheorems, WellFoundedInduction, TLAPS

-------------------------------------------------------------------------------
(* Sequences of whatever.                                                  *)
IsSeq(s) == Len(s) \in Nat /\ s = [i \in 1..Len(s) |-> s[i]]

LEMMA SeqIsSeq == ASSUME NEW S, NEW s \in Seq(S) PROVE IsSeq(s)
<1>1. s \in [1..Len(s) -> S] /\ Len(s) \in Nat
  BY LenProperties
<1> QED  BY <1>1 DEF IsSeq

LEMMA SeqOver ==
  ASSUME NEW s, IsSeq(s), NEW S, \A i \in 1..Len(s) : s[i] \in S PROVE s \in Seq(S)
<1>1. s \in [1..Len(s) -> S] /\ Len(s) \in Nat
  BY DEF IsSeq
<1> QED  BY <1>1, SeqDef

LEMMA AppendSeq ==
  ASSUME NEW s, IsSeq(s), NEW x
  PROVE  /\ IsSeq(Append(s, x)) /\ Len(Append(s, x)) = Len(s) + 1
         /\ Append(s, x)[Len(s) + 1] = x
         /\ \A i \in 1..Len(s) : Append(s, x)[i] = s[i]
<1> DEFINE S == {s[i] : i \in 1..Len(s)} \union {x}
<1>1. s \in Seq(S) /\ x \in S
  <2>1. x \in S /\ \A i \in 1..Len(s) : s[i] \in S
    OBVIOUS
  <2> HIDE DEF S
  <2> QED  BY <2>1, SeqOver
<1> HIDE DEF S
<1>2. /\ Append(s, x) \in Seq(S) /\ Len(Append(s, x)) = Len(s) + 1
      /\ \A i \in 1..Len(s) : Append(s, x)[i] = s[i]
      /\ Append(s, x)[Len(s) + 1] = x
  BY <1>1, AppendProperties
<1>3. IsSeq(Append(s, x))
  BY <1>2, SeqIsSeq
<1> QED  BY <1>2, <1>3

LEMMA ConcatSeq ==
  ASSUME NEW s, NEW t, IsSeq(s), IsSeq(t)
  PROVE  /\ IsSeq(s \o t) /\ Len(s \o t) = Len(s) + Len(t)
         /\ \A i \in 1..Len(s) : (s \o t)[i] = s[i]
         /\ \A i \in 1..Len(t) : (s \o t)[Len(s) + i] = t[i]
<1>1. PICK S : s \in Seq(S) /\ t \in Seq(S)
  <2> DEFINE S == {s[i] : i \in 1..Len(s)} \union {t[i] : i \in 1..Len(t)}
  <2>1. (\A i \in 1..Len(s) : s[i] \in S) /\ \A i \in 1..Len(t) : t[i] \in S
    OBVIOUS
  <2> HIDE DEF S
  <2> QED  BY <2>1, SeqOver
<1>2. /\ s \o t \in Seq(S) /\ Len(s \o t) = Len(s) + Len(t)
      /\ \A i \in 1..(Len(s) + Len(t)) :
           (s \o t)[i] = IF i <= Len(s) THEN s[i] ELSE t[i - Len(s)]
  BY <1>1, ConcatProperties
<1>3. Len(s) \in Nat /\ Len(t) \in Nat
  BY <1>1, LenProperties
<1>4. IsSeq(s \o t)
  BY <1>2, SeqIsSeq
<1>5. ASSUME NEW i \in 1..Len(s) PROVE (s \o t)[i] = s[i]
  BY <1>2, <1>3
<1>6. ASSUME NEW i \in 1..Len(t) PROVE (s \o t)[Len(s) + i] = t[i]
  <2>1. Len(s) + i \in 1..(Len(s) + Len(t)) /\ ~(Len(s) + i <= Len(s))
        /\ Len(s) + i - Len(s) = i
    BY <1>3
  <2> HIDE <1>3
  <2> QED  BY <1>2, <2>1
<1> QED  BY <1>2, <1>4, <1>5, <1>6

LEMMA TailSeq ==
  ASSUME NEW s, IsSeq(s), Len(s) # 0
  PROVE  /\ IsSeq(Tail(s)) /\ Len(Tail(s)) = Len(s) - 1 /\ Head(s) = s[1]
         /\ \A i \in 1..(Len(s) - 1) : Tail(s)[i] = s[i + 1]
<1> DEFINE S == {s[i] : i \in 1..Len(s)}
<1>1. s \in Seq(S)
  <2>1. \A i \in 1..Len(s) : s[i] \in S
    OBVIOUS
  <2> HIDE DEF S
  <2> QED  BY <2>1, SeqOver
<1> HIDE DEF S
<1>2. s # <<>> /\ Head(s) = s[1]
  OBVIOUS
<1>3. /\ Tail(s) \in Seq(S) /\ Len(Tail(s)) = Len(s) - 1
      /\ \A i \in 1..Len(Tail(s)) : Tail(s)[i] = s[i + 1]
  BY <1>1, <1>2, HeadTailProperties
<1>4. IsSeq(Tail(s))
  BY <1>3, SeqIsSeq
<1> QED  BY <1>2, <1>3, <1>4

-------------------------------------------------------------------------------
(* The structs of ast.h have the members a node needs.                     *)

Given(type) == DOMAIN Blank(type).at

LEMMA StructsAre ==
  /\ \A t \in {"BINARY_EXPR", "ASSIGNMENT"} : StructOf(t) = "ASTBinaryExpr"
  /\ \A t \in {"NEXUS_FLOW", "NEXUS_PIPE"} : StructOf(t) = "ASTNexusFlow"
  /\ \A t \in {"UNARY_EXPR", "POSTFIX_EXPR"} : StructOf(t) = "ASTUnaryExpr"
  /\ \A t \in {"NEXUS_CAPTURE", "LISTEN"} : StructOf(t) = "ASTNexusCapture"
  /\ StructOf("FUNC_CALL") = "ASTCall" /\ StructOf("MEMBER_ACCESS") = "ASTMemberAccess"
  /\ StructOf("FUNC_DECL") = "ASTFuncDecl" /\ StructOf("LOOP") = "ASTLoop"
  /\ StructOf("DEFER") = "ASTDefer" /\ StructOf("THREAD_BLOCK") = "ASTThreadBlock"
  /\ StructOf("METHOD") = "ASTMethod"
<1>1. \A t \in {"BINARY_EXPR", "ASSIGNMENT"} : StructOf(t) = "ASTBinaryExpr"
  BY DEF StructOf, Allocated
<1>2. \A t \in {"NEXUS_FLOW", "NEXUS_PIPE"} : StructOf(t) = "ASTNexusFlow"
  BY DEF StructOf, Allocated
<1>3. \A t \in {"UNARY_EXPR", "POSTFIX_EXPR"} : StructOf(t) = "ASTUnaryExpr"
  BY DEF StructOf, Allocated
<1>4. \A t \in {"NEXUS_CAPTURE", "LISTEN"} : StructOf(t) = "ASTNexusCapture"
  BY DEF StructOf, Allocated
<1>5. StructOf("FUNC_CALL") = "ASTCall" /\ StructOf("MEMBER_ACCESS") = "ASTMemberAccess"
  BY DEF StructOf, Allocated
<1>6. StructOf("FUNC_DECL") = "ASTFuncDecl" /\ StructOf("LOOP") = "ASTLoop"
  BY DEF StructOf, Allocated
<1>7. StructOf("DEFER") = "ASTDefer" /\ StructOf("THREAD_BLOCK") = "ASTThreadBlock"
  BY DEF StructOf, Allocated
<1>8. StructOf("METHOD") = "ASTMethod"
  BY DEF StructOf, Allocated
<1> QED  BY <1>1, <1>2, <1>3, <1>4, <1>5, <1>6, <1>7, <1>8

OfStruct(s) == {Members[s][i] : i \in DOMAIN Members[s]}

LEMMA GivenIs ==
  ASSUME NEW t, NEW s, StructOf(t) = s PROVE Given(t) = {"line", "next"} \union OfStruct(s)
  BY DEF Blank, Given, OfStruct

LEMMA StructHas ==
  /\ {"op", "left", "right"} \subseteq OfStruct("ASTBinaryExpr")
  /\ {"op", "left", "right"} \subseteq OfStruct("ASTNexusFlow")
  /\ {"op", "operand"} \subseteq OfStruct("ASTUnaryExpr")
  /\ {"expr"} \subseteq OfStruct("ASTNexusCapture")
  /\ {"callee"} \subseteq OfStruct("ASTCall") /\ {"object"} \subseteq OfStruct("ASTMemberAccess")
  /\ {"body"} \subseteq OfStruct("ASTFuncDecl") /\ {"body"} \subseteq OfStruct("ASTLoop")
  /\ {"body"} \subseteq OfStruct("ASTDefer") /\ {"body"} \subseteq OfStruct("ASTThreadBlock")
  /\ {"implementation"} \subseteq OfStruct("ASTMethod")
<1>1. {"op", "left", "right"} \subseteq OfStruct("ASTBinaryExpr")
  BY DEF Members, OfStruct
<1>2. {"op", "left", "right"} \subseteq OfStruct("ASTNexusFlow")
  BY DEF Members, OfStruct
<1>3. {"op", "operand"} \subseteq OfStruct("ASTUnaryExpr")
  BY DEF Members, OfStruct
<1>4. {"expr"} \subseteq OfStruct("ASTNexusCapture")
  BY DEF Members, OfStruct
<1>5. {"callee"} \subseteq OfStruct("ASTCall")
  BY DEF Members, OfStruct
<1>6. {"object"} \subseteq OfStruct("ASTMemberAccess")
  BY DEF Members, OfStruct
<1>7. {"body"} \subseteq OfStruct("ASTFuncDecl")
  BY DEF Members, OfStruct
<1>8. {"body"} \subseteq OfStruct("ASTLoop")
  BY DEF Members, OfStruct
<1>9. {"body"} \subseteq OfStruct("ASTDefer")
  BY DEF Members, OfStruct
<1>10. {"body"} \subseteq OfStruct("ASTThreadBlock")
  BY DEF Members, OfStruct
<1>11. {"implementation"} \subseteq OfStruct("ASTMethod")
  BY DEF Members, OfStruct
<1> QED  BY <1>1, <1>2, <1>3, <1>4, <1>5, <1>6, <1>7, <1>8, <1>9, <1>10, <1>11

LEMMA NeedsGiven ==
  ASSUME NEW type
  PROVE  /\ Needs(type) \subseteq Given(type)
         /\ type = "BINARY_EXPR" => "op" \in Given(type)
<1>1. OfStruct(StructOf(type)) \subseteq Given(type)
  BY GivenIs
<1>2. type = "BINARY_EXPR" => "op" \in Given(type)
  BY <1>1, StructsAre, StructHas
<1>3. CASE type \in {"BINARY_EXPR", "ASSIGNMENT"}
  BY <1>1, <1>2, <1>3, StructsAre, StructHas DEF Needs
<1>4. CASE type \in {"NEXUS_FLOW", "NEXUS_PIPE"}
  BY <1>1, <1>4, StructsAre, StructHas DEF Needs
<1>5. CASE type \in {"UNARY_EXPR", "POSTFIX_EXPR"}
  BY <1>1, <1>5, StructsAre, StructHas DEF Needs
<1>6. CASE type \in {"NEXUS_CAPTURE", "LISTEN"}
  BY <1>1, <1>6, StructsAre, StructHas DEF Needs
<1>7. CASE type \in {"FUNC_CALL", "MEMBER_ACCESS", "METHOD"}
  BY <1>1, <1>7, StructsAre, StructHas DEF Needs
<1>8. CASE type \in {"FUNC_DECL", "LOOP", "DEFER", "THREAD_BLOCK"}
  BY <1>1, <1>8, StructsAre, StructHas DEF Needs
<1>9. CASE type \notin {"BINARY_EXPR", "ASSIGNMENT", "NEXUS_FLOW", "NEXUS_PIPE", "UNARY_EXPR",
                        "POSTFIX_EXPR", "NEXUS_CAPTURE", "LISTEN", "FUNC_CALL",
                        "MEMBER_ACCESS", "METHOD", "FUNC_DECL", "LOOP", "DEFER",
                        "THREAD_BLOCK"}
  BY <1>9 DEF Needs
<1> QED  BY <1>3, <1>4, <1>5, <1>6, <1>7, <1>8, <1>9

-------------------------------------------------------------------------------
(* How tight a node binds, on a cursor, as Rank and Binds on the current   *)
(* one; and that the operands of a node bind as tight as it asks for.      *)

CurFields == {"at", "prev", "ret", "bad", "nodes", "crash", "asm", "parens", "lost"}

IsNode(c, n) == n \in 1..Len(c.nodes)

Operators  == UNION {Binary[l].ops : l \in DOMAIN Binary}
OpRank(op) == 1 + CHOOSE i \in DOMAIN Ranks : op \in Ranks[i]

RankOf(node) ==
  CASE node.type \in {"ASSIGNMENT", "NEXUS_CAPTURE"} -> 0
    [] node.type \in {"NEXUS_FLOW", "NEXUS_PIPE"} -> 1
    [] node.type = "BINARY_EXPR" -> OpRank(node.at["op"])
    [] node.type = "UNARY_EXPR" -> 7
    [] OTHER -> 8

Bound(c, n) == IF n \in c.parens THEN 8 ELSE RankOf(c.nodes[n])

Operands(type) ==
  CASE type \in {"ASSIGNMENT", "BINARY_EXPR", "NEXUS_FLOW", "NEXUS_PIPE"} -> {"left", "right"}
    [] type \in {"UNARY_EXPR", "POSTFIX_EXPR"} -> {"operand"}
    [] OTHER -> {}

(* How tight operand m of a node binds at least.                           *)
Least(node, m) ==
  CASE node.type = "ASSIGNMENT" -> IF m = "left" THEN 1 ELSE 0
    [] node.type \in {"NEXUS_FLOW", "NEXUS_PIPE"} -> 2
    [] node.type = "BINARY_EXPR" ->
         IF m = "left" /\ RankOf(node) # 2 THEN RankOf(node) ELSE RankOf(node) + 1
    [] node.type = "UNARY_EXPR" -> 7
    [] OTHER -> 8

Grouped(c, i) ==
  LET node == c.nodes[i]
  IN  /\ node.type = "BINARY_EXPR" => node.at["op"] \in Operators
      /\ \A m \in Operands(node.type) :
           IsNode(c, node.at[m]) /\ Bound(c, node.at[m]) >= Least(node, m)

LevelOf(m) ==
  CASE m = "range" -> 2 [] m = "equality" -> 3 [] m = "comparison" -> 4
    [] m = "additive" -> 5 [] m = "term" -> 6 [] OTHER -> 0
Levels == {"range", "equality", "comparison", "additive", "term"}

LEMMA LevelsAre ==
  /\ DOMAIN Binary = Levels
  /\ \A m \in Levels : LevelOf(m) \in 2..6 /\ (LevelOf(m) = 2 <=> m = "range")
  /\ \A m \in Levels : \A op \in Binary[m].ops : op \in Operators /\ OpRank(op) = LevelOf(m)
  /\ \A op \in Operators : OpRank(op) \in 2..6
<1>1. DOMAIN Binary = Levels
  BY DEF Binary, Levels
<1>2. \A m \in Levels : LevelOf(m) \in 2..6 /\ (LevelOf(m) = 2 <=> m = "range")
  BY DEF Levels, LevelOf
<1>3. /\ Binary["range"].ops = Ranks[1] /\ Binary["equality"].ops = Ranks[2]
      /\ Binary["comparison"].ops = Ranks[3] /\ Binary["additive"].ops = Ranks[4]
      /\ Binary["term"].ops = Ranks[5]
  BY DEF Binary, Ranks, Level
<1>4. \A m \in Levels : LevelOf(m) - 1 \in 1..5 /\ Binary[m].ops = Ranks[LevelOf(m) - 1]
  BY <1>3 DEF Levels, LevelOf
<1>5. DOMAIN Ranks = 1..5
  BY DEF Ranks
<1>6. \A i, j \in 1..5 : \A op : op \in Ranks[i] /\ op \in Ranks[j] => i = j
  BY DEF Ranks
<1>7. ASSUME NEW i \in 1..5, NEW op \in Ranks[i] PROVE OpRank(op) = 1 + i
  BY <1>5, <1>6, <1>7 DEF OpRank
<1>8. \A m \in Levels : \A op \in Binary[m].ops : op \in Operators /\ OpRank(op) = LevelOf(m)
  <2> TAKE m \in Levels
  <2> TAKE op \in Binary[m].ops
  <2>1. op \in Operators
    BY <1>1 DEF Operators
  <2>2. OpRank(op) = 1 + (LevelOf(m) - 1)
    BY <1>4, <1>7
  <2> QED  BY <1>2, <2>1, <2>2
<1>9. \A op \in Operators : OpRank(op) \in 2..6
  BY <1>1, <1>2, <1>8 DEF Operators
<1> QED  BY <1>1, <1>2, <1>8, <1>9

LEMMA RankIs ==
  ASSUME NEW node, node.type = "BINARY_EXPR" => node.at["op"] \in Operators
  PROVE  RankOf(node) \in 0..8
<1>1. CASE node.type = "BINARY_EXPR"
  <2>1. OpRank(node.at["op"]) \in 2..6
    BY <1>1, LevelsAre
  <2> QED  BY <1>1, <2>1 DEF RankOf
<1>2. CASE node.type # "BINARY_EXPR"
  BY <1>2 DEF RankOf
<1> QED  BY <1>1, <1>2

-------------------------------------------------------------------------------
(* The heap of nodes, and what a function may do to it: it adds nodes, and *)
(* stores members, but never the operands of a node that is made.          *)

Heap(c) ==
  /\ DOMAIN c = CurFields /\ IsSeq(c.nodes)
  /\ \A i \in 1..Len(c.nodes) :
       /\ DOMAIN c.nodes[i] = {"type", "at"}
       /\ DOMAIN c.nodes[i].at = Given(c.nodes[i].type)
       /\ Grouped(c, i)

(* The heap without what its nodes say of operators.                       *)
Shaped(c) ==
  /\ DOMAIN c = CurFields /\ IsSeq(c.nodes)
  /\ \A i \in 1..Len(c.nodes) :
       DOMAIN c.nodes[i] = {"type", "at"} /\ DOMAIN c.nodes[i].at = Given(c.nodes[i].type)

LEMMA HeapShaped == ASSUME NEW c, Heap(c) PROVE Shaped(c)
  BY DEF Heap, Shaped

(* The members that nodes still lack.                                      *)
Lacks(c) == {p \in (1..Len(c.nodes)) \X UNION {Needs(c.nodes[i].type) : i \in 1..Len(c.nodes)} :
               p[2] \in Needs(c.nodes[p[1]].type) /\ c.nodes[p[1]].at[p[2]] = NULL}

(* From cursor b to c, where the members of D are not filled in yet.       *)
Over(b, c, D) ==
  /\ Heap(c) /\ c.crash = b.crash /\ (b.bad => c.bad)
  /\ Len(b.nodes) \in 0..Len(c.nodes)
  /\ \A i \in 1..Len(b.nodes) :
       c.nodes[i].type = b.nodes[i].type /\ Bound(b, i) \in 0..Bound(c, i)
  /\ Lacks(c) \subseteq Lacks(b) \union D

(* What only moves the cursor.                                             *)
Same(b, c) ==
  /\ DOMAIN c = CurFields /\ c.nodes = b.nodes /\ c.ret = b.ret /\ c.parens = b.parens
  /\ c.crash = b.crash /\ (b.bad => c.bad)

(* What keeps the node that was returned, and no node binds otherwise.     *)
Kept(c, d) ==
  /\ d.ret = c.ret /\ (c.bad => d.bad) /\ Len(d.nodes) = Len(c.nodes)
  /\ \A n : IsNode(c, n) => d.nodes[n].type = c.nodes[n].type /\ Bound(d, n) = Bound(c, n)

LEMMA SameKept == ASSUME NEW c, NEW d, Same(c, d) PROVE Kept(c, d)
  BY DEF Same, Kept, Bound

LEMMA KeptOn == ASSUME NEW b, NEW c, NEW d, Kept(b, c), Kept(c, d) PROVE Kept(b, d)
  BY DEF Kept, IsNode

LEMMA SameSelf == ASSUME NEW c, DOMAIN c = CurFields PROVE Same(c, c)
  BY DEF Same

LEMMA SameAdv == ASSUME NEW b, NEW c, Same(b, c) PROVE Same(b, Adv(c))
  BY DEF Same, Adv, CurFields

LEMMA SameFails == ASSUME NEW b, NEW c, Same(b, c) PROVE Same(b, Fails(c)) /\ Fails(c).bad
  BY DEF Same, Fails, CurFields

LEMMA SameLose == ASSUME NEW b, NEW c, Same(b, c), NEW why PROVE Same(b, Lose(c, why))
  BY DEF Same, Lose, CurFields

LEMMA SameConsume == ASSUME NEW b, NEW c, Same(b, c), NEW t PROVE Same(b, Consume(c, t))
  BY SameAdv, SameFails DEF Consume

LEMMA SameMatch == ASSUME NEW b, NEW c, Same(b, c), NEW t PROVE Same(b, Match(c, t))
  BY SameAdv DEF Match

LEMMA SameSkip == ASSUME NEW b, NEW c, Same(b, c), NEW why PROVE Same(b, Skip(c, why))
  BY SameAdv, SameLose DEF Skip

LEMMA BoundIs ==
  ASSUME NEW c, Heap(c), NEW n, IsNode(c, n) PROVE Bound(c, n) \in 0..8
<1>1. c.nodes[n].type = "BINARY_EXPR" => c.nodes[n].at["op"] \in Operators
  BY DEF Heap, Grouped, IsNode
<1>2. RankOf(c.nodes[n]) \in 0..8
  BY <1>1, RankIs
<1> QED  BY <1>2 DEF Bound

(* A node stays grouped as long as its operands stay and bind no less.     *)
LEMMA GroupedStays ==
  ASSUME NEW c, NEW d, NEW i, NEW j, Grouped(c, i), d.nodes[j].type = c.nodes[i].type,
         \A m \in Operands(c.nodes[i].type) : d.nodes[j].at[m] = c.nodes[i].at[m],
         c.nodes[i].type = "BINARY_EXPR" => d.nodes[j].at["op"] = c.nodes[i].at["op"],
         Heap(c), \A n : IsNode(d, n) => Bound(d, n) \in Nat,
         \A n : IsNode(c, n) => IsNode(d, n) /\ Bound(d, n) >= Bound(c, n)
  PROVE  Grouped(d, j)
<1> DEFINE x == c.nodes[i]
           y == d.nodes[j]
<1>1. x.type = y.type /\ (x.type = "BINARY_EXPR" => x.at["op"] \in Operators)
  BY DEF Grouped
<1>2. RankOf(x) = RankOf(y) /\ RankOf(x) \in 0..8
  <2>1. RankOf(x) = RankOf(y)
    BY <1>1 DEF RankOf
  <2> QED  BY <1>1, <2>1, RankIs
<1>3. ASSUME NEW m \in Operands(y.type)
      PROVE  IsNode(d, y.at[m]) /\ Bound(d, y.at[m]) >= Least(y, m)
  <2>1. y.at[m] = x.at[m] /\ IsNode(c, x.at[m]) /\ Bound(c, x.at[m]) >= Least(x, m)
    BY <1>1 DEF Grouped
  <2>2. Least(x, m) = Least(y, m) /\ Least(x, m) \in Nat
    <3>1. Least(x, m) = Least(y, m)
      BY <1>1, <1>2 DEF Least
    <3>2. Least(x, m) \in Nat
      BY <1>2 DEF Least
    <3> QED  BY <3>1, <3>2
  <2>3. Bound(c, x.at[m]) \in Nat
    BY <2>1, BoundIs
  <2>4. IsNode(d, x.at[m]) /\ Bound(d, x.at[m]) >= Bound(c, x.at[m]) /\ Bound(d, x.at[m]) \in Nat
    BY <2>1
  <2> HIDE DEF x, y
  <2> QED  BY <2>1, <2>2, <2>3, <2>4
<1> QED  BY <1>1, <1>3 DEF Grouped

LEMMA OverSelf == ASSUME NEW c, Heap(c) PROVE Over(c, c, {})
<1>1. \A i \in 1..Len(c.nodes) : Bound(c, i) \in 0..Bound(c, i)
  BY BoundIs DEF IsNode
<1>2. Len(c.nodes) \in 0..Len(c.nodes)
  BY DEF Heap, IsSeq
<1> QED  BY <1>1, <1>2 DEF Over

(* What only differs in fields that the heap has no part in.               *)
LEMMA OverLike ==
  ASSUME NEW b, NEW c, NEW D, Over(b, c, D), NEW d, DOMAIN d = CurFields,
         d.nodes = c.nodes, d.parens = c.parens, d.crash = c.crash, c.bad => d.bad
  PROVE  Over(b, d, D)
<1>1. \A n : (IsNode(d, n) <=> IsNode(c, n)) /\ Bound(d, n) = Bound(c, n)
  BY DEF IsNode, Bound
<1>2. \A i : Grouped(d, i) <=> Grouped(c, i)
  BY <1>1 DEF Grouped
<1>3. Lacks(d) = Lacks(c)
  BY DEF Lacks
<1>4. Heap(d)
  BY <1>2 DEF Heap, Over
<1> QED  BY <1>1, <1>3, <1>4 DEF Over

LEMMA OverSame ==
  ASSUME NEW b, NEW c, NEW D, Over(b, c, D), NEW d, Same(c, d) PROVE Over(b, d, D)
  BY OverLike DEF Same

LEMMA OverRet ==
  ASSUME NEW b, NEW c, NEW D, Over(b, c, D), NEW x
  PROVE  Over(b, [c EXCEPT !.ret = x], D)
<1> DEFINE d == [c EXCEPT !.ret = x]
<1>1. DOMAIN d = CurFields /\ d.nodes = c.nodes /\ d.parens = c.parens /\ d.crash = c.crash
      /\ (c.bad => d.bad)
  BY DEF Over, Heap, CurFields
<1> HIDE DEF d
<1>2. Over(b, d, D)
  BY <1>1, OverLike
<1> QED  BY <1>2 DEF d

-------------------------------------------------------------------------------
(* A new node, whose operands bind as it asks for; it may lack what is not *)
(* among its members.                                                      *)

Node(type, members) == [type |-> type, at |-> members]
Missing(n, type, members) ==
  {<<n, m>> : m \in {x \in Needs(type) : x \notin DOMAIN members \/ members[x] = NULL}}

(* d is c with a node of a type more, which it returns.                    *)
IsMade(c, type, members, d) ==
  LET n == Len(c.nodes) + 1
  IN  /\ DOMAIN d = CurFields /\ d.crash = c.crash /\ d.bad = c.bad /\ d.parens = c.parens
      /\ IsSeq(d.nodes) /\ Len(d.nodes) = n /\ d.ret = n
      /\ \A i \in 1..Len(c.nodes) : d.nodes[i] = c.nodes[i]
      /\ DOMAIN d.nodes[n] = {"type", "at"} /\ d.nodes[n].type = type
      /\ DOMAIN d.nodes[n].at = Given(type)
      /\ \A m \in Given(type) :
           d.nodes[n].at[m] = IF m \in DOMAIN members THEN members[m] ELSE Blank(type).at[m]

LEMMA MakeIs ==
  ASSUME NEW c, Shaped(c), NEW type, NEW members
  PROVE  IsMade(c, type, members, Make(c, type, members))
<1> DEFINE d == Make(c, type, members)
           n == Len(c.nodes) + 1
<1> DEFINE b == Blank(type).at
           x == [type |-> type,
                 at |-> [m \in DOMAIN b |-> IF m \in DOMAIN members THEN members[m] ELSE b[m]]]
<1>1. d = [c EXCEPT !.ret = n, !.nodes = Append(c.nodes, x)]
  BY DEF Make
<1>2. /\ DOMAIN x = {"type", "at"} /\ x.type = type /\ DOMAIN x.at = Given(type)
      /\ \A m \in Given(type) :
           x.at[m] = IF m \in DOMAIN members THEN members[m] ELSE b[m]
  BY DEF Given
<1>3. DOMAIN d = CurFields /\ d.crash = c.crash /\ d.bad = c.bad /\ d.parens = c.parens
      /\ d.ret = n /\ d.nodes = Append(c.nodes, x)
  <2> HIDE DEF d, x, n
  <2> QED  BY <1>1 DEF Shaped, CurFields
<1>4. /\ IsSeq(Append(c.nodes, x)) /\ Len(Append(c.nodes, x)) = n
      /\ Append(c.nodes, x)[n] = x
      /\ \A i \in 1..Len(c.nodes) : Append(c.nodes, x)[i] = c.nodes[i]
  <2> HIDE DEF x
  <2> QED  BY AppendSeq DEF Shaped
<1> SUFFICES IsMade(c, type, members, d)
  OBVIOUS
<1> HIDE DEF d, x
<1> QED  BY <1>2, <1>3, <1>4 DEF IsMade

(* From c to d a node is added, and returned.                              *)
Makes(c, d, type, members) ==
  /\ d.ret = Len(c.nodes) + 1 /\ d.ret # NULL /\ IsNode(d, d.ret) /\ d.bad = c.bad
  /\ d.nodes[d.ret].type = type /\ Bound(d, d.ret) >= RankOf(Node(type, members))

LEMMA OverMake ==
  ASSUME NEW b, NEW c, NEW D, Over(b, c, D), NEW type, NEW members,
         type = "BINARY_EXPR" => "op" \in DOMAIN members /\ members["op"] \in Operators,
         \A m \in Operands(type) :
           /\ m \in DOMAIN members /\ IsNode(c, members[m])
           /\ Bound(c, members[m]) >= Least(Node(type, members), m)
  PROVE  /\ Over(b, Make(c, type, members), D \union Missing(Len(c.nodes) + 1, type, members))
         /\ Makes(c, Make(c, type, members), type, members)
<1> DEFINE d == Make(c, type, members)
           n == Len(c.nodes) + 1
<1> SUFFICES Over(b, d, D \union Missing(n, type, members)) /\ Makes(c, d, type, members)
  OBVIOUS
<1>0. Heap(c) /\ Len(c.nodes) \in Nat
  BY DEF Over, Heap, IsSeq
<1>1. /\ DOMAIN d = CurFields /\ d.crash = c.crash /\ d.bad = c.bad /\ d.parens = c.parens
      /\ IsSeq(d.nodes) /\ Len(d.nodes) = n /\ d.ret = n
      /\ \A i \in 1..Len(c.nodes) : d.nodes[i] = c.nodes[i]
      /\ DOMAIN d.nodes[n] = {"type", "at"} /\ d.nodes[n].type = type
      /\ DOMAIN d.nodes[n].at = Given(type)
      /\ \A m \in Given(type) :
           d.nodes[n].at[m] = IF m \in DOMAIN members THEN members[m] ELSE Blank(type).at[m]
  <2>1. IsMade(c, type, members, d)
    BY <1>0, HeapShaped, MakeIs
  <2> HIDE DEF d
  <2> QED  BY <2>1 DEF IsMade
<1> HIDE DEF d
<1>2. n \in 1..n /\ IsNode(d, n) /\ n # NULL
      /\ \A i : IsNode(d, i) <=> (IsNode(c, i) \/ i = n)
  BY <1>0, <1>1 DEF IsNode, NULL
<1>3. \A i : IsNode(c, i) => d.nodes[i] = c.nodes[i] /\ Bound(d, i) = Bound(c, i)
                            /\ Bound(c, i) \in 0..8
  BY <1>0, <1>1, BoundIs DEF IsNode, Bound
<1>4. Operands(type) \subseteq Given(type)
  <2>1. Operands(type) \subseteq Needs(type)
    BY DEF Operands, Needs
  <2> QED  BY <2>1, NeedsGiven
<1> DEFINE x == Node(type, members)
           y == d.nodes[n]
<1>5. x.type = type /\ x.at = members
  BY DEF Node
<1>6. type = "BINARY_EXPR" => y.at["op"] = x.at["op"] /\ y.at["op"] \in Operators
  BY <1>1, <1>5, NeedsGiven
<1>7. RankOf(y) = RankOf(x) /\ RankOf(x) \in 0..8
  <2>1. RankOf(y) = RankOf(x)
    BY <1>1, <1>5, <1>6 DEF RankOf
  <2>2. RankOf(x) \in 0..8
    BY <1>5, <1>6, RankIs
  <2> QED  BY <2>1, <2>2
<1>8. Bound(d, n) \in 0..8 /\ Bound(d, n) >= RankOf(x)
  BY <1>7 DEF Bound
<1>9. \A i : IsNode(d, i) => Bound(d, i) \in Nat
  BY <1>2, <1>3, <1>8
<1>10. Grouped(d, n)
  <2>1. ASSUME NEW m \in Operands(type)
        PROVE  IsNode(d, y.at[m]) /\ Bound(d, y.at[m]) >= Least(y, m)
    <3>1. y.at[m] = members[m] /\ IsNode(c, members[m])
      BY <1>1, <1>4
    <3>2. Least(x, m) = Least(y, m)
      BY <1>1, <1>5, <1>7 DEF Least
    <3> HIDE DEF x, y
    <3>3. Bound(c, members[m]) >= Least(x, m)
      BY DEF x
    <3> QED  BY <1>2, <1>3, <3>1, <3>2, <3>3
  <2> QED  BY <1>1, <1>6, <2>1 DEF Grouped
<1>11. ASSUME NEW i \in 1..Len(c.nodes) PROVE Grouped(d, i)
  <2>1. Grouped(c, i) /\ d.nodes[i] = c.nodes[i]
    BY <1>0, <1>1 DEF Heap
  <2>2. \A k : IsNode(c, k) => IsNode(d, k) /\ Bound(d, k) >= Bound(c, k)
    BY <1>2, <1>3
  <2> HIDE DEF x, y
  <2> QED  BY <1>0, <1>9, <2>1, <2>2, GroupedStays
<1>12. Heap(d)
  <2>1. ASSUME NEW i \in 1..Len(d.nodes)
        PROVE  /\ DOMAIN d.nodes[i] = {"type", "at"}
               /\ DOMAIN d.nodes[i].at = Given(d.nodes[i].type)
               /\ Grouped(d, i)
    <3>1. CASE i = n
      BY <1>1, <1>10, <3>1
    <3>2. CASE i # n
      <4>1. i \in 1..Len(c.nodes)
        BY <1>0, <1>1, <3>2
      <4> QED  BY <1>0, <1>1, <1>11, <4>1 DEF Heap
    <3> QED  BY <3>1, <3>2
  <2> QED  BY <1>1, <2>1 DEF Heap
<1>13. Lacks(d) \subseteq Lacks(c) \union Missing(n, type, members)
  <2> SUFFICES ASSUME NEW p \in Lacks(d) PROVE p \in Lacks(c) \union Missing(n, type, members)
    OBVIOUS
  <2>1. PICK i, m : p = <<i, m>> /\ i \in 1..Len(d.nodes) /\ m \in Needs(d.nodes[i].type)
                    /\ d.nodes[i].at[m] = NULL
    BY DEF Lacks
  <2>2. CASE i = n
    <3>1. m \in Needs(type) /\ m \in Given(type)
      BY <1>1, <2>1, <2>2, NeedsGiven
    <3>2. m \notin DOMAIN members \/ members[m] = NULL
      BY <1>1, <2>1, <2>2, <3>1
    <3> QED  BY <2>1, <2>2, <3>1, <3>2 DEF Missing
  <2>3. CASE i # n
    <3>1. i \in 1..Len(c.nodes) /\ d.nodes[i] = c.nodes[i]
      BY <1>0, <1>1, <2>1, <2>3
    <3> QED  BY <2>1, <3>1 DEF Lacks
  <2> QED  BY <2>2, <2>3
<1>14. ASSUME NEW i \in 1..Len(b.nodes)
       PROVE  d.nodes[i].type = b.nodes[i].type /\ Bound(b, i) \in 0..Bound(d, i)
  <2>1. IsNode(c, i) /\ c.nodes[i].type = b.nodes[i].type /\ Bound(b, i) \in 0..Bound(c, i)
    BY <1>0 DEF Over, IsNode
  <2> QED  BY <1>3, <2>1
<1>15. Len(b.nodes) \in 0..Len(d.nodes)
  <2>1. Len(b.nodes) \in 0..Len(c.nodes)
    BY DEF Over
  <2> QED  BY <1>0, <1>1, <2>1
<1> QED  BY <1>1, <1>2, <1>8, <1>12, <1>13, <1>14, <1>15 DEF Over, Makes

-------------------------------------------------------------------------------
(* A store into a member that is no operand.                               *)

IsPut(c, n, m, v, d) ==
  /\ DOMAIN d = CurFields /\ d.crash = c.crash /\ d.bad = c.bad /\ d.parens = c.parens
  /\ d.ret = c.ret /\ IsSeq(d.nodes) /\ Len(d.nodes) = Len(c.nodes)
  /\ \A i \in 1..Len(c.nodes) :
       /\ DOMAIN d.nodes[i] = {"type", "at"} /\ d.nodes[i].type = c.nodes[i].type
       /\ DOMAIN d.nodes[i].at = DOMAIN c.nodes[i].at
       /\ \A k \in DOMAIN c.nodes[i].at :
            d.nodes[i].at[k] = IF i = n /\ k = m THEN v ELSE c.nodes[i].at[k]

LEMMA LoseIs ==
  ASSUME NEW c, DOMAIN c = CurFields, NEW why
  PROVE  LET d == Lose(c, why)
         IN  /\ DOMAIN d = CurFields /\ d.nodes = c.nodes /\ d.ret = c.ret /\ d.bad = c.bad
             /\ d.parens = c.parens /\ d.crash = c.crash
  BY DEF Lose, CurFields

LEMMA PutIs ==
  ASSUME NEW c, Shaped(c), NEW n, NEW m, NEW v
  PROVE  IsPut(c, n, m, v, Put(c, n, m, v))
<1> DEFINE at == c.nodes[n].at
           node == [c.nodes[n] EXCEPT !.at = [@ EXCEPT ![m] = v]]
           nodes == [c.nodes EXCEPT ![n] = node]
           e == [c EXCEPT !.nodes[n].at[m] = v]
           d == IF m \in DOMAIN at THEN e ELSE c
<1>0. /\ DOMAIN c = CurFields /\ Len(c.nodes) \in Nat /\ IsSeq(c.nodes)
      /\ DOMAIN c.nodes = 1..Len(c.nodes)
      /\ \A i \in 1..Len(c.nodes) : DOMAIN c.nodes[i] = {"type", "at"}
  BY DEF Shaped, IsSeq
<1>1. DOMAIN e = CurFields /\ e.nodes = nodes /\ e.ret = c.ret /\ e.bad = c.bad
      /\ e.parens = c.parens /\ e.crash = c.crash
  BY <1>0 DEF CurFields
<1>2. /\ IsSeq(nodes) /\ Len(nodes) = Len(c.nodes)
      /\ \A i \in 1..Len(c.nodes) : nodes[i] = IF i = n THEN node ELSE c.nodes[i]
  <2>1. nodes = [i \in 1..Len(c.nodes) |-> IF i = n THEN node ELSE c.nodes[i]]
    BY <1>0
  <2> HIDE DEF nodes, node
  <2>2. nodes \in Seq({IF i = n THEN node ELSE c.nodes[i] : i \in 1..Len(c.nodes)})
    <3> DEFINE S == {IF i = n THEN node ELSE c.nodes[i] : i \in 1..Len(c.nodes)}
    <3>1. nodes \in [1..Len(c.nodes) -> S]
      BY <2>1
    <3> HIDE DEF S
    <3>2. nodes \in Seq(S)
      BY <1>0, <3>1, SeqDef
    <3> QED  BY <3>2 DEF S
  <2>3. DOMAIN nodes = 1..Len(c.nodes)
    BY <2>1
  <2>4. Len(nodes) = Len(c.nodes)
    BY <1>0, <2>2, <2>3, LenProperties
  <2> QED  BY <2>1, <2>2, <2>4, SeqIsSeq
<1>3. n \in 1..Len(c.nodes) =>
        /\ DOMAIN node = {"type", "at"} /\ node.type = c.nodes[n].type /\ DOMAIN node.at = DOMAIN at
        /\ \A k \in DOMAIN at : node.at[k] = IF k = m THEN v ELSE at[k]
  BY <1>0
<1>4. IsPut(c, n, m, v, e)
  <2> SUFFICES ASSUME NEW i \in 1..Len(c.nodes)
               PROVE  /\ DOMAIN nodes[i] = {"type", "at"} /\ nodes[i].type = c.nodes[i].type
                      /\ DOMAIN nodes[i].at = DOMAIN c.nodes[i].at
                      /\ \A k \in DOMAIN c.nodes[i].at :
                           nodes[i].at[k] = IF i = n /\ k = m THEN v ELSE c.nodes[i].at[k]
    <3> HIDE DEF e, nodes
    <3> QED  BY <1>0, <1>1, <1>2 DEF IsPut
  <2>1. CASE i = n
    <3> HIDE DEF node, nodes
    <3> QED  BY <1>2, <1>3, <2>1
  <2>2. CASE i # n
    <3> HIDE DEF node, nodes
    <3> QED  BY <1>0, <1>2, <2>2
  <2> QED  BY <2>1, <2>2
<1>5. IsPut(c, n, m, v, d)
  <2>1. CASE m \in DOMAIN at
    <3> HIDE DEF e
    <3> QED  BY <1>4, <2>1
  <2>2. CASE m \notin DOMAIN at
    <3>1. \A i \in 1..Len(c.nodes) : \A k \in DOMAIN c.nodes[i].at : ~(i = n /\ k = m)
      BY <2>2
    <3>2. IsPut(c, n, m, v, c)
      BY <1>0, <3>1 DEF IsPut
    <3> QED  BY <2>2, <3>2
  <2> QED  BY <2>1, <2>2
<1>6. Put(c, n, m, v) = d \/ Put(c, n, m, v) = Lose(d, m)
  BY DEF Put
<1> HIDE DEF d, e
<1>7. IsPut(c, n, m, v, Lose(d, m))
  <2>1. DOMAIN d = CurFields
    BY <1>5 DEF IsPut
  <2>2. LET f == Lose(d, m)
        IN  /\ DOMAIN f = CurFields /\ f.nodes = d.nodes /\ f.ret = d.ret /\ f.bad = d.bad
            /\ f.parens = d.parens /\ f.crash = d.crash
    BY <2>1, LoseIs
  <2> QED  BY <1>5, <2>2 DEF IsPut
<1> QED  BY <1>5, <1>6, <1>7

LEMMA OverPut ==
  ASSUME NEW b, NEW c, NEW D, Over(b, c, D), NEW n, NEW m, NEW v,
         m \notin {"left", "right", "op"},
         m = "operand" => c.nodes[n].type \in {"RETURN", "CAST"},
         m \in Needs(c.nodes[n].type) => v # NULL
  PROVE  /\ Over(b, Put(c, n, m, v), D) /\ Kept(c, Put(c, n, m, v))
         /\ v # NULL => <<n, m>> \notin Lacks(Put(c, n, m, v))
<1> DEFINE d == Put(c, n, m, v)
<1>0. Heap(c) /\ Len(c.nodes) \in Nat
  BY DEF Over, Heap, IsSeq
<1>1. IsPut(c, n, m, v, d)
  BY <1>0, HeapShaped, PutIs
<1> SUFFICES Over(b, d, D) /\ Kept(c, d) /\ (v # NULL => <<n, m>> \notin Lacks(d))
  OBVIOUS
<1> HIDE DEF d
<1>2. /\ DOMAIN d = CurFields /\ d.crash = c.crash /\ d.bad = c.bad /\ d.parens = c.parens
      /\ d.ret = c.ret /\ IsSeq(d.nodes) /\ Len(d.nodes) = Len(c.nodes)
      /\ \A i \in 1..Len(c.nodes) :
           /\ DOMAIN d.nodes[i] = {"type", "at"} /\ d.nodes[i].type = c.nodes[i].type
           /\ DOMAIN d.nodes[i].at = DOMAIN c.nodes[i].at
           /\ \A k \in DOMAIN c.nodes[i].at :
                d.nodes[i].at[k] = IF i = n /\ k = m THEN v ELSE c.nodes[i].at[k]
  BY <1>1 DEF IsPut
<1>3. ASSUME NEW i \in 1..Len(c.nodes)
      PROVE  /\ DOMAIN c.nodes[i].at = Given(c.nodes[i].type) /\ Grouped(c, i)
             /\ Needs(c.nodes[i].type) \subseteq DOMAIN c.nodes[i].at
             /\ Operands(c.nodes[i].type) \subseteq DOMAIN c.nodes[i].at
             /\ c.nodes[i].type = "BINARY_EXPR" => "op" \in DOMAIN c.nodes[i].at
  <2>1. DOMAIN c.nodes[i].at = Given(c.nodes[i].type) /\ Grouped(c, i)
    BY <1>0 DEF Heap
  <2>2. \A t : Operands(t) \subseteq Needs(t)
    BY DEF Operands, Needs
  <2> QED  BY <2>1, <2>2, NeedsGiven
<1>4. ASSUME NEW i \in 1..Len(c.nodes)
      PROVE  /\ \A k \in Operands(c.nodes[i].type) : d.nodes[i].at[k] = c.nodes[i].at[k]
             /\ c.nodes[i].type = "BINARY_EXPR" => d.nodes[i].at["op"] = c.nodes[i].at["op"]
  <2>1. ASSUME NEW k \in Operands(c.nodes[i].type) PROVE ~(i = n /\ k = m)
    BY <2>1 DEF Operands
  <2> QED  BY <1>2, <1>3, <2>1
<1>5. ASSUME NEW i, IsNode(c, i) PROVE RankOf(d.nodes[i]) = RankOf(c.nodes[i])
  <2>1. d.nodes[i].type = c.nodes[i].type
    BY <1>2, <1>5 DEF IsNode
  <2>2. c.nodes[i].type = "BINARY_EXPR" => d.nodes[i].at["op"] = c.nodes[i].at["op"]
    BY <1>4, <1>5 DEF IsNode
  <2> QED  BY <2>1, <2>2 DEF RankOf
<1>6. \A i : (IsNode(d, i) <=> IsNode(c, i))
             /\ (IsNode(c, i) => Bound(d, i) = Bound(c, i) /\ Bound(c, i) \in 0..8)
  BY <1>0, <1>2, <1>5, BoundIs DEF IsNode, Bound
<1>7. ASSUME NEW i \in 1..Len(c.nodes) PROVE Grouped(d, i)
  <2>1. (\A k : IsNode(c, k) => IsNode(d, k) /\ Bound(d, k) >= Bound(c, k))
        /\ \A k : IsNode(d, k) => Bound(d, k) \in Nat
    BY <1>6
  <2>2. Grouped(c, i) /\ d.nodes[i].type = c.nodes[i].type
    BY <1>2, <1>3
  <2> QED  BY <1>0, <1>4, <2>1, <2>2, GroupedStays
<1>8. Heap(d)
  BY <1>2, <1>3, <1>7 DEF Heap
<1>9. ASSUME NEW p \in Lacks(d)
      PROVE  p \in Lacks(c) /\ ~(v # NULL /\ p = <<n, m>>)
  <2>1. PICK i, k : p = <<i, k>> /\ i \in 1..Len(d.nodes) /\ k \in Needs(d.nodes[i].type)
                    /\ d.nodes[i].at[k] = NULL
    BY <1>9 DEF Lacks
  <2>2. i \in 1..Len(c.nodes) /\ k \in Needs(c.nodes[i].type) /\ k \in DOMAIN c.nodes[i].at
    BY <1>2, <1>3, <2>1
  <2>3. ~(i = n /\ k = m)
    BY <1>2, <2>1, <2>2
  <2>4. c.nodes[i].at[k] = NULL
    BY <1>2, <2>1, <2>2, <2>3
  <2> QED  BY <2>1, <2>2, <2>3, <2>4 DEF Lacks
<1>10. Over(b, d, D)
  <2>1. Len(b.nodes) \in 0..Len(d.nodes) /\ \A i \in 1..Len(b.nodes) :
          d.nodes[i].type = b.nodes[i].type /\ Bound(b, i) \in 0..Bound(d, i)
    <3>1. Len(b.nodes) \in 0..Len(c.nodes)
      BY DEF Over
    <3>2. \A i \in 1..Len(b.nodes) : i \in 1..Len(c.nodes)
      BY <1>0, <3>1
    <3> QED  BY <1>2, <1>6, <3>1, <3>2 DEF Over, IsNode
  <2> QED  BY <1>2, <1>8, <1>9, <2>1 DEF Over
<1>11. Kept(c, d)
  BY <1>2, <1>6 DEF Kept, IsNode
<1> QED  BY <1>9, <1>10, <1>11

LEMMA OverLink ==
  ASSUME NEW b, NEW c, NEW D, Over(b, c, D), NEW f, NEW x
  PROVE  Over(b, LinkNode(c, f, x), D) /\ Kept(c, LinkNode(c, f, x))
<1>1. \A type : "next" \notin Needs(type)
  BY DEF Needs
<1>2. CASE f.head = NULL
  <2>1. Kept(c, c)
    BY DEF Kept
  <2> QED  BY <1>2, <2>1 DEF LinkNode
<1>3. CASE f.head # NULL
  <2>1. "next" \notin {"left", "right", "op"} /\ "next" # "operand"
        /\ "next" \notin Needs(c.nodes[f.tail].type)
    BY <1>1
  <2>2. Over(b, Put(c, f.tail, "next", x), D) /\ Kept(c, Put(c, f.tail, "next", x))
    BY <2>1, OverPut
  <2> QED  BY <1>3, <2>2 DEF LinkNode
<1> QED  BY <1>2, <1>3

(* The node last returned is put in parentheses.                           *)
LEMMA OverParen ==
  ASSUME NEW b, NEW c, NEW D, Over(b, c, D), IsNode(c, c.ret)
  PROVE  LET d == [c EXCEPT !.parens = @ \union {c.ret}]
         IN  Over(b, d, D) /\ d.ret = c.ret /\ d.bad = c.bad /\ Bound(d, c.ret) = 8
             /\ d.nodes = c.nodes
<1> DEFINE d == [c EXCEPT !.parens = @ \union {c.ret}]
<1>0. Heap(c) /\ Len(c.nodes) \in Nat
  BY DEF Over, Heap, IsSeq
<1>1. DOMAIN d = CurFields /\ d.nodes = c.nodes /\ d.crash = c.crash /\ d.bad = c.bad
      /\ d.ret = c.ret /\ d.parens = c.parens \union {c.ret}
  BY <1>0 DEF Heap, CurFields
<1> SUFFICES Over(b, d, D) /\ Bound(d, c.ret) = 8
  BY <1>1
<1> HIDE DEF d
<1>2. \A n : (IsNode(d, n) <=> IsNode(c, n))
             /\ (IsNode(c, n) => Bound(d, n) >= Bound(c, n) /\ Bound(d, n) \in 0..8)
  <2>1. \A n : IsNode(c, n) => Bound(c, n) \in 0..8
    BY <1>0, BoundIs
  <2> QED  BY <1>1, <2>1 DEF IsNode, Bound
<1>3. ASSUME NEW i \in 1..Len(c.nodes) PROVE Grouped(d, i)
  <2>1. (\A k : IsNode(c, k) => IsNode(d, k) /\ Bound(d, k) >= Bound(c, k))
        /\ \A k : IsNode(d, k) => Bound(d, k) \in Nat
    BY <1>2
  <2>2. Grouped(c, i)
    BY <1>0 DEF Heap
  <2> QED  BY <1>0, <1>1, <2>1, <2>2, GroupedStays
<1>4. Heap(d)
  BY <1>0, <1>1, <1>3 DEF Heap
<1>5. Lacks(d) = Lacks(c)
  BY <1>1 DEF Lacks
<1>6. ASSUME NEW i \in 1..Len(b.nodes)
      PROVE  d.nodes[i].type = b.nodes[i].type /\ Bound(b, i) \in 0..Bound(d, i)
  <2>1. IsNode(c, i) /\ Bound(b, i) \in 0..Bound(c, i) /\ d.nodes[i].type = b.nodes[i].type
    BY <1>0, <1>1 DEF Over, IsNode
  <2>2. Bound(d, i) >= Bound(c, i) /\ Bound(d, i) \in 0..8 /\ Bound(c, i) \in 0..8
    BY <1>0, <1>2, <2>1, BoundIs
  <2> QED  BY <2>1, <2>2
<1>7. Bound(d, c.ret) = 8
  BY <1>1 DEF Bound
<1> QED  BY <1>1, <1>4, <1>5, <1>6, <1>7 DEF Over

-------------------------------------------------------------------------------
(* What a frame relies on.  In is how tight the node binds that it goes on *)
(* with, Out how tight the one it returns binds, Owes the members that it  *)
(* will fill in.                                                           *)

FrameFields == {"fn", "n", "m", "op", "head", "tail"}

LeftIn(m) == IF m = "range" THEN 3 ELSE LevelOf(m)

In(f) ==
  CASE f.fn \in {"assign", "flowend"} -> 1
    [] f.fn \in {"flowop", "flowright"} -> 2
    [] f.fn = "left" -> LeftIn(f.m)
    [] f.fn = "right" -> LevelOf(f.m) + 1
    [] f.fn = "unaryrest" -> 7
    [] f.fn = "postfixrest" -> 8
    [] OTHER -> 0

Whole == {"postfix", "postfixrest", "primary", "paren", "brace", "tuple", "function",
          "funcrest", "lambda", "loopkind", "loopbody"}

Out(c, f) ==
  CASE f.fn \in {"flow", "flowop", "flowright", "flowend"} -> 1
    [] f.fn \in Levels -> LevelOf(f.fn)
    [] f.fn \in {"left", "right"} -> LevelOf(f.m)
    [] f.fn \in {"unary", "unaryrest"} -> 7
    [] f.fn \in Whole -> 8
    [] f.fn = "link" -> IF f.op = "tuple" THEN 8 ELSE 0
    [] f.fn \in {"set", "give"} -> Bound(c, f.n)
    [] OTHER -> 0

Owes(f) ==
  CASE f.fn = "set" -> {<<f.n, f.m>>}
    [] f.fn \in {"funcrest", "lambda", "loopkind", "loopbody"} -> {<<f.n, "body">>}
    [] OTHER -> {}

(* Frames that hold a node, and frames that make a list.                   *)
Holds == {"set", "give", "right", "flowright", "assigned", "loopkind", "loopbody", "init",
          "tuple", "fields", "variants", "plainvariants", "statements", "members", "cname",
          "funcrest", "lambda", "unwrap"}
Lists == {"tuple", "fields", "variants", "plainvariants", "statements", "members", "program"}

FrameOk(c, f) ==
  /\ DOMAIN f = FrameFields
  /\ f.fn \in Holds \/ (f.fn = "link" /\ f.op \in Holds) => IsNode(c, f.n)
  /\ f.fn = "link" => f.op \in Lists
  /\ f.fn = "tuple" \/ (f.fn = "link" /\ f.op = "tuple") => c.nodes[f.n].type = "TUPLE"
  /\ f.fn \in {"loopkind", "loopbody"} => c.nodes[f.n].type = "LOOP"
  /\ f.fn \in {"funcrest", "lambda"} => c.nodes[f.n].type = "FUNC_DECL"
  /\ f.fn = "set" => /\ f.m \notin {"left", "right", "op"}
                     /\ f.m = "operand" => c.nodes[f.n].type = "RETURN"
  /\ f.fn = "params" => f.m \in {"params", "data"}
  /\ f.fn = "args" =>
       /\ f.m = "args" \/ (f.m = "operand" /\ IsNode(c, f.n) /\ c.nodes[f.n].type = "CAST")
       /\ f.head = NULL <=> f.tail = NULL
  /\ f.fn = "use" => f.head = NULL \/ IsNode(c, f.head)
  /\ f.fn \in {"left", "right"} => f.m \in Levels
  /\ f.fn = "right" => f.op \in Binary[f.m].ops /\ Bound(c, f.n) >= LeftIn(f.m)
  /\ f.fn = "flowright" => Bound(c, f.n) >= 2
  /\ f.fn = "assigned" => Bound(c, f.n) >= 1
  /\ f.fn = "type" => f.op \in {"STRUCT_DECL", "UNION_DECL", "ENUM_DECL"}

Frame(c, f, in, out, owes) == FrameOk(c, f) /\ In(f) = in /\ Out(c, f) = out /\ Owes(f) = owes

Plain == {"run", "optsemi", "vardecl", "expression", "block", "statement", "declaration",
          "command", "control", "exprrest", "use", "defer", "return", "newtype", "group",
          "flags", "skipdata", "compile", "destroy"}

LEMMA FIs ==
  ASSUME NEW fn
  PROVE  /\ DOMAIN F(fn) = FrameFields /\ F(fn).fn = fn /\ F(fn).n = NULL /\ F(fn).m = NoName
         /\ F(fn).op = NoName /\ F(fn).head = NULL /\ F(fn).tail = NULL
  BY DEF F, FrameFields

LEMMA PlainFrame == ASSUME NEW c, NEW fn \in Plain PROVE Frame(c, F(fn), 0, 0, {})
<1>1. FrameOk(c, F(fn))
  BY FIs DEF Plain, FrameOk, Holds
<1>2. In(F(fn)) = 0
  BY FIs DEF Plain, In
<1>3. Out(c, F(fn)) = 0
  BY FIs DEF Plain, Out, Levels, Whole
<1>4. Owes(F(fn)) = {}
  BY FIs DEF Plain, Owes
<1> QED  BY <1>1, <1>2, <1>3, <1>4 DEF Frame

LEMMA FlowFrames ==
  ASSUME NEW c
  PROVE  /\ Frame(c, F("assign"), 1, 0, {}) /\ Frame(c, F("flow"), 0, 1, {})
         /\ Frame(c, F("flowop"), 2, 1, {}) /\ Frame(c, F("flowend"), 1, 1, {})
<1>1. ASSUME NEW fn \in {"assign", "flow", "flowop", "flowend"}
      PROVE  FrameOk(c, F(fn)) /\ Owes(F(fn)) = {}
  BY FIs DEF FrameOk, Holds, Owes
<1>2. In(F("assign")) = 1 /\ In(F("flow")) = 0 /\ In(F("flowop")) = 2 /\ In(F("flowend")) = 1
  BY FIs DEF In
<1>3. Out(c, F("assign")) = 0 /\ Out(c, F("flow")) = 1 /\ Out(c, F("flowop")) = 1
      /\ Out(c, F("flowend")) = 1
  BY FIs DEF Out, Levels, Whole
<1> QED  BY <1>1, <1>2, <1>3 DEF Frame

LEMMA LevelFrame ==
  ASSUME NEW c, NEW l \in Levels PROVE Frame(c, F(l), 0, LevelOf(l), {})
<1>1. FrameOk(c, F(l)) /\ Owes(F(l)) = {}
  BY FIs DEF Levels, FrameOk, Holds, Owes
<1>2. In(F(l)) = 0
  BY FIs DEF Levels, In
<1>3. Out(c, F(l)) = LevelOf(l)
  BY FIs DEF Levels, Out, Whole
<1> QED  BY <1>1, <1>2, <1>3 DEF Frame

LEMMA UnaryFrames ==
  ASSUME NEW c, NEW op
  PROVE  /\ Frame(c, F("unary"), 0, 7, {}) /\ Frame(c, FNodeOp("unaryrest", NULL, op), 7, 7, {})
<1> DEFINE f == FNodeOp("unaryrest", NULL, op)
<1>1. f.fn = "unaryrest" /\ DOMAIN f = FrameFields
  BY FIs DEF FNodeOp, FrameFields
<1> HIDE DEF f
<1>2. Frame(c, f, 7, 7, {})
  BY <1>1 DEF Frame, FrameOk, Holds, In, Out, Owes, Levels, Whole
<1>3. Frame(c, F("unary"), 0, 7, {})
  BY FIs DEF Frame, FrameOk, Holds, In, Out, Owes, Levels, Whole
<1> QED  BY <1>2, <1>3 DEF f

LEMMA WholeFrames ==
  ASSUME NEW c
  PROVE  /\ \A fn \in {"postfix", "primary", "paren", "brace", "function"} :
              Frame(c, F(fn), 0, 8, {})
         /\ Frame(c, F("postfixrest"), 8, 8, {})
<1>1. ASSUME NEW fn \in {"postfix", "primary", "paren", "brace", "function", "postfixrest"}
      PROVE  FrameOk(c, F(fn)) /\ Owes(F(fn)) = {} /\ Out(c, F(fn)) = 8
  BY FIs DEF FrameOk, Holds, Owes, Out, Levels, Whole
<1>2. \A fn \in {"postfix", "primary", "paren", "brace", "function"} : In(F(fn)) = 0
  BY FIs DEF In
<1>3. In(F("postfixrest")) = 8
  BY FIs DEF In
<1> QED  BY <1>1, <1>2, <1>3 DEF Frame

LEMMA ExpectFrame == ASSUME NEW c, NEW t PROVE Frame(c, FExpect(t), 0, 0, {})
<1> DEFINE f == FExpect(t)
<1>1. f.fn = "expect" /\ DOMAIN f = FrameFields
  BY FIs DEF FExpect, FrameFields
<1> HIDE DEF f
<1>2. Frame(c, f, 0, 0, {})
  BY <1>1 DEF Frame, FrameOk, Holds, In, Out, Owes, Levels, Whole
<1> QED  BY <1>2 DEF f

LEMMA GiveFrame ==
  ASSUME NEW c, NEW n, IsNode(c, n) PROVE Frame(c, FGive(n), 0, Bound(c, n), {})
<1> DEFINE f == FGive(n)
<1>1. f.fn = "give" /\ DOMAIN f = FrameFields /\ f.n = n
  BY FIs DEF FGive, FrameFields
<1> HIDE DEF f
<1>2. Frame(c, f, 0, Bound(c, n), {})
  BY <1>1 DEF Frame, FrameOk, Holds, In, Out, Owes, Levels, Whole
<1> QED  BY <1>2 DEF f

LEMMA SetFrame ==
  ASSUME NEW c, NEW n, IsNode(c, n), NEW m, m \notin {"left", "right", "op"},
         m = "operand" => c.nodes[n].type = "RETURN"
  PROVE  Frame(c, FSet(n, m), 0, Bound(c, n), {<<n, m>>})
<1> DEFINE f == FSet(n, m)
<1>1. f.fn = "set" /\ DOMAIN f = FrameFields /\ f.n = n /\ f.m = m
  BY FIs DEF FSet, FrameFields
<1> HIDE DEF f
<1>2. Frame(c, f, 0, Bound(c, n), {<<n, m>>})
  BY <1>1 DEF Frame, FrameOk, Holds, In, Out, Owes, Levels, Whole
<1> QED  BY <1>2 DEF f

LEMMA BodyFrames ==
  ASSUME NEW c, NEW n, IsNode(c, n), NEW fn,
         \/ fn \in {"loopkind", "loopbody"} /\ c.nodes[n].type = "LOOP"
         \/ fn \in {"funcrest", "lambda"} /\ c.nodes[n].type = "FUNC_DECL"
  PROVE  Frame(c, FNode(fn, n), 0, 8, {<<n, "body">>})
<1> DEFINE f == FNode(fn, n)
<1>1. f.fn = fn /\ DOMAIN f = FrameFields /\ f.n = n
  BY FIs DEF FNode, FrameFields
<1> HIDE DEF f
<1>2. Frame(c, f, 0, 8, {<<n, "body">>})
  BY <1>1 DEF Frame, FrameOk, Holds, In, Out, Owes, Levels, Whole
<1> QED  BY <1>2 DEF f

LEMMA NodeFrames ==
  ASSUME NEW c, NEW n, IsNode(c, n), NEW fn \in {"init", "cname"}
  PROVE  Frame(c, FNode(fn, n), 0, 0, {})
<1> DEFINE f == FNode(fn, n)
<1>1. f.fn = fn /\ DOMAIN f = FrameFields /\ f.n = n
  BY FIs DEF FNode, FrameFields
<1> HIDE DEF f
<1>2. Frame(c, f, 0, 0, {})
  BY <1>1 DEF Frame, FrameOk, Holds, In, Out, Owes, Levels, Whole
<1> QED  BY <1>2 DEF f

LEMMA UnwrapFrame ==
  ASSUME NEW c, NEW n, IsNode(c, n), NEW x
  PROVE  Frame(c, [FNode("unwrap", n) EXCEPT !.head = x], 0, 0, {})
<1> DEFINE f == [FNode("unwrap", n) EXCEPT !.head = x]
<1>1. f.fn = "unwrap" /\ DOMAIN f = FrameFields /\ f.n = n
  BY FIs DEF FNode, FrameFields
<1> HIDE DEF f
<1>2. Frame(c, f, 0, 0, {})
  BY <1>1 DEF Frame, FrameOk, Holds, In, Out, Owes, Levels, Whole
<1> QED  BY <1>2 DEF f

LEMMA OperatorFrames ==
  ASSUME NEW c, NEW n, IsNode(c, n), NEW op
  PROVE  /\ Bound(c, n) >= 2 => Frame(c, FNodeOp("flowright", n, op), 2, 1, {})
         /\ Bound(c, n) >= 1 => Frame(c, FNodeOp("assigned", n, op), 0, 0, {})
<1> DEFINE f == FNodeOp("flowright", n, op)
           g == FNodeOp("assigned", n, op)
<1>1. f.fn = "flowright" /\ DOMAIN f = FrameFields /\ f.n = n
  BY FIs DEF FNodeOp, FrameFields
<1>2. g.fn = "assigned" /\ DOMAIN g = FrameFields /\ g.n = n
  BY FIs DEF FNodeOp, FrameFields
<1> HIDE DEF f, g
<1>3. Bound(c, n) >= 2 => Frame(c, f, 2, 1, {})
  BY <1>1 DEF Frame, FrameOk, Holds, In, Out, Owes, Levels, Whole
<1>4. Bound(c, n) >= 1 => Frame(c, g, 0, 0, {})
  BY <1>2 DEF Frame, FrameOk, Holds, In, Out, Owes, Levels, Whole
<1> QED  BY <1>3, <1>4 DEF f, g

LEMMA LeftFrame ==
  ASSUME NEW c, NEW l \in Levels PROVE Frame(c, List("left", NULL, l), LeftIn(l), LevelOf(l), {})
<1> DEFINE f == List("left", NULL, l)
<1>1. f.fn = "left" /\ DOMAIN f = FrameFields /\ f.m = l
  BY FIs DEF List, FrameFields
<1> HIDE DEF f
<1>2. FrameOk(c, f) /\ Owes(f) = {}
  BY <1>1 DEF FrameOk, Holds, Owes
<1>3. In(f) = LeftIn(l)
  BY <1>1 DEF In
<1>4. Out(c, f) = LevelOf(l)
  BY <1>1 DEF Out, Levels, Whole
<1> QED  BY <1>2, <1>3, <1>4 DEF f, Frame

LEMMA RightFrame ==
  ASSUME NEW c, NEW g, FrameOk(c, g), g.fn = "left", NEW n, IsNode(c, n), NEW op,
         op \in Binary[g.m].ops, Bound(c, n) >= LeftIn(g.m)
  PROVE  Frame(c, [g EXCEPT !.fn = "right", !.n = n, !.op = op],
               LevelOf(g.m) + 1, LevelOf(g.m), {})
<1> DEFINE f == [g EXCEPT !.fn = "right", !.n = n, !.op = op]
<1>1. DOMAIN g = FrameFields /\ g.m \in Levels
  BY DEF FrameOk
<1>2. f.fn = "right" /\ DOMAIN f = FrameFields /\ f.m = g.m /\ f.n = n /\ f.op = op
  BY <1>1 DEF FrameFields
<1> HIDE DEF f
<1>3. FrameOk(c, f) /\ Owes(f) = {}
  BY <1>1, <1>2 DEF FrameOk, Holds, Owes
<1>4. In(f) = LevelOf(g.m) + 1
  BY <1>2 DEF In
<1>5. Out(c, f) = LevelOf(g.m)
  BY <1>2 DEF Out, Levels, Whole
<1> QED  BY <1>3, <1>4, <1>5 DEF f, Frame

LEMMA ArgsFrame ==
  ASSUME NEW c, NEW n, NEW m,
         m = "args" \/ (m = "operand" /\ IsNode(c, n) /\ c.nodes[n].type = "CAST")
  PROVE  Frame(c, List("args", n, m), 0, 0, {})
<1> DEFINE f == List("args", n, m)
<1>1. f.fn = "args" /\ DOMAIN f = FrameFields /\ f.m = m /\ f.n = n /\ f.head = NULL
      /\ f.tail = NULL
  BY FIs DEF List, FrameFields
<1> HIDE DEF f
<1>2. Frame(c, f, 0, 0, {})
  BY <1>1 DEF Frame, FrameOk, Holds, In, Out, Owes, Levels, Whole
<1> QED  BY <1>2 DEF f

LEMMA ParamsFrame ==
  ASSUME NEW c, NEW n, NEW m \in {"params", "data"}
  PROVE  Frame(c, List("params", n, m), 0, 0, {})
<1> DEFINE f == List("params", n, m)
<1>1. f.fn = "params" /\ DOMAIN f = FrameFields /\ f.m = m
  BY FIs DEF List, FrameFields
<1> HIDE DEF f
<1>2. Frame(c, f, 0, 0, {})
  BY <1>1 DEF Frame, FrameOk, Holds, In, Out, Owes, Levels, Whole
<1> QED  BY <1>2 DEF f

LEMMA ListFrame ==
  ASSUME NEW c, NEW n, NEW m, NEW fn \in Lists, fn # "program" => IsNode(c, n),
         fn = "tuple" => c.nodes[n].type = "TUPLE"
  PROVE  /\ Frame(c, List(fn, n, m), 0, IF fn = "tuple" THEN 8 ELSE 0, {})
         /\ List(fn, n, m).fn = fn
<1> DEFINE f == List(fn, n, m)
<1>1. f.fn = fn /\ DOMAIN f = FrameFields /\ f.n = n /\ f.m = m
  BY FIs DEF List, FrameFields
<1> HIDE DEF f
<1>2. FrameOk(c, f) /\ Owes(f) = {}
  BY <1>1 DEF FrameOk, Holds, Owes, Lists
<1>3. In(f) = 0
  BY <1>1 DEF In, Lists
<1>4. Out(c, f) = IF fn = "tuple" THEN 8 ELSE 0
  BY <1>1 DEF Out, Lists, Levels, Whole
<1> QED  BY <1>1, <1>2, <1>3, <1>4 DEF f, Frame

LEMMA LinkFrame ==
  ASSUME NEW c, NEW g, FrameOk(c, g), g.fn \in Lists
  PROVE  Frame(c, FLink(g), 0, IF g.fn = "tuple" THEN 8 ELSE 0, {})
<1> DEFINE f == FLink(g)
<1>1. f.fn = "link" /\ f.op = g.fn /\ DOMAIN f = FrameFields /\ f.n = g.n
  BY DEF FLink, FrameFields, FrameOk
<1> HIDE DEF f
<1>2. FrameOk(c, f) /\ Owes(f) = {}
  BY <1>1 DEF FrameOk, Holds, Owes, Lists
<1>3. In(f) = 0
  BY <1>1 DEF In
<1>4. Out(c, f) = IF g.fn = "tuple" THEN 8 ELSE 0
  BY <1>1 DEF Out, Levels, Whole
<1> QED  BY <1>2, <1>3, <1>4 DEF f, Frame

(* A frame of a list goes on after its element, with the list or without.  *)
LEMMA ListGoesOn ==
  ASSUME NEW c, NEW g, FrameOk(c, g), g.fn = "link", NEW x
  PROVE  LET f == [g EXCEPT !.fn = g.op, !.op = NoName]
         IN  /\ f.fn = g.op /\ f.head = g.head /\ f.tail = g.tail
             /\ Frame(c, f, 0, IF g.op = "tuple" THEN 8 ELSE 0, {})
             /\ Frame(c, Linked(f, x), 0, IF g.op = "tuple" THEN 8 ELSE 0, {})
<1> DEFINE f == [g EXCEPT !.fn = g.op, !.op = NoName]
           h == Linked(f, x)
<1>1. DOMAIN g = FrameFields /\ g.op \in Lists
  BY DEF FrameOk
<1>2. f.fn = g.op /\ DOMAIN f = FrameFields /\ f.n = g.n /\ f.head = g.head /\ f.tail = g.tail
  BY <1>1 DEF FrameFields
<1>3. h.fn = g.op /\ DOMAIN h = FrameFields /\ h.n = g.n
  <2> HIDE DEF f
  <2> QED  BY <1>2 DEF Linked, FrameFields
<1> HIDE DEF f, h
<1>4. ASSUME NEW e \in {f, h} PROVE Frame(c, e, 0, IF g.op = "tuple" THEN 8 ELSE 0, {})
  <2>0. e.fn = g.op /\ DOMAIN e = FrameFields /\ e.n = g.n
    BY <1>2, <1>3
  <2>1. FrameOk(c, e) /\ Owes(e) = {}
    BY <1>1, <2>0 DEF FrameOk, Holds, Owes, Lists
  <2>2. In(e) = 0
    BY <1>1, <2>0 DEF In, Lists
  <2>3. Out(c, e) = IF g.op = "tuple" THEN 8 ELSE 0
    BY <1>1, <2>0 DEF Out, Lists, Levels, Whole
  <2> QED  BY <2>1, <2>2, <2>3 DEF Frame
<1> QED  BY <1>2, <1>4 DEF f, h

(* A frame that makes a list of its own goes on with one more in it.       *)
LEMMA LinkedFrame ==
  ASSUME NEW c, NEW g, FrameOk(c, g), g.fn \in {"args", "params", "use"}, NEW x, x # NULL,
         g.fn = "use" => IsNode(c, x)
  PROVE  LET f == Linked(g, x)
         IN  /\ Frame(c, f, 0, 0, {}) /\ f.fn = g.fn /\ f.m = g.m /\ f.n = g.n
             /\ g.fn = "use" => IsNode(c, f.head)
<1> DEFINE f == Linked(g, x)
<1>1. DOMAIN f = FrameFields /\ f.fn = g.fn /\ f.n = g.n /\ f.m = g.m /\ f.op = g.op
      /\ f.tail = x /\ f.head = IF g.head = NULL THEN x ELSE g.head
  BY DEF Linked, FrameFields, FrameOk
<1> HIDE DEF f
<1>2. FrameOk(c, f) /\ (g.fn = "use" => IsNode(c, f.head))
  BY <1>1 DEF FrameOk, Holds
<1>3. In(f) = 0 /\ Out(c, f) = 0 /\ Owes(f) = {}
  BY <1>1 DEF In, Out, Owes, Levels, Whole
<1> QED  BY <1>1, <1>2, <1>3 DEF f, Frame

LEMMA TypeFrame ==
  ASSUME NEW c, NEW type \in {"STRUCT_DECL", "UNION_DECL", "ENUM_DECL"}, NEW name
  PROVE  Frame(c, FType(type, name), 0, 0, {})
<1> DEFINE f == FType(type, name)
<1>1. f.fn = "type" /\ DOMAIN f = FrameFields /\ f.op = type
  BY FIs DEF FType, FrameFields
<1> HIDE DEF f
<1>2. Frame(c, f, 0, 0, {})
  BY <1>1 DEF Frame, FrameOk, Holds, In, Out, Owes, Levels, Whole
<1> QED  BY <1>2 DEF f

-------------------------------------------------------------------------------
(* The stack: each frame goes on with what the one before it returns, and  *)
(* together they owe what is lacking.                                      *)

Owed(st) == UNION {Owes(st[k]) : k \in 1..Len(st)}

(* The stack st goes on with a node that binds as tight as b.              *)
Takes(c, b, st, W) ==
  /\ IsSeq(st) /\ W \subseteq Owed(st)
  /\ \A k \in 1..Len(st) : FrameOk(c, st[k])
                          /\ In(st[k]) \in 0..(IF k = 1 THEN b ELSE Out(c, st[k - 1]))

(* The frames fs go on with it, and return one that binds as tight as e.   *)
Leads(c, b, fs, e) ==
  /\ IsSeq(fs) /\ Len(fs) > 0 /\ e \in 0..Out(c, fs[Len(fs)])
  /\ \A k \in 1..Len(fs) : FrameOk(c, fs[k])
                          /\ In(fs[k]) \in 0..(IF k = 1 THEN b ELSE Out(c, fs[k - 1]))

Good(c, st) ==
  /\ c.crash = "no" /\ Heap(c)
  /\ \/ c.nodes = <<>> /\ st = <<F("run")>>
     \/ IsNode(c, c.ret) /\ Takes(c, Bound(c, c.ret), st, Lacks(c))

Sound(c, st) == c.bad \/ (st = <<>> /\ c.crash \in {"freed", "root"}) \/ Good(c, st)

(* What is known when a function goes on.                                  *)
Calling ==
  /\ cur.crash = "no" /\ Heap(cur) /\ IsNode(cur, cur.ret) /\ cur.ret # NULL
  /\ FrameOk(cur, Top) /\ In(Top) \in 0..Bound(cur, cur.ret) /\ Out(cur, Top) \in 0..8
  /\ Takes(cur, Out(cur, Top), Tail(stack), Lacks(cur) \ Owes(Top))

LEMMA FrameOver ==
  ASSUME NEW b, NEW c, NEW D, Heap(b), Over(b, c, D), NEW f, FrameOk(b, f)
  PROVE  FrameOk(c, f) /\ Out(b, f) \in 0..Out(c, f) /\ Out(c, f) \in 0..8
<1>1. \A n : IsNode(b, n) => IsNode(c, n) /\ c.nodes[n].type = b.nodes[n].type
                            /\ Bound(b, n) \in 0..Bound(c, n) /\ Bound(c, n) \in 0..8
  <2> TAKE n
  <2> SUFFICES ASSUME IsNode(b, n)
               PROVE  IsNode(c, n) /\ c.nodes[n].type = b.nodes[n].type
                      /\ Bound(b, n) \in 0..Bound(c, n) /\ Bound(c, n) \in 0..8
    OBVIOUS
  <2>1. IsNode(c, n) /\ c.nodes[n].type = b.nodes[n].type /\ Bound(b, n) \in 0..Bound(c, n)
    BY DEF Over, Heap, IsSeq, IsNode
  <2> QED  BY <2>1, BoundIs DEF Over
<1>2. \A m \in Levels : LevelOf(m) \in 2..6 /\ LeftIn(m) \in 2..6
  BY LevelsAre DEF LeftIn
<1>3. FrameOk(c, f)
  BY <1>1, <1>2 DEF FrameOk, Holds
<1>4. Out(b, f) \in 0..Out(c, f) /\ Out(c, f) \in 0..8
  <2>1. CASE f.fn \in {"set", "give"}
    <3>1. IsNode(b, f.n)
      BY <2>1 DEF FrameOk, Holds
    <3>2. Out(b, f) = Bound(b, f.n) /\ Out(c, f) = Bound(c, f.n)
      BY <2>1 DEF Out, Levels, Whole
    <3> QED  BY <1>1, <3>1, <3>2
  <2>2. CASE f.fn \notin {"set", "give"}
    <3>1. Out(b, f) = Out(c, f)
      BY <2>2 DEF Out
    <3>2. CASE f.fn \in {"left", "right"}
      <4>1. f.m \in Levels
        BY <3>2 DEF FrameOk
      <4>2. Out(c, f) = LevelOf(f.m)
        BY <3>2 DEF Out, Levels, Whole
      <4> QED  BY <1>2, <3>1, <4>1, <4>2
    <3>3. CASE f.fn \in Levels
      <4>1. Out(c, f) = LevelOf(f.fn)
        BY <3>3 DEF Out, Levels, Whole
      <4> QED  BY <1>2, <3>1, <3>3, <4>1
    <3>4. CASE f.fn \notin Levels \union {"left", "right"}
      <4>1. Out(c, f) \in {0, 1, 7, 8}
        BY <2>2, <3>4 DEF Out
      <4> QED  BY <3>1, <4>1
    <3> QED  BY <3>2, <3>3, <3>4
  <2> QED  BY <2>1, <2>2
<1> QED  BY <1>3, <1>4

LEMMA TakesOver ==
  ASSUME NEW b, NEW c, NEW D, Heap(b), Over(b, c, D), NEW e, NEW st, NEW W, Takes(b, e, st, W)
  PROVE  Takes(c, e, st, W)
<1> SUFFICES ASSUME NEW k \in 1..Len(st)
             PROVE  /\ FrameOk(c, st[k])
                    /\ In(st[k]) \in 0..(IF k = 1 THEN e ELSE Out(c, st[k - 1]))
  BY DEF Takes
<1>1. FrameOk(b, st[k]) /\ In(st[k]) \in 0..(IF k = 1 THEN e ELSE Out(b, st[k - 1]))
  BY DEF Takes
<1>2. FrameOk(c, st[k])
  BY <1>1, FrameOver
<1>3. CASE k = 1
  BY <1>1, <1>2, <1>3
<1>4. CASE k # 1
  <2>1. k - 1 \in 1..Len(st)
    BY <1>4 DEF Takes, IsSeq
  <2>2. FrameOk(b, st[k - 1])
    BY <2>1 DEF Takes
  <2>3. Out(b, st[k - 1]) \in 0..Out(c, st[k - 1]) /\ Out(c, st[k - 1]) \in 0..8
    BY <2>2, FrameOver
  <2>4. In(st[k]) \in 0..Out(b, st[k - 1])
    BY <1>1, <1>4
  <2>5. In(st[k]) \in 0..Out(c, st[k - 1])
    <3> DEFINE x == In(st[k])
               y == Out(b, st[k - 1])
               z == Out(c, st[k - 1])
    <3>1. x \in 0..y /\ y \in 0..z /\ z \in 0..8
      BY <2>3, <2>4
    <3> HIDE DEF x, y, z
    <3>2. x \in 0..z
      BY <3>1
    <3> QED  BY <3>2 DEF x, z
  <2> QED  BY <1>2, <1>4, <2>5
<1> QED  BY <1>3, <1>4

(* Frames are put on a stack.                                              *)
LEMMA TakesConcat ==
  ASSUME NEW c, NEW b, NEW fs, NEW e, Leads(c, b, fs, e), e \in Nat,
         \A k \in 1..Len(fs) : Out(c, fs[k]) \in Nat,
         NEW st, NEW W, Takes(c, e, st, W)
  PROVE  Takes(c, b, fs \o st, Owed(fs) \union W)
<1> DEFINE s == fs \o st
           n == Len(fs)
<1>1. IsSeq(fs) /\ IsSeq(st) /\ n \in Nat /\ Len(st) \in Nat /\ n > 0
  BY DEF Leads, Takes, IsSeq
<1>2. /\ IsSeq(s) /\ Len(s) = n + Len(st)
      /\ \A i \in 1..n : s[i] = fs[i]
      /\ \A i \in 1..Len(st) : s[n + i] = st[i]
  BY <1>1, ConcatSeq
<1> HIDE DEF s
<1>3. Owed(fs) \union W \subseteq Owed(s)
  <2>1. \A i \in 1..n : i \in 1..Len(s)
    BY <1>1, <1>2
  <2>2. \A i \in 1..Len(st) : n + i \in 1..Len(s)
    BY <1>1, <1>2
  <2>3. Owed(fs) \subseteq Owed(s)
    BY <1>2, <2>1 DEF Owed
  <2>4. Owed(st) \subseteq Owed(s)
    BY <1>2, <2>2 DEF Owed
  <2> QED  BY <2>3, <2>4 DEF Takes
<1>4. ASSUME NEW k \in 1..Len(s)
      PROVE  FrameOk(c, s[k]) /\ In(s[k]) \in 0..(IF k = 1 THEN b ELSE Out(c, s[k - 1]))
  <2>1. CASE k \in 1..n
    <3>1. s[k] = fs[k] /\ (k # 1 => k - 1 \in 1..n /\ s[k - 1] = fs[k - 1])
      BY <1>1, <1>2, <2>1
    <3> QED  BY <2>1, <3>1 DEF Leads
  <2>2. CASE k \notin 1..n
    <3> DEFINE i == k - n
    <3>1. i \in 1..Len(st) /\ k = n + i /\ k # 1 /\ s[k] = st[i]
      <4>1. i \in 1..Len(st) /\ k = n + i /\ k # 1
        BY <1>1, <1>2, <2>2
      <4> HIDE DEF i
      <4> QED  BY <1>2, <4>1
    <3>2. CASE i = 1
      <4>1. k - 1 = n /\ n \in 1..n
        BY <1>1, <3>2
      <4>2. s[k - 1] = fs[n]
        BY <1>2, <4>1
      <4>3. In(st[1]) \in 0..e /\ FrameOk(c, st[1]) /\ e \in 0..Out(c, fs[n])
            /\ Out(c, fs[n]) \in Nat
        BY <3>1, <3>2, <4>1 DEF Takes, Leads
      <4>4. In(st[1]) \in 0..Out(c, fs[n])
        <5> DEFINE x == In(st[1])
                   y == Out(c, fs[n])
        <5>1. x \in 0..e /\ e \in 0..y /\ y \in Nat
          BY <4>3
        <5> HIDE DEF x, y
        <5>2. x \in 0..y
          BY <5>1
        <5> QED  BY <5>2 DEF x, y
      <4> HIDE DEF i
      <4> QED  BY <3>1, <3>2, <4>2, <4>3, <4>4
    <3>3. CASE i # 1
      <4>1. k - 1 = n + (i - 1) /\ i - 1 \in 1..Len(st)
        BY <1>1, <3>1, <3>3
      <4>2. s[k - 1] = st[i - 1]
        BY <1>2, <4>1
      <4> HIDE DEF i
      <4> QED  BY <3>1, <3>3, <4>2 DEF Takes
    <3> QED  BY <3>2, <3>3
  <2> QED  BY <2>1, <2>2
<1>5. Takes(c, b, s, Owed(fs) \union W)
  BY <1>2, <1>3, <1>4 DEF Takes
<1> QED  BY <1>5 DEF s

LEMMA CallingIs ==
  ASSUME Good(cur, stack), stack # <<>>, ~(cur.nodes = <<>> /\ stack = <<F("run")>>)
  PROVE  Calling
<1>0. cur.crash = "no" /\ Heap(cur)
  BY DEF Good
<1>2. IsNode(cur, cur.ret) /\ Takes(cur, Bound(cur, cur.ret), stack, Lacks(cur))
  BY DEF Good
<1>3. cur.ret # NULL
  BY <1>2 DEF IsNode, NULL
<1>4. IsSeq(stack) /\ Len(stack) # 0 /\ Len(stack) \in Nat
  BY <1>2 DEF Takes, IsSeq
<1>5. /\ IsSeq(Tail(stack)) /\ Len(Tail(stack)) = Len(stack) - 1 /\ Head(stack) = stack[1]
      /\ \A i \in 1..(Len(stack) - 1) : Tail(stack)[i] = stack[i + 1]
  BY <1>4, TailSeq
<1>6. FrameOk(cur, Top) /\ In(Top) \in 0..Bound(cur, cur.ret)
  <2>1. 1 \in 1..Len(stack)
    BY <1>4
  <2> QED  BY <1>2, <1>5, <2>1 DEF Takes, Top
<1>7. Out(cur, Top) \in 0..8
  BY <1>0, <1>6, OverSelf, FrameOver
<1>8. Takes(cur, Out(cur, Top), Tail(stack), Lacks(cur) \ Owes(Top))
  <2> DEFINE t == Tail(stack)
             n == Len(stack)
  <2>1. IsSeq(t) /\ Len(t) = n - 1 /\ \A i \in 1..(n - 1) : t[i] = stack[i + 1]
    BY <1>5
  <2>2. stack[1] = Top /\ n \in Nat /\ n # 0
    BY <1>4, <1>5 DEF Top
  <2> HIDE DEF t
  <2>3. Lacks(cur) \ Owes(Top) \subseteq Owed(t)
    <3> SUFFICES ASSUME NEW p \in Lacks(cur), p \notin Owes(Top) PROVE p \in Owed(t)
      OBVIOUS
    <3>1. PICK k \in 1..n : p \in Owes(stack[k])
      BY <1>2 DEF Takes, Owed
    <3>2. k # 1
      BY <2>2, <3>1
    <3>3. k - 1 \in 1..Len(t) /\ t[k - 1] = stack[k]
      <4>1. k - 1 \in 1..(n - 1) /\ (k - 1) + 1 = k
        BY <2>2, <3>2
      <4> QED  BY <2>1, <4>1
    <3> QED  BY <3>1, <3>3 DEF Owed
  <2>4. ASSUME NEW k \in 1..Len(t)
        PROVE  /\ FrameOk(cur, t[k])
               /\ In(t[k]) \in 0..(IF k = 1 THEN Out(cur, Top) ELSE Out(cur, t[k - 1]))
    <3>1. k \in 1..(n - 1) /\ k + 1 \in 1..n /\ k + 1 # 1 /\ (k + 1) - 1 = k
      BY <2>1, <2>2
    <3>2. t[k] = stack[k + 1]
      BY <2>1, <3>1
    <3>3. FrameOk(cur, stack[k + 1]) /\ In(stack[k + 1]) \in 0..Out(cur, stack[k])
      BY <1>2, <3>1 DEF Takes
    <3>4. CASE k = 1
      BY <2>2, <3>2, <3>3, <3>4
    <3>5. CASE k # 1
      <4>1. k - 1 \in 1..(n - 1) /\ (k - 1) + 1 = k
        BY <3>1, <3>5, <2>2
      <4>2. t[k - 1] = stack[k]
        BY <2>1, <4>1
      <4> QED  BY <3>2, <3>3, <3>5, <4>2
    <3> QED  BY <3>4, <3>5
  <2>5. Takes(cur, Out(cur, Top), t, Lacks(cur) \ Owes(Top))
    BY <2>1, <2>3, <2>4 DEF Takes
  <2> QED  BY <2>5 DEF t
<1> QED  BY <1>0, <1>2, <1>3, <1>6, <1>7, <1>8 DEF Calling

(* A function goes on with cursor c after calling fs.                      *)
LEMMA StepIs ==
  ASSUME Calling, NEW c, NEW D, Over(cur, c, D), IsNode(c, c.ret),
         NEW fs, Leads(c, Bound(c, c.ret), fs, Out(cur, Top)),
         Lacks(c) \intersect (D \union Owes(Top)) \subseteq Owed(fs)
  PROVE  Good(c, fs \o Tail(stack))
<1>1. Takes(c, Out(cur, Top), Tail(stack), Lacks(cur) \ Owes(Top))
  BY TakesOver DEF Calling
<1>2. \A k \in 1..Len(fs) : Out(c, fs[k]) \in Nat
  <2>1. Over(c, c, {}) /\ Heap(c)
    BY OverSelf DEF Over
  <2>2. \A k \in 1..Len(fs) : Out(c, fs[k]) \in 0..8
    BY <2>1, FrameOver DEF Leads
  <2> QED  BY <2>2
<1>3. Out(cur, Top) \in Nat
  BY DEF Calling
<1>4. Takes(c, Bound(c, c.ret), fs \o Tail(stack), Owed(fs) \union (Lacks(cur) \ Owes(Top)))
  BY <1>1, <1>2, <1>3, TakesConcat
<1>5. Lacks(c) \subseteq Owed(fs) \union (Lacks(cur) \ Owes(Top))
  BY DEF Over
<1>6. Takes(c, Bound(c, c.ret), fs \o Tail(stack), Lacks(c))
  BY <1>4, <1>5 DEF Takes
<1> QED  BY <1>6 DEF Good, Over, Calling

LEMMA EmptyIsSeq == ASSUME NEW s, IsSeq(s) PROVE <<>> \o s = s
<1> DEFINE S == {s[i] : i \in 1..Len(s)}
<1>1. \A i \in 1..Len(s) : s[i] \in S
  OBVIOUS
<1> HIDE DEF S
<1>2. s \in Seq(S)
  BY <1>1, SeqOver
<1> QED  BY <1>2

LEMMA Ends ==
  ASSUME Calling, NEW c, NEW D, Over(cur, c, D), IsNode(c, c.ret),
         Out(cur, Top) \in 0..Bound(c, c.ret), Lacks(c) \intersect (D \union Owes(Top)) = {},
         Then(c, <<>>)
  PROVE  Sound(cur', stack')
<1>1. Takes(c, Out(cur, Top), Tail(stack), Lacks(cur) \ Owes(Top))
  BY TakesOver DEF Calling
<1>2. <<>> \o Tail(stack) = Tail(stack)
  BY EmptyIsSeq DEF Calling, Takes
<1>3. Lacks(c) \subseteq Lacks(cur) \ Owes(Top)
  BY DEF Over
<1>4. Bound(c, c.ret) \in 0..8 /\ Out(cur, Top) \in 0..8
  BY BoundIs DEF Over, Calling
<1>5. Takes(c, Bound(c, c.ret), Tail(stack), Lacks(c))
  <2> DEFINE st == Tail(stack)
             e == Out(cur, Top)
             b == Bound(c, c.ret)
  <2>1. e \in 0..b /\ b \in 0..8 /\ Takes(c, e, st, Lacks(cur) \ Owes(Top))
    BY <1>1, <1>4
  <2> HIDE DEF st, e, b
  <2>2. \A k \in 1..Len(st) : FrameOk(c, st[k])
                              /\ In(st[k]) \in 0..(IF k = 1 THEN b ELSE Out(c, st[k - 1]))
    <3> TAKE k \in 1..Len(st)
    <3>1. FrameOk(c, st[k]) /\ In(st[k]) \in 0..(IF k = 1 THEN e ELSE Out(c, st[k - 1]))
      BY <2>1 DEF Takes
    <3>2. \A x : x \in 0..e => x \in 0..b
      BY <2>1
    <3> QED  BY <3>1, <3>2
  <2>3. Takes(c, b, st, Lacks(c))
    BY <1>3, <2>1, <2>2 DEF Takes
  <2> QED  BY <2>3 DEF st, b
<1>6. Good(c, Tail(stack))
  BY <1>5 DEF Good, Over, Calling
<1> QED  BY <1>2, <1>6 DEF Then, Sound

(* The frame f goes on with a node that binds as tight as b.               *)
Follows(c, b, f) == FrameOk(c, f) /\ In(f) \in 0..b

LEMMA Calls1 ==
  ASSUME Calling, NEW c, NEW D, Over(cur, c, D), IsNode(c, c.ret),
         NEW f, Follows(c, Bound(c, c.ret), f), Out(cur, Top) \in 0..Out(c, f),
         Lacks(c) \intersect (D \union Owes(Top)) \subseteq Owes(f), Then(c, <<f>>)
  PROVE  Sound(cur', stack')
<1> DEFINE fs == <<f>>
<1>1. IsSeq(fs) /\ Len(fs) = 1 /\ fs[1] = f
  BY DEF IsSeq
<1> HIDE DEF fs
<1>2. Leads(c, Bound(c, c.ret), fs, Out(cur, Top)) /\ Owes(f) \subseteq Owed(fs)
  BY <1>1 DEF Leads, Owed, Follows
<1>3. Good(c, fs \o Tail(stack))
  BY <1>2, StepIs
<1> QED  BY <1>3 DEF fs, Then, Sound

LEMMA Calls2 ==
  ASSUME Calling, NEW c, NEW D, Over(cur, c, D), IsNode(c, c.ret),
         NEW f, NEW g, Follows(c, Bound(c, c.ret), f), Follows(c, Out(c, f), g),
         Out(cur, Top) \in 0..Out(c, g),
         Lacks(c) \intersect (D \union Owes(Top)) \subseteq Owes(f) \union Owes(g),
         Then(c, <<f, g>>)
  PROVE  Sound(cur', stack')
<1> DEFINE fs == <<f, g>>
<1>1. IsSeq(fs) /\ Len(fs) = 2 /\ fs[1] = f /\ fs[2] = g
  BY DEF IsSeq
<1> HIDE DEF fs
<1>2. Leads(c, Bound(c, c.ret), fs, Out(cur, Top)) /\ Owes(f) \union Owes(g) \subseteq Owed(fs)
  BY <1>1 DEF Leads, Owed, Follows
<1>3. Good(c, fs \o Tail(stack))
  BY <1>2, StepIs
<1> QED  BY <1>3 DEF fs, Then, Sound

LEMMA Calls3 ==
  ASSUME Calling, NEW c, NEW D, Over(cur, c, D), IsNode(c, c.ret),
         NEW f, NEW g, NEW h, Follows(c, Bound(c, c.ret), f), Follows(c, Out(c, f), g),
         Follows(c, Out(c, g), h), Out(cur, Top) \in 0..Out(c, h),
         Lacks(c) \intersect (D \union Owes(Top))
           \subseteq Owes(f) \union Owes(g) \union Owes(h),
         Then(c, <<f, g, h>>)
  PROVE  Sound(cur', stack')
<1> DEFINE fs == <<f, g, h>>
<1>1. IsSeq(fs) /\ Len(fs) = 3 /\ fs[1] = f /\ fs[2] = g /\ fs[3] = h
  BY DEF IsSeq
<1> HIDE DEF fs
<1>2. Leads(c, Bound(c, c.ret), fs, Out(cur, Top))
  BY <1>1 DEF Leads, Follows
<1>3. Owes(f) \union Owes(g) \union Owes(h) \subseteq Owed(fs)
  BY <1>1 DEF Owed
<1>4. Good(c, fs \o Tail(stack))
  BY <1>2, <1>3, StepIs
<1> QED  BY <1>4 DEF fs, Then, Sound

LEMMA Calls4 ==
  ASSUME Calling, NEW c, NEW D, Over(cur, c, D), IsNode(c, c.ret),
         NEW f, NEW g, NEW h, NEW i, Follows(c, Bound(c, c.ret), f), Follows(c, Out(c, f), g),
         Follows(c, Out(c, g), h), Follows(c, Out(c, h), i), Out(cur, Top) \in 0..Out(c, i),
         Lacks(c) \intersect (D \union Owes(Top))
           \subseteq Owes(f) \union Owes(g) \union Owes(h) \union Owes(i),
         Then(c, <<f, g, h, i>>)
  PROVE  Sound(cur', stack')
<1> DEFINE fs == <<f, g, h, i>>
<1>1. IsSeq(fs) /\ Len(fs) = 4 /\ fs[1] = f /\ fs[2] = g /\ fs[3] = h /\ fs[4] = i
  BY DEF IsSeq
<1> HIDE DEF fs
<1>2. Leads(c, Bound(c, c.ret), fs, Out(cur, Top))
  BY <1>1 DEF Leads, Follows
<1>3. Owes(f) \union Owes(g) \union Owes(h) \union Owes(i) \subseteq Owed(fs)
  BY <1>1 DEF Owed
<1>4. Good(c, fs \o Tail(stack))
  BY <1>2, <1>3, StepIs
<1> QED  BY <1>4 DEF fs, Then, Sound

-------------------------------------------------------------------------------
(* The actions, one by one.                                                *)

LEMMA Start ==
  ASSUME Calling PROVE Over(cur, cur, {}) /\ Same(cur, cur) /\ Kept(cur, cur)
  BY OverSelf, SameSelf DEF Calling, Heap, Kept

(* A cursor that was only moved.                                           *)
LEMMA Moved ==
  ASSUME Calling, NEW c, Same(cur, c)
  PROVE  /\ Over(cur, c, {}) /\ IsNode(c, c.ret) /\ c.ret = cur.ret
         /\ Bound(c, c.ret) = Bound(cur, cur.ret) /\ Bound(c, c.ret) \in 0..8
         /\ \A n : IsNode(cur, n) => IsNode(c, n) /\ c.nodes[n].type = cur.nodes[n].type
                                    /\ Bound(c, n) = Bound(cur, n)
<1>1. Over(cur, c, {})
  BY Start, OverSame
<1>2. IsNode(cur, cur.ret) /\ c.ret = cur.ret /\ IsNode(c, c.ret)
  BY DEF Calling, Same, IsNode
<1>3. \A n : IsNode(cur, n) => IsNode(c, n) /\ c.nodes[n].type = cur.nodes[n].type
                               /\ Bound(c, n) = Bound(cur, n)
  BY DEF Same, IsNode, Bound
<1>4. Bound(c, c.ret) \in 0..8
  BY <1>1, <1>2, BoundIs DEF Over
<1> QED  BY <1>1, <1>2, <1>3, <1>4

(* Frames that promise nothing and owe nothing.                            *)
Modest == Plain \union {"expect", "assign", "assigned", "init", "cname", "unwrap", "args",
                        "params", "fields", "variants", "plainvariants", "statements",
                        "members", "program", "type"}

LEMMA ModestIs ==
  ASSUME NEW f, f.fn \in Modest PROVE (\A c : Out(c, f) = 0) /\ Owes(f) = {}
<1>1. \A c : Out(c, f) = 0
  BY DEF Modest, Plain, Out, Levels, Whole
<1>2. Owes(f) = {}
  BY DEF Modest, Plain, Owes
<1> QED  BY <1>1, <1>2

(* The function ends with the node it was given.                           *)
LEMMA EndsSame ==
  ASSUME Calling, NEW c, Same(cur, c), Top.fn \in Modest, Then(c, <<>>)
  PROVE  Sound(cur', stack')
<1>1. Out(cur, Top) = 0 /\ Owes(Top) = {}
  BY ModestIs
<1>2. Over(cur, c, {}) /\ IsNode(c, c.ret) /\ Bound(c, c.ret) \in 0..8
  BY Moved
<1>3. Out(cur, Top) \in 0..Bound(c, c.ret) /\ Lacks(c) \intersect ({} \union Owes(Top)) = {}
  BY <1>1, <1>2
<1> QED  BY <1>2, <1>3, Ends

(* Plain functions are called.                                             *)
LEMMA CallsSame ==
  ASSUME Calling, NEW c, Same(cur, c), Top.fn \in Modest,
         NEW f, Frame(c, f, 0, 0, {}), Then(c, <<f>>)
  PROVE  Sound(cur', stack')
<1>1. Out(cur, Top) = 0 /\ Owes(Top) = {}
  BY ModestIs
<1>2. Over(cur, c, {}) /\ IsNode(c, c.ret) /\ Bound(c, c.ret) \in 0..8
  BY Moved
<1>3. Follows(c, Bound(c, c.ret), f) /\ Out(cur, Top) \in 0..Out(c, f)
      /\ Lacks(c) \intersect ({} \union Owes(Top)) \subseteq Owes(f)
  BY <1>1, <1>2 DEF Follows, Frame
<1> QED  BY <1>2, <1>3, Calls1

LEMMA ExpectSound == ASSUME Calling, Expect PROVE Sound(cur', stack')
<1>1. Top.fn \in Modest
  BY DEF Expect, At, Modest, Top
<1> QED  BY <1>1, Start, SameConsume, EndsSame DEF Expect

LEMMA OptSemiSound == ASSUME Calling, OptSemi PROVE Sound(cur', stack')
<1>1. Top.fn \in Modest
  BY DEF OptSemi, At, Modest, Plain, Top
<1> QED  BY <1>1, Start, SameMatch, EndsSame DEF OptSemi

LEMMA GiveSound == ASSUME Calling, Give PROVE Sound(cur', stack')
<1> DEFINE c == [cur EXCEPT !.ret = Top.n]
<1>1. Top.fn = "give"
  BY DEF Give, At, Top
<1>2. IsNode(cur, Top.n) /\ Out(cur, Top) = Bound(cur, Top.n) /\ Owes(Top) = {}
  BY <1>1 DEF Calling, FrameOk, Holds, Out, Owes, Levels, Whole
<1>3. c.ret = Top.n /\ c.nodes = cur.nodes /\ c.parens = cur.parens /\ Over(cur, c, {})
  BY Start, OverRet DEF Calling, Heap, CurFields
<1>4. Then(c, <<>>)
  BY DEF Give
<1> HIDE DEF c
<1>5. IsNode(c, c.ret) /\ Bound(c, c.ret) = Bound(cur, Top.n) /\ Bound(cur, Top.n) \in 0..8
  BY <1>2, <1>3, BoundIs DEF IsNode, Bound, Calling
<1>6. Out(cur, Top) \in 0..Bound(c, c.ret) /\ Lacks(c) \intersect ({} \union Owes(Top)) = {}
  BY <1>2, <1>5
<1> QED  BY <1>3, <1>4, <1>5, <1>6, Ends

LEMMA SetChildSound == ASSUME Calling, SetChild PROVE Sound(cur', stack')
<1> DEFINE d == Put(cur, Top.n, Top.m, cur.ret)
           c == [d EXCEPT !.ret = Top.n]
<1>1. Top.fn = "set"
  BY DEF SetChild, At, Top
<1>2. /\ IsNode(cur, Top.n) /\ Out(cur, Top) = Bound(cur, Top.n)
      /\ Owes(Top) = {<<Top.n, Top.m>>} /\ Top.m \notin {"left", "right", "op"}
      /\ Top.m = "operand" => cur.nodes[Top.n].type \in {"RETURN", "CAST"}
  BY <1>1 DEF Calling, FrameOk, Holds, Out, Owes, Levels, Whole
<1>3. Over(cur, d, {}) /\ Kept(cur, d) /\ <<Top.n, Top.m>> \notin Lacks(d)
  BY <1>2, Start, OverPut DEF Calling
<1>4. Then(c, <<>>)
  BY DEF SetChild
<1> HIDE DEF d
<1>5. c.ret = Top.n /\ c.nodes = d.nodes /\ c.parens = d.parens /\ Over(cur, c, {})
  BY <1>3, OverRet DEF Over, Heap, CurFields
<1> HIDE DEF c
<1>6. IsNode(c, c.ret) /\ Bound(c, c.ret) = Bound(cur, Top.n) /\ Bound(cur, Top.n) \in 0..8
  BY <1>2, <1>3, <1>5, BoundIs DEF IsNode, Bound, Calling, Kept
<1>7. Lacks(c) = Lacks(d)
  BY <1>5 DEF Lacks
<1>8. Out(cur, Top) \in 0..Bound(c, c.ret) /\ Lacks(c) \intersect ({} \union Owes(Top)) = {}
  BY <1>2, <1>3, <1>6, <1>7
<1> QED  BY <1>4, <1>5, <1>6, <1>8, Ends

-------------------------------------------------------------------------------
(* A cursor that returns a node that was just made, and is no operator.    *)
Fresh(c, D, type) ==
  /\ Over(cur, c, D) /\ IsNode(c, c.ret) /\ c.ret # NULL
  /\ c.nodes[c.ret].type = type /\ Bound(c, c.ret) = 8

OperatorTypes == {"BINARY_EXPR", "ASSIGNMENT", "NEXUS_FLOW", "NEXUS_PIPE", "UNARY_EXPR",
                  "POSTFIX_EXPR", "NEXUS_CAPTURE"}
BodyTypes     == {"FUNC_DECL", "LOOP", "DEFER", "THREAD_BLOCK"}
PartTypes     == {"FUNC_CALL", "MEMBER_ACCESS", "LISTEN", "METHOD"}
Structured    == OperatorTypes \union BodyTypes \union PartTypes

LEMMA FreeIs ==
  ASSUME NEW type, NEW members
  PROVE  /\ type \notin Structured => Missing(0, type, members) = {} /\ Needs(type) = {}
         /\ type \notin OperatorTypes => /\ Operands(type) = {} /\ type # "BINARY_EXPR"
                                         /\ RankOf(Node(type, members)) = 8
<1>1. type \notin Structured => Needs(type) = {}
  BY DEF Structured, OperatorTypes, BodyTypes, PartTypes, Needs
<1>2. type \notin OperatorTypes => Operands(type) = {} /\ type # "BINARY_EXPR"
  BY DEF OperatorTypes, Operands
<1>3. type \notin OperatorTypes => RankOf(Node(type, members)) = 8
  BY DEF OperatorTypes, RankOf, Node
<1> QED  BY <1>1, <1>2, <1>3 DEF Missing

LEMMA FreshMake ==
  ASSUME NEW d, NEW D, Over(cur, d, D), NEW type, type \notin OperatorTypes, NEW members
  PROVE  /\ Fresh(Make(d, type, members),
                  D \union Missing(Make(d, type, members).ret, type, members), type)
         /\ Make(d, type, members).bad = d.bad
<1> DEFINE e == Make(d, type, members)
<1>1. /\ Over(cur, e, D \union Missing(Len(d.nodes) + 1, type, members))
      /\ Makes(d, e, type, members)
  <2>1. Operands(type) = {} /\ type # "BINARY_EXPR"
    BY FreeIs
  <2> QED  BY <2>1, OverMake
<1> SUFFICES Fresh(e, D \union Missing(e.ret, type, members), type) /\ e.bad = d.bad
  OBVIOUS
<1> HIDE DEF e
<1>2. /\ e.ret = Len(d.nodes) + 1 /\ e.ret # NULL /\ IsNode(e, e.ret) /\ e.bad = d.bad
      /\ e.nodes[e.ret].type = type /\ Bound(e, e.ret) >= RankOf(Node(type, members))
  BY <1>1 DEF Makes
<1>3. Bound(e, e.ret) \in 0..8 /\ RankOf(Node(type, members)) = 8
  BY <1>1, <1>2, BoundIs, FreeIs DEF Over
<1>4. Bound(e, e.ret) = 8
  BY <1>2, <1>3
<1> QED  BY <1>1, <1>2, <1>4 DEF Fresh

LEMMA FreshFree ==
  ASSUME NEW d, Over(cur, d, {}), NEW type, type \notin Structured, NEW members
  PROVE  Fresh(Make(d, type, members), {}, type)
<1>1. type \notin OperatorTypes /\ Missing(Make(d, type, members).ret, type, members) = {}
  BY FreeIs DEF Structured, Missing
<1>2. Fresh(Make(d, type, members),
            {} \union Missing(Make(d, type, members).ret, type, members), type)
  BY <1>1, FreshMake
<1> QED  BY <1>1, <1>2

LEMMA FreshBody ==
  ASSUME NEW d, Over(cur, d, {}), NEW type \in BodyTypes, NEW members
  PROVE  LET e == Make(d, type, members) IN Fresh(e, {<<e.ret, "body">>}, type)
<1> DEFINE e == Make(d, type, members)
<1>1. type \notin OperatorTypes /\ Needs(type) = {"body"}
  BY DEF BodyTypes, OperatorTypes, Needs
<1>2. Fresh(e, {} \union Missing(e.ret, type, members), type)
  BY <1>1, FreshMake
<1> HIDE DEF e
<1>3. Missing(e.ret, type, members) \subseteq {<<e.ret, "body">>}
  BY <1>1 DEF Missing
<1>4. Fresh(e, {<<e.ret, "body">>}, type)
  BY <1>2, <1>3 DEF Fresh, Over
<1> QED  BY <1>4 DEF e

LEMMA FreshSame ==
  ASSUME NEW c, NEW D, NEW type, Fresh(c, D, type), NEW d, Same(c, d)
  PROVE  Fresh(d, D, type) /\ d.ret = c.ret
<1>1. Over(cur, d, D)
  BY OverSame DEF Fresh
<1> QED  BY <1>1 DEF Fresh, Same, IsNode, Bound

LEMMA FreshKept ==
  ASSUME NEW c, NEW D, NEW type, Fresh(c, D, type), NEW d, Kept(c, d), Over(cur, d, D)
  PROVE  Fresh(d, D, type) /\ d.ret = c.ret
  BY DEF Fresh, Kept, IsNode

LEMMA FreshPut ==
  ASSUME NEW c, NEW D, NEW type, Fresh(c, D, type), NEW n, NEW m, NEW v,
         m \notin {"left", "right", "op", "operand"}, m \in Needs(c.nodes[n].type) => v # NULL
  PROVE  Fresh(Put(c, n, m, v), D, type) /\ Put(c, n, m, v).ret = c.ret
<1>1. Over(cur, Put(c, n, m, v), D) /\ Kept(c, Put(c, n, m, v))
  BY OverPut DEF Fresh
<1> QED  BY <1>1, FreshKept

LEMMA FreshLink ==
  ASSUME NEW c, NEW D, NEW type, Fresh(c, D, type), NEW f, NEW x
  PROVE  Fresh(LinkNode(c, f, x), D, type) /\ LinkNode(c, f, x).ret = c.ret
<1>1. Over(cur, LinkNode(c, f, x), D) /\ Kept(c, LinkNode(c, f, x))
  BY OverLink DEF Fresh
<1> QED  BY <1>1, FreshKept

LEMMA EndsFresh ==
  ASSUME Calling, NEW c, NEW type, Fresh(c, {}, type), Owes(Top) = {}, Then(c, <<>>)
  PROVE  Sound(cur', stack')
<1>1. Over(cur, c, {}) /\ IsNode(c, c.ret) /\ Out(cur, Top) \in 0..Bound(c, c.ret)
      /\ Lacks(c) \intersect ({} \union Owes(Top)) = {}
  BY DEF Fresh, Calling
<1> QED  BY <1>1, Ends

(* Frames that ask for nothing are called.                                 *)
LEMMA OutIs ==
  ASSUME NEW c, NEW D, Over(cur, c, D), NEW f, NEW in, NEW out, NEW w, Frame(c, f, in, out, w)
  PROVE  out \in 0..8
<1>1. Over(c, c, {}) /\ Heap(c)
  BY OverSelf DEF Over
<1> QED  BY <1>1, FrameOver DEF Frame

LEMMA CallFrames1 ==
  ASSUME Calling, NEW c, NEW D, Over(cur, c, D), IsNode(c, c.ret),
         NEW f, NEW o, NEW v, Frame(c, f, 0, o, v), Out(cur, Top) \in 0..o,
         D \union Owes(Top) \subseteq v, Then(c, <<f>>)
  PROVE  Sound(cur', stack')
<1>1. Bound(c, c.ret) \in 0..8
  BY BoundIs DEF Over
<1>2. Follows(c, Bound(c, c.ret), f) /\ Out(cur, Top) \in 0..Out(c, f)
  BY <1>1 DEF Follows, Frame
<1>3. Lacks(c) \intersect (D \union Owes(Top)) \subseteq Owes(f)
  BY DEF Frame
<1> QED  BY <1>2, <1>3, Calls1

LEMMA CallFrames2 ==
  ASSUME Calling, NEW c, NEW D, Over(cur, c, D), IsNode(c, c.ret),
         NEW f, NEW o, NEW v, Frame(c, f, 0, o, v), NEW g, NEW p, NEW w, Frame(c, g, 0, p, w),
         Out(cur, Top) \in 0..p, D \union Owes(Top) \subseteq v \union w, Then(c, <<f, g>>)
  PROVE  Sound(cur', stack')
<1>1. Bound(c, c.ret) \in 0..8 /\ o \in 0..8
  BY BoundIs, OutIs DEF Over
<1>2. Follows(c, Bound(c, c.ret), f) /\ Follows(c, Out(c, f), g) /\ Out(cur, Top) \in 0..Out(c, g)
  BY <1>1 DEF Follows, Frame
<1>3. Lacks(c) \intersect (D \union Owes(Top)) \subseteq Owes(f) \union Owes(g)
  BY DEF Frame
<1> QED  BY <1>2, <1>3, Calls2

LEMMA CallFrames3 ==
  ASSUME Calling, NEW c, NEW D, Over(cur, c, D), IsNode(c, c.ret),
         NEW f, NEW o, NEW u, Frame(c, f, 0, o, u), NEW g, NEW p, NEW v, Frame(c, g, 0, p, v),
         NEW h, NEW q, NEW w, Frame(c, h, 0, q, w), Out(cur, Top) \in 0..q,
         D \union Owes(Top) \subseteq u \union v \union w, Then(c, <<f, g, h>>)
  PROVE  Sound(cur', stack')
<1>1. Bound(c, c.ret) \in 0..8 /\ o \in 0..8 /\ p \in 0..8
  BY BoundIs, OutIs DEF Over
<1>2. /\ Follows(c, Bound(c, c.ret), f) /\ Follows(c, Out(c, f), g) /\ Follows(c, Out(c, g), h)
      /\ Out(cur, Top) \in 0..Out(c, h)
  BY <1>1 DEF Follows, Frame
<1>3. Lacks(c) \intersect (D \union Owes(Top)) \subseteq Owes(f) \union Owes(g) \union Owes(h)
  BY DEF Frame
<1> QED  BY <1>2, <1>3, Calls3

LEMMA CallFrames4 ==
  ASSUME Calling, NEW c, NEW D, Over(cur, c, D), IsNode(c, c.ret),
         NEW f, NEW o, NEW u, Frame(c, f, 0, o, u), NEW g, NEW p, NEW v, Frame(c, g, 0, p, v),
         NEW h, NEW q, NEW w, Frame(c, h, 0, q, w), NEW i, NEW r, NEW x, Frame(c, i, 0, r, x),
         Out(cur, Top) \in 0..r,
         D \union Owes(Top) \subseteq u \union v \union w \union x, Then(c, <<f, g, h, i>>)
  PROVE  Sound(cur', stack')
<1>1. Bound(c, c.ret) \in 0..8 /\ o \in 0..8 /\ p \in 0..8 /\ q \in 0..8
  BY BoundIs, OutIs DEF Over
<1>2. /\ Follows(c, Bound(c, c.ret), f) /\ Follows(c, Out(c, f), g) /\ Follows(c, Out(c, g), h)
      /\ Follows(c, Out(c, h), i) /\ Out(cur, Top) \in 0..Out(c, i)
  BY <1>1 DEF Follows, Frame
<1>3. Lacks(c) \intersect (D \union Owes(Top))
        \subseteq Owes(f) \union Owes(g) \union Owes(h) \union Owes(i)
  BY DEF Frame
<1> QED  BY <1>2, <1>3, Calls4

LEMMA LiteralExprSound == ASSUME Calling, LiteralExpr PROVE Sound(cur', stack')
<1>1. Owes(Top) = {}
  BY DEF LiteralExpr, At, Top, Owes
<1>2. Over(cur, Ahead, {})
  BY Start, SameAdv, Moved DEF Ahead
<1>3. "LITERAL" \notin Structured
  BY DEF Structured, OperatorTypes, BodyTypes, PartTypes
<1> QED  BY <1>1, <1>2, <1>3, FreshFree, EndsFresh DEF LiteralExpr

LEMMA IdentifierExprSound == ASSUME Calling, IdentifierExpr PROVE Sound(cur', stack')
<1>1. Owes(Top) = {}
  BY DEF IdentifierExpr, At, Top, Owes
<1>2. Over(cur, Ahead, {})
  BY Start, SameAdv, Moved DEF Ahead
<1>3. "IDENTIFIER" \notin Structured
  BY DEF Structured, OperatorTypes, BodyTypes, PartTypes
<1> QED  BY <1>1, <1>2, <1>3, FreshFree, EndsFresh DEF IdentifierExpr

-------------------------------------------------------------------------------
(* Frames that are pushed in two parts.                                    *)

LEMMA TupleOf3 ==
  ASSUME NEW s, IsSeq(s), Len(s) = 3 PROVE s = <<s[1], s[2], s[3]>>
<1>1. s = [i \in 1..3 |-> s[i]]
  BY DEF IsSeq
<1> QED  BY <1>1

LEMMA TupleOf4 ==
  ASSUME NEW s, IsSeq(s), Len(s) = 4 PROVE s = <<s[1], s[2], s[3], s[4]>>
<1>1. s = [i \in 1..4 |-> s[i]]
  BY DEF IsSeq
<1> QED  BY <1>1

LEMMA TupleOf5 ==
  ASSUME NEW s, IsSeq(s), Len(s) = 5 PROVE s = <<s[1], s[2], s[3], s[4], s[5]>>
<1>1. s = [i \in 1..5 |-> s[i]]
  BY DEF IsSeq
<1> QED  BY <1>1

LEMMA TupleOf7 ==
  ASSUME NEW s, IsSeq(s), Len(s) = 7 PROVE s = <<s[1], s[2], s[3], s[4], s[5], s[6], s[7]>>
<1>1. s = [i \in 1..7 |-> s[i]]
  BY DEF IsSeq
<1> QED  BY <1>1

LEMMA Concat22 ==
  ASSUME NEW a, NEW b, NEW c, NEW d
  PROVE  <<a, b>> \o <<c, d>> = <<a, b, c, d>>
<1> DEFINE s == <<a, b>>
           t == <<c, d>>
           u == s \o t
<1>0. IsSeq(s) /\ IsSeq(t)
  BY DEF IsSeq
<1>1. Len(s) = 2 /\ Len(t) = 2
  OBVIOUS
<1>2. s[1] = a /\ s[2] = b /\ t[1] = c /\ t[2] = d
  OBVIOUS
<1> HIDE DEF s, t
<1>3. /\ IsSeq(u) /\ Len(u) = Len(s) + Len(t)
      /\ \A i \in 1..Len(s) : u[i] = s[i]
      /\ \A i \in 1..Len(t) : u[Len(s) + i] = t[i]
  BY <1>0, ConcatSeq
<1> HIDE DEF u
<1>4. /\ u[1] = s[1] /\ u[2] = s[2]
      /\ u[3] = t[1] /\ u[4] = t[2]
  BY <1>1, <1>3
<1>5. Len(u) = 4
  BY <1>1, <1>3
<1>6. u = <<u[1], u[2], u[3], u[4]>>
  BY <1>3, <1>5, TupleOf4
<1> QED  BY <1>2, <1>4, <1>6 DEF s, t, u

LEMMA Concat21 ==
  ASSUME NEW a, NEW b, NEW c
  PROVE  <<a, b>> \o <<c>> = <<a, b, c>>
<1> DEFINE s == <<a, b>>
           t == <<c>>
           u == s \o t
<1>0. IsSeq(s) /\ IsSeq(t)
  BY DEF IsSeq
<1>1. Len(s) = 2 /\ Len(t) = 1
  OBVIOUS
<1>2. s[1] = a /\ s[2] = b /\ t[1] = c
  OBVIOUS
<1> HIDE DEF s, t
<1>3. /\ IsSeq(u) /\ Len(u) = Len(s) + Len(t)
      /\ \A i \in 1..Len(s) : u[i] = s[i]
      /\ \A i \in 1..Len(t) : u[Len(s) + i] = t[i]
  BY <1>0, ConcatSeq
<1> HIDE DEF u
<1>4. /\ u[1] = s[1] /\ u[2] = s[2]
      /\ u[3] = t[1]
  BY <1>1, <1>3
<1>5. Len(u) = 3
  BY <1>1, <1>3
<1>6. u = <<u[1], u[2], u[3]>>
  BY <1>3, <1>5, TupleOf3
<1> QED  BY <1>2, <1>4, <1>6 DEF s, t, u

LEMMA Concat41 ==
  ASSUME NEW a, NEW b, NEW c, NEW d, NEW e
  PROVE  <<a, b, c, d>> \o <<e>> = <<a, b, c, d, e>>
<1> DEFINE s == <<a, b, c, d>>
           t == <<e>>
           u == s \o t
<1>0. IsSeq(s) /\ IsSeq(t)
  BY DEF IsSeq
<1>1. Len(s) = 4 /\ Len(t) = 1
  OBVIOUS
<1>2. s[1] = a /\ s[2] = b /\ s[3] = c /\ s[4] = d /\ t[1] = e
  OBVIOUS
<1> HIDE DEF s, t
<1>3. /\ IsSeq(u) /\ Len(u) = Len(s) + Len(t)
      /\ \A i \in 1..Len(s) : u[i] = s[i]
      /\ \A i \in 1..Len(t) : u[Len(s) + i] = t[i]
  BY <1>0, ConcatSeq
<1> HIDE DEF u
<1>4. /\ u[1] = s[1] /\ u[2] = s[2] /\ u[3] = s[3] /\ u[4] = s[4]
      /\ u[5] = t[1]
  BY <1>1, <1>3
<1>5. Len(u) = 5
  BY <1>1, <1>3
<1>6. u = <<u[1], u[2], u[3], u[4], u[5]>>
  BY <1>3, <1>5, TupleOf5
<1> QED  BY <1>2, <1>4, <1>6 DEF s, t, u

LEMMA Concat52 ==
  ASSUME NEW a, NEW b, NEW c, NEW d, NEW e, NEW f, NEW g
  PROVE  <<a, b, c, d, e>> \o <<f, g>> = <<a, b, c, d, e, f, g>>
<1> DEFINE s == <<a, b, c, d, e>>
           t == <<f, g>>
           u == s \o t
<1>0. IsSeq(s) /\ IsSeq(t)
  BY DEF IsSeq
<1>1. Len(s) = 5 /\ Len(t) = 2
  OBVIOUS
<1>2. s[1] = a /\ s[2] = b /\ s[3] = c /\ s[4] = d /\ s[5] = e /\ t[1] = f /\ t[2] = g
  OBVIOUS
<1> HIDE DEF s, t
<1>3. /\ IsSeq(u) /\ Len(u) = Len(s) + Len(t)
      /\ \A i \in 1..Len(s) : u[i] = s[i]
      /\ \A i \in 1..Len(t) : u[Len(s) + i] = t[i]
  BY <1>0, ConcatSeq
<1> HIDE DEF u
<1>4. /\ u[1] = s[1] /\ u[2] = s[2] /\ u[3] = s[3] /\ u[4] = s[4] /\ u[5] = s[5]
      /\ u[6] = t[1] /\ u[7] = t[2]
  BY <1>1, <1>3
<1>5. Len(u) = 7
  BY <1>1, <1>3
<1>6. u = <<u[1], u[2], u[3], u[4], u[5], u[6], u[7]>>
  BY <1>3, <1>5, TupleOf7
<1> QED  BY <1>2, <1>4, <1>6 DEF s, t, u

LEMMA Concat12 ==
  ASSUME NEW a, NEW b, NEW c
  PROVE  <<a>> \o <<b, c>> = <<a, b, c>>
<1> DEFINE s == <<a>>
           t == <<b, c>>
           u == s \o t
<1>0. IsSeq(s) /\ IsSeq(t)
  BY DEF IsSeq
<1>1. Len(s) = 1 /\ Len(t) = 2
  OBVIOUS
<1>2. s[1] = a /\ t[1] = b /\ t[2] = c
  OBVIOUS
<1> HIDE DEF s, t
<1>3. /\ IsSeq(u) /\ Len(u) = Len(s) + Len(t)
      /\ \A i \in 1..Len(s) : u[i] = s[i]
      /\ \A i \in 1..Len(t) : u[Len(s) + i] = t[i]
  BY <1>0, ConcatSeq
<1> HIDE DEF u
<1>4. /\ u[1] = s[1]
      /\ u[2] = t[1] /\ u[3] = t[2]
  BY <1>1, <1>3
<1>5. Len(u) = 3
  BY <1>1, <1>3
<1>6. u = <<u[1], u[2], u[3]>>
  BY <1>3, <1>5, TupleOf3
<1> QED  BY <1>2, <1>4, <1>6 DEF s, t, u

LEMMA Concat13 ==
  ASSUME NEW a, NEW b, NEW c, NEW d
  PROVE  <<a>> \o <<b, c, d>> = <<a, b, c, d>>
<1> DEFINE s == <<a>>
           t == <<b, c, d>>
           u == s \o t
<1>0. IsSeq(s) /\ IsSeq(t)
  BY DEF IsSeq
<1>1. Len(s) = 1 /\ Len(t) = 3
  OBVIOUS
<1>2. s[1] = a /\ t[1] = b /\ t[2] = c /\ t[3] = d
  OBVIOUS
<1> HIDE DEF s, t
<1>3. /\ IsSeq(u) /\ Len(u) = Len(s) + Len(t)
      /\ \A i \in 1..Len(s) : u[i] = s[i]
      /\ \A i \in 1..Len(t) : u[Len(s) + i] = t[i]
  BY <1>0, ConcatSeq
<1> HIDE DEF u
<1>4. /\ u[1] = s[1]
      /\ u[2] = t[1] /\ u[3] = t[2] /\ u[4] = t[3]
  BY <1>1, <1>3
<1>5. Len(u) = 4
  BY <1>1, <1>3
<1>6. u = <<u[1], u[2], u[3], u[4]>>
  BY <1>3, <1>5, TupleOf4
<1> QED  BY <1>2, <1>4, <1>6 DEF s, t, u

-------------------------------------------------------------------------------
(* Lists.                                                                  *)

LEMMA KeptNode ==
  ASSUME Calling, NEW c, Kept(cur, c)
  PROVE  IsNode(c, c.ret) /\ c.ret = cur.ret /\ Bound(c, c.ret) = Bound(cur, cur.ret)
  BY DEF Calling, Kept, IsNode

LEMMA LinkSound == ASSUME Calling, Link PROVE Sound(cur', stack')
<1> DEFINE f == [Top EXCEPT !.fn = Top.op, !.op = NoName]
           c == LinkNode(cur, f, cur.ret)
           o == IF Top.op = "tuple" THEN 8 ELSE 0
<1>1. Top.fn = "link"
  BY DEF Link, At, Top
<1>2. Then(c, <<Linked(f, cur.ret)>>)
  BY DEF Link, Calling
<1>3. Over(cur, c, {}) /\ IsNode(c, c.ret)
  BY Start, OverLink, KeptNode
<1> HIDE DEF c
<1>4. FrameOk(c, Top)
  BY <1>3, FrameOver DEF Calling
<1>5. Frame(c, Linked(f, cur.ret), 0, o, {})
  BY <1>1, <1>4, ListGoesOn
<1>6. Out(cur, Top) = o /\ Owes(Top) = {} /\ Out(cur, Top) \in 0..o
  BY <1>1 DEF Out, Owes, Levels, Whole
<1> HIDE DEF f, o
<1> QED  BY <1>2, <1>3, <1>5, <1>6, CallFrames1

LEMMA ArgumentSound == ASSUME Calling, Argument PROVE Sound(cur', stack')
<1> DEFINE c == LinkNode(cur, Top, cur.ret)
           f == Linked(Top, cur.ret)
           d == Put(c, f.n, f.m, f.head)
<1>1. Top.fn = "args" /\ Top.fn \in Modest
  BY DEF Argument, At, Top, Modest
<1>2. /\ Top.m = "args" \/ (Top.m = "operand" /\ IsNode(cur, Top.n)
                                             /\ cur.nodes[Top.n].type = "CAST")
      /\ Top.head = NULL <=> Top.tail = NULL
  BY <1>1 DEF Calling, FrameOk
<1>3. Then(Adv(c), <<F("expression"), f>>) \/ Then(d, <<>>)
  BY <1>2 DEF Argument
<1>4. Over(cur, c, {}) /\ Kept(cur, c) /\ IsNode(c, c.ret)
  BY Start, OverLink, KeptNode
<1>5. Out(cur, Top) = 0 /\ Owes(Top) = {}
  BY <1>1, ModestIs
<1> HIDE DEF c
<1>6. \A e : Over(cur, e, {}) => Frame(e, f, 0, 0, {})
  <2> TAKE e
  <2> SUFFICES ASSUME Over(cur, e, {}) PROVE Frame(e, f, 0, 0, {})
    OBVIOUS
  <2>1. FrameOk(e, Top)
    BY FrameOver DEF Calling
  <2> QED  BY <1>1, <2>1, LinkedFrame DEF Calling
<1>7. f.n = Top.n /\ f.m = Top.m
  BY <1>1, LinkedFrame DEF Calling
<1> HIDE DEF f
<1>8. CASE Then(Adv(c), <<F("expression"), f>>)
  <2>1. Same(c, Adv(c))
    BY <1>4, SameSelf, SameAdv DEF Over, Heap
  <2>2. Over(cur, Adv(c), {}) /\ IsNode(Adv(c), Adv(c).ret)
    BY <1>4, <2>1, OverSame DEF Same, IsNode
  <2>3. Frame(Adv(c), F("expression"), 0, 0, {}) /\ Frame(Adv(c), f, 0, 0, {})
    BY <1>6, <2>2, PlainFrame DEF Plain
  <2>4. Out(cur, Top) \in 0..0 /\ {} \union Owes(Top) \subseteq {} \union {}
    BY <1>5
  <2> QED  BY <1>8, <2>2, <2>3, <2>4, CallFrames2
<1>9. CASE Then(d, <<>>)
  <2>1. /\ f.m \notin {"left", "right", "op"} /\ f.m \notin Needs(c.nodes[f.n].type)
        /\ f.m = "operand" => c.nodes[f.n].type \in {"RETURN", "CAST"}
    <3>1. CASE Top.m = "args"
      BY <1>7, <3>1 DEF Needs
    <3>2. CASE Top.m # "args"
      <4>1. f.m = "operand" /\ c.nodes[f.n].type = "CAST"
        BY <1>2, <1>4, <1>7, <3>2 DEF Kept
      <4> QED  BY <4>1 DEF Needs
    <3> QED  BY <3>1, <3>2
  <2>2. Over(cur, d, {}) /\ Kept(c, d)
    BY <1>4, <2>1, OverPut
  <2> HIDE DEF d
  <2>3. IsNode(d, d.ret) /\ Bound(d, d.ret) \in 0..8
    BY <1>4, <2>2, KeptOn, KeptNode, BoundIs DEF Over
  <2>4. Out(cur, Top) \in 0..Bound(d, d.ret) /\ Lacks(d) \intersect ({} \union Owes(Top)) = {}
    BY <1>5, <2>3
  <2> QED  BY <1>9, <2>2, <2>3, <2>4, Ends
<1> QED  BY <1>3, <1>8, <1>9

-------------------------------------------------------------------------------
(* Primary expressions.                                                    *)

LEMMA WholeTop ==
  ASSUME NEW f, f.fn \in {"postfix", "postfixrest", "primary", "paren", "brace", "tuple"}
  PROVE  (\A c : Out(c, f) = 8) /\ Owes(f) = {}
  BY DEF Out, Owes, Levels, Whole

LEMMA FirmIs ==
  ASSUME NEW c, NEW n, Heap(c), IsNode(c, n), c.nodes[n].type \notin OperatorTypes
  PROVE  Bound(c, n) = 8
  BY DEF Bound, RankOf, OperatorTypes

LEMMA LambdaExprSound == ASSUME Calling, LambdaExpr PROVE Sound(cur', stack')
<1>1. Out(cur, Top) = 8 /\ Owes(Top) = {}
  BY WholeTop DEF LambdaExpr, At, Top
<1>2. Over(cur, Ahead, {}) /\ IsNode(Ahead, Ahead.ret)
  BY Start, SameAdv, Moved DEF Ahead
<1>3. Frame(Ahead, F("function"), 0, 8, {})
  BY WholeFrames
<1>4. Out(cur, Top) \in 0..8 /\ {} \union Owes(Top) \subseteq {}
  BY <1>1
<1> QED  BY <1>2, <1>3, <1>4, CallFrames1 DEF LambdaExpr

LEMMA LoopExprSound == ASSUME Calling, LoopExpr PROVE Sound(cur', stack')
<1> DEFINE n == Bare(Consume(Ahead, "("), "LOOP")
           D == {<<n.ret, "body">>}
           declares == Tok(n) \in {"v:", "c:"}
           c == IF declares THEN Adv(n) ELSE n
           f == F(IF declares THEN "vardecl" ELSE "expression")
           g == FNode("loopkind", n.ret)
<1>1. Out(cur, Top) = 8 /\ Owes(Top) = {}
  BY WholeTop DEF LoopExpr, At, Top
<1>2. Over(cur, Consume(Ahead, "("), {})
  BY Start, SameAdv, SameConsume, Moved DEF Ahead
<1>3. Fresh(n, D, "LOOP")
  BY <1>2, FreshBody DEF BodyTypes, Bare
<1>4. Then(c, <<f, g>>)
  BY DEF LoopExpr
<1> HIDE DEF n
<1>5. Fresh(c, D, "LOOP") /\ c.ret = n.ret
  <2>1. Same(n, Adv(n)) /\ Same(n, n)
    BY <1>3, SameSelf, SameAdv DEF Fresh, Over, Heap
  <2> QED  BY <1>3, <2>1, FreshSame
<1> HIDE DEF c
<1>6. Over(cur, c, D) /\ IsNode(c, c.ret) /\ c.nodes[c.ret].type = "LOOP"
  BY <1>5 DEF Fresh
<1>7. Frame(c, f, 0, 0, {})
  BY PlainFrame DEF Plain
<1>8. Frame(c, g, 0, 8, D)
  BY <1>5, <1>6, BodyFrames
<1>9. Out(cur, Top) \in 0..8 /\ D \union Owes(Top) \subseteq {} \union D
  BY <1>1
<1> HIDE DEF D, f, g
<1> QED  BY <1>4, <1>6, <1>7, <1>8, <1>9, CallFrames2

LEMMA LoopKindSound == ASSUME Calling, LoopKind PROVE Sound(cur', stack')
<1> DEFINE n == Top.n
           D == {<<n, "body">>}
           c1 == Put(Ahead, n, "variable", cur.ret)
           c2 == Put(Ahead, n, "init", cur.ret)
           c3 == Put(cur, n, "condition", cur.ret)
           E == F("expression")
           X == FExpect(")")
           B == FNode("loopbody", n)
<1>1. /\ Top.fn = "loopkind" /\ Out(cur, Top) = 8 /\ Owes(Top) = D
      /\ IsNode(cur, n) /\ cur.nodes[n].type = "LOOP"
  BY DEF LoopKind, At, Top, Out, Owes, Levels, Whole, Calling, FrameOk, Holds
<1>2. \/ Then(c1, <<E, FSet(n, "collection")>> \o <<X, B>>)
      \/ Then(c2, <<E, FSet(n, "condition"), FExpect(COMMA), E, FSet(n, "increment")>> \o <<X, B>>)
      \/ Then(c3, <<X, B>>)
  BY DEF LoopKind
<1>3. ASSUME NEW c \in {c1, c2, c3}
      PROVE  /\ Over(cur, c, {}) /\ IsNode(c, c.ret)
             /\ IsNode(c, n) /\ c.nodes[n].type = "LOOP"
  <2>1. PICK b, m : c = Put(b, n, m, cur.ret) /\ b \in {Ahead, cur}
                    /\ m \in {"variable", "init", "condition"}
    OBVIOUS
  <2> HIDE DEF c1, c2, c3
  <2>2. Over(cur, b, {}) /\ Same(cur, b)
    BY <2>1, Start, SameAdv, Moved DEF Ahead
  <2>3. Over(cur, c, {}) /\ Kept(b, c)
    <3>1. m \notin {"left", "right", "op", "operand"} /\ cur.ret # NULL
      BY <2>1 DEF Calling
    <3> QED  BY <2>1, <2>2, <3>1, OverPut
  <2>4. Kept(cur, c)
    BY <2>2, <2>3, SameKept, KeptOn
  <2> QED  BY <1>1, <2>3, <2>4, KeptNode DEF Kept, IsNode
<1> HIDE DEF c1, c2, c3
<1>4. ASSUME NEW c \in {c1, c2, c3}
      PROVE  /\ Frame(c, E, 0, 0, {}) /\ Frame(c, X, 0, 0, {}) /\ Frame(c, B, 0, 8, D)
             /\ \A m \in {"collection", "condition", "increment"} :
                  Frame(c, FSet(n, m), 0, 8, {<<n, m>>})
  <2>1. Frame(c, E, 0, 0, {}) /\ Frame(c, X, 0, 0, {})
    BY PlainFrame, ExpectFrame DEF Plain
  <2>2. Frame(c, B, 0, 8, D)
    BY <1>3, BodyFrames
  <2>3. Bound(c, n) = 8
    BY <1>3, FirmIs DEF OperatorTypes, Over
  <2>4. \A m \in {"collection", "condition", "increment"} :
          Frame(c, FSet(n, m), 0, 8, {<<n, m>>})
    BY <1>3, <2>3, SetFrame
  <2> QED  BY <2>1, <2>2, <2>4
<1>5. Out(cur, Top) \in 0..8 /\ {} \union Owes(Top) = D
  BY <1>1
<1> HIDE DEF n, D, E, X, B
<1>6. CASE Then(c1, <<E, FSet(n, "collection")>> \o <<X, B>>)
  <2> DEFINE S == FSet(n, "collection")
             w == {<<n, "collection">>}
  <2>1. Then(c1, <<E, S, X, B>>)
    BY <1>6, Concat22
  <2>2. Frame(c1, E, 0, 0, {}) /\ Frame(c1, S, 0, 8, w)
    BY <1>4
  <2>3. Frame(c1, X, 0, 0, {}) /\ Frame(c1, B, 0, 8, D)
    BY <1>4
  <2>4. Over(cur, c1, {}) /\ IsNode(c1, c1.ret)
    BY <1>3
  <2>5. {} \union Owes(Top) \subseteq {} \union w \union {} \union D
    BY <1>5
  <2> HIDE DEF S, w
  <2> QED  BY <1>5, <2>1, <2>2, <2>3, <2>4, <2>5, CallFrames4
<1>7. CASE Then(c2, <<E, FSet(n, "condition"), FExpect(COMMA), E, FSet(n, "increment")>> \o <<X, B>>)
  <2> DEFINE S == FSet(n, "condition")
             T == FSet(n, "increment")
             Y == FExpect(COMMA)
             fs == <<E, S, Y, E, T, X, B>>
  <2>1. Then(c2, fs)
    <3> DEFINE gs == <<E, S, Y, E, T>> \o <<X, B>>
    <3>1. Then(c2, gs)
      BY <1>7
    <3> HIDE DEF S, T, Y
    <3>2. gs = fs
      BY Concat52
    <3> HIDE DEF gs, fs
    <3> QED  BY <3>1, <3>2
  <2>2. IsSeq(fs) /\ Len(fs) = 7
    BY DEF IsSeq
  <2>3. fs[1] = E /\ fs[2] = S /\ fs[3] = Y /\ fs[4] = E /\ fs[5] = T /\ fs[6] = X /\ fs[7] = B
    OBVIOUS
  <2>4. /\ Frame(c2, E, 0, 0, {}) /\ Frame(c2, S, 0, 8, {<<n, "condition">>})
        /\ Frame(c2, T, 0, 8, {<<n, "increment">>}) /\ Frame(c2, X, 0, 0, {})
        /\ Frame(c2, B, 0, 8, D) /\ Frame(c2, Y, 0, 0, {})
    BY <1>4, ExpectFrame
  <2>5. Over(cur, c2, {}) /\ IsNode(c2, c2.ret) /\ Bound(c2, c2.ret) \in 0..8
    BY <1>3, BoundIs DEF Over
  <2> HIDE DEF S, T, Y, fs
  <2>6. ASSUME NEW k \in 1..7
        PROVE  FrameOk(c2, fs[k]) /\ In(fs[k]) = 0 /\ Out(c2, fs[k]) \in 0..8
    BY <2>3, <2>4 DEF Frame
  <2>7. Out(c2, fs[7]) = 8 /\ Owes(fs[7]) = D
    BY <2>3, <2>4 DEF Frame
  <2>8. Leads(c2, Bound(c2, c2.ret), fs, Out(cur, Top))
    <3>1. \A k \in 2..7 : k - 1 \in 1..7
      OBVIOUS
    <3> QED  BY <1>5, <2>2, <2>5, <2>6, <2>7, <3>1 DEF Leads
  <2>9. Lacks(c2) \intersect ({} \union Owes(Top)) \subseteq Owed(fs)
    BY <1>5, <2>2, <2>7 DEF Owed
  <2>10. Good(c2, fs \o Tail(stack))
    BY <2>5, <2>8, <2>9, StepIs
  <2> QED  BY <2>1, <2>10 DEF Then, Sound
<1>8. CASE Then(c3, <<X, B>>)
  <2>1. Frame(c3, X, 0, 0, {}) /\ Frame(c3, B, 0, 8, D) /\ Over(cur, c3, {}) /\ IsNode(c3, c3.ret)
    BY <1>3, <1>4
  <2>2. {} \union Owes(Top) \subseteq {} \union D
    BY <1>5
  <2> QED  BY <1>5, <1>8, <2>1, <2>2, CallFrames2
<1> QED  BY <1>2, <1>6, <1>7, <1>8

-------------------------------------------------------------------------------
(* Cursors that add no node, and those that return a fresh one.            *)

Still(c) == Over(cur, c, {}) /\ Kept(cur, c) /\ IsNode(c, c.ret)

LEMMA BadSound == ASSUME NEW c, c.bad, NEW fs, Then(c, fs) PROVE Sound(cur', stack')
  BY DEF Then, Sound

LEMMA StillSelf == ASSUME Calling PROVE Still(cur)
  BY Start DEF Still, Calling

LEMMA StillSame == ASSUME Calling, NEW c, Still(c), NEW d, Same(c, d) PROVE Still(d)
<1>1. Over(cur, d, {})
  BY OverSame DEF Still
<1>2. Kept(cur, d)
  BY SameKept, KeptOn DEF Still
<1> QED  BY <1>1, <1>2, KeptNode DEF Still

LEMMA StillMove ==
  ASSUME Calling, NEW c, Still(c)
  PROVE  /\ Still(Adv(c)) /\ Still(Fails(c)) /\ Fails(c).bad
         /\ \A t : Still(Consume(c, t)) /\ Still(Match(c, t)) /\ Still(Lose(c, t))
                   /\ Still(Skip(c, t))
         /\ c.bad => Adv(c).bad /\ \A t : Consume(c, t).bad
<1>1. Same(c, c)
  BY SameSelf DEF Still, Over, Heap
<1>2. Same(c, Adv(c)) /\ Same(c, Fails(c)) /\ Fails(c).bad
  BY <1>1, SameAdv, SameFails
<1>3. \A t : Same(c, Consume(c, t)) /\ Same(c, Match(c, t)) /\ Same(c, Lose(c, t))
             /\ Same(c, Skip(c, t))
  BY <1>1, SameConsume, SameMatch, SameLose, SameSkip
<1>4. c.bad => Adv(c).bad /\ \A t : Consume(c, t).bad
  BY <1>2, <1>3 DEF Same
<1> QED  BY <1>2, <1>3, <1>4, StillSame

LEMMA StillPut ==
  ASSUME Calling, NEW c, Still(c), NEW n, NEW m, m \notin {"left", "right", "op"}, NEW v,
         m = "operand" => c.nodes[n].type \in {"RETURN", "CAST"},
         m \in Needs(c.nodes[n].type) => v # NULL
  PROVE  /\ Still(Put(c, n, m, v)) /\ (v # NULL => <<n, m>> \notin Lacks(Put(c, n, m, v)))
         /\ c.bad => Put(c, n, m, v).bad
<1>1. /\ Over(cur, Put(c, n, m, v), {}) /\ Kept(c, Put(c, n, m, v))
      /\ (v # NULL => <<n, m>> \notin Lacks(Put(c, n, m, v)))
  BY OverPut DEF Still
<1>2. Kept(cur, Put(c, n, m, v)) /\ (c.bad => Put(c, n, m, v).bad)
  BY <1>1, KeptOn DEF Still, Kept
<1> QED  BY <1>1, <1>2, KeptNode DEF Still

(* Members that no node needs.                                             *)
Spare == {"elements", "statements", "variable", "init", "condition", "type_name", "fields",
          "variants", "members", "alias", "return_type", "name", "increment", "collection",
          "params", "data", "inline_type", "initializer", "catch_block", "statement", "target"}

LEMMA SpareIs ==
  ASSUME NEW m \in Spare
  PROVE  /\ \A type : m \notin Needs(type)
         /\ m \notin {"left", "right", "op", "operand"}
  BY DEF Spare, Needs

LEMMA StillSpare ==
  ASSUME Calling, NEW c, Still(c), NEW n, NEW m \in Spare, NEW v
  PROVE  Still(Put(c, n, m, v)) /\ (c.bad => Put(c, n, m, v).bad)
<1>1. m \notin Needs(c.nodes[n].type) /\ m \notin {"left", "right", "op"} /\ m # "operand"
  BY SpareIs
<1> QED  BY <1>1, StillPut

LEMMA StillLink ==
  ASSUME Calling, NEW c, Still(c), NEW f, NEW x PROVE Still(LinkNode(c, f, x))
<1>1. Over(cur, LinkNode(c, f, x), {}) /\ Kept(c, LinkNode(c, f, x))
  BY OverLink DEF Still
<1>2. Kept(cur, LinkNode(c, f, x))
  BY <1>1, KeptOn DEF Still
<1> QED  BY <1>1, <1>2, KeptNode DEF Still

LEMMA StillNode ==
  ASSUME Calling, NEW c, Still(c), NEW n, IsNode(cur, n)
  PROVE  /\ IsNode(c, n) /\ c.nodes[n].type = cur.nodes[n].type
         /\ Bound(c, n) = Bound(cur, n) /\ Bound(c, n) \in 0..8
<1>1. IsNode(c, n) /\ c.nodes[n].type = cur.nodes[n].type /\ Bound(c, n) = Bound(cur, n)
  BY DEF Still, Kept, IsNode
<1>2. Bound(c, n) \in 0..8
  BY <1>1, BoundIs DEF Still, Over
<1> QED  BY <1>1, <1>2

LEMMA StillRet ==
  ASSUME Calling, NEW c, Still(c)
  PROVE  /\ Over(cur, c, {}) /\ IsNode(c, c.ret) /\ c.ret = cur.ret
         /\ Bound(c, c.ret) = Bound(cur, cur.ret) /\ Bound(c, c.ret) \in 0..8
<1>1. c.ret = cur.ret /\ IsNode(cur, cur.ret)
  BY DEF Still, Kept, Calling
<1> QED  BY <1>1, StillNode DEF Still

LEMMA FreshMove ==
  ASSUME NEW c, NEW D, NEW type, Fresh(c, D, type)
  PROVE  /\ Fresh(Adv(c), D, type) /\ Adv(c).ret = c.ret
         /\ Fresh(Fails(c), D, type) /\ Fails(c).ret = c.ret /\ Fails(c).bad
         /\ \A t : /\ Fresh(Consume(c, t), D, type) /\ Consume(c, t).ret = c.ret
                   /\ Fresh(Match(c, t), D, type) /\ Match(c, t).ret = c.ret
                   /\ Fresh(Lose(c, t), D, type) /\ Lose(c, t).ret = c.ret
<1>1. Same(c, c)
  BY SameSelf DEF Fresh, Over, Heap
<1>2. Same(c, Adv(c)) /\ Same(c, Fails(c)) /\ Fails(c).bad
  BY <1>1, SameAdv, SameFails
<1>3. \A t : Same(c, Consume(c, t)) /\ Same(c, Match(c, t)) /\ Same(c, Lose(c, t))
  BY <1>1, SameConsume, SameMatch, SameLose
<1> QED  BY <1>2, <1>3, FreshSame

LEMMA FreshSpare ==
  ASSUME NEW c, NEW D, NEW type, Fresh(c, D, type), NEW n, NEW m \in Spare, NEW v
  PROVE  Fresh(Put(c, n, m, v), D, type) /\ Put(c, n, m, v).ret = c.ret
<1>1. m \notin {"left", "right", "op", "operand"} /\ m \notin Needs(c.nodes[n].type)
  BY SpareIs
<1> QED  BY <1>1, FreshPut

LEMMA FreshIs ==
  ASSUME NEW c, NEW D, NEW type, Fresh(c, D, type)
  PROVE  /\ Over(cur, c, D) /\ IsNode(c, c.ret) /\ c.ret # NULL
         /\ c.nodes[c.ret].type = type /\ Bound(c, c.ret) = 8
  BY DEF Fresh

(* Nodes that were there before are there still.                           *)
LEMMA OverNode ==
  ASSUME Calling, NEW c, NEW D, Over(cur, c, D), NEW n, IsNode(cur, n)
  PROVE  IsNode(c, n) /\ c.nodes[n].type = cur.nodes[n].type /\ Bound(cur, n) \in 0..Bound(c, n)
         /\ Bound(c, n) \in 0..8
<1>1. IsNode(c, n) /\ c.nodes[n].type = cur.nodes[n].type /\ Bound(cur, n) \in 0..Bound(c, n)
  BY DEF Over, Calling, Heap, IsSeq, IsNode
<1>2. Bound(c, n) \in 0..8
  BY <1>1, BoundIs DEF Over
<1> QED  BY <1>1, <1>2

(* Functions whose result is not an operand.                               *)
LEMMA StillEnds ==
  ASSUME Calling, NEW c, Still(c), Top.fn \in Modest, Then(c, <<>>) PROVE Sound(cur', stack')
<1>1. Out(cur, Top) = 0 /\ Owes(Top) = {}
  BY ModestIs
<1>2. Over(cur, c, {}) /\ IsNode(c, c.ret) /\ Bound(c, c.ret) \in 0..8
  BY StillRet
<1>3. Out(cur, Top) \in 0..Bound(c, c.ret) /\ Lacks(c) \intersect ({} \union Owes(Top)) = {}
  BY <1>1, <1>2
<1> QED  BY <1>2, <1>3, Ends

LEMMA ModestCalls1 ==
  ASSUME Calling, Top.fn \in Modest, NEW c, NEW D, Over(cur, c, D), IsNode(c, c.ret),
         NEW f, NEW o, NEW v, Frame(c, f, 0, o, v), D \subseteq v, Then(c, <<f>>)
  PROVE  Sound(cur', stack')
<1>1. Out(cur, Top) = 0 /\ Owes(Top) = {} /\ o \in 0..8
  BY ModestIs, OutIs
<1>2. Out(cur, Top) \in 0..o /\ D \union Owes(Top) \subseteq v
  BY <1>1
<1> QED  BY <1>2, CallFrames1

LEMMA ModestCalls2 ==
  ASSUME Calling, Top.fn \in Modest, NEW c, NEW D, Over(cur, c, D), IsNode(c, c.ret),
         NEW f, NEW o, NEW v, Frame(c, f, 0, o, v), NEW g, NEW p, NEW w, Frame(c, g, 0, p, w),
         D \subseteq v \union w, Then(c, <<f, g>>)
  PROVE  Sound(cur', stack')
<1>1. Out(cur, Top) = 0 /\ Owes(Top) = {} /\ p \in 0..8
  BY ModestIs, OutIs
<1>2. Out(cur, Top) \in 0..p /\ D \union Owes(Top) \subseteq v \union w
  BY <1>1
<1> QED  BY <1>2, CallFrames2

LEMMA ModestCalls3 ==
  ASSUME Calling, Top.fn \in Modest, NEW c, NEW D, Over(cur, c, D), IsNode(c, c.ret),
         NEW f, NEW o, NEW u, Frame(c, f, 0, o, u), NEW g, NEW p, NEW v, Frame(c, g, 0, p, v),
         NEW h, NEW q, NEW w, Frame(c, h, 0, q, w), D \subseteq u \union v \union w,
         Then(c, <<f, g, h>>)
  PROVE  Sound(cur', stack')
<1>1. Out(cur, Top) = 0 /\ Owes(Top) = {} /\ q \in 0..8
  BY ModestIs, OutIs
<1>2. Out(cur, Top) \in 0..q /\ D \union Owes(Top) \subseteq u \union v \union w
  BY <1>1
<1> QED  BY <1>2, CallFrames3

LEMMA ModestCalls4 ==
  ASSUME Calling, Top.fn \in Modest, NEW c, NEW D, Over(cur, c, D), IsNode(c, c.ret),
         NEW f, NEW o, NEW u, Frame(c, f, 0, o, u), NEW g, NEW p, NEW v, Frame(c, g, 0, p, v),
         NEW h, NEW q, NEW w, Frame(c, h, 0, q, w), NEW i, NEW r, NEW x, Frame(c, i, 0, r, x),
         D \subseteq u \union v \union w \union x, Then(c, <<f, g, h, i>>)
  PROVE  Sound(cur', stack')
<1>1. Out(cur, Top) = 0 /\ Owes(Top) = {} /\ r \in 0..8
  BY ModestIs, OutIs
<1>2. Out(cur, Top) \in 0..r /\ D \union Owes(Top) \subseteq u \union v \union w \union x
  BY <1>1
<1> QED  BY <1>2, CallFrames4

(* The function returns a node of its own.                                 *)
LEMMA EndsAt ==
  ASSUME Calling, NEW c, NEW D, Over(cur, c, D), NEW x, IsNode(c, x),
         Out(cur, Top) \in 0..Bound(c, x), Lacks(c) \intersect (D \union Owes(Top)) = {},
         Then([c EXCEPT !.ret = x], <<>>)
  PROVE  Sound(cur', stack')
<1> DEFINE d == [c EXCEPT !.ret = x]
<1>1. d.ret = x /\ d.nodes = c.nodes /\ d.parens = c.parens /\ Over(cur, d, D)
  BY OverRet DEF Over, Heap, CurFields
<1>2. Then(d, <<>>)
  OBVIOUS
<1> HIDE DEF d
<1>3. IsNode(d, d.ret) /\ Bound(d, d.ret) = Bound(c, x) /\ Lacks(d) = Lacks(c)
  BY <1>1 DEF IsNode, Bound, Lacks
<1> QED  BY <1>1, <1>2, <1>3, Ends

LEMMA ModestEndsAt ==
  ASSUME Calling, Top.fn \in Modest, NEW c, Over(cur, c, {}), NEW x, IsNode(c, x),
         Then([c EXCEPT !.ret = x], <<>>)
  PROVE  Sound(cur', stack')
<1>1. Out(cur, Top) = 0 /\ Owes(Top) = {} /\ Bound(c, x) \in 0..8
  BY ModestIs, BoundIs DEF Over
<1>2. Out(cur, Top) \in 0..Bound(c, x) /\ Lacks(c) \intersect ({} \union Owes(Top)) = {}
  BY <1>1
<1> QED  BY <1>2, EndsAt

-------------------------------------------------------------------------------
(* Loops and tuples.                                                       *)

LEMMA LoopBodySound == ASSUME Calling, LoopBody PROVE Sound(cur', stack')
<1> DEFINE n == Top.n
           b == Match(cur, "->")
           c == [b EXCEPT !.ret = n]
<1>1. /\ Top.fn = "loopbody" /\ Out(cur, Top) = 8 /\ Owes(Top) = {<<n, "body">>}
      /\ IsNode(cur, n) /\ cur.nodes[n].type = "LOOP"
  BY DEF LoopBody, At, Top, Out, Owes, Levels, Whole, Calling, FrameOk, Holds
<1>2. Then(Adv(c), <<F("block"), FSet(n, "body")>>) \/ Then(Fails(c), <<>>)
  BY DEF LoopBody
<1>3. Still(b)
  BY StillSelf, StillMove
<1>4. IsNode(b, n) /\ b.nodes[n].type = "LOOP"
  BY <1>1, <1>3, StillNode
<1> HIDE DEF b
<1>5. Over(cur, c, {}) /\ c.ret = n /\ c.nodes = b.nodes /\ DOMAIN c = CurFields
  BY <1>3, OverRet DEF Still, Over, Heap, CurFields
<1> HIDE DEF c
<1>6. CASE Then(Fails(c), <<>>)
  <2>1. Fails(c).bad
    BY <1>5, SameSelf, SameFails
  <2> QED  BY <1>6, <2>1, BadSound
<1>7. CASE Then(Adv(c), <<F("block"), FSet(n, "body")>>)
  <2> DEFINE d == Adv(c)
  <2>1. Same(c, d)
    BY <1>5, SameSelf, SameAdv
  <2> HIDE DEF d
  <2>2. Over(cur, d, {}) /\ d.nodes = b.nodes /\ d.ret = n
    BY <1>5, <2>1, OverSame DEF Same
  <2>3. IsNode(d, n) /\ d.nodes[n].type = "LOOP"
    BY <1>4, <2>2 DEF IsNode
  <2>4. Bound(d, n) = 8
    BY <2>2, <2>3, FirmIs DEF OperatorTypes, Over
  <2>5. Frame(d, FSet(n, "body"), 0, 8, {<<n, "body">>})
    BY <2>3, <2>4, SetFrame
  <2>6. Frame(d, F("block"), 0, 0, {})
    BY PlainFrame DEF Plain
  <2>7. Out(cur, Top) \in 0..8 /\ {} \union Owes(Top) \subseteq {} \union {<<n, "body">>}
    BY <1>1
  <2>8. Then(d, <<F("block"), FSet(n, "body")>>)
    BY <1>7 DEF d
  <2> HIDE DEF n
  <2> QED  BY <2>2, <2>3, <2>5, <2>6, <2>7, <2>8, CallFrames2
<1> QED  BY <1>2, <1>6, <1>7

LEMMA InfiniteLoopSound == ASSUME Calling, InfiniteLoop PROVE Sound(cur', stack')
<1> DEFINE n == Bare(Consume(Adv(Ahead), ")"), "LOOP")
           D == {<<n.ret, "body">>}
<1>1. Out(cur, Top) = 8 /\ Owes(Top) = {}
  BY WholeTop DEF InfiniteLoop, At, Top
<1>2. Still(Consume(Adv(Ahead), ")"))
  BY StillSelf, StillMove DEF Ahead
<1>3. Fresh(n, D, "LOOP")
  BY <1>2, FreshBody DEF BodyTypes, Bare, Still
<1>4. Then(n, <<FNode("loopbody", n.ret)>>)
  BY DEF InfiniteLoop
<1> HIDE DEF n
<1>5. Over(cur, n, D) /\ IsNode(n, n.ret) /\ n.nodes[n.ret].type = "LOOP"
  BY <1>3, FreshIs
<1>6. Frame(n, FNode("loopbody", n.ret), 0, 8, D)
  BY <1>5, BodyFrames
<1>7. Out(cur, Top) \in 0..8 /\ D \union Owes(Top) \subseteq D
  BY <1>1
<1> HIDE DEF D
<1> QED  BY <1>4, <1>5, <1>6, <1>7, CallFrames1

LEMMA ParenthesisSound == ASSUME Calling, Parenthesis PROVE Sound(cur', stack')
<1>1. Out(cur, Top) = 8 /\ Owes(Top) = {}
  BY WholeTop DEF Parenthesis, At, Top
<1>2. Over(cur, Ahead, {}) /\ IsNode(Ahead, Ahead.ret)
  BY StillSelf, StillMove DEF Ahead, Still
<1>3. Frame(Ahead, F("expression"), 0, 0, {}) /\ Frame(Ahead, F("paren"), 0, 8, {})
  BY PlainFrame, WholeFrames DEF Plain
<1>4. Out(cur, Top) \in 0..8 /\ {} \union Owes(Top) \subseteq {} \union {}
  BY <1>1
<1>5. Then(Ahead, <<F("expression"), F("paren")>>)
  BY DEF Parenthesis
<1> QED  BY <1>2, <1>3, <1>4, <1>5, CallFrames2

(* A tuple is begun with its first element.                                *)
LEMMA TupleStarts ==
  ASSUME Calling, Out(cur, Top) = 8, Owes(Top) = {}, NEW m,
         Then([Bare(cur, "TUPLE") EXCEPT !.ret = cur.ret],
              <<FLink(List("tuple", Bare(cur, "TUPLE").ret, m))>>)
  PROVE  Sound(cur', stack')
<1> DEFINE c == Bare(cur, "TUPLE")
           d == [c EXCEPT !.ret = cur.ret]
           g == List("tuple", c.ret, m)
<1>1. Then(d, <<FLink(g)>>)
  OBVIOUS
<1>2. Over(cur, cur, {}) /\ "TUPLE" \notin Structured
  BY Start DEF Structured, OperatorTypes, BodyTypes, PartTypes
<1>3. Fresh(c, {}, "TUPLE")
  BY <1>2, FreshFree DEF Bare
<1> HIDE DEF c
<1>4. Over(cur, d, {}) /\ d.nodes = c.nodes /\ d.ret = cur.ret
  BY <1>3, OverRet DEF Fresh, Over, Heap, CurFields
<1> HIDE DEF d
<1>5. IsNode(d, c.ret) /\ d.nodes[c.ret].type = "TUPLE"
  BY <1>3, <1>4 DEF Fresh, IsNode
<1>6. IsNode(d, d.ret)
  BY <1>4, OverNode DEF Calling
<1>7. FrameOk(d, g) /\ g.fn = "tuple"
  BY <1>5, ListFrame DEF Lists, Frame
<1> HIDE DEF g
<1>8. Frame(d, FLink(g), 0, 8, {})
  BY <1>7, LinkFrame DEF Lists
<1>9. Out(cur, Top) \in 0..8 /\ {} \union Owes(Top) \subseteq {}
  OBVIOUS
<1> QED  BY <1>1, <1>4, <1>6, <1>8, <1>9, CallFrames1

LEMMA ParenSound == ASSUME Calling, Paren PROVE Sound(cur', stack')
<1> DEFINE c == Consume(cur, ")")
           d == [c EXCEPT !.parens = @ \union {cur.ret}]
<1>1. Out(cur, Top) = 8 /\ Owes(Top) = {}
  BY WholeTop DEF Paren, At, Top
<1>2. \/ Then(d, <<>>)
      \/ Then([Bare(cur, "TUPLE") EXCEPT !.ret = cur.ret],
              <<FLink(List("tuple", Bare(cur, "TUPLE").ret, ")"))>>)
  BY DEF Paren, Calling
<1>3. CASE Then(d, <<>>)
  <2>1. Still(c)
    BY StillSelf, StillMove
  <2> HIDE DEF c
  <2>2. Over(cur, c, {}) /\ IsNode(c, c.ret) /\ c.ret = cur.ret
    BY <2>1, StillRet
  <2>3. d = [c EXCEPT !.parens = @ \union {c.ret}]
    BY <2>2
  <2> HIDE DEF d
  <2>4. Over(cur, d, {}) /\ d.ret = c.ret /\ Bound(d, c.ret) = 8 /\ d.nodes = c.nodes
    BY <2>2, <2>3, OverParen
  <2>5. IsNode(d, d.ret) /\ Out(cur, Top) \in 0..Bound(d, d.ret)
        /\ Lacks(d) \intersect ({} \union Owes(Top)) = {}
    BY <1>1, <2>2, <2>4 DEF IsNode
  <2> QED  BY <1>3, <2>4, <2>5, Ends
<1> QED  BY <1>1, <1>2, <1>3, TupleStarts

LEMMA BraceTupleSound == ASSUME Calling, BraceTuple PROVE Sound(cur', stack')
<1>1. Out(cur, Top) = 8 /\ Owes(Top) = {}
  BY WholeTop DEF BraceTuple, At, Top
<1>2. Still(Ahead)
  BY StillSelf, StillMove DEF Ahead
<1>3. Then(Bare(Adv(Ahead), "TUPLE"), <<>>) \/ Then(Ahead, <<F("expression"), F("brace")>>)
  BY DEF BraceTuple
<1>4. CASE Then(Bare(Adv(Ahead), "TUPLE"), <<>>)
  <2>1. Over(cur, Adv(Ahead), {}) /\ "TUPLE" \notin Structured
    BY <1>2, StillMove DEF Structured, OperatorTypes, BodyTypes, PartTypes, Still
  <2>2. Fresh(Bare(Adv(Ahead), "TUPLE"), {}, "TUPLE")
    BY <2>1, FreshFree DEF Bare
  <2> QED  BY <1>1, <1>4, <2>2, EndsFresh
<1>5. CASE Then(Ahead, <<F("expression"), F("brace")>>)
  <2>1. Over(cur, Ahead, {}) /\ IsNode(Ahead, Ahead.ret)
    BY <1>2 DEF Still
  <2>2. Frame(Ahead, F("expression"), 0, 0, {}) /\ Frame(Ahead, F("brace"), 0, 8, {})
    BY PlainFrame, WholeFrames DEF Plain
  <2>3. Out(cur, Top) \in 0..8 /\ {} \union Owes(Top) \subseteq {} \union {}
    BY <1>1
  <2> QED  BY <1>5, <2>1, <2>2, <2>3, CallFrames2
<1> QED  BY <1>3, <1>4, <1>5

LEMMA BraceSound == ASSUME Calling, Brace PROVE Sound(cur', stack')
<1>1. Out(cur, Top) = 8 /\ Owes(Top) = {}
  BY WholeTop DEF Brace, At, Top
<1>2. Then([Bare(cur, "TUPLE") EXCEPT !.ret = cur.ret],
           <<FLink(List("tuple", Bare(cur, "TUPLE").ret, RBRACE))>>)
  BY DEF Brace, Calling
<1> QED  BY <1>1, <1>2, TupleStarts

LEMMA TupleRestSound == ASSUME Calling, TupleRest PROVE Sound(cur', stack')
<1> DEFINE n == Top.n
           b == Put(cur, n, "elements", Top.head)
           c == Consume(b, Top.m)
<1>1. /\ Top.fn = "tuple" /\ Out(cur, Top) = 8 /\ Owes(Top) = {}
      /\ IsNode(cur, n) /\ cur.nodes[n].type = "TUPLE"
  BY WholeTop DEF TupleRest, At, Top, Calling, FrameOk, Holds
<1>2. Then(Ahead, <<F("expression"), FLink(Top)>>) \/ Then(c, <<FGive(n)>>)
  BY DEF TupleRest
<1>3. CASE Then(Ahead, <<F("expression"), FLink(Top)>>)
  <2>1. Over(cur, Ahead, {}) /\ IsNode(Ahead, Ahead.ret)
    BY StillSelf, StillMove DEF Ahead, Still
  <2>2. FrameOk(Ahead, Top)
    BY <2>1, FrameOver DEF Calling
  <2>3. Frame(Ahead, F("expression"), 0, 0, {}) /\ Frame(Ahead, FLink(Top), 0, 8, {})
    BY <1>1, <2>2, PlainFrame, LinkFrame DEF Plain, Lists
  <2>4. Out(cur, Top) \in 0..8 /\ {} \union Owes(Top) \subseteq {} \union {}
    BY <1>1
  <2> QED  BY <1>3, <2>1, <2>3, <2>4, CallFrames2
<1>4. CASE Then(c, <<FGive(n)>>)
  <2>1. Still(c)
    BY StillSelf, StillSpare, StillMove DEF Spare
  <2> HIDE DEF c
  <2>2. Over(cur, c, {}) /\ IsNode(c, c.ret) /\ IsNode(c, n) /\ c.nodes[n].type = "TUPLE"
    BY <1>1, <2>1, StillNode DEF Still
  <2>3. Bound(c, n) = 8
    BY <2>2, FirmIs DEF OperatorTypes, Over
  <2>4. Frame(c, FGive(n), 0, 8, {})
    BY <2>2, <2>3, GiveFrame
  <2>5. Out(cur, Top) \in 0..8 /\ {} \union Owes(Top) \subseteq {}
    BY <1>1
  <2> QED  BY <1>4, <2>2, <2>4, <2>5, CallFrames1
<1> QED  BY <1>2, <1>3, <1>4

-------------------------------------------------------------------------------
(* Calls, and the operators behind an operand.                             *)

LEMMA IntrinsicIs ==
  /\ \A t \in DOMAIN Intrinsic : Intrinsic[t] \notin Structured
  /\ Intrinsic["cast"] = "CAST"
<1>1. \A t \in DOMAIN Intrinsic : Intrinsic[t] \notin OperatorTypes
  BY DEF Intrinsic, OperatorTypes
<1>2. \A t \in DOMAIN Intrinsic : Intrinsic[t] \notin BodyTypes
  BY DEF Intrinsic, BodyTypes
<1>3. \A t \in DOMAIN Intrinsic : Intrinsic[t] \notin PartTypes
  BY DEF Intrinsic, PartTypes
<1>4. Intrinsic["cast"] = "CAST"
  BY DEF Intrinsic
<1> QED  BY <1>1, <1>2, <1>3, <1>4 DEF Structured

(* A node is made of nodes that bind as tight as it asks for.              *)
LEMMA MadeOf ==
  ASSUME NEW c, Over(cur, c, {}), NEW type, NEW members, Needs(type) = Operands(type),
         type = "BINARY_EXPR" => "op" \in DOMAIN members /\ members["op"] \in Operators,
         \A m \in Operands(type) :
           /\ m \in DOMAIN members /\ IsNode(c, members[m])
           /\ Bound(c, members[m]) >= Least(Node(type, members), m)
  PROVE  /\ Over(cur, Make(c, type, members), {}) /\ Makes(c, Make(c, type, members), type, members)
         /\ Bound(Make(c, type, members), Make(c, type, members).ret) \in 0..8
<1>1. /\ Over(cur, Make(c, type, members), {} \union Missing(Len(c.nodes) + 1, type, members))
      /\ Makes(c, Make(c, type, members), type, members)
  BY OverMake
<1>2. Missing(Len(c.nodes) + 1, type, members) = {}
  <2>1. \A m \in Needs(type) : m \in DOMAIN members /\ members[m] # NULL
    BY DEF IsNode, NULL
  <2> QED  BY <2>1 DEF Missing
<1>3. Over(cur, Make(c, type, members), {})
  BY <1>1, <1>2
<1>4. Bound(Make(c, type, members), Make(c, type, members).ret) \in 0..8
  BY <1>1, <1>3, BoundIs DEF Over, Makes
<1> QED  BY <1>1, <1>3, <1>4

(* The parts that need no grouping.                                        *)
LEMMA FreshPart ==
  ASSUME NEW d, Over(cur, d, {}), NEW type, NEW members, type \notin OperatorTypes,
         \A m \in Needs(type) : m \in DOMAIN members /\ members[m] # NULL
  PROVE  Fresh(Make(d, type, members), {}, type)
<1>1. Missing(Make(d, type, members).ret, type, members) = {}
  BY DEF Missing
<1>2. Fresh(Make(d, type, members),
            {} \union Missing(Make(d, type, members).ret, type, members), type)
  BY FreshMake
<1> QED  BY <1>1, <1>2

LEMMA ArgsCat ==
  ASSUME NEW p \in BOOLEAN, NEW e, NEW a, NEW x, NEW g
  PROVE  \/ (IF p THEN <<>> ELSE <<e, a>>) \o <<x, g>> = <<x, g>>
         \/ (IF p THEN <<>> ELSE <<e, a>>) \o <<x, g>> = <<e, a, x, g>>
<1>1. CASE p
  <2>1. IsSeq(<<x, g>>)
    BY DEF IsSeq
  <2>2. <<>> \o <<x, g>> = <<x, g>>
    BY <2>1, EmptyIsSeq
  <2>3. (IF p THEN <<>> ELSE <<e, a>>) = <<>>
    BY <1>1
  <2> QED  BY <2>2, <2>3
<1>2. CASE ~p
  <2>1. <<e, a>> \o <<x, g>> = <<e, a, x, g>>
    BY Concat22
  <2>2. (IF p THEN <<>> ELSE <<e, a>>) = <<e, a>>
    BY <1>2
  <2> QED  BY <2>1, <2>2
<1> QED  BY <1>1, <1>2

LEMMA IntrinsicCallSound == ASSUME Calling, IntrinsicCall PROVE Sound(cur', stack')
<1> DEFINE type == Intrinsic[Tok(cur)]
           n == Bare(Ahead, type)
           dot == Match(n, ".")
           pid == Make(Adv(dot), "IDENTIFIER", [name |-> Word(dot.at)])
           put == Put(pid, n.ret, "callee", pid.ret)
           named == Sees({"reg"}) /\ Tok(n) = "." /\ Tok(dot) = "id"
           c == IF named THEN [put EXCEPT !.ret = n.ret] ELSE IF Sees({"reg"}) THEN dot ELSE n
           m == IF Sees({"cast"}) THEN "operand" ELSE "args"
           a == Adv(c)
           E == F("expression")
           A == List("args", n.ret, m)
           X == FExpect(")")
           G == FGive(n.ret)
<1>1. Out(cur, Top) = 8 /\ Owes(Top) = {}
  BY WholeTop DEF IntrinsicCall, At, Top
<1>2. type \notin Structured /\ (Sees({"cast"}) => type = "CAST")
  BY IntrinsicIs DEF IntrinsicCall, Sees
<1>3. \/ Then(c, <<>>) \/ Then(a, (IF Tok(a) = ")" THEN <<>> ELSE <<E, A>>) \o <<X, G>>)
  BY DEF IntrinsicCall, ArgsOf
<1> HIDE DEF type
<1>4. Fresh(n, {}, type)
  BY <1>2, StillSelf, StillMove, FreshFree DEF Ahead, Bare, Still
<1> HIDE DEF n
<1>5. Fresh(dot, {}, type) /\ dot.ret = n.ret /\ Fresh(Adv(dot), {}, type) /\ Adv(dot).ret = n.ret
  BY <1>4, FreshMove
<1> HIDE DEF dot
<1>6. Fresh(c, {}, type) /\ c.ret = n.ret
  <2>1. Over(cur, pid, {}) /\ Over(Adv(dot), pid, {}) /\ pid.ret # NULL /\ Heap(Adv(dot))
    <3>1. "IDENTIFIER" \notin Structured /\ Needs("IDENTIFIER") = Operands("IDENTIFIER")
          /\ Operands("IDENTIFIER") = {}
      BY DEF Structured, OperatorTypes, BodyTypes, PartTypes, Needs, Operands
    <3>2. Fresh(pid, {}, "IDENTIFIER")
      BY <1>5, <3>1, FreshFree DEF Fresh
    <3>3. Heap(Adv(dot)) /\ Over(Adv(dot), Adv(dot), {})
      BY <1>5, OverSelf DEF Fresh, Over
    <3>4. Over(Adv(dot), pid, {} \union Missing(Len(Adv(dot).nodes) + 1, "IDENTIFIER", [name |-> Word(dot.at)]))
      BY <3>1, <3>3, OverMake
    <3>5. Missing(Len(Adv(dot).nodes) + 1, "IDENTIFIER", [name |-> Word(dot.at)]) = {}
      BY <3>1 DEF Missing
    <3> QED  BY <3>2, <3>3, <3>4, <3>5 DEF Fresh
  <2> HIDE DEF pid
  <2>2. IsNode(pid, n.ret) /\ pid.nodes[n.ret].type = type
    BY <1>5, <2>1 DEF Fresh, Over, Heap, IsSeq, IsNode
  <2>3. Over(cur, put, {}) /\ Kept(pid, put)
    BY <2>1, OverPut
  <2> HIDE DEF put
  <2>4. IsNode(put, n.ret) /\ put.nodes[n.ret].type = type
    BY <2>2, <2>3 DEF Kept, IsNode
  <2>5. Bound(put, n.ret) = 8
    BY <1>2, <2>3, <2>4, FirmIs DEF Structured, Over
  <2> DEFINE d == [put EXCEPT !.ret = n.ret]
  <2>6. Over(cur, d, {}) /\ d.ret = n.ret /\ d.nodes = put.nodes /\ d.parens = put.parens
    BY <2>3, OverRet DEF Over, Heap, CurFields
  <2> HIDE DEF d
  <2>7. n.ret # NULL
    BY <1>4 DEF Fresh
  <2>8. Fresh(d, {}, type)
    BY <2>4, <2>5, <2>6, <2>7 DEF Fresh, IsNode, Bound
  <2>9. c \in {d, dot, n}
    BY DEF d
  <2> HIDE DEF c
  <2> QED  BY <1>4, <1>5, <2>6, <2>8, <2>9
<1> HIDE DEF c
<1>7. CASE Then(c, <<>>)
  BY <1>1, <1>6, <1>7, EndsFresh
<1>8. CASE Then(a, (IF Tok(a) = ")" THEN <<>> ELSE <<E, A>>) \o <<X, G>>)
  <2>1. Fresh(a, {}, type) /\ a.ret = n.ret
    BY <1>6, FreshMove
  <2>2. Then(a, <<X, G>>) \/ Then(a, <<E, A, X, G>>)
    <3> DEFINE p == Tok(a) = ")"
               fs == (IF p THEN <<>> ELSE <<E, A>>) \o <<X, G>>
    <3>1. Then(a, fs) /\ p \in BOOLEAN
      BY <1>8
    <3> HIDE DEF E, A, X, G, p
    <3>2. fs = <<X, G>> \/ fs = <<E, A, X, G>>
      BY <3>1, ArgsCat
    <3> HIDE DEF fs, a
    <3> QED  BY <3>1, <3>2
  <2> HIDE DEF a
  <2>3. Over(cur, a, {}) /\ IsNode(a, a.ret) /\ IsNode(a, n.ret) /\ Bound(a, n.ret) = 8
        /\ a.nodes[n.ret].type = type
    BY <2>1, FreshIs
  <2>4. Frame(a, E, 0, 0, {}) /\ Frame(a, X, 0, 0, {}) /\ Frame(a, G, 0, 8, {})
    BY <2>3, PlainFrame, ExpectFrame, GiveFrame DEF Plain
  <2>5. Frame(a, A, 0, 0, {})
    <3>1. m = "args" \/ (m = "operand" /\ IsNode(a, n.ret) /\ a.nodes[n.ret].type = "CAST")
      BY <1>2, <2>3
    <3> HIDE DEF m
    <3> QED  BY <3>1, ArgsFrame
  <2>6. Out(cur, Top) \in 0..8 /\ Owes(Top) = {}
    BY <1>1
  <2> HIDE DEF E, A, X, G
  <2>7. CASE Then(a, <<X, G>>)
    BY <2>3, <2>4, <2>6, <2>7, CallFrames2
  <2>8. CASE Then(a, <<E, A, X, G>>)
    <3>1. {} \union Owes(Top) \subseteq {} \union {} \union {} \union {}
      BY <2>6
    <3> QED  BY <2>3, <2>4, <2>5, <2>6, <2>8, <3>1, CallFrames4
  <2> QED  BY <2>2, <2>7, <2>8
<1> QED  BY <1>3, <1>7, <1>8

LEMMA AiLogicSound == ASSUME Calling, AiLogic PROVE Sound(cur', stack')
<1> DEFINE c == IF Tok(Ahead) \in {"str", "id"} THEN Adv(Ahead) ELSE Ahead
<1>1. Owes(Top) = {}
  BY DEF AiLogic, At, Top, Owes
<1>2. Over(cur, c, {})
  BY StillSelf, StillMove DEF Ahead, Still
<1>3. \E members : Then(Make(c, "AI_LOGIC", members), <<>>)
  BY DEF AiLogic
<1>4. "AI_LOGIC" \notin Structured
  BY DEF Structured, OperatorTypes, BodyTypes, PartTypes
<1> HIDE DEF c
<1> QED  BY <1>1, <1>2, <1>3, <1>4, FreshFree, EndsFresh

LEMMA NotPrimarySound == ASSUME Calling, NotPrimary PROVE Sound(cur', stack')
<1>1. NoExpression(cur).bad
  <2>1. DOMAIN [cur EXCEPT !.ret = NULL] = CurFields
    BY DEF Calling, Heap
  <2> QED  BY <2>1, SameSelf, SameFails DEF NoExpression
<1> QED  BY <1>1, BadSound DEF NotPrimary

LEMMA PostfixSound == ASSUME Calling, Postfix PROVE Sound(cur', stack')
<1>1. Out(cur, Top) = 8 /\ Owes(Top) = {}
  BY WholeTop DEF Postfix, At, Top
<1>2. Over(cur, cur, {}) /\ IsNode(cur, cur.ret) /\ Bound(cur, cur.ret) \in 0..8
  BY StillSelf, StillRet
<1>3. Frame(cur, F("primary"), 0, 8, {}) /\ Frame(cur, F("postfixrest"), 8, 8, {})
  BY WholeFrames
<1>4. /\ Follows(cur, Bound(cur, cur.ret), F("primary"))
      /\ Follows(cur, Out(cur, F("primary")), F("postfixrest"))
      /\ Out(cur, Top) \in 0..Out(cur, F("postfixrest"))
      /\ Lacks(cur) \intersect ({} \union Owes(Top))
           \subseteq Owes(F("primary")) \union Owes(F("postfixrest"))
  BY <1>1, <1>2, <1>3 DEF Follows, Frame
<1>5. Then(cur, <<F("primary"), F("postfixrest")>>)
  BY DEF Postfix
<1> QED  BY <1>2, <1>4, <1>5, Calls2

(* Behind an operand that stands alone there may follow another operator.  *)
LEMMA PostfixAgain ==
  ASSUME Calling, Out(cur, Top) = 8, Owes(Top) = {}, NEW c, Over(cur, c, {}), IsNode(c, c.ret),
         Bound(c, c.ret) = 8, Then(c, <<F("postfixrest")>>)
  PROVE  Sound(cur', stack')
<1>1. Frame(c, F("postfixrest"), 8, 8, {})
  BY WholeFrames
<1>2. /\ Follows(c, Bound(c, c.ret), F("postfixrest"))
      /\ Out(cur, Top) \in 0..Out(c, F("postfixrest"))
      /\ Lacks(c) \intersect ({} \union Owes(Top)) \subseteq Owes(F("postfixrest"))
  BY <1>1 DEF Follows, Frame
<1> QED  BY <1>2, Calls1

LEMMA CallAgain ==
  ASSUME Calling, Out(cur, Top) = 8, Owes(Top) = {}, NEW c, Fresh(c, {}, "FUNC_CALL"),
         Then(c, ArgsOf(c, c.ret, "args") \o <<F("postfixrest")>>)
  PROVE  Sound(cur', stack')
<1> DEFINE E == F("expression")
           A == List("args", c.ret, "args")
           X == FExpect(")")
           G == FGive(c.ret)
           P == F("postfixrest")
<1>1. Over(cur, c, {}) /\ IsNode(c, c.ret) /\ Bound(c, c.ret) = 8
  BY FreshIs
<1>2. Frame(c, E, 0, 0, {}) /\ Frame(c, X, 0, 0, {}) /\ Frame(c, G, 0, 8, {})
      /\ Frame(c, P, 8, 8, {}) /\ Frame(c, A, 0, 0, {})
  BY <1>1, PlainFrame, ExpectFrame, GiveFrame, WholeFrames, ArgsFrame DEF Plain
<1>3. Then(c, <<X, G, P>>) \/ Then(c, <<E, A, X, G, P>>)
  <2> DEFINE p == Tok(c) = ")"
             fs == (IF p THEN <<>> ELSE <<E, A>>) \o <<X, G>>
  <2>1. Then(c, fs \o <<P>>) /\ p \in BOOLEAN
    BY DEF ArgsOf
  <2> HIDE DEF E, A, X, G, P, p
  <2>2. fs = <<X, G>> \/ fs = <<E, A, X, G>>
    BY <2>1, ArgsCat
  <2> HIDE DEF fs
  <2>3. <<X, G>> \o <<P>> = <<X, G, P>> /\ <<E, A, X, G>> \o <<P>> = <<E, A, X, G, P>>
    BY Concat21, Concat41
  <2> QED  BY <2>1, <2>2, <2>3
<1> HIDE DEF E, A, X, G, P
<1>4. CASE Then(c, <<X, G, P>>)
  <2>1. /\ Follows(c, Bound(c, c.ret), X) /\ Follows(c, Out(c, X), G) /\ Follows(c, Out(c, G), P)
        /\ Out(cur, Top) \in 0..Out(c, P)
        /\ Lacks(c) \intersect ({} \union Owes(Top)) \subseteq Owes(X) \union Owes(G) \union Owes(P)
    BY <1>1, <1>2 DEF Follows, Frame
  <2> QED  BY <1>1, <1>4, <2>1, Calls3
<1>5. CASE Then(c, <<E, A, X, G, P>>)
  <2> DEFINE fs == <<E, A, X, G, P>>
  <2>1. IsSeq(fs) /\ Len(fs) = 5
    BY DEF IsSeq
  <2>2. fs[1] = E /\ fs[2] = A /\ fs[3] = X /\ fs[4] = G /\ fs[5] = P
    OBVIOUS
  <2>3. Then(c, fs)
    BY <1>5
  <2> HIDE DEF fs
  <2>4. ASSUME NEW k \in 1..5
        PROVE  /\ FrameOk(c, fs[k]) /\ Out(c, fs[k]) \in 0..8
               /\ In(fs[k]) = IF k = 5 THEN 8 ELSE 0
    BY <1>2, <2>2 DEF Frame
  <2>5. Out(c, fs[4]) = 8 /\ Out(c, fs[5]) = 8
    BY <1>2, <2>2 DEF Frame
  <2>6. Leads(c, Bound(c, c.ret), fs, Out(cur, Top))
    <3>1. \A k \in 2..5 : k - 1 \in 1..5 /\ (k = 5 => k - 1 = 4)
      OBVIOUS
    <3>2. \A k \in 1..5 : In(fs[k]) \in 0..(IF k = 1 THEN Bound(c, c.ret) ELSE Out(c, fs[k - 1]))
      <4> TAKE k \in 1..5
      <4>1. CASE k = 5
        BY <2>4, <2>5, <4>1
      <4>2. CASE k # 5
        <5>1. In(fs[k]) = 0
          BY <2>4, <4>2
        <5>2. CASE k = 1
          BY <1>1, <5>1, <5>2
        <5>3. CASE k # 1
          <6>1. k - 1 \in 1..5
            BY <5>3
          <6>2. Out(c, fs[k - 1]) \in 0..8
            BY <2>4, <6>1
          <6> QED  BY <5>1, <5>3, <6>2
        <5> QED  BY <5>2, <5>3
      <4> QED  BY <4>1, <4>2
    <3> QED  BY <2>1, <2>4, <2>5, <3>2 DEF Leads
  <2>7. Good(c, fs \o Tail(stack))
    BY <1>1, <2>6, StepIs
  <2> QED  BY <2>3, <2>7 DEF Then, Sound
<1> QED  BY <1>3, <1>4, <1>5

LEMMA PostfixRestSound == ASSUME Calling, PostfixRest PROVE Sound(cur', stack')
<1> DEFINE r == cur.ret
           call == Make(Ahead, "FUNC_CALL", [callee |-> r])
           access == Make(Adv(Ahead), "MEMBER_ACCESS", [object |-> r, member_name |-> Word(Ahead.at)])
           post == Make(Ahead, "POSTFIX_EXPR", [op |-> Tok(cur), operand |-> r])
           again == <<F("postfixrest")>>
<1>1. Out(cur, Top) = 8 /\ Owes(Top) = {} /\ In(Top) = 8
  BY WholeTop DEF PostfixRest, At, Top, In
<1>2. r # NULL /\ IsNode(cur, r) /\ Bound(cur, r) = 8
  <2>1. r # NULL /\ IsNode(cur, r) /\ In(Top) \in 0..Bound(cur, r) /\ Bound(cur, r) \in 0..8
    BY StillSelf, StillRet DEF Calling
  <2> QED  BY <1>1, <2>1
<1>3. \/ Then(Fails(Ahead), again) \/ Then(access, again) \/ Then(post, again) \/ Then(cur, <<>>)
      \/ Then(call, ArgsOf(call, call.ret, "args") \o again)
  BY DEF PostfixRest
<1>4. Still(Ahead) /\ Fails(Ahead).bad /\ Still(Adv(Ahead))
  BY StillSelf, StillMove DEF Ahead
<1>5. Over(cur, Ahead, {}) /\ Over(cur, Adv(Ahead), {}) /\ IsNode(Ahead, r) /\ Bound(Ahead, r) = 8
  BY <1>2, <1>4, StillNode DEF Still
<1>6. CASE Then(Fails(Ahead), again)
  BY <1>4, <1>6, BadSound
<1>7. CASE Then(access, again)
  <2>1. "MEMBER_ACCESS" \notin OperatorTypes /\ Needs("MEMBER_ACCESS") = {"object"}
    BY DEF OperatorTypes, Needs
  <2> DEFINE members == [object |-> r, member_name |-> Word(Ahead.at)]
  <2>2. "object" \in DOMAIN members /\ members["object"] # NULL
    BY <1>2
  <2>3. access = Make(Adv(Ahead), "MEMBER_ACCESS", members)
    OBVIOUS
  <2> HIDE DEF members, access
  <2>4. Fresh(access, {}, "MEMBER_ACCESS")
    BY <1>5, <2>1, <2>2, <2>3, FreshPart
  <2>5. Over(cur, access, {}) /\ IsNode(access, access.ret) /\ Bound(access, access.ret) = 8
    BY <2>4, FreshIs
  <2> QED  BY <1>1, <1>7, <2>5, PostfixAgain
<1>8. CASE Then(post, again)
  <2> DEFINE members == [op |-> Tok(cur), operand |-> r]
  <2>1. Needs("POSTFIX_EXPR") = {"operand"} /\ Operands("POSTFIX_EXPR") = {"operand"}
    BY DEF Needs, Operands
  <2>2. /\ "operand" \in DOMAIN members /\ members["operand"] = r
        /\ Least(Node("POSTFIX_EXPR", members), "operand") = 8
        /\ RankOf(Node("POSTFIX_EXPR", members)) = 8
    BY DEF Least, RankOf, Node
  <2>3. post = Make(Ahead, "POSTFIX_EXPR", members)
    OBVIOUS
  <2> HIDE DEF members, post
  <2>4. \A m \in Operands("POSTFIX_EXPR") :
          /\ m \in DOMAIN members /\ IsNode(Ahead, members[m])
          /\ Bound(Ahead, members[m]) >= Least(Node("POSTFIX_EXPR", members), m)
    BY <1>5, <2>1, <2>2
  <2>5. /\ Over(cur, post, {}) /\ Makes(Ahead, post, "POSTFIX_EXPR", members)
        /\ Bound(post, post.ret) \in 0..8
    BY <1>5, <2>1, <2>3, <2>4, MadeOf
  <2>6. IsNode(post, post.ret) /\ Bound(post, post.ret) = 8
    BY <2>2, <2>5 DEF Makes
  <2> QED  BY <1>1, <1>8, <2>5, <2>6, PostfixAgain
<1>9. CASE Then(cur, <<>>)
  <2>1. Over(cur, cur, {}) /\ IsNode(cur, cur.ret) /\ Out(cur, Top) \in 0..Bound(cur, cur.ret)
        /\ Lacks(cur) \intersect ({} \union Owes(Top)) = {}
    BY <1>1, <1>2, StillSelf, StillRet
  <2> QED  BY <1>9, <2>1, Ends
<1>10. CASE Then(call, ArgsOf(call, call.ret, "args") \o again)
  <2>1. "FUNC_CALL" \notin OperatorTypes /\ Needs("FUNC_CALL") = {"callee"}
    BY DEF OperatorTypes, Needs
  <2> DEFINE members == [callee |-> r]
  <2>2. "callee" \in DOMAIN members /\ members["callee"] # NULL
    BY <1>2
  <2>3. call = Make(Ahead, "FUNC_CALL", members)
    OBVIOUS
  <2> HIDE DEF members, call
  <2>4. Fresh(call, {}, "FUNC_CALL")
    BY <1>5, <2>1, <2>2, <2>3, FreshPart
  <2> QED  BY <1>1, <1>10, <2>4, CallAgain
<1> QED  BY <1>3, <1>6, <1>7, <1>8, <1>9, <1>10

-------------------------------------------------------------------------------
(* Unary and binary operators.                                             *)

LEMMA UnarySound == ASSUME Calling, Unary PROVE Sound(cur', stack')
<1> DEFINE R == FNodeOp("unaryrest", NULL, Tok(cur))
<1>1. Out(cur, Top) = 7 /\ Owes(Top) = {}
  BY DEF Unary, At, Top, Out, Owes, Levels, Whole
<1>2. Then(Ahead, <<F("unary"), R>>) \/ Then(cur, <<F("postfix")>>)
  BY DEF Unary
<1>3. Still(cur) /\ Still(Ahead)
  BY StillSelf, StillMove DEF Ahead
<1>4. CASE Then(Ahead, <<F("unary"), R>>)
  <2>1. Frame(Ahead, F("unary"), 0, 7, {}) /\ Frame(Ahead, R, 7, 7, {})
    BY UnaryFrames
  <2> HIDE DEF R
  <2>2. Over(cur, Ahead, {}) /\ IsNode(Ahead, Ahead.ret) /\ Bound(Ahead, Ahead.ret) \in 0..8
    BY <1>3, StillRet
  <2>3. /\ Follows(Ahead, Bound(Ahead, Ahead.ret), F("unary"))
        /\ Follows(Ahead, Out(Ahead, F("unary")), R) /\ Out(cur, Top) \in 0..Out(Ahead, R)
        /\ Lacks(Ahead) \intersect ({} \union Owes(Top)) \subseteq Owes(F("unary")) \union Owes(R)
    BY <1>1, <2>1, <2>2 DEF Follows, Frame
  <2> QED  BY <1>4, <2>2, <2>3, Calls2
<1>5. CASE Then(cur, <<F("postfix")>>)
  <2>1. Over(cur, cur, {}) /\ IsNode(cur, cur.ret)
    BY <1>3, StillRet
  <2>2. Frame(cur, F("postfix"), 0, 8, {})
    BY WholeFrames
  <2>3. Out(cur, Top) \in 0..8 /\ {} \union Owes(Top) \subseteq {}
    BY <1>1
  <2> QED  BY <1>5, <2>1, <2>2, <2>3, CallFrames1
<1> QED  BY <1>2, <1>4, <1>5

LEMMA UnaryRestSound == ASSUME Calling, UnaryRest PROVE Sound(cur', stack')
<1> DEFINE members == [op |-> Top.op, operand |-> cur.ret]
           d == Make(cur, "UNARY_EXPR", members)
<1>1. Out(cur, Top) = 7 /\ Owes(Top) = {} /\ In(Top) = 7
  BY DEF UnaryRest, At, Top, Out, In, Owes, Levels, Whole
<1>2. Then(d, <<>>)
  BY DEF UnaryRest, Calling
<1>3. Over(cur, cur, {}) /\ IsNode(cur, cur.ret) /\ Bound(cur, cur.ret) >= 7
      /\ Bound(cur, cur.ret) \in 0..8
  <2>1. Over(cur, cur, {}) /\ IsNode(cur, cur.ret) /\ Bound(cur, cur.ret) \in 0..8
    BY StillSelf, StillRet
  <2>2. 7 \in 0..Bound(cur, cur.ret)
    BY <1>1 DEF Calling
  <2> QED  BY <2>1, <2>2
<1>4. Needs("UNARY_EXPR") = {"operand"} /\ Operands("UNARY_EXPR") = {"operand"}
  BY DEF Needs, Operands
<1>5. /\ "operand" \in DOMAIN members /\ members["operand"] = cur.ret
      /\ Least(Node("UNARY_EXPR", members), "operand") = 7
      /\ RankOf(Node("UNARY_EXPR", members)) = 7
  BY DEF Least, RankOf, Node
<1>6. d = Make(cur, "UNARY_EXPR", members)
  OBVIOUS
<1> HIDE DEF members, d
<1>7. \A m \in Operands("UNARY_EXPR") :
        /\ m \in DOMAIN members /\ IsNode(cur, members[m])
        /\ Bound(cur, members[m]) >= Least(Node("UNARY_EXPR", members), m)
  BY <1>3, <1>4, <1>5
<1>8. /\ Over(cur, d, {}) /\ Makes(cur, d, "UNARY_EXPR", members) /\ Bound(d, d.ret) \in 0..8
  BY <1>3, <1>4, <1>6, <1>7, MadeOf
<1>9. IsNode(d, d.ret) /\ Out(cur, Top) \in 0..Bound(d, d.ret)
      /\ Lacks(d) \intersect ({} \union Owes(Top)) = {}
  BY <1>1, <1>5, <1>8 DEF Makes
<1> QED  BY <1>2, <1>8, <1>9, Ends

(* The operands of a level are made by the next one.                       *)
LEMMA OperandFrame ==
  ASSUME NEW c, NEW l \in Levels PROVE Frame(c, F(Binary[l].operand), 0, LevelOf(l) + 1, {})
<1>1. CASE l = "term"
  <2>1. Binary[l].operand = "unary" /\ LevelOf(l) + 1 = 7
    BY <1>1 DEF Binary, Level, LevelOf
  <2> QED  BY <2>1, UnaryFrames
<1>2. CASE l # "term"
  <2>1. Binary[l].operand \in Levels /\ LevelOf(Binary[l].operand) = LevelOf(l) + 1
    BY <1>2 DEF Binary, Level, LevelOf, Levels
  <2> QED  BY <2>1, LevelFrame
<1> QED  BY <1>1, <1>2

LEMMA LeftInIs ==
  ASSUME NEW l \in Levels
  PROVE  /\ LevelOf(l) \in 2..6 /\ LeftIn(l) \in LevelOf(l)..(LevelOf(l) + 1)
         /\ Binary[l].again => LeftIn(l) = LevelOf(l)
<1>1. LevelOf(l) \in 2..6 /\ (l = "range" => LevelOf(l) = 2)
  BY LevelsAre
<1>2. l = "range" => ~Binary[l].again
  BY DEF Binary, Level
<1> QED  BY <1>1, <1>2 DEF LeftIn

LEMMA BinaryExprSound == ASSUME Calling, BinaryExpr PROVE Sound(cur', stack')
<1> DEFINE l == Top.fn
           O == F(Binary[l].operand)
           L == List("left", NULL, l)
<1>1. l \in Levels /\ Then(cur, <<O, L>>)
  BY LevelsAre DEF BinaryExpr
<1>2. Out(cur, Top) = LevelOf(l) /\ Owes(Top) = {}
  <2>1. Out(cur, Top) = LevelOf(l)
    BY <1>1 DEF Levels, Out, Whole
  <2>2. Owes(Top) = {}
    BY <1>1 DEF Levels, Owes
  <2> QED  BY <2>1, <2>2
<1>3. Frame(cur, O, 0, LevelOf(l) + 1, {}) /\ Frame(cur, L, LeftIn(l), LevelOf(l), {})
  BY <1>1, OperandFrame, LeftFrame
<1>4. LevelOf(l) \in 2..6 /\ LeftIn(l) \in LevelOf(l)..(LevelOf(l) + 1)
  BY <1>1, LeftInIs
<1> HIDE DEF l, O, L
<1>5. Over(cur, cur, {}) /\ IsNode(cur, cur.ret) /\ Bound(cur, cur.ret) \in 0..8
  BY StillSelf, StillRet
<1>6. /\ Follows(cur, Bound(cur, cur.ret), O) /\ Follows(cur, Out(cur, O), L)
      /\ Out(cur, Top) \in 0..Out(cur, L)
      /\ Lacks(cur) \intersect ({} \union Owes(Top)) \subseteq Owes(O) \union Owes(L)
  BY <1>2, <1>3, <1>4, <1>5 DEF Follows, Frame
<1> QED  BY <1>1, <1>5, <1>6, Calls2

LEMMA LeftOperandSound == ASSUME Calling, LeftOperand PROVE Sound(cur', stack')
<1> DEFINE l == Top.m
           O == F(Binary[l].operand)
           R == [Top EXCEPT !.fn = "right", !.n = cur.ret, !.op = Tok(cur)]
<1>1. Top.fn = "left" /\ l \in Levels
  BY DEF LeftOperand, At, Top, Calling, FrameOk
<1>2. Out(cur, Top) = LevelOf(l) /\ Owes(Top) = {} /\ In(Top) = LeftIn(l)
  BY <1>1 DEF Out, Owes, In, Levels, Whole
<1>3. LevelOf(l) \in 2..6 /\ LeftIn(l) \in LevelOf(l)..(LevelOf(l) + 1)
  BY <1>1, LeftInIs
<1>4. Then(cur, <<>>) \/ (Tok(cur) \in Binary[l].ops /\ Then(Ahead, <<O, R>>))
  BY DEF LeftOperand, Sees
<1>5. Still(cur) /\ Still(Ahead) /\ LeftIn(l) \in 0..Bound(cur, cur.ret)
  BY <1>2, StillSelf, StillMove DEF Ahead, Calling
<1>6. CASE Then(cur, <<>>)
  <2>1. Over(cur, cur, {}) /\ IsNode(cur, cur.ret) /\ Bound(cur, cur.ret) \in 0..8
    BY <1>5, StillRet
  <2> HIDE DEF l
  <2>2. Out(cur, Top) \in 0..Bound(cur, cur.ret) /\ Lacks(cur) \intersect ({} \union Owes(Top)) = {}
    BY <1>2, <1>3, <1>5, <2>1
  <2> QED  BY <1>6, <2>1, <2>2, Ends
<1>7. CASE Tok(cur) \in Binary[l].ops /\ Then(Ahead, <<O, R>>)
  <2>1. /\ Over(cur, Ahead, {}) /\ IsNode(Ahead, Ahead.ret) /\ Ahead.ret = cur.ret
        /\ Bound(Ahead, Ahead.ret) = Bound(cur, cur.ret) /\ Bound(Ahead, Ahead.ret) \in 0..8
    BY <1>5, StillRet
  <2>2. IsNode(Ahead, cur.ret) /\ Bound(Ahead, cur.ret) >= LeftIn(l)
    BY <1>3, <1>5, <2>1
  <2>3. FrameOk(Ahead, Top)
    BY <2>1, FrameOver DEF Calling
  <2>4. Frame(Ahead, R, LevelOf(l) + 1, LevelOf(l), {})
    BY <1>1, <1>7, <2>2, <2>3, RightFrame
  <2>5. Frame(Ahead, O, 0, LevelOf(l) + 1, {})
    BY <1>1, OperandFrame
  <2> HIDE DEF l, O, R
  <2>6. /\ Follows(Ahead, Bound(Ahead, Ahead.ret), O) /\ Follows(Ahead, Out(Ahead, O), R)
        /\ Out(cur, Top) \in 0..Out(Ahead, R)
        /\ Lacks(Ahead) \intersect ({} \union Owes(Top)) \subseteq Owes(O) \union Owes(R)
    BY <1>2, <1>3, <2>1, <2>4, <2>5 DEF Follows, Frame
  <2> QED  BY <1>7, <2>1, <2>6, Calls2
<1> QED  BY <1>4, <1>6, <1>7

LEMMA RightOperandSound == ASSUME Calling, RightOperand PROVE Sound(cur', stack')
<1> DEFINE l == Top.m
           type == "BINARY_EXPR"
           members == [op |-> Top.op, left |-> Top.n, right |-> cur.ret]
           d == Make(cur, type, members)
           L == List("left", NULL, l)
<1>1. /\ Top.fn = "right" /\ l \in Levels /\ Top.op \in Binary[l].ops
      /\ IsNode(cur, Top.n) /\ Bound(cur, Top.n) >= LeftIn(l)
  BY DEF RightOperand, At, Top, Calling, FrameOk, Holds
<1>2. Out(cur, Top) = LevelOf(l) /\ Owes(Top) = {} /\ In(Top) = LevelOf(l) + 1
  BY <1>1 DEF Out, Owes, In, Levels, Whole
<1>3. LevelOf(l) \in 2..6 /\ LeftIn(l) \in LevelOf(l)..(LevelOf(l) + 1)
      /\ (Binary[l].again => LeftIn(l) = LevelOf(l))
  BY <1>1, LeftInIs
<1>4. (Binary[l].again /\ Then(d, <<L>>)) \/ Then(d, <<>>)
  BY DEF RightOperand, Joined, Calling
<1>5. Over(cur, cur, {}) /\ IsNode(cur, cur.ret) /\ Bound(cur, cur.ret) \in 0..8
      /\ LevelOf(l) + 1 \in 0..Bound(cur, cur.ret)
  <2>1. Over(cur, cur, {}) /\ IsNode(cur, cur.ret) /\ Bound(cur, cur.ret) \in 0..8
    BY StillSelf, StillRet
  <2> QED  BY <1>2, <2>1 DEF Calling
<1>6. Needs(type) = {"left", "right"} /\ Operands(type) = {"left", "right"}
  BY DEF Needs, Operands
<1>7. "op" \in DOMAIN members /\ members["op"] \in Operators /\ OpRank(members["op"]) = LevelOf(l)
  BY <1>1, LevelsAre
<1>8. /\ {"left", "right"} \subseteq DOMAIN members
      /\ members["left"] = Top.n /\ members["right"] = cur.ret
  OBVIOUS
<1>9. RankOf(Node(type, members)) = LevelOf(l) /\ Node(type, members).type = type
  BY <1>7 DEF RankOf, Node
<1>10. /\ Least(Node(type, members), "left") = LeftIn(l)
       /\ Least(Node(type, members), "right") = LevelOf(l) + 1
  <2>1. LevelOf(l) = 2 <=> l = "range"
    BY <1>1, LevelsAre
  <2> QED  BY <1>9, <2>1 DEF Least, LeftIn
<1>11. d = Make(cur, type, members)
  OBVIOUS
<1> HIDE DEF members, d
<1>12. \A m \in Operands(type) :
         /\ m \in DOMAIN members /\ IsNode(cur, members[m])
         /\ Bound(cur, members[m]) >= Least(Node(type, members), m)
  <2>1. Bound(cur, cur.ret) >= LevelOf(l) + 1
    <3> HIDE DEF l
    <3> QED  BY <1>3, <1>5
  <2> QED  BY <1>1, <1>5, <1>6, <1>8, <1>10, <2>1
<1> HIDE DEF type
<1>13. Over(cur, d, {}) /\ Makes(cur, d, type, members) /\ Bound(d, d.ret) \in 0..8
  BY <1>5, <1>6, <1>7, <1>11, <1>12, MadeOf
<1>14. IsNode(d, d.ret) /\ LevelOf(l) \in 0..Bound(d, d.ret)
  <2> HIDE DEF l
  <2> QED  BY <1>3, <1>9, <1>13 DEF Makes
<1>15. CASE Then(d, <<>>)
  <2>1. Lacks(d) \intersect ({} \union Owes(Top)) = {}
    BY <1>2
  <2> QED  BY <1>2, <1>13, <1>14, <1>15, <2>1, Ends
<1>16. CASE Binary[l].again /\ Then(d, <<L>>)
  <2>1. Frame(d, L, LeftIn(l), LevelOf(l), {})
    BY <1>1, LeftFrame
  <2> HIDE DEF L
  <2>2. /\ Follows(d, Bound(d, d.ret), L) /\ Out(cur, Top) \in 0..Out(d, L)
        /\ Lacks(d) \intersect ({} \union Owes(Top)) \subseteq Owes(L)
    <3>1. LeftIn(l) = LevelOf(l)
      BY <1>3, <1>16
    <3> HIDE DEF l
    <3> QED  BY <1>2, <1>3, <1>14, <2>1, <3>1 DEF Follows, Frame
  <2> QED  BY <1>13, <1>14, <1>16, <2>2, Calls1
<1> QED  BY <1>4, <1>15, <1>16

-------------------------------------------------------------------------------
(* Flows and assignments.                                                  *)

LEMMA FlowTop ==
  ASSUME NEW f, f.fn \in {"flow", "flowop", "flowright", "flowend"}
  PROVE  (\A c : Out(c, f) = 1) /\ Owes(f) = {}
         /\ In(f) = CASE f.fn = "flow" -> 0 [] f.fn = "flowend" -> 1 [] OTHER -> 2
  BY DEF Out, Owes, In, Levels, Whole

(* The frames f and g are called, of which g asks for what f returns.      *)
LEMMA Chain2 ==
  ASSUME Calling, NEW c, Still(c), NEW f, NEW o, Frame(c, f, 0, o, {}),
         NEW g, NEW i, i \in 0..o, NEW p, Frame(c, g, i, p, {}), Out(cur, Top) \in 0..p,
         Owes(Top) = {}, Then(c, <<f, g>>)
  PROVE  Sound(cur', stack')
<1>1. Over(cur, c, {}) /\ IsNode(c, c.ret) /\ Bound(c, c.ret) \in 0..8
  BY StillRet
<1>2. /\ Follows(c, Bound(c, c.ret), f) /\ Follows(c, Out(c, f), g) /\ Out(cur, Top) \in 0..Out(c, g)
      /\ Lacks(c) \intersect ({} \union Owes(Top)) \subseteq Owes(f) \union Owes(g)
  BY <1>1 DEF Follows, Frame
<1> QED  BY <1>1, <1>2, Calls2

LEMMA NexusFlowSound == ASSUME Calling, NexusFlow PROVE Sound(cur', stack')
<1>1. Out(cur, Top) \in 0..1 /\ Owes(Top) = {}
  BY FlowTop DEF NexusFlow, At, Top
<1>2. Frame(cur, F("range"), 0, 2, {}) /\ Frame(cur, F("flowop"), 2, 1, {}) /\ 2 \in 0..2
  BY LevelFrame, FlowFrames DEF Levels, LevelOf
<1>3. Still(cur) /\ Then(cur, <<F("range"), F("flowop")>>)
  BY StillSelf DEF NexusFlow
<1> QED  BY <1>1, <1>2, <1>3, Chain2

(* The flow ends here, or with a handler.                                  *)
LEMMA FlowEnds ==
  ASSUME Calling, Out(cur, Top) = 1, Owes(Top) = {}, NEW c, Over(cur, c, {}), IsNode(c, c.ret),
         1 \in 0..Bound(c, c.ret), Then(c, <<F("flowend")>>)
  PROVE  Sound(cur', stack')
<1>1. Frame(c, F("flowend"), 1, 1, {})
  BY FlowFrames
<1>2. /\ Follows(c, Bound(c, c.ret), F("flowend")) /\ Out(cur, Top) \in 0..Out(c, F("flowend"))
      /\ Lacks(c) \intersect ({} \union Owes(Top)) \subseteq Owes(F("flowend"))
  BY <1>1 DEF Follows, Frame
<1> QED  BY <1>2, Calls1

LEMMA FlowOpSound == ASSUME Calling, FlowOp PROVE Sound(cur', stack')
<1> DEFINE r == cur.ret
           n == Match(Adv(Ahead), "num")
           d == Match(Consume(n, COMMA), "num")
           e == Lose(Consume(Consume(d, ")"), "->"), "retry")
           G(op) == FNodeOp("flowright", r, op)
<1>1. Out(cur, Top) = 1 /\ Owes(Top) = {} /\ In(Top) = 2
  BY FlowTop DEF FlowOp, At, Top
<1>2. \/ Then(Ahead, <<F("range"), G(Tok(cur))>>) \/ Then(Fails(Ahead), <<>>)
      \/ Then(e, <<F("range"), G("->")>>) \/ Then(cur, <<F("flowend")>>)
  BY DEF FlowOp, Calling
<1>3. Still(Ahead) /\ Fails(Ahead).bad /\ Still(Adv(Ahead))
  BY StillSelf, StillMove DEF Ahead
<1>4. Still(n)
  BY <1>3, StillMove
<1> HIDE DEF n
<1>5. Still(d)
  BY <1>4, StillMove
<1> HIDE DEF d
<1>6. Still(Consume(d, ")"))
  BY <1>5, StillMove
<1>7. Still(Consume(Consume(d, ")"), "->"))
  BY <1>6, StillMove
<1>8. Still(e)
  BY <1>7, StillMove
<1> HIDE DEF e
<1>9. Over(cur, cur, {}) /\ IsNode(cur, cur.ret) /\ Bound(cur, cur.ret) \in 0..8
      /\ Bound(cur, cur.ret) >= 2
  <2>1. Over(cur, cur, {}) /\ IsNode(cur, cur.ret) /\ Bound(cur, cur.ret) \in 0..8
    BY StillSelf, StillRet
  <2>2. 2 \in 0..Bound(cur, cur.ret)
    BY <1>1 DEF Calling
  <2> QED  BY <2>1, <2>2
<1>10. ASSUME NEW c, Still(c), NEW op, Then(c, <<F("range"), G(op)>>) PROVE Sound(cur', stack')
  <2>1. IsNode(c, r) /\ Bound(c, r) >= 2
    BY <1>9, <1>10, StillNode
  <2>2. Frame(c, F("range"), 0, 2, {}) /\ Frame(c, G(op), 2, 1, {})
    BY <2>1, LevelFrame, OperatorFrames DEF Levels, LevelOf
  <2>3. 2 \in 0..2 /\ Out(cur, Top) \in 0..1
    BY <1>1
  <2> HIDE DEF G
  <2> QED  BY <1>1, <1>10, <2>2, <2>3, Chain2
<1>11. CASE Then(Ahead, <<F("range"), G(Tok(cur))>>)
  BY <1>3, <1>10, <1>11
<1>12. CASE Then(e, <<F("range"), G("->")>>)
  BY <1>8, <1>10, <1>12
<1>13. CASE Then(Fails(Ahead), <<>>)
  BY <1>3, <1>13, BadSound
<1>14. CASE Then(cur, <<F("flowend")>>)
  <2>1. 1 \in 0..Bound(cur, cur.ret)
    BY <1>9
  <2> QED  BY <1>1, <1>9, <1>14, <2>1, FlowEnds
<1> QED  BY <1>2, <1>11, <1>12, <1>13, <1>14

LEMMA FlowRightSound == ASSUME Calling, FlowRight PROVE Sound(cur', stack')
<1> DEFINE type == IF Top.op \in Pipes THEN "NEXUS_PIPE" ELSE "NEXUS_FLOW"
           members == [op |-> Top.op, left |-> Top.n, right |-> cur.ret]
           d == Make(cur, type, members)
<1>1. Out(cur, Top) = 1 /\ Owes(Top) = {} /\ In(Top) = 2 /\ Top.fn = "flowright"
  BY FlowTop DEF FlowRight, At, Top
<1>2. Then(d, <<F("flowend")>>)
  BY DEF FlowRight, Calling
<1>3. Over(cur, cur, {}) /\ IsNode(cur, cur.ret) /\ Bound(cur, cur.ret) >= 2
  <2>1. Over(cur, cur, {}) /\ IsNode(cur, cur.ret) /\ Bound(cur, cur.ret) \in 0..8
    BY StillSelf, StillRet
  <2>2. 2 \in 0..Bound(cur, cur.ret)
    BY <1>1 DEF Calling
  <2> QED  BY <2>1, <2>2
<1>4. IsNode(cur, Top.n) /\ Bound(cur, Top.n) >= 2
  BY <1>1 DEF Calling, FrameOk, Holds
<1>5. type \in {"NEXUS_FLOW", "NEXUS_PIPE"}
  OBVIOUS
<1> HIDE DEF type
<1>6. Needs(type) = {"left", "right"} /\ Operands(type) = {"left", "right"}
      /\ type # "BINARY_EXPR"
  BY <1>5 DEF Needs, Operands
<1>7. /\ {"left", "right"} \subseteq DOMAIN members
      /\ members["left"] = Top.n /\ members["right"] = cur.ret
  OBVIOUS
<1>8. RankOf(Node(type, members)) = 1 /\ \A m : Least(Node(type, members), m) = 2
  BY <1>5 DEF RankOf, Least, Node
<1>9. d = Make(cur, type, members)
  OBVIOUS
<1> HIDE DEF members, d
<1>10. \A m \in Operands(type) :
         /\ m \in DOMAIN members /\ IsNode(cur, members[m])
         /\ Bound(cur, members[m]) >= Least(Node(type, members), m)
  BY <1>3, <1>4, <1>6, <1>7, <1>8
<1>11. Over(cur, d, {}) /\ Makes(cur, d, type, members) /\ Bound(d, d.ret) \in 0..8
  BY <1>3, <1>6, <1>9, <1>10, MadeOf
<1>12. IsNode(d, d.ret) /\ 1 \in 0..Bound(d, d.ret)
  BY <1>8, <1>11 DEF Makes
<1> QED  BY <1>1, <1>2, <1>11, <1>12, FlowEnds

LEMMA FlowEndSound == ASSUME Calling, FlowEnd PROVE Sound(cur', stack')
<1> DEFINE r == cur.ret
           e == Lose(Ahead, "unpack")
           S == FSet(r, "catch_block")
<1>1. Out(cur, Top) = 1 /\ Owes(Top) = {} /\ In(Top) = 1
  BY FlowTop DEF FlowEnd, At, Top
<1>2. \/ Then(e, <<F("flow")>>) \/ Then(Ahead, <<F("block"), S>>) \/ Then(Fails(Ahead), <<>>)
      \/ Then(cur, <<>>)
  BY DEF FlowEnd
<1>3. Still(Ahead) /\ Fails(Ahead).bad /\ Still(e)
  BY StillSelf, StillMove DEF Ahead
<1> HIDE DEF e
<1>4. Over(cur, cur, {}) /\ IsNode(cur, cur.ret) /\ 1 \in 0..Bound(cur, cur.ret)
      /\ Bound(cur, cur.ret) \in 0..8
  <2>1. Over(cur, cur, {}) /\ IsNode(cur, cur.ret) /\ Bound(cur, cur.ret) \in 0..8
    BY StillSelf, StillRet
  <2>2. 1 \in 0..Bound(cur, cur.ret)
    BY <1>1 DEF Calling
  <2> QED  BY <2>1, <2>2
<1>5. CASE Then(e, <<F("flow")>>)
  <2>1. Over(cur, e, {}) /\ IsNode(e, e.ret) /\ Frame(e, F("flow"), 0, 1, {})
    BY <1>3, FlowFrames, StillRet
  <2>2. Out(cur, Top) \in 0..1 /\ {} \union Owes(Top) \subseteq {}
    BY <1>1
  <2> QED  BY <1>5, <2>1, <2>2, CallFrames1
<1>6. CASE Then(Ahead, <<F("block"), S>>)
  <2>1. Over(cur, Ahead, {}) /\ IsNode(Ahead, Ahead.ret) /\ IsNode(Ahead, r)
        /\ Bound(Ahead, r) = Bound(cur, r)
    BY <1>3, <1>4, StillRet, StillNode
  <2>2. Frame(Ahead, F("block"), 0, 0, {})
    BY PlainFrame DEF Plain
  <2>3. Frame(Ahead, S, 0, Bound(Ahead, r), {<<r, "catch_block">>})
    BY <2>1, SetFrame
  <2>4. Out(cur, Top) \in 0..Bound(Ahead, r)
        /\ {} \union Owes(Top) \subseteq {} \union {<<r, "catch_block">>}
    BY <1>1, <1>4, <2>1
  <2> HIDE DEF S
  <2> QED  BY <1>6, <2>1, <2>2, <2>3, <2>4, CallFrames2
<1>7. CASE Then(Fails(Ahead), <<>>)
  BY <1>3, <1>7, BadSound
<1>8. CASE Then(cur, <<>>)
  <2>1. Out(cur, Top) \in 0..Bound(cur, cur.ret) /\ Lacks(cur) \intersect ({} \union Owes(Top)) = {}
    BY <1>1, <1>4
  <2> QED  BY <1>4, <1>8, <2>1, Ends
<1> QED  BY <1>2, <1>5, <1>6, <1>7, <1>8

LEMMA AssignmentSound == ASSUME Calling, Assignment PROVE Sound(cur', stack')
<1>1. Top.fn \in Modest
  BY DEF Assignment, At, Top, Modest, Plain
<1>2. Out(cur, Top) \in 0..0 /\ Owes(Top) = {}
  BY <1>1, ModestIs
<1>3. Frame(cur, F("flow"), 0, 1, {}) /\ Frame(cur, F("assign"), 1, 0, {}) /\ 1 \in 0..1
  BY FlowFrames
<1>4. Still(cur) /\ Then(cur, <<F("flow"), F("assign")>>)
  BY StillSelf DEF Assignment
<1> QED  BY <1>2, <1>3, <1>4, Chain2

LEMMA AssignSound == ASSUME Calling, Assign PROVE Sound(cur', stack')
<1> DEFINE r == cur.ret
           members == [handler_name |-> cur.nodes[r].at["name"]]
           c == Make(Ahead, "NEXUS_CAPTURE", members)
           G == FNodeOp("assigned", r, Tok(cur))
           E == F("expression")
<1>1. Top.fn = "assign" /\ Top.fn \in Modest
  BY DEF Assign, At, Top, Modest
<1>2. In(Top) = 1
  BY <1>1 DEF In
<1>3. \/ Then(Fails(Ahead), <<>>) \/ Then(c, <<E, FSet(c.ret, "expr")>>)
      \/ Then(Ahead, <<E, G>>) \/ Then(cur, <<>>)
  BY DEF Assign
<1>4. Still(cur) /\ Still(Ahead) /\ Fails(Ahead).bad
  BY StillSelf, StillMove DEF Ahead
<1>5. CASE Then(Fails(Ahead), <<>>)
  BY <1>4, <1>5, BadSound
<1>6. CASE Then(c, <<E, FSet(c.ret, "expr")>>)
  <2>1. Needs("NEXUS_CAPTURE") = {"expr"} /\ Operands("NEXUS_CAPTURE") = {}
    BY DEF Needs, Operands
  <2>2. c = Make(Ahead, "NEXUS_CAPTURE", members) /\ Over(cur, Ahead, {})
    BY <1>4 DEF Still
  <2> HIDE DEF members, c
  <2>3. /\ Over(cur, c, {} \union Missing(Len(Ahead.nodes) + 1, "NEXUS_CAPTURE", members))
        /\ Makes(Ahead, c, "NEXUS_CAPTURE", members)
    BY <2>1, <2>2, OverMake
  <2> DEFINE n == c.ret
             D == {<<n, "expr">>}
  <2>4. Missing(Len(Ahead.nodes) + 1, "NEXUS_CAPTURE", members) \subseteq D
    BY <2>1, <2>3 DEF Missing, Makes
  <2>5. Over(cur, c, D) /\ IsNode(c, n)
    BY <2>3, <2>4 DEF Over, Makes
  <2>6. Frame(c, FSet(n, "expr"), 0, Bound(c, n), D)
    BY <2>5, SetFrame
  <2>7. Frame(c, E, 0, 0, {})
    BY PlainFrame DEF Plain
  <2>8. D \subseteq {} \union D
    OBVIOUS
  <2> HIDE DEF D, E
  <2> QED  BY <1>1, <1>6, <2>5, <2>6, <2>7, <2>8, ModestCalls2
<1>7. CASE Then(Ahead, <<E, G>>)
  <2>1. IsNode(cur, r) /\ Bound(cur, r) \in 0..8 /\ 1 \in 0..Bound(cur, r)
    BY <1>2, <1>4, StillRet DEF Calling
  <2>2. IsNode(Ahead, r) /\ Bound(Ahead, r) >= 1
    BY <1>4, <2>1, StillNode
  <2>3. Frame(Ahead, E, 0, 0, {}) /\ Frame(Ahead, G, 0, 0, {})
    BY <2>2, PlainFrame, OperatorFrames DEF Plain
  <2>4. Over(cur, Ahead, {}) /\ IsNode(Ahead, Ahead.ret) /\ {} \subseteq {} \union {}
    BY <1>4, StillRet
  <2> HIDE DEF E, G
  <2> QED  BY <1>1, <1>7, <2>3, <2>4, ModestCalls2
<1>8. CASE Then(cur, <<>>)
  BY <1>1, <1>4, <1>8, StillEnds
<1> QED  BY <1>3, <1>5, <1>6, <1>7, <1>8

LEMMA AssignedSound == ASSUME Calling, Assigned PROVE Sound(cur', stack')
<1> DEFINE type == "ASSIGNMENT"
           members == [op |-> Top.op, left |-> Top.n, right |-> cur.ret]
           d == Make(cur, type, members)
<1>1. Top.fn = "assigned" /\ Top.fn \in Modest
  BY DEF Assigned, At, Top, Modest
<1>2. Then(d, <<>>)
  BY DEF Assigned, Calling
<1>3. Over(cur, cur, {}) /\ IsNode(cur, cur.ret) /\ Bound(cur, cur.ret) \in 0..8
  BY StillSelf, StillRet
<1>4. IsNode(cur, Top.n) /\ Bound(cur, Top.n) >= 1
  BY <1>1 DEF Calling, FrameOk, Holds
<1>5. Needs(type) = {"left", "right"} /\ Operands(type) = {"left", "right"}
  BY DEF Needs, Operands
<1>6. /\ {"left", "right"} \subseteq DOMAIN members
      /\ members["left"] = Top.n /\ members["right"] = cur.ret
  OBVIOUS
<1>7. /\ Least(Node(type, members), "left") = 1
      /\ Least(Node(type, members), "right") = 0
  BY DEF Least, Node
<1>8. d = Make(cur, type, members)
  OBVIOUS
<1> HIDE DEF members, d
<1>9. \A m \in Operands(type) :
        /\ m \in DOMAIN members /\ IsNode(cur, members[m])
        /\ Bound(cur, members[m]) >= Least(Node(type, members), m)
  BY <1>3, <1>4, <1>5, <1>6, <1>7
<1>10. Over(cur, d, {}) /\ Makes(cur, d, type, members) /\ Bound(d, d.ret) \in 0..8
  BY <1>3, <1>5, <1>8, <1>9, MadeOf
<1>11. Out(cur, Top) = 0 /\ Owes(Top) = {}
  BY <1>1, ModestIs
<1>12. IsNode(d, d.ret) /\ Out(cur, Top) \in 0..Bound(d, d.ret)
       /\ Lacks(d) \intersect ({} \union Owes(Top)) = {}
  BY <1>10, <1>11 DEF Makes
<1> QED  BY <1>2, <1>10, <1>12, Ends

-------------------------------------------------------------------------------
(* Lists and declarations.                                                 *)

(* A node is made on top of a fresh one.                                   *)
LEMMA FreshOn ==
  ASSUME Calling, NEW c, NEW D, NEW first, Fresh(c, D, first),
         NEW type, type \notin Structured, NEW members
  PROVE  /\ Fresh(Make(c, type, members), D, type)
         /\ IsNode(Make(c, type, members), c.ret)
         /\ Make(c, type, members).nodes[c.ret].type = first
<1> DEFINE d == Make(c, type, members)
<1>1. type \notin OperatorTypes /\ Needs(type) = {} /\ Operands(type) = {}
  BY FreeIs DEF Structured
<1>2. Missing(d.ret, type, members) = {} /\ Missing(Len(c.nodes) + 1, type, members) = {}
  BY <1>1 DEF Missing
<1>3. Fresh(d, D \union Missing(d.ret, type, members), type)
  BY <1>1, FreshMake DEF Fresh
<1>4. Heap(c) /\ Over(c, c, {}) /\ IsNode(c, c.ret) /\ c.nodes[c.ret].type = first
  BY OverSelf DEF Fresh, Over
<1>5. type # "BINARY_EXPR"
  BY <1>1 DEF OperatorTypes
<1>6. Over(c, d, {} \union Missing(Len(c.nodes) + 1, type, members))
  BY <1>1, <1>4, <1>5, OverMake
<1> HIDE DEF d
<1>7. IsNode(d, c.ret) /\ d.nodes[c.ret].type = first
  BY <1>4, <1>6 DEF Over, Heap, IsSeq, IsNode
<1>8. Fresh(d, D, type)
  BY <1>2, <1>3
<1> QED  BY <1>7, <1>8 DEF d

(* A node that is no operator may be given to a pending member.            *)
LEMMA SetFree ==
  ASSUME NEW c, NEW D, Over(cur, c, D), NEW n, IsNode(c, n), c.nodes[n].type \notin OperatorTypes,
         NEW m, m \notin {"left", "right", "op", "operand"}
  PROVE  Frame(c, FSet(n, m), 0, 8, {<<n, m>>})
<1>1. Bound(c, n) = 8
  BY FirmIs DEF Over
<1> QED  BY <1>1, SetFrame

PlainLists == {"fields", "variants", "plainvariants", "statements", "members", "program"}

LEMMA TopFrame ==
  ASSUME Calling, Top.fn \in PlainLists, NEW c, NEW D, Over(cur, c, D)
  PROVE  Frame(c, Top, 0, 0, {}) /\ Frame(c, FLink(Top), 0, 0, {})
<1>1. FrameOk(c, Top)
  BY FrameOver DEF Calling
<1>2. In(Top) = 0 /\ Out(c, Top) = 0 /\ Owes(Top) = {}
  BY DEF PlainLists, In, Out, Owes, Levels, Whole
<1>3. Frame(c, FLink(Top), 0, 0, {})
  BY <1>1, LinkFrame DEF Lists, PlainLists
<1> QED  BY <1>1, <1>2, <1>3 DEF Frame

LEMMA ListTop ==
  ASSUME Calling, Top.fn \in PlainLists
  PROVE  Top.fn \in Modest /\ (Top.fn # "program" => IsNode(cur, Top.n))
  BY DEF PlainLists, Modest, Calling, FrameOk, Holds

(* The list is stored, or goes on, with another element or without.        *)
LEMMA ListEnds ==
  ASSUME Calling, Top.fn \in PlainLists, Top.fn # "program", NEW c, Still(c),
         Then(c, <<FGive(Top.n)>>)
  PROVE  Sound(cur', stack')
<1>1. Top.fn \in Modest /\ IsNode(cur, Top.n)
  BY ListTop
<1>2. Over(cur, c, {}) /\ IsNode(c, c.ret) /\ IsNode(c, Top.n) /\ {} \subseteq {}
  BY <1>1, StillNode DEF Still
<1>3. Frame(c, FGive(Top.n), 0, Bound(c, Top.n), {})
  BY <1>2, GiveFrame
<1> QED  BY <1>1, <1>2, <1>3, ModestCalls1

LEMMA ListAgain ==
  ASSUME Calling, Top.fn \in PlainLists, NEW c, Still(c), Then(c, <<Top>>)
  PROVE  Sound(cur', stack')
<1>1. Top.fn \in Modest /\ Over(cur, c, {}) /\ IsNode(c, c.ret) /\ {} \subseteq {}
  BY ListTop DEF Still
<1>2. Frame(c, Top, 0, 0, {})
  BY <1>1, TopFrame
<1> QED  BY <1>1, <1>2, ModestCalls1

LEMMA ListTakes ==
  ASSUME Calling, Top.fn \in PlainLists, NEW c, NEW D, Over(cur, c, D), IsNode(c, c.ret),
         NEW f, NEW o, NEW v, Frame(c, f, 0, o, v), D \subseteq v, Then(c, <<f, FLink(Top)>>)
  PROVE  Sound(cur', stack')
<1>1. Top.fn \in Modest /\ D \subseteq v \union {}
  BY ListTop
<1>2. Frame(c, FLink(Top), 0, 0, {})
  BY TopFrame
<1> QED  BY <1>1, <1>2, ModestCalls2

LEMMA ListLinks ==
  ASSUME Calling, Top.fn \in PlainLists, NEW c, Over(cur, c, {}), IsNode(c, c.ret),
         Then(c, <<FLink(Top)>>)
  PROVE  Sound(cur', stack')
<1>1. Top.fn \in Modest /\ {} \subseteq {}
  BY ListTop
<1>2. Frame(c, FLink(Top), 0, 0, {})
  BY TopFrame
<1> QED  BY <1>1, <1>2, ModestCalls1

(* A list of a node that was just made.                                    *)
LEMMA ListStarts ==
  ASSUME Calling, Top.fn \in Modest, NEW c, NEW type, Fresh(c, {}, type), NEW fn \in PlainLists,
         NEW m, Then(c, <<List(fn, c.ret, m)>>)
  PROVE  Sound(cur', stack')
<1>1. Over(cur, c, {}) /\ IsNode(c, c.ret) /\ {} \subseteq {}
  BY FreshIs
<1>2. fn \in Lists /\ fn # "tuple"
  BY DEF Lists, PlainLists
<1>3. Frame(c, List(fn, c.ret, m), 0, 0, {})
  BY <1>1, <1>2, ListFrame
<1> QED  BY <1>1, <1>3, ModestCalls1

LEMMA KindIs ==
  ASSUME NEW t
  PROVE  /\ KindOf(t) \in {"STRUCT_DECL", "UNION_DECL", "ENUM_DECL", "none"}
         /\ t \in KindTokens => KindOf(t) # "none"
         /\ KindOf(t) # "none" => KindOf(t) \in {"STRUCT_DECL", "UNION_DECL", "ENUM_DECL"}
  BY DEF KindOf, KindTokens

FreeTypes == {"VAR_DECL", "ENUM_VARIANT", "STRUCT_DECL", "UNION_DECL", "ENUM_DECL", "BLOCK", "RETURN",
              "NEWTYPE_DECL", "GROUP_DECL", "USE", "NEXUS_JUMP", "NEXUS_HALT", "NEXUS_INTENT",
              "PANIC", "NEXUS_LABEL", "PROGRAM"}

LEMMA FreeType == ASSUME NEW type \in FreeTypes PROVE type \notin Structured
  BY DEF FreeTypes, Structured, OperatorTypes, BodyTypes, PartTypes

LEMMA FreshType ==
  ASSUME NEW d, Over(cur, d, {}), NEW type \in FreeTypes, NEW members
  PROVE  Fresh(Make(d, type, members), {}, type)
  BY FreeType, FreshFree

LEMMA VarDeclSound == ASSUME Calling, VarDecl PROVE Sound(cur', stack')
<1> DEFINE attached == Len(Spelled(cur.prev)) > 2
           id == IF attached \/ Sees({"id"}) THEN cur ELSE Fails(cur)
           b == IF attached THEN id ELSE Match(id, "id")
           members == [name |-> IF attached THEN Word(cur.prev)
                             ELSE IF Sees({"id"}) THEN Word(cur.at) ELSE Zero]
           c == Make(b, "VAR_DECL", members)
           a == Adv(c)
           n == c.ret
           typed == Put(a, n, "type_name", Word(a.at))
           kind == KindOf(Tok(a))
           body == Bare(Adv(Adv(typed)), kind)
           I == FNode("init", n)
           L == List("fields", body.ret, NoName)
           S == FSet(n, "inline_type")
<1>1. Top.fn \in Modest
  BY DEF VarDecl, At, Top, Modest, Plain
<1>2. \/ Then(c, <<I>>) \/ Then(Adv(typed), <<I>>) \/ Then(Fails(a), <<I>>)
      \/ kind # "none" /\ Then(body, <<L, S, I>>)
  <2>1. Tok(a) \in {"struct", "union"} => kind # "none"
    BY KindIs DEF KindTokens
  <2> HIDE DEF I, L, S
  <2> QED  BY <2>1 DEF VarDecl, I, L, S
<1>3. Still(b)
  BY StillSelf, StillMove
<1> HIDE DEF b, members
<1>4. Fresh(c, {}, "VAR_DECL")
  BY <1>3, FreshType DEF FreeTypes, Still
<1> HIDE DEF c
<1>5. Fresh(a, {}, "VAR_DECL") /\ a.ret = n /\ Fails(a).bad
  BY <1>4, FreshMove
<1> HIDE DEF a
<1>6. Fresh(typed, {}, "VAR_DECL") /\ typed.ret = n
  BY <1>5, FreshSpare DEF Spare
<1> HIDE DEF typed
<1>7. Fresh(Adv(typed), {}, "VAR_DECL") /\ Adv(typed).ret = n
  BY <1>6, FreshMove
<1>8. Fresh(Adv(Adv(typed)), {}, "VAR_DECL") /\ Adv(Adv(typed)).ret = n
  BY <1>7, FreshMove
<1>9. ASSUME NEW d, Fresh(d, {}, "VAR_DECL"), d.ret = n, Then(d, <<I>>)
      PROVE  Sound(cur', stack')
  <2>1. Over(cur, d, {}) /\ IsNode(d, d.ret) /\ IsNode(d, n) /\ {} \subseteq {}
    BY <1>9, FreshIs
  <2>2. Frame(d, I, 0, 0, {})
    BY <2>1, NodeFrames
  <2> HIDE DEF I
  <2> QED  BY <1>1, <1>9, <2>1, <2>2, ModestCalls1
<1>10. CASE Then(c, <<I>>) \/ Then(Adv(typed), <<I>>)
  <2> HIDE DEF I
  <2> QED  BY <1>4, <1>7, <1>9, <1>10
<1>11. CASE Then(Fails(a), <<I>>)
  BY <1>5, <1>11, BadSound
<1>12. CASE kind # "none" /\ Then(body, <<L, S, I>>)
  <2>1. kind \in FreeTypes
    BY <1>12, KindIs DEF FreeTypes
  <2> HIDE DEF kind
  <2>2. Fresh(body, {}, kind) /\ IsNode(body, n) /\ body.nodes[n].type = "VAR_DECL"
    BY <1>8, <2>1, FreeType, FreshOn DEF Bare
  <2> HIDE DEF body
  <2>3. Over(cur, body, {}) /\ IsNode(body, body.ret)
    BY <2>2, FreshIs
  <2>4. Frame(body, L, 0, 0, {}) /\ Frame(body, I, 0, 0, {})
    BY <2>2, <2>3, ListFrame, NodeFrames DEF Lists
  <2>5. Frame(body, S, 0, 8, {<<n, "inline_type">>})
    BY <2>2, <2>3, SetFree DEF OperatorTypes
  <2>6. {} \subseteq {} \union {<<n, "inline_type">>} \union {}
    OBVIOUS
  <2> HIDE DEF L, S, I
  <2> QED  BY <1>1, <1>12, <2>3, <2>4, <2>5, <2>6, ModestCalls3
<1> QED  BY <1>2, <1>10, <1>11, <1>12

LEMMA VarInitSound == ASSUME Calling, VarInit PROVE Sound(cur', stack')
<1> DEFINE n == Top.n
           E == F("expression")
           S == FSet(n, "initializer")
<1>1. Top.fn = "init" /\ Top.fn \in Modest
  BY DEF VarInit, At, Top, Modest
<1>2. IsNode(cur, n)
  BY <1>1 DEF Calling, FrameOk, Holds
<1>3. Then(Ahead, <<E, S>>) \/ Then([cur EXCEPT !.ret = n], <<>>)
  BY DEF VarInit
<1>4. Still(cur) /\ Still(Ahead)
  BY StillSelf, StillMove DEF Ahead
<1>5. CASE Then(Ahead, <<E, S>>)
  <2>1. Over(cur, Ahead, {}) /\ IsNode(Ahead, Ahead.ret) /\ IsNode(Ahead, n)
    BY <1>2, <1>4, StillNode DEF Still
  <2>2. Frame(Ahead, E, 0, 0, {}) /\ Frame(Ahead, S, 0, Bound(Ahead, n), {<<n, "initializer">>})
    BY <2>1, PlainFrame, SetFrame DEF Plain
  <2>3. {} \subseteq {} \union {<<n, "initializer">>}
    OBVIOUS
  <2> HIDE DEF E, S
  <2> QED  BY <1>1, <1>5, <2>1, <2>2, <2>3, ModestCalls2
<1>6. CASE Then([cur EXCEPT !.ret = n], <<>>)
  BY <1>1, <1>2, <1>4, <1>6, ModestEndsAt DEF Still
<1> QED  BY <1>3, <1>5, <1>6

-------------------------------------------------------------------------------
(* Fields, variants, parameters, functions.                                *)

LEMMA FieldsSound == ASSUME Calling, Fields PROVE Sound(cur', stack')
<1> DEFINE b == Put(cur, Top.n, "fields", Top.head)
<1>1. Top.fn \in PlainLists /\ Top.fn # "program"
  BY DEF Fields, At, Top, PlainLists
<1>2. \/ Then(Consume(b, RBRACE), <<FGive(Top.n)>>) \/ Then(Ahead, <<F("vardecl"), FLink(Top)>>)
      \/ Then(Skip(cur, "field"), <<Top>>)
  BY DEF Fields
<1>3. Still(b) /\ Still(Ahead) /\ Still(Skip(cur, "field"))
  BY StillSelf, StillMove, StillSpare DEF Ahead, Spare
<1> HIDE DEF b
<1>4. CASE Then(Consume(b, RBRACE), <<FGive(Top.n)>>)
  BY <1>1, <1>3, <1>4, StillMove, ListEnds
<1>5. CASE Then(Ahead, <<F("vardecl"), FLink(Top)>>)
  <2>1. Frame(Ahead, F("vardecl"), 0, 0, {}) /\ {} \subseteq {}
    BY PlainFrame DEF Plain
  <2>2. Over(cur, Ahead, {}) /\ IsNode(Ahead, Ahead.ret)
    BY <1>3 DEF Still
  <2> QED  BY <1>1, <1>5, <2>1, <2>2, ListTakes
<1>6. CASE Then(Skip(cur, "field"), <<Top>>)
  BY <1>1, <1>3, <1>6, ListAgain
<1> QED  BY <1>2, <1>4, <1>5, <1>6

LEMMA VariantsSound == ASSUME Calling, Variants PROVE Sound(cur', stack')
<1> DEFINE members == [name |-> Word(cur.at)]
           v == Make(Ahead, "ENUM_VARIANT", members)
           w == Adv(v)
           b == Put(cur, Top.n, "variants", Top.head)
           p == Tok(w) = ")"
           X == FExpect(")")
           G == FGive(v.ret)
           L == FLink(Top)
           D == List("params", v.ret, "data")
           fs == (IF p THEN <<>> ELSE <<D>>) \o <<X, G, L>>
<1>1. Top.fn \in PlainLists /\ Top.fn # "program" /\ Top.fn \in Modest
  BY DEF Variants, At, Top, PlainLists, Modest
<1>2. \/ Then(Consume(b, RBRACE), <<FGive(Top.n)>>) \/ Then(v, <<L>>) \/ Then(w, fs)
      \/ Then(Skip(cur, "variant"), <<Top>>)
  BY DEF Variants
<1>3. Still(b) /\ Still(Ahead) /\ Still(Skip(cur, "variant"))
  BY StillSelf, StillMove, StillSpare DEF Ahead, Spare
<1> HIDE DEF b
<1>4. Fresh(v, {}, "ENUM_VARIANT")
  BY <1>3, FreshType DEF FreeTypes, Still
<1>5. Fresh(w, {}, "ENUM_VARIANT") /\ w.ret = v.ret
  <2> HIDE DEF v
  <2> QED  BY <1>4, FreshMove
<1> HIDE DEF v, w
<1>6. CASE Then(Consume(b, RBRACE), <<FGive(Top.n)>>)
  BY <1>1, <1>3, <1>6, StillMove, ListEnds
<1>7. CASE Then(v, <<L>>)
  <2>1. Over(cur, v, {}) /\ IsNode(v, v.ret)
    BY <1>4, FreshIs
  <2> QED  BY <1>1, <1>7, <2>1, ListLinks
<1>8. CASE Then(Skip(cur, "variant"), <<Top>>)
  BY <1>1, <1>3, <1>8, ListAgain
<1>9. CASE Then(w, fs)
  <2>1. Over(cur, w, {}) /\ IsNode(w, w.ret) /\ IsNode(w, v.ret) /\ Bound(w, v.ret) = 8
    BY <1>5, FreshIs
  <2>2. Frame(w, X, 0, 0, {}) /\ Frame(w, G, 0, 8, {}) /\ Frame(w, D, 0, 0, {})
    BY <2>1, ExpectFrame, GiveFrame, ParamsFrame
  <2>3. Frame(w, L, 0, 0, {})
    BY <1>1, <2>1, TopFrame
  <2>4. {} \subseteq {} \union {} \union {} /\ {} \subseteq {} \union {} \union {} \union {}
    OBVIOUS
  <2> HIDE DEF X, G, L, D
  <2>5. fs = <<X, G, L>> \/ fs = <<D, X, G, L>>
    <3>1. <<D>> \o <<X, G, L>> = <<D, X, G, L>>
      BY Concat13
    <3>2. IsSeq(<<X, G, L>>)
      BY DEF IsSeq
    <3>3. <<>> \o <<X, G, L>> = <<X, G, L>>
      BY <3>2, EmptyIsSeq
    <3> HIDE DEF p
    <3> QED  BY <3>1, <3>3
  <2> HIDE DEF fs
  <2>6. CASE fs = <<X, G, L>>
    <3>1. Then(w, <<X, G, L>>)
      BY <1>9, <2>6
    <3> QED  BY <1>1, <2>1, <2>2, <2>3, <2>4, <3>1, ModestCalls3
  <2>7. CASE fs = <<D, X, G, L>>
    <3>1. Then(w, <<D, X, G, L>>)
      BY <1>9, <2>7
    <3> QED  BY <1>1, <2>1, <2>2, <2>3, <2>4, <3>1, ModestCalls4
  <2> QED  BY <2>5, <2>6, <2>7
<1> QED  BY <1>2, <1>6, <1>7, <1>8, <1>9

LEMMA ParamsSound == ASSUME Calling, Params PROVE Sound(cur', stack')
<1> DEFINE data == Top.m = "data"
           members == [name |-> Word(cur.at)]
           p == Make(Ahead, "VAR_DECL", members)
           t == IF data THEN Consume(p, "!") ELSE Match(p, "!")
           put == Put(t, p.ret, "type_name", Word(t.at))
           typed == CASE Tok(t) \in TypeTokens -> Adv(put)
                      [] Tok(t) \notin TypeTokens /\ data -> Fails(t)
                      [] OTHER -> t
           id == Sees({"id"})
           c == IF id THEN LinkNode(typed, Top, p.ret) ELSE Fails(cur)
           f == IF id THEN Linked(Top, p.ret) ELSE Top
           g == Linked(Top, p.ret)
<1>1. Top.fn = "params" /\ Top.fn \in Modest
  BY DEF Params, At, Top, Modest
<1>2. Top.m \in {"params", "data"}
  BY <1>1 DEF Calling, FrameOk
<1>3. Then(Adv(c), <<f>>) \/ Then(Put(c, f.n, f.m, f.head), <<>>)
  BY DEF Params
<1>4. CASE ~id
  <2>1. c = Fails(cur) /\ f = Top
    BY <1>4
  <2> HIDE DEF c, f
  <2>2. Still(c) /\ c.bad
    BY <2>1, StillSelf, StillMove
  <2>3. Top.m \in Spare
    BY <1>2 DEF Spare
  <2>4. Adv(c).bad /\ Put(c, Top.n, Top.m, Top.head).bad
    BY <2>2, <2>3, StillMove, StillSpare
  <2> QED  BY <1>3, <2>1, <2>4, BadSound
<1>5. CASE id
  <2>1. c = LinkNode(typed, Top, p.ret) /\ f = g
    BY <1>5
  <2>2. Fresh(p, {}, "VAR_DECL")
    BY StillSelf, StillMove, FreshType DEF FreeTypes, Still, Ahead
  <2> HIDE DEF p, c, f
  <2>3. Fresh(t, {}, "VAR_DECL") /\ t.ret = p.ret
    BY <2>2, FreshMove
  <2> HIDE DEF t
  <2>4. Fresh(put, {}, "VAR_DECL") /\ put.ret = p.ret
    BY <2>3, FreshSpare DEF Spare
  <2> HIDE DEF put
  <2>5. Fresh(typed, {}, "VAR_DECL") /\ typed.ret = p.ret
    BY <2>3, <2>4, FreshMove
  <2> HIDE DEF typed
  <2>6. Fresh(c, {}, "VAR_DECL") /\ p.ret # NULL
    BY <2>1, <2>2, <2>5, FreshLink, FreshIs
  <2>7. \A e : Over(cur, e, {}) => Frame(e, g, 0, 0, {})
    <3> TAKE e
    <3> SUFFICES ASSUME Over(cur, e, {}) PROVE Frame(e, g, 0, 0, {})
      OBVIOUS
    <3>1. FrameOk(e, Top)
      BY FrameOver DEF Calling
    <3> QED  BY <1>1, <2>6, <3>1, LinkedFrame
  <2>8. g.m = Top.m
    BY <1>1, <2>6, LinkedFrame DEF Calling
  <2> HIDE DEF g
  <2>9. CASE Then(Adv(c), <<f>>)
    <3>1. Over(cur, Adv(c), {}) /\ IsNode(Adv(c), Adv(c).ret) /\ {} \subseteq {}
      BY <2>6, FreshMove, FreshIs
    <3>2. Frame(Adv(c), f, 0, 0, {})
      BY <2>1, <2>7, <3>1
    <3> QED  BY <1>1, <2>9, <3>1, <3>2, ModestCalls1
  <2>10. CASE Then(Put(c, f.n, f.m, f.head), <<>>)
    <3>1. f.m \in Spare
      BY <1>2, <2>1, <2>8 DEF Spare
    <3>2. Fresh(Put(c, f.n, f.m, f.head), {}, "VAR_DECL")
      BY <2>6, <3>1, FreshSpare
    <3>3. Owes(Top) = {}
      BY <1>1, ModestIs
    <3> QED  BY <2>10, <3>2, <3>3, EndsFresh
  <2> QED  BY <1>3, <2>9, <2>10
<1> QED  BY <1>4, <1>5

LEMMA FunctionSound == ASSUME Calling, Function PROVE Sound(cur', stack')
<1> DEFINE attached == toks[cur.prev].type = "f:"
           b == IF attached THEN cur ELSE Match(cur, "id")
           members == [name |-> IF attached THEN Word(cur.prev)
                             ELSE IF Sees({"id"}) THEN Word(cur.at) ELSE Zero]
           c == Make(b, "FUNC_DECL", members)
           n == c.ret
           p == Consume(c, "(")
           D == {<<n, "body">>}
           q == Tok(p) = ")"
           A == List("params", n, "params")
           X == FExpect(")")
           R == FNode("funcrest", n)
           fs == (IF q THEN <<>> ELSE <<A>>) \o <<X, R>>
<1>1. Out(cur, Top) = 8 /\ Owes(Top) = {}
  BY DEF Function, At, Top, Out, Owes, Levels, Whole
<1>2. Then(p, fs)
  BY DEF Function
<1>3. Still(b)
  BY StillSelf, StillMove
<1> HIDE DEF b, members
<1>4. Fresh(c, D, "FUNC_DECL")
  BY <1>3, FreshBody DEF BodyTypes, Still
<1> HIDE DEF c
<1>5. Fresh(p, D, "FUNC_DECL") /\ p.ret = n
  BY <1>4, FreshMove
<1> HIDE DEF p
<1>6. Over(cur, p, D) /\ IsNode(p, p.ret) /\ IsNode(p, n) /\ p.nodes[n].type = "FUNC_DECL"
  BY <1>5, FreshIs
<1>7. Frame(p, X, 0, 0, {}) /\ Frame(p, A, 0, 0, {}) /\ Frame(p, R, 0, 8, D)
  BY <1>6, ExpectFrame, ParamsFrame, BodyFrames
<1>8. Out(cur, Top) \in 0..8 /\ D \union Owes(Top) \subseteq {} \union D
      /\ D \union Owes(Top) \subseteq {} \union {} \union D
  BY <1>1
<1> HIDE DEF D, A, X, R
<1>9. fs = <<X, R>> \/ fs = <<A, X, R>>
  <2>1. <<A>> \o <<X, R>> = <<A, X, R>>
    BY Concat12
  <2>2. IsSeq(<<X, R>>)
    BY DEF IsSeq
  <2>3. <<>> \o <<X, R>> = <<X, R>>
    BY <2>2, EmptyIsSeq
  <2> HIDE DEF q
  <2> QED  BY <2>1, <2>3
<1> HIDE DEF fs
<1>10. CASE fs = <<X, R>>
  <2>1. Then(p, <<X, R>>)
    BY <1>2, <1>10
  <2> QED  BY <1>6, <1>7, <1>8, <2>1, CallFrames2
<1>11. CASE fs = <<A, X, R>>
  <2>1. Then(p, <<A, X, R>>)
    BY <1>2, <1>11
  <2> QED  BY <1>6, <1>7, <1>8, <2>1, CallFrames3
<1> QED  BY <1>9, <1>10, <1>11

LEMMA FunctionRestSound == ASSUME Calling, FunctionRest PROVE Sound(cur', stack')
<1> DEFINE n == Top.n
           D == {<<n, "body">>}
           bang == Match(cur, "!")
           put == Put(bang, n, "return_type", Word(bang.at))
           t == IF Tok(bang) \in TypeTokens THEN Adv(put)
                ELSE IF Sees({"!"}) THEN Fails(bang) ELSE bang
           c == Consume(t, LBRACE)
           E == F("expression")
           R == FNode("lambda", n)
           B == F("block")
           S == FSet(n, "body")
<1>1. /\ Top.fn = "funcrest" /\ Out(cur, Top) = 8 /\ Owes(Top) = D
      /\ IsNode(cur, n) /\ cur.nodes[n].type = "FUNC_DECL"
  BY DEF FunctionRest, At, Top, Out, Owes, Levels, Whole, Calling, FrameOk, Holds
<1>2. Then(Ahead, <<E, R>>) \/ Then(c, <<B, S>>)
  BY DEF FunctionRest
<1>3. Still(Ahead) /\ Still(bang)
  BY StillSelf, StillMove DEF Ahead
<1> HIDE DEF bang
<1>4. Still(put)
  BY <1>3, StillSpare DEF Spare
<1> HIDE DEF put
<1>5. Still(t)
  BY <1>3, <1>4, StillMove
<1> HIDE DEF t
<1>6. Still(c)
  BY <1>5, StillMove
<1> HIDE DEF c
<1>7. Out(cur, Top) \in 0..8 /\ {} \union Owes(Top) \subseteq {} \union D
  BY <1>1
<1>8. CASE Then(Ahead, <<E, R>>)
  <2>1. Over(cur, Ahead, {}) /\ IsNode(Ahead, Ahead.ret) /\ IsNode(Ahead, n)
        /\ Ahead.nodes[n].type = "FUNC_DECL"
    BY <1>1, <1>3, StillNode DEF Still
  <2>2. Frame(Ahead, E, 0, 0, {}) /\ Frame(Ahead, R, 0, 8, D)
    BY <2>1, PlainFrame, BodyFrames DEF Plain
  <2> HIDE DEF D, E, R
  <2> QED  BY <1>7, <1>8, <2>1, <2>2, CallFrames2
<1>9. CASE Then(c, <<B, S>>)
  <2>1. Over(cur, c, {}) /\ IsNode(c, c.ret) /\ IsNode(c, n) /\ c.nodes[n].type = "FUNC_DECL"
    BY <1>1, <1>6, StillNode DEF Still
  <2>2. Frame(c, B, 0, 0, {}) /\ Frame(c, S, 0, 8, D)
    BY <2>1, PlainFrame, SetFree DEF Plain, OperatorTypes
  <2> HIDE DEF D, B, S
  <2> QED  BY <1>7, <1>9, <2>1, <2>2, CallFrames2
<1> QED  BY <1>2, <1>8, <1>9

LEMMA LambdaSound == ASSUME Calling, Lambda PROVE Sound(cur', stack')
<1> DEFINE n == Top.n
           r == Make(cur, "RETURN", [op |-> "ret", operand |-> cur.ret])
           b == Make(r, "BLOCK", [statements |-> r.ret])
           d == Put(b, n, "body", b.ret)
<1>1. /\ Top.fn = "lambda" /\ Out(cur, Top) = 8 /\ Owes(Top) = {<<n, "body">>}
      /\ IsNode(cur, n) /\ cur.nodes[n].type = "FUNC_DECL"
  BY DEF Lambda, At, Top, Out, Owes, Levels, Whole, Calling, FrameOk, Holds
<1>2. Then([d EXCEPT !.ret = n], <<>>)
  BY DEF Lambda, Calling
<1>3. Fresh(r, {}, "RETURN")
  BY StillSelf, FreshType DEF FreeTypes, Still
<1> HIDE DEF r
<1>4. Fresh(b, {}, "BLOCK")
  BY <1>3, FreshType, FreshIs DEF FreeTypes
<1> HIDE DEF b
<1>5. Over(cur, b, {}) /\ b.ret # NULL
  BY <1>4, FreshIs
<1>6. IsNode(b, n) /\ b.nodes[n].type = "FUNC_DECL"
  BY <1>1, <1>5, OverNode
<1>7. Over(cur, d, {}) /\ Kept(b, d) /\ <<n, "body">> \notin Lacks(d)
  BY <1>5, OverPut
<1> HIDE DEF d
<1>8. IsNode(d, n) /\ d.nodes[n].type = "FUNC_DECL"
  BY <1>6, <1>7 DEF Kept, IsNode
<1>9. Bound(d, n) = 8
  BY <1>7, <1>8, FirmIs DEF OperatorTypes, Over
<1>10. Out(cur, Top) \in 0..Bound(d, n) /\ Lacks(d) \intersect ({} \union Owes(Top)) = {}
  BY <1>1, <1>7, <1>9
<1> QED  BY <1>2, <1>7, <1>8, <1>10, EndsAt

LEMMA BlockSound == ASSUME Calling, Block PROVE Sound(cur', stack')
<1> DEFINE b == Bare(cur, "BLOCK")
<1>1. Top.fn \in Modest
  BY DEF Block, At, Top, Modest, Plain
<1>2. Then(b, <<List("statements", b.ret, NoName)>>)
  BY DEF Block
<1>3. Fresh(b, {}, "BLOCK")
  BY StillSelf, FreshType DEF FreeTypes, Still, Bare
<1> HIDE DEF b
<1>4. "statements" \in PlainLists
  BY DEF PlainLists
<1> QED  BY <1>1, <1>2, <1>3, <1>4, ListStarts

LEMMA StatementsSound == ASSUME Calling, Statements PROVE Sound(cur', stack')
<1> DEFINE b == Put(Consume(cur, RBRACE), Top.n, "statements", Top.head)
<1>1. Top.fn \in PlainLists /\ Top.fn # "program"
  BY DEF Statements, At, Top, PlainLists
<1>2. Then(b, <<FGive(Top.n)>>) \/ Then(cur, <<F("statement"), FLink(Top)>>)
  BY DEF Statements
<1>3. Still(b) /\ Still(cur)
  BY StillSelf, StillMove, StillSpare DEF Spare
<1> HIDE DEF b
<1>4. CASE Then(b, <<FGive(Top.n)>>)
  BY <1>1, <1>3, <1>4, ListEnds
<1>5. CASE Then(cur, <<F("statement"), FLink(Top)>>)
  <2>1. Frame(cur, F("statement"), 0, 0, {}) /\ {} \subseteq {}
    BY PlainFrame DEF Plain
  <2>2. Over(cur, cur, {}) /\ IsNode(cur, cur.ret)
    BY <1>3 DEF Still
  <2> QED  BY <1>1, <1>5, <2>1, <2>2, ListTakes
<1> QED  BY <1>2, <1>4, <1>5

LEMMA TypeDeclSound == ASSUME Calling, TypeDecl PROVE Sound(cur', stack')
<1> DEFINE given == Top.m # NoName \/ toks[cur.prev].type \in {"struct:", "union:", "enum:"}
           colon == Match(cur, ":")
           name == IF Top.m # NoName THEN Top.m ELSE IF given THEN Word(cur.prev)
                   ELSE IF Tok(colon) = "id" THEN Word(colon.at) ELSE Zero
           c == IF given THEN cur
                ELSE IF Tok(colon) # "id" /\ Top.op = "STRUCT_DECL" THEN Fails(colon)
                ELSE Match(colon, "id")
           d == Make(c, Top.op, [name |-> name])
           e == Consume(d, LBRACE)
           fn == IF Top.op = "ENUM_DECL" THEN "variants" ELSE "fields"
<1>1. Top.fn = "type" /\ Top.fn \in Modest
  BY DEF TypeDecl, At, Top, Modest
<1>2. Top.op \in FreeTypes
  BY <1>1 DEF Calling, FrameOk, FreeTypes
<1>3. Then(e, <<List(fn, d.ret, NoName)>>)
  BY DEF TypeDecl
<1>4. Still(colon) /\ Still(cur)
  BY StillSelf, StillMove
<1> HIDE DEF colon
<1>5. Still(c)
  BY <1>4, StillMove
<1> HIDE DEF c
<1>6. Fresh(d, {}, Top.op)
  BY <1>2, <1>5, FreshType DEF Still
<1> HIDE DEF d
<1>7. Fresh(e, {}, Top.op) /\ e.ret = d.ret
  BY <1>6, FreshMove
<1> HIDE DEF e
<1>8. fn \in PlainLists
  BY DEF PlainLists
<1> HIDE DEF fn
<1>9. Then(e, <<List(fn, e.ret, NoName)>>)
  BY <1>3, <1>7
<1> QED  BY <1>1, <1>7, <1>8, <1>9, ListStarts

-------------------------------------------------------------------------------
(* New types and groups.                                                   *)

LEMMA StillCalls1 ==
  ASSUME Calling, Top.fn \in Modest, NEW c, Still(c), NEW f, NEW o, NEW v, Frame(c, f, 0, o, v),
         Then(c, <<f>>)
  PROVE  Sound(cur', stack')
<1>1. Over(cur, c, {}) /\ IsNode(c, c.ret) /\ {} \subseteq v
  BY DEF Still
<1> QED  BY <1>1, ModestCalls1

LEMMA StillCalls2 ==
  ASSUME Calling, Top.fn \in Modest, NEW c, Still(c), NEW f, NEW o, NEW v, Frame(c, f, 0, o, v),
         NEW g, NEW p, NEW w, Frame(c, g, 0, p, w), Then(c, <<f, g>>)
  PROVE  Sound(cur', stack')
<1>1. Over(cur, c, {}) /\ IsNode(c, c.ret) /\ {} \subseteq v \union w
  BY DEF Still
<1> QED  BY <1>1, ModestCalls2

LEMMA StillCallsPlain ==
  ASSUME Calling, Top.fn \in Modest, NEW c, Still(c), NEW fn \in Plain, Then(c, <<F(fn)>>)
  PROVE  Sound(cur', stack')
  BY PlainFrame, StillCalls1

LEMMA StillCallsType ==
  ASSUME Calling, Top.fn \in Modest, NEW c, Still(c),
         NEW type \in {"STRUCT_DECL", "UNION_DECL", "ENUM_DECL"}, NEW name,
         Then(c, <<FType(type, name)>>)
  PROVE  Sound(cur', stack')
  BY TypeFrame, StillCalls1

LEMMA NewTypeNamedSound == ASSUME Calling, NewTypeNamed PROVE Sound(cur', stack')
<1>1. Top.fn \in Modest
  BY DEF NewTypeNamed, At, Top, Modest, Plain
<1>2. NewKind # "none" /\ Then(cur, <<FType(NewKind, Word(cur.prev))>>)
  BY DEF NewTypeNamed
<1>3. NewKind \in {"STRUCT_DECL", "UNION_DECL", "ENUM_DECL"}
  BY <1>2, KindIs DEF NewKind
<1> QED  BY <1>1, <1>2, <1>3, StillSelf, StillCallsType

LEMMA NewTypeOfKindSound == ASSUME Calling, NewTypeOfKind PROVE Sound(cur', stack')
<1> DEFINE c == IF Bareword THEN Ahead ELSE cur
           colon == Match(c, ":")
           named == Tok(colon) = "id"
           name == IF named THEN Word(colon.at) ELSE NoName
           d == Bare(Adv(c), NewKind)
           fn == IF NewKind = "ENUM_DECL" THEN "plainvariants" ELSE "fields"
           L == List(fn, d.ret, NoName)
           N == FNode("cname", d.ret)
<1>1. Top.fn \in Modest /\ NewKind # "none"
  BY DEF NewTypeOfKind, At, Top, Modest, Plain
<1>2. \/ Then(c, <<FType(NewKind, Word(cur.at))>>) \/ Then(d, <<L, N>>)
      \/ Then(Match(colon, "id"), <<FType(NewKind, name)>>)
  BY DEF NewTypeOfKind
<1>3. NewKind \in {"STRUCT_DECL", "UNION_DECL", "ENUM_DECL"}
  BY <1>1, KindIs DEF NewKind
<1>4. Still(c)
  BY StillSelf, StillMove DEF Ahead
<1> HIDE DEF c
<1>5. Still(Adv(c)) /\ Still(colon)
  BY <1>4, StillMove
<1> HIDE DEF colon, name
<1>6. Still(Match(colon, "id"))
  BY <1>5, StillMove
<1>7. Fresh(d, {}, NewKind)
  BY <1>3, <1>5, FreshType DEF FreeTypes, Still, Bare
<1> HIDE DEF d
<1>8. CASE Then(c, <<FType(NewKind, Word(cur.at))>>)
  BY <1>1, <1>3, <1>4, <1>8, StillCallsType
<1>9. CASE Then(Match(colon, "id"), <<FType(NewKind, name)>>)
  BY <1>1, <1>3, <1>6, <1>9, StillCallsType
<1>10. CASE Then(d, <<L, N>>)
  <2>1. Over(cur, d, {}) /\ IsNode(d, d.ret) /\ {} \subseteq {} \union {}
    BY <1>7, FreshIs
  <2>2. fn \in Lists /\ fn # "tuple" /\ fn # "program"
    BY DEF Lists
  <2> HIDE DEF fn
  <2>3. Frame(d, L, 0, 0, {}) /\ Frame(d, N, 0, 0, {})
    BY <2>1, <2>2, ListFrame, NodeFrames
  <2> HIDE DEF L, N
  <2> QED  BY <1>1, <1>10, <2>1, <2>3, ModestCalls2
<1> QED  BY <1>2, <1>8, <1>9, <1>10

LEMMA PlainVariantsSound == ASSUME Calling, PlainVariants PROVE Sound(cur', stack')
<1> DEFINE members == [name |-> Word(cur.at)]
           v == Make(Ahead, "ENUM_VARIANT", members)
           b == Put(cur, Top.n, "variants", Top.head)
<1>1. Top.fn \in PlainLists /\ Top.fn # "program" /\ Top.fn \in Modest
  BY DEF PlainVariants, At, Top, PlainLists, Modest
<1>2. \/ Then(Consume(b, RBRACE), <<FGive(Top.n)>>) \/ Then(v, <<FLink(Top)>>)
      \/ Then(Adv(v), <<F("skipdata"), FLink(Top)>>) \/ Then(Skip(cur, "variant"), <<Top>>)
  BY DEF PlainVariants
<1>3. Still(b) /\ Still(Ahead) /\ Still(Skip(cur, "variant"))
  BY StillSelf, StillMove, StillSpare DEF Ahead, Spare
<1> HIDE DEF b
<1>4. Fresh(v, {}, "ENUM_VARIANT")
  BY <1>3, FreshType DEF FreeTypes, Still
<1> HIDE DEF v
<1>5. /\ Over(cur, v, {}) /\ IsNode(v, v.ret)
      /\ Over(cur, Adv(v), {}) /\ IsNode(Adv(v), Adv(v).ret)
  BY <1>4, FreshMove, FreshIs
<1>6. CASE Then(Consume(b, RBRACE), <<FGive(Top.n)>>)
  BY <1>1, <1>3, <1>6, StillMove, ListEnds
<1>7. CASE Then(v, <<FLink(Top)>>)
  BY <1>1, <1>5, <1>7, ListLinks
<1>8. CASE Then(Adv(v), <<F("skipdata"), FLink(Top)>>)
  <2>1. Frame(Adv(v), F("skipdata"), 0, 0, {}) /\ {} \subseteq {}
    BY PlainFrame DEF Plain
  <2> QED  BY <1>1, <1>5, <1>8, <2>1, ListTakes
<1>9. CASE Then(Skip(cur, "variant"), <<Top>>)
  BY <1>1, <1>3, <1>9, ListAgain
<1> QED  BY <1>2, <1>6, <1>7, <1>8, <1>9

LEMMA SkipDataSound == ASSUME Calling, SkipData PROVE Sound(cur', stack')
<1> DEFINE e == Lose(Ahead, "variant")
<1>1. Top.fn = "skipdata" /\ Top.fn \in Modest
  BY DEF SkipData, At, Top, Modest, Plain
<1>2. Then(Consume(cur, ")"), <<>>) \/ Then(e, <<Top>>)
  BY DEF SkipData
<1>3. Still(Consume(cur, ")")) /\ Still(Ahead)
  BY StillSelf, StillMove DEF Ahead
<1>4. Still(e)
  BY <1>3, StillMove
<1> HIDE DEF e
<1>5. Frame(e, Top, 0, 0, {})
  <2>1. FrameOk(e, Top)
    BY <1>4, FrameOver DEF Calling, Still
  <2> QED  BY <1>1, <2>1 DEF Frame, In, Out, Owes, Levels, Whole
<1> QED  BY <1>1, <1>2, <1>3, <1>4, <1>5, StillEnds, StillCalls1

LEMMA NameBehindSound == ASSUME Calling, NameBehind PROVE Sound(cur', stack')
<1> DEFINE c == IF Sees({"id"}) THEN Put(Ahead, Top.n, "name", Word(cur.at)) ELSE Fails(cur)
           d == Lose(c, "place")
           e == Consume(d, SEMICOLON)
<1>1. Top.fn = "cname" /\ Top.fn \in Modest
  BY DEF NameBehind, At, Top, Modest
<1>2. Then([e EXCEPT !.ret = Top.n], <<>>)
  BY DEF NameBehind
<1>3. IsNode(cur, Top.n)
  BY <1>1 DEF Calling, FrameOk, Holds
<1>4. Still(c)
  BY StillSelf, StillMove, StillSpare DEF Ahead, Spare
<1> HIDE DEF c
<1>5. Still(d)
  BY <1>4, StillMove
<1> HIDE DEF d
<1>6. Still(e)
  BY <1>5, StillMove
<1> HIDE DEF e
<1>7. Over(cur, e, {}) /\ IsNode(e, Top.n)
  BY <1>3, <1>6, StillNode DEF Still
<1> QED  BY <1>1, <1>2, <1>7, ModestEndsAt

LEMMA NewTypeAliasSound == ASSUME Calling, NewTypeAlias PROVE Sound(cur', stack')
<1> DEFINE c == Consume(cur, "=")
           t == IF Tok(c) \in TypeTokens THEN Adv(c) ELSE c
           members == [name |-> Word(cur.prev), target_type |-> Word(t.prev)]
           n == Make(t, "NEWTYPE_DECL", members)
<1>1. Owes(Top) = {}
  BY DEF NewTypeAlias, At, Top, Owes
<1>2. Then(Consume(n, SEMICOLON), <<>>)
  BY DEF NewTypeAlias
<1>3. Still(c)
  BY StillSelf, StillMove
<1> HIDE DEF c
<1>4. Still(t)
  BY <1>3, StillMove
<1> HIDE DEF t, members
<1>5. Fresh(n, {}, "NEWTYPE_DECL")
  BY <1>4, FreshType DEF FreeTypes, Still
<1> HIDE DEF n
<1>6. Fresh(Consume(n, SEMICOLON), {}, "NEWTYPE_DECL")
  BY <1>5, FreshMove
<1> QED  BY <1>1, <1>2, <1>6, EndsFresh

LEMMA NewTypeFreedSound == ASSUME Calling, NewTypeFreed PROVE Sound(cur', stack')
<1>1. cur' = [cur EXCEPT !.crash = "freed"] /\ stack' = <<>>
  BY DEF NewTypeFreed, Crash
<1>2. DOMAIN cur = CurFields
  BY DEF Calling, Heap
<1>3. cur'.crash = "freed"
  BY <1>1, <1>2 DEF CurFields
<1> QED  BY <1>1, <1>3 DEF Sound

LEMMA GroupSound == ASSUME Calling, Group PROVE Sound(cur', stack')
<1> DEFINE b == Match(cur, "id")
           members == [name |-> IF Sees({"id"}) THEN Word(cur.at) ELSE Zero]
           c == Make(b, "GROUP_DECL", members)
           d == Consume(c, LBRACE)
<1>1. Top.fn \in Modest
  BY DEF Group, At, Top, Modest, Plain
<1>2. Then(d, <<List("members", c.ret, NoName)>>)
  BY DEF Group
<1>3. Still(b)
  BY StillSelf, StillMove
<1> HIDE DEF b, members
<1>4. Fresh(c, {}, "GROUP_DECL")
  BY <1>3, FreshType DEF FreeTypes, Still
<1> HIDE DEF c
<1>5. Fresh(d, {}, "GROUP_DECL") /\ d.ret = c.ret
  BY <1>4, FreshMove
<1> HIDE DEF d
<1>6. Then(d, <<List("members", d.ret, NoName)>>) /\ "members" \in PlainLists
  BY <1>2, <1>5 DEF PlainLists
<1> QED  BY <1>1, <1>5, <1>6, ListStarts

(* The implementation of a method, which is still to come.                 *)
LEMMA MethodSound == ASSUME Calling, Method PROVE Sound(cur', stack')
<1> DEFINE members == [public_name |-> Word(cur.at)]
           c == Make(Adv(Ahead), "METHOD", members)
           e == Adv(c)
           n == c.ret
           D == {<<n, "implementation">>}
           G == F("function")
           S == FSet(n, "implementation")
           O == F("optsemi")
           L == FLink(Top)
           fs == <<G, S>> \o <<O, L>>
<1>1. Top.fn \in PlainLists /\ Top.fn \in Modest
  BY DEF Method, At, Top, PlainLists, Modest
<1>2. Then(e, fs) \/ Then(Fails(c), <<O, L>>)
  BY DEF Method
<1>3. Over(cur, Adv(Ahead), {})
  <2>1. Still(Ahead)
    BY StillSelf, StillMove DEF Ahead
  <2> QED  BY <2>1, StillMove DEF Still
<1>4. "METHOD" \notin OperatorTypes /\ Needs("METHOD") = {"implementation"}
  BY DEF OperatorTypes, Needs
<1> HIDE DEF members
<1>5. Fresh(c, {} \union Missing(c.ret, "METHOD", members), "METHOD")
  BY <1>3, <1>4, FreshMake
<1> HIDE DEF c
<1>6. Missing(c.ret, "METHOD", members) \subseteq D
  BY <1>4 DEF Missing
<1>7. Fresh(c, D, "METHOD")
  BY <1>5, <1>6 DEF Fresh, Over
<1>8. Fresh(e, D, "METHOD") /\ e.ret = n /\ Fails(c).bad
  BY <1>7, FreshMove
<1> HIDE DEF e
<1>9. Over(cur, e, D) /\ IsNode(e, e.ret) /\ IsNode(e, n) /\ e.nodes[n].type = "METHOD"
  BY <1>8, FreshIs
<1>10. Frame(e, G, 0, 8, {}) /\ Frame(e, S, 0, 8, D)
  BY <1>4, <1>9, WholeFrames, SetFree
<1>11. Frame(e, O, 0, 0, {}) /\ Frame(e, L, 0, 0, {})
  BY <1>1, <1>9, PlainFrame, TopFrame DEF Plain
<1>12. D \subseteq {} \union D \union {} \union {}
  OBVIOUS
<1> HIDE DEF D, G, S, O, L
<1>13. fs = <<G, S, O, L>>
  BY Concat22
<1> HIDE DEF fs
<1>14. CASE Then(e, fs)
  <2>1. Then(e, <<G, S, O, L>>)
    BY <1>13, <1>14
  <2> QED  BY <1>1, <1>9, <1>10, <1>11, <1>12, <2>1, ModestCalls4
<1>15. CASE Then(Fails(c), <<O, L>>)
  BY <1>8, <1>15, BadSound
<1> QED  BY <1>2, <1>14, <1>15

LEMMA GroupMemberSound == ASSUME Calling, GroupMember PROVE Sound(cur', stack')
<1> DEFINE b == Put(Consume(cur, RBRACE), Top.n, "members", Top.head)
           kind == KindOf(Tok(cur))
           L == FLink(Top)
           X == FExpect(SEMICOLON)
           V == F("vardecl")
<1>1. Top.fn \in PlainLists /\ Top.fn # "program" /\ Top.fn \in Modest
  BY DEF GroupMember, At, Top, PlainLists, Modest
<1>2. \/ Then(b, <<FGive(Top.n)>>)
      \/ kind # "none" /\ Then(Ahead, <<FType(kind, NoName), L>>)
      \/ Then(Adv(Ahead), <<FType("STRUCT_DECL", NoName), L>>)
      \/ Then(Ahead, <<V, X, L>>)
      \/ Then(Ahead, <<F("function"), L>>)
      \/ Then(Skip(cur, "member"), <<Top>>)
  <2>1. Sees(KindTokens) => kind # "none"
    BY KindIs DEF Sees
  <2> HIDE DEF kind, b, L, X, V
  <2> QED  BY <2>1 DEF GroupMember, kind, b, L, X, V
<1>3. Still(Consume(cur, RBRACE)) /\ Still(Ahead) /\ Still(Skip(cur, "member"))
  BY StillSelf, StillMove DEF Ahead
<1>4. Still(b) /\ Still(Adv(Ahead))
  BY <1>3, StillMove, StillSpare DEF Spare
<1> HIDE DEF b
<1>5. /\ Over(cur, Ahead, {}) /\ IsNode(Ahead, Ahead.ret)
      /\ Over(cur, Adv(Ahead), {}) /\ IsNode(Adv(Ahead), Adv(Ahead).ret)
  BY <1>3, <1>4 DEF Still
<1>6. CASE Then(b, <<FGive(Top.n)>>)
  BY <1>1, <1>4, <1>6, ListEnds
<1>7. CASE kind # "none" /\ Then(Ahead, <<FType(kind, NoName), L>>)
  <2>1. Frame(Ahead, FType(kind, NoName), 0, 0, {}) /\ {} \subseteq {}
    BY <1>7, KindIs, TypeFrame
  <2> QED  BY <1>1, <1>5, <1>7, <2>1, ListTakes
<1>8. CASE Then(Adv(Ahead), <<FType("STRUCT_DECL", NoName), L>>)
  <2>1. Frame(Adv(Ahead), FType("STRUCT_DECL", NoName), 0, 0, {}) /\ {} \subseteq {}
    BY TypeFrame
  <2> QED  BY <1>1, <1>5, <1>8, <2>1, ListTakes
<1>9. CASE Then(Ahead, <<V, X, L>>)
  <2>1. Frame(Ahead, V, 0, 0, {}) /\ Frame(Ahead, X, 0, 0, {}) /\ Frame(Ahead, L, 0, 0, {})
    BY <1>1, <1>5, PlainFrame, ExpectFrame, TopFrame DEF Plain
  <2>2. {} \subseteq {} \union {} \union {}
    OBVIOUS
  <2> HIDE DEF V, X, L
  <2> QED  BY <1>1, <1>5, <1>9, <2>1, <2>2, ModestCalls3
<1>10. CASE Then(Ahead, <<F("function"), L>>)
  <2>1. Frame(Ahead, F("function"), 0, 8, {}) /\ {} \subseteq {}
    BY WholeFrames
  <2> QED  BY <1>1, <1>5, <1>10, <2>1, ListTakes
<1>11. CASE Then(Skip(cur, "member"), <<Top>>)
  BY <1>1, <1>3, <1>11, ListAgain
<1> QED  BY <1>2, <1>6, <1>7, <1>8, <1>9, <1>10, <1>11

-------------------------------------------------------------------------------
(* Statements.                                                             *)

LEMMA StatementSound == ASSUME Calling, Statement PROVE Sound(cur', stack')
<1> DEFINE b == Bare(Ahead, "BLOCK")
           m == Match(cur, "exp")
<1>1. Top.fn = "statement" /\ Top.fn \in Modest
  BY DEF Statement, At, Top, Modest, Plain
<1>2. Then(b, <<>>) \/ Then(Match(m, "pup"), <<F("declaration")>>)
  BY DEF Statement
<1>3. Still(Ahead) /\ Still(m)
  BY StillSelf, StillMove DEF Ahead
<1> HIDE DEF m
<1>4. Fresh(b, {}, "BLOCK") /\ Owes(Top) = {}
  BY <1>1, <1>3, FreshType, ModestIs DEF FreeTypes, Still, Bare
<1> HIDE DEF b
<1>5. CASE Then(b, <<>>)
  BY <1>4, <1>5, EndsFresh
<1>6. CASE Then(Match(m, "pup"), <<F("declaration")>>)
  <2>1. Still(Match(m, "pup")) /\ "declaration" \in Plain
    BY <1>3, StillMove DEF Plain
  <2> QED  BY <1>1, <1>6, <2>1, StillCallsPlain
<1> QED  BY <1>2, <1>5, <1>6

LEMMA DeclarationSound == ASSUME Calling, Declaration PROVE Sound(cur', stack')
<1> DEFINE X == FExpect(SEMICOLON)
<1>1. Top.fn \in Modest
  BY DEF Declaration, At, Top, Modest, Plain
<1>2. \/ \E fn \in {"use", "defer", "return", "group"} : Then(Ahead, <<F(fn)>>)
      \/ Then(Ahead, <<F("vardecl"), X>>)
      \/ Then(Ahead, <<F("function"), F("flags")>>)
      \/ Then(Ahead, <<FType("STRUCT_DECL", NoName)>>)
  BY DEF Declaration, Declares, Sees
<1>3. Still(Ahead)
  BY StillSelf, StillMove DEF Ahead
<1> HIDE DEF X
<1>4. CASE \E fn \in {"use", "defer", "return", "group"} : Then(Ahead, <<F(fn)>>)
  <2>1. PICK fn \in {"use", "defer", "return", "group"} : Then(Ahead, <<F(fn)>>)
    BY <1>4
  <2>2. fn \in Plain
    BY DEF Plain
  <2> QED  BY <1>1, <1>3, <2>1, <2>2, StillCallsPlain
<1>5. CASE Then(Ahead, <<F("vardecl"), X>>)
  <2>1. Frame(Ahead, F("vardecl"), 0, 0, {}) /\ Frame(Ahead, X, 0, 0, {})
    BY PlainFrame, ExpectFrame DEF Plain, X
  <2> QED  BY <1>1, <1>3, <1>5, <2>1, StillCalls2
<1>6. CASE Then(Ahead, <<F("function"), F("flags")>>)
  <2>1. Frame(Ahead, F("function"), 0, 8, {}) /\ Frame(Ahead, F("flags"), 0, 0, {})
    BY PlainFrame, WholeFrames DEF Plain
  <2> QED  BY <1>1, <1>3, <1>6, <2>1, StillCalls2
<1>7. CASE Then(Ahead, <<FType("STRUCT_DECL", NoName)>>)
  BY <1>1, <1>3, <1>7, StillCallsType
<1> QED  BY <1>2, <1>4, <1>5, <1>6, <1>7

LEMMA FlagsSound == ASSUME Calling, Flags PROVE Sound(cur', stack')
<1>1. Top.fn \in Modest
  BY DEF Flags, At, Top, Modest, Plain
<1>2. Then(cur, <<>>)
  BY DEF Flags, Calling
<1> QED  BY <1>1, <1>2, StillSelf, StillEnds

LEMMA UseSound == ASSUME Calling, Use PROVE Sound(cur', stack')
<1> DEFINE c == Consume(cur, "id")
           members == [module_name |-> Word(c.prev)]
           u == Make(c, "USE", members)
           al == Consume(Adv(u), "id")
           put == Put(al, u.ret, "alias", Word(al.prev))
           d == IF Tok(u) = "as" THEN put ELSE u
           e == LinkNode(d, Top, u.ret)
           f == Linked(Top, u.ret)
           g == Consume(e, SEMICOLON)
<1>1. Top.fn = "use" /\ Top.fn \in Modest
  BY DEF Use, At, Top, Modest, Plain
<1>2. Then(Adv(e), <<f>>) \/ Then([g EXCEPT !.ret = f.head], <<>>)
  BY DEF Use
<1>3. Still(c)
  BY StillSelf, StillMove
<1> HIDE DEF c, members
<1>4. Fresh(u, {}, "USE")
  BY <1>3, FreshType DEF FreeTypes, Still
<1> HIDE DEF u
<1>5. Fresh(Adv(u), {}, "USE") /\ Adv(u).ret = u.ret
  BY <1>4, FreshMove
<1>6. Fresh(al, {}, "USE") /\ al.ret = u.ret
  BY <1>5, FreshMove
<1> HIDE DEF al
<1>7. Fresh(put, {}, "USE") /\ put.ret = u.ret
  <2>1. "alias" \in Spare
    BY DEF Spare
  <2>2. Fresh(put, {}, "USE") /\ put.ret = al.ret
    BY <1>6, <2>1, FreshSpare
  <2> QED  BY <1>6, <2>2
<1> HIDE DEF put
<1>8. Fresh(d, {}, "USE") /\ d.ret = u.ret
  BY <1>4, <1>7
<1> HIDE DEF d
<1>9. Fresh(e, {}, "USE") /\ e.ret = u.ret
  BY <1>8, FreshLink
<1> HIDE DEF e
<1>10. ASSUME NEW b, Fresh(b, {}, "USE"), b.ret = u.ret
       PROVE  /\ Over(cur, b, {}) /\ IsNode(b, b.ret) /\ Frame(b, f, 0, 0, {})
              /\ IsNode(b, f.head)
  <2>1. Over(cur, b, {}) /\ IsNode(b, b.ret) /\ u.ret # NULL
    BY <1>10, FreshIs
  <2>2. FrameOk(b, Top)
    BY <2>1, FrameOver DEF Calling
  <2> QED  BY <1>1, <1>10, <2>1, <2>2, LinkedFrame
<1> HIDE DEF f
<1>11. CASE Then(Adv(e), <<f>>)
  <2>1. Fresh(Adv(e), {}, "USE") /\ Adv(e).ret = u.ret /\ {} \subseteq {}
    BY <1>9, FreshMove
  <2>2. Over(cur, Adv(e), {}) /\ IsNode(Adv(e), Adv(e).ret) /\ Frame(Adv(e), f, 0, 0, {})
    BY <1>10, <2>1
  <2> QED  BY <1>1, <1>11, <2>1, <2>2, ModestCalls1
<1>12. CASE Then([g EXCEPT !.ret = f.head], <<>>)
  <2>1. Fresh(g, {}, "USE") /\ g.ret = u.ret
    BY <1>9, FreshMove
  <2> HIDE DEF g
  <2>2. Over(cur, g, {}) /\ IsNode(g, f.head)
    BY <1>10, <2>1
  <2> QED  BY <1>1, <1>12, <2>2, ModestEndsAt
<1> QED  BY <1>2, <1>11, <1>12

(* A node without its part is made, and the part is parsed next.           *)
LEMMA PartComes ==
  ASSUME Calling, Top.fn \in Modest, NEW c, NEW type, type \notin OperatorTypes,
         NEW m, m \notin {"left", "right", "op", "operand"}, NEW n, Fresh(c, {<<n, m>>}, type),
         c.ret = n, NEW fn \in Plain, Then(c, <<F(fn), FSet(n, m)>>)
  PROVE  Sound(cur', stack')
<1> DEFINE D == {<<n, m>>}
           E == F(fn)
           S == FSet(n, m)
<1>1. Over(cur, c, D) /\ IsNode(c, c.ret) /\ IsNode(c, n) /\ c.nodes[n].type = type
  BY FreshIs
<1>2. Frame(c, E, 0, 0, {}) /\ Frame(c, S, 0, 8, D)
  BY <1>1, PlainFrame, SetFree
<1>3. D \subseteq {} \union D /\ Then(c, <<E, S>>)
  OBVIOUS
<1> HIDE DEF D, E, S
<1> QED  BY <1>1, <1>2, <1>3, ModestCalls2

LEMMA BodyIsFree == ASSUME NEW type \in BodyTypes PROVE type \notin OperatorTypes
  BY DEF BodyTypes, OperatorTypes

LEMMA DeferSound == ASSUME Calling, Defer PROVE Sound(cur', stack')
<1> DEFINE d == Bare(cur, "DEFER")
           n == d.ret
<1>1. Top.fn \in Modest
  BY DEF Defer, At, Top, Modest, Plain
<1>2. \/ Then(Adv(d), <<F("block"), FSet(n, "body")>>)
      \/ Then(d, <<F("statement"), FSet(n, "body")>>)
  BY DEF Defer
<1>3. "DEFER" \in BodyTypes /\ "DEFER" \notin OperatorTypes
  BY BodyIsFree DEF BodyTypes
<1>4. Fresh(d, {<<n, "body">>}, "DEFER")
  BY <1>3, StillSelf, FreshBody DEF Still, Bare
<1> HIDE DEF d
<1>5. Fresh(Adv(d), {<<n, "body">>}, "DEFER") /\ Adv(d).ret = n
  BY <1>4, FreshMove
<1>6. "block" \in Plain /\ "statement" \in Plain
  BY DEF Plain
<1>7. CASE Then(Adv(d), <<F("block"), FSet(n, "body")>>)
  BY <1>1, <1>3, <1>5, <1>6, <1>7, PartComes
<1>8. CASE Then(d, <<F("statement"), FSet(n, "body")>>)
  BY <1>1, <1>3, <1>4, <1>6, <1>8, PartComes
<1> QED  BY <1>2, <1>7, <1>8

LEMMA ReturnSound == ASSUME Calling, Return PROVE Sound(cur', stack')
<1> DEFINE members == [op |-> "ret"]
           r == Make(cur, "RETURN", members)
           n == r.ret
           E == F("expression")
           S == FSet(n, "operand")
           X == FExpect(SEMICOLON)
<1>1. Top.fn \in Modest
  BY DEF Return, At, Top, Modest, Plain
<1>2. Then(Adv(r), <<>>) \/ Then(r, <<E, S, X>>)
  BY DEF Return
<1>3. Fresh(r, {}, "RETURN")
  BY StillSelf, FreshType DEF FreeTypes, Still
<1> HIDE DEF r
<1>4. CASE Then(Adv(r), <<>>)
  <2>1. Fresh(Adv(r), {}, "RETURN") /\ Owes(Top) = {}
    BY <1>1, <1>3, FreshMove, ModestIs
  <2> QED  BY <1>4, <2>1, EndsFresh
<1>5. CASE Then(r, <<E, S, X>>)
  <2> DEFINE w == {<<n, "operand">>}
  <2>1. Over(cur, r, {}) /\ IsNode(r, n) /\ r.nodes[n].type = "RETURN"
    BY <1>3, FreshIs
  <2>2. Frame(r, S, 0, Bound(r, n), w)
    BY <2>1, SetFrame
  <2>3. Frame(r, E, 0, 0, {}) /\ Frame(r, X, 0, 0, {})
    BY PlainFrame, ExpectFrame DEF Plain
  <2>4. {} \subseteq {} \union w \union {}
    OBVIOUS
  <2> HIDE DEF E, S, X, w
  <2> QED  BY <1>1, <1>5, <2>1, <2>2, <2>3, <2>4, ModestCalls3
<1> QED  BY <1>2, <1>4, <1>5

LEMMA ThreadBlockSound == ASSUME Calling, ThreadBlock PROVE Sound(cur', stack')
<1> DEFINE b == Adv(Adv(Adv(Ahead)))
           members == [name |-> Word(Ahead.at)]
           tb == Make(b, "THREAD_BLOCK", members)
           n == tb.ret
<1>1. Top.fn \in Modest
  BY DEF ThreadBlock, At, Top, Modest, Plain
<1>2. Then(tb, <<F("block"), FSet(n, "body")>>)
  BY DEF ThreadBlock
<1>3. "THREAD_BLOCK" \in BodyTypes /\ "THREAD_BLOCK" \notin OperatorTypes
  BY BodyIsFree DEF BodyTypes
<1>4. Still(b)
  <2>1. Still(Ahead)
    BY StillSelf, StillMove DEF Ahead
  <2>2. Still(Adv(Ahead))
    BY <2>1, StillMove
  <2>3. Still(Adv(Adv(Ahead)))
    BY <2>2, StillMove
  <2> QED  BY <2>3, StillMove
<1> HIDE DEF b, members
<1>5. Fresh(tb, {<<n, "body">>}, "THREAD_BLOCK")
  BY <1>3, <1>4, FreshBody DEF Still
<1> HIDE DEF tb
<1>6. "block" \in Plain
  BY DEF Plain
<1> QED  BY <1>1, <1>2, <1>3, <1>5, <1>6, PartComes

LEMMA PackedSound == ASSUME Calling, Packed PROVE Sound(cur', stack')
<1>1. Top.fn \in Modest
  BY DEF Packed, At, Top, Modest, Plain
<1>2. Then(Adv(Ahead), <<FType("STRUCT_DECL", NoName)>>)
  BY DEF Packed
<1>3. Still(Ahead)
  BY StillSelf, StillMove DEF Ahead
<1>4. Still(Adv(Ahead))
  BY <1>3, StillMove
<1> QED  BY <1>1, <1>2, <1>4, StillCallsType

LEMMA ListenSound == ASSUME Calling, Listen PROVE Sound(cur', stack')
<1> DEFINE b == Adv(Adv(Ahead))
           p == Consume(b, ")")
           c == Consume(p, ":")
           k == Lose(c, "listener")
           members == [handler_name |-> "global_listener"]
           l == Make(k, "LISTEN", members)
           n == l.ret
<1>1. Top.fn \in Modest
  BY DEF Listen, At, Top, Modest, Plain
<1>2. \/ Then(Adv(l), <<F("block"), FSet(n, "expr")>>)
      \/ Then(l, <<F("statement"), FSet(n, "expr")>>)
  BY DEF Listen
<1>3. Still(Ahead)
  BY StillSelf, StillMove DEF Ahead
<1>4. Still(Adv(Ahead))
  BY <1>3, StillMove
<1>5. Still(b)
  BY <1>4, StillMove
<1> HIDE DEF b
<1>6. Still(p)
  BY <1>5, StillMove
<1> HIDE DEF p
<1>7. Still(c)
  BY <1>6, StillMove
<1> HIDE DEF c
<1>8. Still(k)
  BY <1>7, StillMove
<1> HIDE DEF k, members
<1>9. "LISTEN" \notin OperatorTypes /\ Needs("LISTEN") = {"expr"}
  BY DEF OperatorTypes, Needs
<1>10. Fresh(l, {} \union Missing(l.ret, "LISTEN", members), "LISTEN")
  BY <1>8, <1>9, FreshMake DEF Still
<1> HIDE DEF l
<1>11. Missing(l.ret, "LISTEN", members) \subseteq {<<n, "expr">>}
  BY <1>9 DEF Missing
<1>12. Fresh(l, {<<n, "expr">>}, "LISTEN")
  BY <1>10, <1>11 DEF Fresh, Over
<1>13. Fresh(Adv(l), {<<n, "expr">>}, "LISTEN") /\ Adv(l).ret = n
  BY <1>12, FreshMove
<1>14. "block" \in Plain /\ "statement" \in Plain
  BY DEF Plain
<1>15. CASE Then(Adv(l), <<F("block"), FSet(n, "expr")>>)
  BY <1>1, <1>9, <1>13, <1>14, <1>15, PartComes
<1>16. CASE Then(l, <<F("statement"), FSet(n, "expr")>>)
  BY <1>1, <1>9, <1>12, <1>14, <1>16, PartComes
<1> QED  BY <1>2, <1>15, <1>16

-------------------------------------------------------------------------------
(* Commands, expressions as statements, and labels.                        *)

LEMMA CommandSound == ASSUME Calling, Command PROVE Sound(cur', stack')
<1>1. Top.fn \in Modest
  BY DEF Command, At, Top, Modest, Plain
<1>2. Then(Lose(Ahead, "not"), <<F("command")>>) \/ Then(cur, <<F("command")>>)
  BY DEF Command
<1>3. Still(cur) /\ Still(Ahead) /\ "command" \in Plain
  BY StillSelf, StillMove DEF Ahead, Plain
<1>4. Still(Lose(Ahead, "not"))
  BY <1>3, StillMove
<1> QED  BY <1>1, <1>2, <1>3, <1>4, StillCallsPlain

LEMMA TypeCommandSound == ASSUME Calling, TypeCommand PROVE Sound(cur', stack')
<1>1. Top.fn \in Modest
  BY DEF TypeCommand, At, Top, Modest, Plain
<1>2. Then(Ahead, <<FType(KindOf(Tok(cur)), NoName)>>) /\ Tok(cur) \in KindTokens
  BY DEF TypeCommand, Sees, KindTokens
<1>3. KindOf(Tok(cur)) \in {"STRUCT_DECL", "UNION_DECL", "ENUM_DECL"}
  BY <1>2, KindIs
<1>4. Still(Ahead)
  BY StillSelf, StillMove DEF Ahead
<1> QED  BY <1>1, <1>2, <1>3, <1>4, StillCallsType

LEMMA CommandsSound ==
  ASSUME Calling, NewType \/ LateGroup \/ BareBlock \/ NoCommand \/ ExpressionStatement
  PROVE  Sound(cur', stack')
<1> DEFINE E == F("expression")
           R == F("exprrest")
<1>1. Top.fn \in Modest
  BY DEF NewType, LateGroup, BareBlock, NoCommand, ExpressionStatement, At, Top, Modest, Plain
<1>2. \/ \E c \in {cur, Ahead} : \E fn \in {"newtype", "group", "block", "control"} :
           Then(c, <<F(fn)>>)
      \/ Then(cur, <<E, R>>)
  BY DEF NewType, LateGroup, BareBlock, NoCommand, ExpressionStatement
<1>3. Still(cur) /\ Still(Ahead)
  BY StillSelf, StillMove DEF Ahead
<1>4. CASE \E c \in {cur, Ahead} : \E fn \in {"newtype", "group", "block", "control"} :
             Then(c, <<F(fn)>>)
  <2>1. PICK c \in {cur, Ahead}, fn \in {"newtype", "group", "block", "control"} :
          Then(c, <<F(fn)>>)
    BY <1>4
  <2>2. fn \in Plain /\ Still(c)
    BY <1>3 DEF Plain
  <2> QED  BY <1>1, <2>1, <2>2, StillCallsPlain
<1>5. CASE Then(cur, <<E, R>>)
  <2>1. Frame(cur, E, 0, 0, {}) /\ Frame(cur, R, 0, 0, {})
    BY PlainFrame DEF Plain
  <2> HIDE DEF E, R
  <2> QED  BY <1>1, <1>3, <1>5, <2>1, StillCalls2
<1> QED  BY <1>2, <1>4, <1>5

LEMMA JumpSound == ASSUME Calling, Jump PROVE Sound(cur', stack')
<1> DEFINE p == Consume(Ahead, "(")
           members == [label_name |-> Word(p.at)]
           j == Make(Adv(p), "NEXUS_JUMP", members)
           q == Consume(j, ")")
           r == Consume(q, SEMICOLON)
<1>1. Top.fn \in Modest
  BY DEF Jump, At, Top, Modest, Plain
<1>2. Then(r, <<>>) \/ Then(Fails(p), <<F("control")>>)
  BY DEF Jump
<1>3. Still(Ahead)
  BY StillSelf, StillMove DEF Ahead
<1>4. Still(p)
  BY <1>3, StillMove
<1> HIDE DEF p, members
<1>5. Still(Adv(p)) /\ Fails(p).bad
  BY <1>4, StillMove
<1>6. Fresh(j, {}, "NEXUS_JUMP")
  BY <1>5, FreshType DEF FreeTypes, Still
<1> HIDE DEF j
<1>7. Fresh(q, {}, "NEXUS_JUMP")
  BY <1>6, FreshMove
<1> HIDE DEF q
<1>8. Fresh(r, {}, "NEXUS_JUMP") /\ Owes(Top) = {}
  BY <1>1, <1>7, FreshMove, ModestIs
<1> HIDE DEF r
<1> QED  BY <1>2, <1>5, <1>8, BadSound, EndsFresh

(* A node that can do without its part is made, and the part comes next.   *)
LEMMA FreshMore ==
  ASSUME NEW c, NEW type, Fresh(c, {}, type), NEW D PROVE Fresh(c, D, type)
  BY DEF Fresh, Over

LEMMA HaltSound == ASSUME Calling, Halt PROVE Sound(cur', stack')
<1> DEFINE h == Bare(Ahead, "NEXUS_HALT")
           n == h.ret
           E == F("expression")
           S == FSet(n, "expr")
           X == FExpect(SEMICOLON)
<1>1. Top.fn \in Modest
  BY DEF Halt, At, Top, Modest, Plain
<1>2. Then(Adv(h), <<>>) \/ Then(h, <<E, S, X>>)
  BY DEF Halt
<1>3. Still(Ahead)
  BY StillSelf, StillMove DEF Ahead
<1>4. Fresh(h, {}, "NEXUS_HALT")
  BY <1>3, FreshType DEF FreeTypes, Still, Bare
<1> HIDE DEF h
<1>5. CASE Then(Adv(h), <<>>)
  <2>1. Fresh(Adv(h), {}, "NEXUS_HALT") /\ Owes(Top) = {}
    BY <1>1, <1>4, FreshMove, ModestIs
  <2> QED  BY <1>5, <2>1, EndsFresh
<1>6. CASE Then(h, <<E, S, X>>)
  <2> DEFINE w == {<<n, "expr">>}
  <2>1. Over(cur, h, {}) /\ IsNode(h, n) /\ h.nodes[n].type = "NEXUS_HALT"
    BY <1>4, FreshIs
  <2>2. Frame(h, S, 0, Bound(h, n), w)
    BY <2>1, SetFrame
  <2>3. Frame(h, E, 0, 0, {}) /\ Frame(h, X, 0, 0, {})
    BY PlainFrame, ExpectFrame DEF Plain
  <2>4. {} \subseteq {} \union w \union {}
    OBVIOUS
  <2> HIDE DEF E, S, X, w
  <2> QED  BY <1>1, <1>6, <2>1, <2>2, <2>3, <2>4, ModestCalls3
<1> QED  BY <1>2, <1>5, <1>6

LEMMA IntentSound == ASSUME Calling, Intent PROVE Sound(cur', stack')
<1> DEFINE b == Match(Ahead, "id")
           members == [intent_name |-> IF Tok(Ahead) = "id" THEN Word(Ahead.at) ELSE Zero]
           i == Make(b, "NEXUS_INTENT", members)
           e == Adv(i)
           n == i.ret
           E == F("expression")
           S == FSet(n, "target")
           X == FExpect(")")
           O == F("optsemi")
<1>1. Top.fn \in Modest
  BY DEF Intent, At, Top, Modest, Plain
<1>2. Then(e, <<E, S, X, O>>) \/ Then(i, <<O>>)
  BY DEF Intent
<1>3. Still(Ahead)
  BY StillSelf, StillMove DEF Ahead
<1>4. Still(b)
  BY <1>3, StillMove
<1> HIDE DEF b, members
<1>5. Fresh(i, {}, "NEXUS_INTENT")
  BY <1>4, FreshType DEF FreeTypes, Still
<1> HIDE DEF i
<1>6. Fresh(e, {}, "NEXUS_INTENT") /\ e.ret = n
  BY <1>5, FreshMove
<1> HIDE DEF e
<1>7. CASE Then(e, <<E, S, X, O>>)
  <2> DEFINE w == {<<n, "target">>}
  <2>1. Over(cur, e, {}) /\ IsNode(e, e.ret) /\ IsNode(e, n)
    BY <1>6, FreshIs
  <2>2. Frame(e, S, 0, Bound(e, n), w)
    BY <2>1, SetFrame
  <2>3. Frame(e, E, 0, 0, {}) /\ Frame(e, X, 0, 0, {}) /\ Frame(e, O, 0, 0, {})
    BY PlainFrame, ExpectFrame DEF Plain
  <2>4. {} \subseteq {} \union w \union {} \union {}
    OBVIOUS
  <2> HIDE DEF E, S, X, O, w
  <2> QED  BY <1>1, <1>7, <2>1, <2>2, <2>3, <2>4, ModestCalls4
<1>8. CASE Then(i, <<O>>)
  <2>1. Over(cur, i, {}) /\ IsNode(i, n) /\ Frame(i, O, 0, 0, {}) /\ {} \subseteq {}
    BY <1>5, FreshIs, PlainFrame DEF Plain
  <2> QED  BY <1>1, <1>8, <2>1, ModestCalls1
<1> QED  BY <1>2, <1>7, <1>8

LEMMA PanicNowSound == ASSUME Calling, PanicNow PROVE Sound(cur', stack')
<1> DEFINE b == Match(Ahead, "str")
           d == Consume(b, SEMICOLON)
           members == [message |-> IF Tok(Ahead) = "str" THEN Word(Ahead.at)
                                ELSE "Critical Panic"]
           c == Make(d, "PANIC", members)
<1>1. Top.fn \in Modest
  BY DEF PanicNow, At, Top, Modest, Plain
<1>2. Then(c, <<>>)
  BY DEF PanicNow
<1>3. Still(Ahead)
  BY StillSelf, StillMove DEF Ahead
<1>4. Still(b)
  BY <1>3, StillMove
<1> HIDE DEF b, members
<1>5. Still(d)
  BY <1>4, StillMove
<1> HIDE DEF d
<1>6. Fresh(c, {}, "PANIC") /\ Owes(Top) = {}
  BY <1>1, <1>5, FreshType, ModestIs DEF FreeTypes, Still
<1> HIDE DEF c
<1> QED  BY <1>2, <1>6, EndsFresh

LEMMA ExpressionRestSound == ASSUME Calling, ExpressionRest PROVE Sound(cur', stack')
<1> DEFINE U == [FNode("unwrap", cur.ret) EXCEPT !.head = cur.ret]
<1>1. Top.fn \in Modest
  BY DEF ExpressionRest, At, Top, Modest, Plain
<1>2. Then(Ahead, <<U>>) \/ Then(cur, <<>>) \/ Then(Consume(cur, SEMICOLON), <<>>)
  BY DEF ExpressionRest
<1>3. Still(cur) /\ Still(Ahead) /\ Still(Consume(cur, SEMICOLON))
  BY StillSelf, StillMove DEF Ahead
<1>4. Frame(Ahead, U, 0, 0, {})
  BY <1>3, StillNode, UnwrapFrame DEF Calling
<1> HIDE DEF U
<1> QED  BY <1>1, <1>2, <1>3, <1>4, StillEnds, StillCalls1

LEMMA UnwrapSound == ASSUME Calling, Unwrap PROVE Sound(cur', stack')
<1> DEFINE x == IF Unwraps(Top.head) THEN cur.nodes[Top.head].at["elements"] ELSE Top.head
           U == [Top EXCEPT !.head = x]
<1>1. Top.fn = "unwrap" /\ Top.fn \in Modest
  BY DEF Unwrap, At, Top, Modest
<1>2. FrameOk(cur, Top) /\ DOMAIN Top = FrameFields
  BY DEF Calling, FrameOk
<1>3. Then(cur, <<U>>) \/ Then(cur, <<Top>>)
  BY <1>2 DEF Unwrap
<1>4. U.fn = "unwrap" /\ DOMAIN U = FrameFields /\ U.n = Top.n
  BY <1>1, <1>2 DEF FrameFields
<1> HIDE DEF U
<1>5. FrameOk(cur, U)
  BY <1>1, <1>2, <1>4 DEF FrameOk, Holds
<1>6. Frame(cur, U, 0, 0, {}) /\ Frame(cur, Top, 0, 0, {})
  BY <1>1, <1>2, <1>4, <1>5 DEF Frame, In, Out, Owes, Levels, Whole
<1> QED  BY <1>1, <1>3, <1>6, StillSelf, StillCalls1

LEMMA LabelSound == ASSUME Calling, Label PROVE Sound(cur', stack')
<1> DEFINE names == [IDENTIFIER |-> "name", LITERAL |-> "string_value"]
           members == [label_name |-> cur.nodes[Top.head].at[names[TypeOf(Top.head)]]]
           l == Make(cur, "NEXUS_LABEL", members)
           n == l.ret
           d == Fails(cur)
<1>1. Top.fn = "unwrap" /\ Top.fn \in Modest
  BY DEF Label, At, Top, Modest
<1>2. \/ Then([d EXCEPT !.ret = Top.n], <<>>) \/ Then(Adv(l), <<F("block"), FSet(n, "statement")>>)
      \/ Then(l, <<>>) \/ Then(l, <<F("statement"), FSet(n, "statement")>>)
  <2> HIDE DEF l, d
  <2> QED  BY DEF Label, l, d
<1>3. Still(cur) /\ Still(d) /\ d.bad
  BY StillSelf, StillMove
<1> HIDE DEF d, members
<1>4. Fresh(l, {}, "NEXUS_LABEL")
  BY <1>3, FreshType DEF FreeTypes, Still
<1> HIDE DEF l
<1>5. Fresh(l, {<<n, "statement">>}, "NEXUS_LABEL") /\ Fresh(Adv(l), {}, "NEXUS_LABEL")
      /\ Adv(l).ret = n
  BY <1>4, FreshMore, FreshMove
<1>6. Fresh(Adv(l), {<<n, "statement">>}, "NEXUS_LABEL")
  BY <1>5, FreshMore
<1>7. "NEXUS_LABEL" \notin OperatorTypes /\ "block" \in Plain /\ "statement" \in Plain
  BY DEF OperatorTypes, Plain
<1>8. CASE Then([d EXCEPT !.ret = Top.n], <<>>)
  <2>1. DOMAIN d = CurFields
    BY <1>3 DEF Still, Over, Heap
  <2>2. [d EXCEPT !.ret = Top.n].bad
    BY <1>3, <2>1 DEF CurFields
  <2> QED  BY <1>8, <2>2, BadSound
<1>9. CASE Then(Adv(l), <<F("block"), FSet(n, "statement")>>)
  BY <1>1, <1>5, <1>6, <1>7, <1>9, PartComes
<1>10. CASE Then(l, <<F("statement"), FSet(n, "statement")>>)
  BY <1>1, <1>5, <1>7, <1>10, PartComes
<1>11. CASE Then(l, <<>>)
  <2>1. Owes(Top) = {}
    BY <1>1, ModestIs
  <2> QED  BY <1>4, <1>11, <2>1, EndsFresh
<1> QED  BY <1>2, <1>8, <1>9, <1>10, <1>11

-------------------------------------------------------------------------------
(* The calls of main.                                                      *)

LEMMA ProgramSound == ASSUME Calling, Program PROVE Sound(cur', stack')
<1> DEFINE b == Put(cur, Top.n, "statements", Top.head)
           C == F("compile")
           D == F("destroy")
<1>1. Top.fn = "program" /\ Top.fn \in PlainLists /\ Top.fn \in Modest
  BY DEF Program, At, Top, PlainLists, Modest
<1>2. \/ Then(cur, <<F("statement"), FLink(Top)>>) \/ (cur.bad /\ Then(b, <<D>>))
      \/ Then(b, <<C, D>>)
  BY DEF Program
<1>3. Still(cur) /\ Still(b) /\ (cur.bad => b.bad)
  BY StillSelf, StillSpare DEF Spare
<1> HIDE DEF b
<1>4. CASE Then(cur, <<F("statement"), FLink(Top)>>)
  <2>1. Frame(cur, F("statement"), 0, 0, {}) /\ {} \subseteq {}
    BY PlainFrame DEF Plain
  <2> QED  BY <1>1, <1>3, <1>4, <2>1, ListTakes DEF Still
<1>5. CASE cur.bad /\ Then(b, <<D>>)
  BY <1>3, <1>5, BadSound
<1>6. CASE Then(b, <<C, D>>)
  <2>1. Frame(b, C, 0, 0, {}) /\ Frame(b, D, 0, 0, {})
    BY PlainFrame DEF Plain
  <2> HIDE DEF C, D
  <2> QED  BY <1>1, <1>3, <1>6, <2>1, StillCalls2
<1> QED  BY <1>2, <1>4, <1>5, <1>6

LEMMA SemanticErrorsSound == ASSUME Calling, SemanticErrors PROVE Sound(cur', stack')
<1>1. Top.fn \in Modest /\ Then(cur, <<>>)
  BY DEF SemanticErrors, At, Top, Modest, Plain
<1> QED  BY <1>1, StillSelf, StillEnds

LEMMA CompileSound == ASSUME Calling, Compile PROVE Sound(cur', stack')
<1> DEFINE c == [cur EXCEPT !.asm = Code(cur.nodes, 1)]
<1>1. Top.fn \in Modest /\ Then(c, <<>>)
  BY DEF Compile, At, Top, Modest, Plain
<1>2. Same(cur, c)
  BY DEF Calling, Heap, CurFields, Same
<1> HIDE DEF c
<1> QED  BY <1>1, <1>2, EndsSame

LEMMA DestroyTreeSound == ASSUME Calling, DestroyTree PROVE Sound(cur', stack')
<1>1. Top.fn \in Modest /\ Then(cur, <<>>)
  BY DEF DestroyTree, At, Top, Modest, Plain
<1> QED  BY <1>1, StillSelf, StillEnds

LEMMA DestroyJunkSound == ASSUME Calling, DestroyJunk PROVE Sound(cur', stack')
<1>1. cur' = [cur EXCEPT !.crash = "root"] /\ cur.bad
  BY DEF DestroyJunk, Crash
<1>2. DOMAIN cur = CurFields
  BY DEF Calling, Heap
<1>3. cur'.bad
  BY <1>1, <1>2 DEF CurFields
<1> QED  BY <1>3 DEF Sound

(* The first function: the program is the first node.                      *)
LEMMA RunStarts ==
  ASSUME cur.crash = "no", Heap(cur), cur.nodes = <<>>, stack = <<F("run")>>, Run
  PROVE  Sound(cur', stack')
<1> DEFINE p == Bare(Adv(cur), "PROGRAM")
           L == List("program", p.ret, NoName)
           st == <<L>>
<1>1. Then(p, <<L>>)
  BY DEF Run
<1>2. Over(cur, Adv(cur), {})
  BY OverSelf, OverSame, SameSelf, SameAdv DEF Heap
<1>3. Fresh(p, {}, "PROGRAM")
  BY <1>2, FreshType DEF FreeTypes, Bare
<1> HIDE DEF p
<1>4. Lacks(cur) = {}
  BY DEF Lacks
<1>5. /\ Heap(p) /\ p.crash = "no" /\ IsNode(p, p.ret) /\ Bound(p, p.ret) = 8
      /\ Lacks(p) = {}
  BY <1>3, <1>4 DEF Fresh, Over
<1>6. Frame(p, L, 0, 0, {})
  BY ListFrame DEF Lists
<1> HIDE DEF L
<1>7. Tail(stack) = <<>> /\ IsSeq(<<>>)
  <2> DEFINE f == F("run")
  <2>1. stack = <<f>>
    OBVIOUS
  <2> HIDE DEF f
  <2> QED  BY <2>1 DEF IsSeq
<1>8. IsSeq(st) /\ Len(st) = 1 /\ st[1] = L
  BY DEF IsSeq
<1>9. <<L>> \o Tail(stack) = st
  BY <1>7
<1> HIDE DEF st
<1>10. Takes(p, 8, st, {})
  BY <1>6, <1>8 DEF Takes, Frame
<1>11. cur' = p /\ stack' = st
  BY <1>1, <1>9 DEF Then
<1> QED  BY <1>5, <1>10, <1>11 DEF Sound, Good

LEMMA RunSound == ASSUME Calling, Run PROVE Sound(cur', stack')
<1> DEFINE p == Bare(Adv(cur), "PROGRAM")
<1>1. Top.fn \in Modest
  BY DEF Run, At, Top, Modest, Plain
<1>2. Then(p, <<List("program", p.ret, NoName)>>)
  BY DEF Run
<1>3. Still(Adv(cur))
  BY StillSelf, StillMove
<1>4. Fresh(p, {}, "PROGRAM")
  BY <1>3, FreshType DEF FreeTypes, Still, Bare
<1> HIDE DEF p
<1>5. "program" \in PlainLists
  BY DEF PlainLists
<1> QED  BY <1>1, <1>2, <1>4, <1>5, ListStarts

-------------------------------------------------------------------------------
(* Errors are not forgotten: what is reported stays reported.              *)

Meek(c) == DOMAIN c = CurFields /\ (cur.bad => c.bad)

LEMMA MeekSame == ASSUME NEW c, Meek(c), NEW d, Same(c, d) PROVE Meek(d)
  BY DEF Meek, Same

LEMMA MeekMoves ==
  ASSUME NEW c, Meek(c)
  PROVE  /\ Meek(Adv(c)) /\ Meek(Fails(c))
         /\ \A t : Meek(Consume(c, t)) /\ Meek(Match(c, t)) /\ Meek(Lose(c, t)) /\ Meek(Skip(c, t))
<1>1. Same(c, c)
  BY SameSelf DEF Meek
<1>2. Same(c, Adv(c)) /\ Same(c, Fails(c))
  BY <1>1, SameAdv, SameFails
<1>3. \A t : /\ Same(c, Consume(c, t)) /\ Same(c, Match(c, t))
             /\ Same(c, Lose(c, t)) /\ Same(c, Skip(c, t))
  BY <1>1, SameConsume, SameMatch, SameLose, SameSkip
<1> QED  BY <1>2, <1>3, MeekSame

LEMMA MeekMake == ASSUME NEW c, Meek(c), NEW type, NEW members PROVE Meek(Make(c, type, members))
  BY DEF Meek, Make, CurFields

LEMMA MeekPut == ASSUME NEW c, Meek(c), NEW n, NEW m, NEW v PROVE Meek(Put(c, n, m, v))
<1> DEFINE d == [c EXCEPT !.nodes[n].at[m] = v]
<1>1. Meek(d)
  BY DEF Meek, CurFields
<1> HIDE DEF d
<1>2. Meek(Lose(d, m)) /\ Meek(Lose(c, m))
  BY <1>1, MeekMoves
<1> QED  BY <1>1, <1>2 DEF Put, d

LEMMA MeekLink == ASSUME NEW c, Meek(c), NEW f, NEW x PROVE Meek(LinkNode(c, f, x))
  BY MeekPut DEF LinkNode

LEMMA MeekSteps == ASSUME Meek(cur), Parse PROVE Meek(cur')
<1> USE DEF Then
<1>1. CASE Expect
  BY <1>1, MeekMoves DEF Expect
<1>2. CASE OptSemi
  BY <1>2, MeekMoves DEF OptSemi
<1>3. CASE Give
  BY <1>3 DEF Give, Meek, CurFields
<1>4. CASE SetChild
  <2> DEFINE b == Put(cur, Top.n, Top.m, cur.ret)
  <2>1. cur' = [b EXCEPT !.ret = Top.n]
    BY <1>4 DEF SetChild
  <2>2. Meek(b)
    BY MeekPut
  <2> HIDE DEF b
  <2> QED  BY <2>1, <2>2 DEF Meek, CurFields
<1>5. CASE Link
  BY <1>5, MeekMoves, MeekLink DEF Link, Resume
<1>6. CASE Argument
  <2> DEFINE b == LinkNode(cur, Top, cur.ret)
             f == Linked(Top, cur.ret)
  <2>1. Meek(b)
    BY MeekLink
  <2>2. cur' = [cur EXCEPT !.crash = "null"] \/ cur' = Adv(b) \/ cur' = Put(b, f.n, f.m, f.head)
    BY <1>6 DEF Argument, Crash
  <2> HIDE DEF b, f
  <2>3. Meek([cur EXCEPT !.crash = "null"])
    BY DEF Meek, CurFields
  <2> QED  BY <2>1, <2>2, <2>3, MeekMoves, MeekPut
<1>7. CASE LiteralExpr
  BY <1>7, MeekMoves, MeekMake DEF LiteralExpr, Ahead
<1>8. CASE IdentifierExpr
  BY <1>8, MeekMoves, MeekMake DEF IdentifierExpr, Ahead
<1>9. CASE LambdaExpr
  BY <1>9, MeekMoves DEF LambdaExpr, Ahead
<1>10. CASE LoopExpr
  BY <1>10, MeekMoves, MeekMake DEF LoopExpr, Ahead, Bare
<1>11. CASE LoopKind
  BY <1>11, MeekMoves, MeekPut DEF LoopKind, Ahead
<1>12. CASE LoopBody
  <2> DEFINE b == Match(cur, "->")
             c == [b EXCEPT !.ret = Top.n]
  <2>1. cur' = Adv(c) \/ cur' = Fails(c)
    BY <1>12 DEF LoopBody
  <2>2. Meek(b)
    BY MeekMoves
  <2> HIDE DEF b
  <2>3. Meek(c)
    BY <2>2 DEF Meek, CurFields
  <2> HIDE DEF c
  <2> QED  BY <2>1, <2>3, MeekMoves
<1>13. CASE InfiniteLoop
  BY <1>13, MeekMoves, MeekMake DEF InfiniteLoop, Ahead, Bare
<1>14. CASE Parenthesis
  BY <1>14, MeekMoves DEF Parenthesis, Ahead
<1>15. CASE Paren
  <2> DEFINE b == Consume(cur, ")")
             c == Bare(cur, "TUPLE")
  <2>1. Meek(b) /\ Meek(c)
    BY MeekMoves, MeekMake DEF Bare
  <2>2. \/ cur' = [b EXCEPT !.parens = @ \union {cur.ret}] \/ cur' = [c EXCEPT !.ret = cur.ret]
        \/ cur' = [cur EXCEPT !.crash = "null"]
    BY <1>15 DEF Paren, Crash
  <2> HIDE DEF b, c
  <2> QED  BY <2>1, <2>2 DEF Meek, CurFields
<1>16. CASE BraceTuple
  BY <1>16, MeekMoves, MeekMake DEF BraceTuple, Ahead, Bare
<1>17. CASE Brace
  <2> DEFINE c == Bare(cur, "TUPLE")
  <2>1. Meek(c)
    BY MeekMake DEF Bare
  <2>2. cur' = cur \/ cur' = [c EXCEPT !.ret = cur.ret]
    BY <1>17 DEF Brace
  <2> HIDE DEF c
  <2> QED  BY <2>1, <2>2 DEF Meek, CurFields
<1>18. CASE TupleRest
  BY <1>18, MeekMoves, MeekPut DEF TupleRest, Ahead
<1>19. CASE IntrinsicCall
  <2> DEFINE n == Bare(Ahead, Intrinsic[Tok(cur)])
             dot == Match(n, ".")
             id == Make(Adv(dot), "IDENTIFIER", [name |-> Word(dot.at)])
             put == Put(id, n.ret, "callee", id.ret)
             c == [put EXCEPT !.ret = n.ret]
  <2>1. Meek(n)
    BY MeekMoves, MeekMake DEF Bare, Ahead
  <2>2. \E b \in {n, dot, c} : cur' = b \/ cur' = Adv(b)
    <3> HIDE DEF n, dot, id, put, c
    <3> QED  BY <1>19 DEF IntrinsicCall, n, dot, id, put, c
  <2> HIDE DEF n
  <2>3. Meek(dot)
    BY <2>1, MeekMoves
  <2> HIDE DEF dot
  <2>4. Meek(id)
    BY <2>3, MeekMoves, MeekMake
  <2> HIDE DEF id
  <2>5. Meek(put)
    BY <2>4, MeekPut
  <2> HIDE DEF put
  <2>6. Meek(c)
    BY <2>5 DEF Meek, CurFields
  <2> HIDE DEF c
  <2> QED  BY <2>1, <2>2, <2>3, <2>6, MeekMoves
<1>20. CASE AiLogic
  BY <1>20, MeekMoves, MeekMake DEF AiLogic, Ahead
<1>21. CASE NotPrimary
  <2>1. Meek([cur EXCEPT !.ret = NULL])
    BY DEF Meek, CurFields
  <2> QED  BY <1>21, <2>1, MeekMoves DEF NotPrimary, NoExpression
<1>22. CASE Postfix
  BY <1>22 DEF Postfix
<1>23. CASE PostfixRest
  BY <1>23, MeekMoves, MeekMake DEF PostfixRest, Ahead
<1>24. CASE Unary
  BY <1>24, MeekMoves DEF Unary, Ahead
<1>25. CASE UnaryRest
  BY <1>25, MeekMake DEF UnaryRest
<1>26. CASE BinaryExpr
  BY <1>26 DEF BinaryExpr
<1>27. CASE LeftOperand
  BY <1>27, MeekMoves DEF LeftOperand, Ahead
<1>28. CASE RightOperand
  BY <1>28, MeekMake DEF RightOperand, Joined
<1>29. CASE NexusFlow
  BY <1>29 DEF NexusFlow
<1>30. CASE FlowOp
  BY <1>30, MeekMoves DEF FlowOp, Ahead
<1>31. CASE FlowRight
  BY <1>31, MeekMake DEF FlowRight
<1>32. CASE FlowEnd
  BY <1>32, MeekMoves DEF FlowEnd, Ahead
<1>33. CASE Assignment
  BY <1>33 DEF Assignment
<1>34. CASE Assign
  BY <1>34, MeekMoves, MeekMake DEF Assign, Ahead
<1>35. CASE Assigned
  BY <1>35, MeekMake DEF Assigned
<1>36. CASE VarDecl
  <2> DEFINE attached == Len(Spelled(cur.prev)) > 2
             id == IF attached \/ Sees({"id"}) THEN cur ELSE Fails(cur)
             b == IF attached THEN id ELSE Match(id, "id")
             members == [name |-> IF attached THEN Word(cur.prev)
                               ELSE IF Sees({"id"}) THEN Word(cur.at) ELSE Zero]
             c == Make(b, "VAR_DECL", members)
             a == Adv(c)
             typed == Put(a, c.ret, "type_name", Word(a.at))
             body == Bare(Adv(Adv(typed)), KindOf(Tok(a)))
  <2>1. cur' = c \/ cur' = Adv(typed) \/ cur' = body \/ cur' = Fails(a)
    BY <1>36 DEF VarDecl
  <2>2. Meek(b)
    BY MeekMoves
  <2> HIDE DEF b, members
  <2>3. Meek(c)
    BY <2>2, MeekMake
  <2> HIDE DEF c
  <2>4. Meek(a)
    BY <2>3, MeekMoves
  <2> HIDE DEF a
  <2>5. Meek(typed)
    BY <2>4, MeekPut
  <2> HIDE DEF typed
  <2>6. Meek(body)
    BY <2>5, MeekMoves, MeekMake DEF Bare
  <2> HIDE DEF body
  <2> QED  BY <2>1, <2>3, <2>4, <2>5, <2>6, MeekMoves
<1>37. CASE VarInit
  BY <1>37, MeekMoves DEF VarInit, Ahead, Meek, CurFields
<1>38. CASE Fields
  BY <1>38, MeekMoves, MeekPut DEF Fields, Ahead
<1>39. CASE Variants
  BY <1>39, MeekMoves, MeekMake, MeekPut DEF Variants, Ahead
<1>40. CASE Params
  <2> DEFINE data == Top.m = "data"
             p == Make(Ahead, "VAR_DECL", [name |-> Word(cur.at)])
             t == IF data THEN Consume(p, "!") ELSE Match(p, "!")
             put == Put(t, p.ret, "type_name", Word(t.at))
             typed == CASE Tok(t) \in TypeTokens -> Adv(put)
                        [] Tok(t) \notin TypeTokens /\ data -> Fails(t)
                        [] OTHER -> t
             c == IF Sees({"id"}) THEN LinkNode(typed, Top, p.ret) ELSE Fails(cur)
             f == IF Sees({"id"}) THEN Linked(Top, p.ret) ELSE Top
  <2>1. cur' = Adv(c) \/ cur' = Put(c, f.n, f.m, f.head)
    BY <1>40 DEF Params
  <2>2. Meek(p)
    BY MeekMoves, MeekMake DEF Ahead
  <2> HIDE DEF p, f
  <2>3. Meek(t)
    BY <2>2, MeekMoves
  <2> HIDE DEF t
  <2>4. Meek(put)
    BY <2>3, MeekPut
  <2> HIDE DEF put
  <2>5. Meek(typed)
    BY <2>3, <2>4, MeekMoves
  <2> HIDE DEF typed
  <2>6. Meek(c)
    BY <2>5, MeekMoves, MeekLink
  <2> HIDE DEF c
  <2> QED  BY <2>1, <2>6, MeekMoves, MeekPut
<1>41. CASE Function
  BY <1>41, MeekMoves, MeekMake DEF Function
<1>42. CASE FunctionRest
  BY <1>42, MeekMoves, MeekPut DEF FunctionRest, Ahead
<1>43. CASE Lambda
  <2> DEFINE r == Make(cur, "RETURN", [op |-> "ret", operand |-> cur.ret])
             b == Make(r, "BLOCK", [statements |-> r.ret])
             d == Put(b, Top.n, "body", b.ret)
  <2>1. cur' = cur \/ cur' = [d EXCEPT !.ret = Top.n]
    BY <1>43 DEF Lambda
  <2>2. Meek(r)
    BY MeekMake
  <2> HIDE DEF r
  <2>3. Meek(b)
    BY <2>2, MeekMake
  <2> HIDE DEF b
  <2>4. Meek(d)
    BY <2>3, MeekPut
  <2> HIDE DEF d
  <2> QED  BY <2>1, <2>4 DEF Meek, CurFields
<1>44. CASE Block
  BY <1>44, MeekMake DEF Block, Bare
<1>45. CASE Statements
  BY <1>45, MeekMoves, MeekPut DEF Statements
<1>46. CASE TypeDecl
  BY <1>46, MeekMoves, MeekMake DEF TypeDecl
<1>47. CASE NewTypeNamed
  BY <1>47 DEF NewTypeNamed
<1>48. CASE NewTypeOfKind
  BY <1>48, MeekMoves, MeekMake DEF NewTypeOfKind, Ahead, Bare
<1>49. CASE PlainVariants
  BY <1>49, MeekMoves, MeekMake, MeekPut DEF PlainVariants, Ahead
<1>50. CASE SkipData
  BY <1>50, MeekMoves DEF SkipData, Ahead
<1>51. CASE NameBehind
  <2> DEFINE c == IF Sees({"id"}) THEN Put(Ahead, Top.n, "name", Word(cur.at)) ELSE Fails(cur)
             d == Consume(Lose(c, "place"), SEMICOLON)
  <2>1. cur' = [d EXCEPT !.ret = Top.n]
    BY <1>51 DEF NameBehind
  <2>2. Meek(c)
    BY MeekMoves, MeekPut DEF Ahead
  <2> HIDE DEF c
  <2>3. Meek(d)
    BY <2>2, MeekMoves
  <2> HIDE DEF d
  <2> QED  BY <2>1, <2>3 DEF Meek, CurFields
<1>52. CASE NewTypeAlias
  BY <1>52, MeekMoves, MeekMake DEF NewTypeAlias
<1>53. CASE NewTypeFreed
  BY <1>53 DEF NewTypeFreed, Crash, Meek, CurFields
<1>54. CASE Group
  BY <1>54, MeekMoves, MeekMake DEF Group
<1>55. CASE Method
  BY <1>55, MeekMoves, MeekMake DEF Method, Ahead
<1>56. CASE GroupMember
  BY <1>56, MeekMoves, MeekPut DEF GroupMember, Ahead
<1>57. CASE Statement
  BY <1>57, MeekMoves, MeekMake DEF Statement, Ahead, Bare
<1>58. CASE Declaration
  BY <1>58, MeekMoves DEF Declaration, Ahead
<1>59. CASE Flags
  BY <1>59 DEF Flags, Crash, Meek, CurFields
<1>60. CASE Use
  <2> DEFINE c == Consume(cur, "id")
             u == Make(c, "USE", [module_name |-> Word(c.prev)])
             al == Consume(Adv(u), "id")
             put == Put(al, u.ret, "alias", Word(al.prev))
             d == IF Tok(u) = "as" THEN put ELSE u
             e == LinkNode(d, Top, u.ret)
             f == Linked(Top, u.ret)
             g == Consume(e, SEMICOLON)
  <2>1. cur' = Adv(e) \/ cur' = [g EXCEPT !.ret = f.head]
    BY <1>60 DEF Use
  <2>2. Meek(c)
    BY MeekMoves
  <2> HIDE DEF c, f
  <2>3. Meek(u)
    BY <2>2, MeekMake
  <2> HIDE DEF u
  <2>4. Meek(al)
    BY <2>3, MeekMoves
  <2> HIDE DEF al
  <2>5. Meek(put)
    BY <2>4, MeekPut
  <2> HIDE DEF put
  <2>6. Meek(d)
    BY <2>3, <2>5
  <2> HIDE DEF d
  <2>7. Meek(e)
    BY <2>6, MeekLink
  <2> HIDE DEF e
  <2>8. Meek(g)
    BY <2>7, MeekMoves
  <2> HIDE DEF g
  <2>9. Meek([g EXCEPT !.ret = f.head])
    BY <2>8 DEF Meek, CurFields
  <2> QED  BY <2>1, <2>7, <2>9, MeekMoves
<1>61. CASE Defer
  BY <1>61, MeekMoves, MeekMake DEF Defer, Bare
<1>62. CASE Return
  BY <1>62, MeekMoves, MeekMake DEF Return
<1>63. CASE ThreadBlock
  BY <1>63, MeekMoves, MeekMake DEF ThreadBlock, Ahead
<1>64. CASE Packed
  BY <1>64, MeekMoves DEF Packed, Ahead
<1>65. CASE Listen
  BY <1>65, MeekMoves, MeekMake DEF Listen, Ahead
<1>66. CASE Command
  BY <1>66, MeekMoves DEF Command, Ahead
<1>67. CASE TypeCommand
  BY <1>67, MeekMoves DEF TypeCommand, Ahead
<1>68. CASE NewType
  BY <1>68, MeekMoves DEF NewType, Ahead
<1>69. CASE LateGroup
  BY <1>69, MeekMoves DEF LateGroup, Ahead
<1>70. CASE BareBlock
  BY <1>70, MeekMoves DEF BareBlock, Ahead
<1>71. CASE Jump
  BY <1>71, MeekMoves, MeekMake DEF Jump, Ahead
<1>72. CASE NoCommand
  BY <1>72 DEF NoCommand
<1>73. CASE Halt
  BY <1>73, MeekMoves, MeekMake DEF Halt, Ahead, Bare
<1>74. CASE Intent
  BY <1>74, MeekMoves, MeekMake DEF Intent, Ahead
<1>75. CASE PanicNow
  BY <1>75, MeekMoves, MeekMake DEF PanicNow, Ahead
<1>76. CASE ExpressionStatement
  BY <1>76 DEF ExpressionStatement
<1>77. CASE ExpressionRest
  BY <1>77, MeekMoves DEF ExpressionRest, Ahead
<1>78. CASE Unwrap
  BY <1>78 DEF Unwrap
<1>79. CASE Label
  <2> DEFINE names == [IDENTIFIER |-> "name", LITERAL |-> "string_value"]
             members == [label_name |-> cur.nodes[Top.head].at[names[TypeOf(Top.head)]]]
             l == Make(cur, "NEXUS_LABEL", members)
             d == Fails(cur)
  <2>1. cur' = [d EXCEPT !.ret = Top.n] \/ cur' = Adv(l) \/ cur' = l
    <3> HIDE DEF l, d
    <3> QED  BY <1>79 DEF Label, l, d
  <2> HIDE DEF members
  <2>2. Meek(d) /\ Meek(l)
    BY MeekMoves, MeekMake
  <2> HIDE DEF d, l
  <2>3. Meek([d EXCEPT !.ret = Top.n])
    BY <2>2 DEF Meek, CurFields
  <2> QED  BY <2>1, <2>2, <2>3, MeekMoves
<1>80. CASE Run
  BY <1>80, MeekMoves, MeekMake DEF Run, Bare
<1>81. CASE Program
  <2>1. cur' = cur \/ cur' = Put(cur, Top.n, "statements", Top.head)
    BY <1>81 DEF Program
  <2> QED  BY <2>1, MeekPut
<1>82. CASE SemanticErrors
  BY <1>82 DEF SemanticErrors
<1>83. CASE Compile
  <2>1. cur' = [cur EXCEPT !.asm = Code(cur.nodes, 1)]
    BY <1>83 DEF Compile
  <2> QED  BY <2>1 DEF Meek, CurFields
<1>84. CASE DestroyTree
  BY <1>84 DEF DestroyTree
<1>85. CASE DestroyJunk
  BY <1>85 DEF DestroyJunk, Crash, Meek, CurFields
<1> QED  BY <1>1, <1>2, <1>3, <1>4, <1>5, <1>6, <1>7, <1>8, <1>9, <1>10, <1>11, <1>12, <1>13,
     <1>14, <1>15, <1>16, <1>17, <1>18, <1>19, <1>20, <1>21, <1>22, <1>23, <1>24, <1>25, <1>26,
     <1>27, <1>28, <1>29, <1>30, <1>31, <1>32, <1>33, <1>34, <1>35, <1>36, <1>37, <1>38, <1>39,
     <1>40, <1>41, <1>42, <1>43, <1>44, <1>45, <1>46, <1>47, <1>48, <1>49, <1>50, <1>51, <1>52,
     <1>53, <1>54, <1>55, <1>56, <1>57, <1>58, <1>59, <1>60, <1>61, <1>62, <1>63, <1>64, <1>65,
     <1>66, <1>67, <1>68, <1>69, <1>70, <1>71, <1>72, <1>73, <1>74, <1>75, <1>76, <1>77, <1>78,
     <1>79, <1>80, <1>81, <1>82, <1>83, <1>84, <1>85 DEF Parse

-------------------------------------------------------------------------------
(* The invariant.                                                          *)

Inv == DOMAIN cur = CurFields /\ Sound(cur, stack)

LEMMA OnTop == ASSUME NEW fn, At(fn) PROVE stack # <<>> /\ Top.fn = fn
  BY DEF At, Top

(* Nothing is parsed with an empty stack, and only Run starts with main.   *)
LEMMA ParseOnTop == ASSUME Parse PROVE stack # <<>> /\ (Run \/ Top.fn # "run")
<1>1. CASE Expect \/ OptSemi \/ Give \/ SetChild \/ Link \/ Argument \/ LiteralExpr
  BY <1>1, OnTop DEF Expect, OptSemi, Give, SetChild, Link, Argument, LiteralExpr
<1>2. CASE IdentifierExpr \/ LambdaExpr \/ LoopExpr \/ LoopKind \/ LoopBody \/ InfiniteLoop \/ Parenthesis
  BY <1>2, OnTop DEF IdentifierExpr, LambdaExpr, LoopExpr, LoopKind, LoopBody, InfiniteLoop, Parenthesis
<1>3. CASE Paren \/ BraceTuple \/ Brace \/ TupleRest \/ IntrinsicCall \/ AiLogic \/ NotPrimary
  BY <1>3, OnTop DEF Paren, BraceTuple, Brace, TupleRest, IntrinsicCall, AiLogic, NotPrimary
<1>4. CASE Postfix \/ PostfixRest \/ Unary \/ UnaryRest \/ LeftOperand \/ RightOperand
  BY <1>4, OnTop DEF Postfix, PostfixRest, Unary, UnaryRest, LeftOperand, RightOperand
<1>5. CASE NexusFlow \/ FlowOp \/ FlowRight \/ FlowEnd \/ Assignment \/ Assign \/ Assigned
  BY <1>5, OnTop DEF NexusFlow, FlowOp, FlowRight, FlowEnd, Assignment, Assign, Assigned
<1>6. CASE VarDecl \/ VarInit \/ Fields \/ Variants \/ Params \/ Function \/ FunctionRest
  BY <1>6, OnTop DEF VarDecl, VarInit, Fields, Variants, Params, Function, FunctionRest
<1>7. CASE Lambda \/ Block \/ Statements \/ TypeDecl \/ NewTypeNamed \/ NewTypeOfKind \/ PlainVariants
  BY <1>7, OnTop DEF Lambda, Block, Statements, TypeDecl, NewTypeNamed, NewTypeOfKind, PlainVariants
<1>8. CASE SkipData \/ NameBehind \/ NewTypeAlias \/ NewTypeFreed \/ Group \/ Method \/ GroupMember
  BY <1>8, OnTop DEF SkipData, NameBehind, NewTypeAlias, NewTypeFreed, Group, Method, GroupMember
<1>9. CASE Statement \/ Declaration \/ Flags \/ Use \/ Defer \/ Return \/ ThreadBlock
  BY <1>9, OnTop DEF Statement, Declaration, Flags, Use, Defer, Return, ThreadBlock
<1>10. CASE Packed \/ Listen \/ Command \/ TypeCommand \/ NewType \/ LateGroup \/ BareBlock
  BY <1>10, OnTop DEF Packed, Listen, Command, TypeCommand, NewType, LateGroup, BareBlock
<1>11. CASE Jump \/ NoCommand \/ Halt \/ Intent \/ PanicNow \/ ExpressionStatement \/ ExpressionRest
  <2>1. CASE Jump
    BY <2>1, OnTop DEF Jump
  <2>2. CASE NoCommand
    BY <2>2, OnTop DEF NoCommand
  <2>3. CASE Halt
    BY <2>3, OnTop DEF Halt
  <2>4. CASE Intent
    BY <2>4, OnTop DEF Intent
  <2>5. CASE PanicNow
    <3>1. At("control")
      BY <2>5 DEF PanicNow
    <3> QED  BY <3>1, OnTop
  <2>6. CASE ExpressionStatement
    BY <2>6, OnTop DEF ExpressionStatement
  <2>7. CASE ExpressionRest
    BY <2>7, OnTop DEF ExpressionRest
  <2> QED  BY <1>11, <2>1, <2>2, <2>3, <2>4, <2>5, <2>6, <2>7
<1>12. CASE Unwrap \/ Label \/ Program \/ SemanticErrors \/ Compile \/ DestroyTree
  BY <1>12, OnTop DEF Unwrap, Label, Program, SemanticErrors, Compile, DestroyTree
<1>13. CASE DestroyJunk
  BY <1>13, OnTop DEF DestroyJunk
<1>14. CASE BinaryExpr
  <2>1. stack # <<>> /\ Top.fn \in DOMAIN Binary
    BY <1>14 DEF BinaryExpr
  <2>2. "run" \notin DOMAIN Binary
    BY DEF Binary
  <2> QED  BY <2>1, <2>2
<1>15. CASE Run
  BY <1>15, OnTop DEF Run
<1> QED  BY <1>1, <1>2, <1>3, <1>4, <1>5, <1>6, <1>7, <1>8, <1>9, <1>10, <1>11, <1>12, <1>13, <1>14, <1>15 DEF Parse

LEMMA CallsSound == ASSUME Calling, Parse PROVE Sound(cur', stack')
<1>1. CASE Expect \/ OptSemi \/ Give \/ SetChild \/ Link \/ Argument \/ LiteralExpr \/ IdentifierExpr
  BY <1>1, ExpectSound, OptSemiSound, GiveSound, SetChildSound, LinkSound, ArgumentSound, LiteralExprSound, IdentifierExprSound
<1>2. CASE LambdaExpr \/ LoopExpr \/ LoopKind \/ LoopBody \/ InfiniteLoop \/ Parenthesis \/ Paren \/ BraceTuple
  BY <1>2, LambdaExprSound, LoopExprSound, LoopKindSound, LoopBodySound, InfiniteLoopSound, ParenthesisSound, ParenSound, BraceTupleSound
<1>3. CASE Brace \/ TupleRest \/ IntrinsicCall \/ AiLogic \/ NotPrimary \/ Postfix \/ PostfixRest \/ Unary
  BY <1>3, BraceSound, TupleRestSound, IntrinsicCallSound, AiLogicSound, NotPrimarySound, PostfixSound, PostfixRestSound, UnarySound
<1>4. CASE UnaryRest \/ BinaryExpr \/ LeftOperand \/ RightOperand \/ NexusFlow \/ FlowOp \/ FlowRight \/ FlowEnd
  BY <1>4, UnaryRestSound, BinaryExprSound, LeftOperandSound, RightOperandSound, NexusFlowSound, FlowOpSound, FlowRightSound, FlowEndSound
<1>5. CASE Assignment \/ Assign \/ Assigned \/ VarDecl \/ VarInit \/ Fields \/ Variants \/ Params
  BY <1>5, AssignmentSound, AssignSound, AssignedSound, VarDeclSound, VarInitSound, FieldsSound, VariantsSound, ParamsSound
<1>6. CASE Function \/ FunctionRest \/ Lambda \/ Block \/ Statements \/ TypeDecl \/ NewTypeNamed \/ NewTypeOfKind
  BY <1>6, FunctionSound, FunctionRestSound, LambdaSound, BlockSound, StatementsSound, TypeDeclSound, NewTypeNamedSound, NewTypeOfKindSound
<1>7. CASE PlainVariants \/ SkipData \/ NameBehind \/ NewTypeAlias \/ NewTypeFreed \/ Group \/ Method \/ GroupMember
  BY <1>7, PlainVariantsSound, SkipDataSound, NameBehindSound, NewTypeAliasSound, NewTypeFreedSound, GroupSound, MethodSound, GroupMemberSound
<1>8. CASE Statement \/ Declaration \/ Flags \/ Use \/ Defer \/ Return \/ ThreadBlock \/ Packed
  BY <1>8, StatementSound, DeclarationSound, FlagsSound, UseSound, DeferSound, ReturnSound, ThreadBlockSound, PackedSound
<1>9. CASE Listen \/ Command \/ TypeCommand \/ Jump \/ Halt \/ Intent \/ PanicNow \/ ExpressionRest
  BY <1>9, ListenSound, CommandSound, TypeCommandSound, JumpSound, HaltSound, IntentSound, PanicNowSound, ExpressionRestSound
<1>10. CASE Unwrap \/ Label \/ Run \/ Program \/ SemanticErrors \/ Compile \/ DestroyTree \/ DestroyJunk
  BY <1>10, UnwrapSound, LabelSound, RunSound, ProgramSound, SemanticErrorsSound, CompileSound, DestroyTreeSound, DestroyJunkSound
<1>11. CASE NewType \/ LateGroup \/ BareBlock \/ NoCommand \/ ExpressionStatement
  BY <1>11, CommandsSound
<1> QED  BY <1>1, <1>2, <1>3, <1>4, <1>5, <1>6, <1>7, <1>8, <1>9, <1>10, <1>11 DEF Parse

LEMMA InvStarts == Init => Inv
<1> SUFFICES ASSUME Init PROVE Inv
  OBVIOUS
<1>1. DOMAIN cur = CurFields /\ cur.nodes = <<>> /\ cur.crash = "no" /\ stack = <<F("run")>>
  BY DEF Init, CurFields
<1>2. IsSeq(cur.nodes) /\ Len(cur.nodes) = 0
  BY <1>1 DEF IsSeq
<1>3. Heap(cur)
  BY <1>1, <1>2 DEF Heap
<1> QED  BY <1>1, <1>3 DEF Inv, Sound, Good

LEMMA InvSteps == Inv /\ [Next]_vars => Inv'
<1> SUFFICES ASSUME Inv, [Next]_vars PROVE Inv'
  OBVIOUS
<1>1. CASE UNCHANGED <<cur, stack>>
  <2>1. cur' = cur /\ stack' = stack
    BY <1>1
  <2> QED  BY <2>1 DEF Inv
<1>2. CASE Parse
  <2>1. Meek(cur)
    BY DEF Inv, Meek
  <2>2. Meek(cur')
    BY <1>2, <2>1, MeekSteps
  <2>3. stack # <<>> /\ (Run \/ Top.fn # "run")
    BY <1>2, ParseOnTop
  <2>4. CASE cur.bad
    BY <2>2, <2>4 DEF Meek, Inv, Sound
  <2>5. CASE ~cur.bad
    <3>1. Good(cur, stack)
      BY <2>3, <2>5 DEF Inv, Sound
    <3>2. Sound(cur', stack')
      <4>1. CASE cur.nodes = <<>> /\ stack = <<F("run")>>
        <5>1. Top = F("run")
          BY <4>1 DEF Top
        <5>2. Run
          BY <2>3, <5>1, FIs
        <5> QED  BY <3>1, <4>1, <5>2, RunStarts DEF Good
      <4>2. CASE ~(cur.nodes = <<>> /\ stack = <<F("run")>>)
        BY <1>2, <2>3, <3>1, <4>2, CallingIs, CallsSound
      <4> QED  BY <4>1, <4>2
    <3> QED  BY <2>2, <3>2 DEF Meek, Inv
  <2> QED  BY <2>4, <2>5
<1> QED  BY <1>1, <1>2 DEF Next, vars

(* The inductive invariant: until an error is reported the active functions*)
(* go on with the nodes they get, and what a node still lacks is owed.     *)
THEOREM Invariance == Spec => []Inv
  BY InvStarts, InvSteps, PTL DEF Spec

-------------------------------------------------------------------------------
(* What the invariant says of a program that is accepted.                  *)

LEMMA AcceptedGood ==
  ASSUME Inv, Accepted
  PROVE  Heap(cur) /\ DOMAIN cur.nodes = 1..Len(cur.nodes) /\ Lacks(cur) = {}
<1>1. stack = <<>> /\ cur.crash = "no" /\ ~cur.bad
  BY DEF Accepted, Done
<1>2. Good(cur, stack)
  BY <1>1 DEF Inv, Sound
<1>3. Heap(cur) /\ DOMAIN cur.nodes = 1..Len(cur.nodes)
  <2>1. Heap(cur) /\ IsSeq(cur.nodes)
    BY <1>2 DEF Good, Heap
  <2> QED  BY <2>1 DEF IsSeq
<1>4. Lacks(cur) \subseteq Owed(stack)
  BY <1>1, <1>2 DEF Good, Takes
<1>5. Owed(stack) = {}
  BY <1>1 DEF Owed
<1> QED  BY <1>3, <1>4, <1>5

LEMMA InvMeansError == Inv => NullMeansError
<1> SUFFICES ASSUME Inv PROVE NullMeansError
  OBVIOUS
<1>1. cur.crash = "null" => cur.bad
  BY DEF Inv, Sound, Good
<1>2. ASSUME Accepted, NEW i \in DOMAIN cur.nodes, NEW m \in Needs(cur.nodes[i].type)
      PROVE  cur.nodes[i].at[m] # NULL
  <2>1. i \in 1..Len(cur.nodes) /\ Lacks(cur) = {}
    BY <1>2, AcceptedGood
  <2>2. m \in UNION {Needs(cur.nodes[j].type) : j \in 1..Len(cur.nodes)}
    BY <1>2, <2>1
  <2>3. <<i, m>> \notin Lacks(cur)
    BY <2>1
  <2> QED  BY <1>2, <2>1, <2>2, <2>3 DEF Lacks
<1> QED  BY <1>1, <1>2 DEF NullMeansError

LEMMA InvGroups == Inv => GroupsByPrecedence
<1> SUFFICES ASSUME Inv, Accepted, NEW n \in DOMAIN cur.nodes
             PROVE
      LET at == cur.nodes[n].at
      IN  CASE Rank(n) = 0 /\ TypeOf(n) = "ASSIGNMENT" -> Binds(at["left"]) > 0
            [] Rank(n) \in {1, 2} -> Binds(at["left"]) > Rank(n) /\ Binds(at["right"]) > Rank(n)
            [] Rank(n) \in 3..6 -> Binds(at["left"]) >= Rank(n) /\ Binds(at["right"]) > Rank(n)
            [] Rank(n) = 7 -> Binds(at["operand"]) >= 7
            [] OTHER -> TypeOf(n) = "POSTFIX_EXPR" => Binds(at["operand"]) = 8
  BY DEF GroupsByPrecedence
<1> DEFINE node == cur.nodes[n]
           type == node.type
<1>1. Heap(cur) /\ n \in 1..Len(cur.nodes)
  BY AcceptedGood
<1>2. \A k : IsNode(cur, k) => Rank(k) = RankOf(cur.nodes[k]) /\ Binds(k) = Bound(cur, k)
               /\ Bound(cur, k) \in 0..8
  <2> TAKE k
  <2> SUFFICES ASSUME IsNode(cur, k)
               PROVE  Rank(k) = RankOf(cur.nodes[k]) /\ Binds(k) = Bound(cur, k)
                      /\ Bound(cur, k) \in 0..8
    OBVIOUS
  <2>1. k # NULL
    BY DEF IsNode, NULL
  <2>2. Rank(k) = RankOf(cur.nodes[k])
    BY <2>1 DEF Rank, RankOf, OpRank, TypeOf
  <2>3. Binds(k) = Bound(cur, k)
    BY <2>2 DEF Binds, Bound
  <2> QED  BY <1>1, <2>2, <2>3, BoundIs
<1>3. Grouped(cur, n) /\ IsNode(cur, n)
  BY <1>1 DEF Heap, IsNode
<1>4. /\ type = "BINARY_EXPR" => OpRank(node.at["op"]) \in 2..6
      /\ Rank(n) = RankOf(node) /\ TypeOf(n) = type
  BY <1>2, <1>3, LevelsAre DEF Grouped, TypeOf
<1>5. \A m \in Operands(type) :
        Binds(node.at[m]) \in 0..8 /\ Binds(node.at[m]) >= Least(node, m)
  <2>1. \A m \in Operands(type) : IsNode(cur, node.at[m])
                                 /\ Bound(cur, node.at[m]) >= Least(node, m)
    BY <1>3 DEF Grouped
  <2> QED  BY <1>2, <2>1
<1>6. CASE type = "ASSIGNMENT"
  <2>1. Rank(n) = 0 /\ Least(node, "left") = 1 /\ "left" \in Operands(type)
    BY <1>4, <1>6 DEF RankOf, Least, Operands
  <2>2. Binds(node.at["left"]) > 0
    BY <1>5, <2>1
  <2> QED  BY <1>4, <1>6, <2>1, <2>2
<1>7. CASE type \in {"NEXUS_FLOW", "NEXUS_PIPE"}
  <2>1. /\ Rank(n) = 1 /\ {"left", "right"} \subseteq Operands(type)
        /\ \A m : Least(node, m) = 2
    BY <1>4, <1>7 DEF RankOf, Least, Operands
  <2>2. Binds(node.at["left"]) > 1 /\ Binds(node.at["right"]) > 1
    BY <1>5, <2>1
  <2> QED  BY <2>1, <2>2
<1>8. CASE type = "BINARY_EXPR"
  <2>1. /\ Rank(n) \in 2..6 /\ {"left", "right"} \subseteq Operands(type)
        /\ Least(node, "left") = IF Rank(n) = 2 THEN 3 ELSE Rank(n)
        /\ Least(node, "right") = Rank(n) + 1
    BY <1>4, <1>8 DEF RankOf, Least, Operands
  <2>2. /\ Binds(node.at["left"]) >= IF Rank(n) = 2 THEN 3 ELSE Rank(n)
        /\ Binds(node.at["right"]) > Rank(n) /\ Binds(node.at["left"]) \in 0..8
    BY <1>5, <2>1
  <2>3. CASE Rank(n) = 2
    BY <2>2, <2>3
  <2>4. CASE Rank(n) \in 3..6
    BY <2>2, <2>4
  <2> QED  BY <2>1, <2>3, <2>4
<1>9. CASE type = "UNARY_EXPR"
  <2>1. Rank(n) = 7 /\ "operand" \in Operands(type) /\ Least(node, "operand") = 7
    BY <1>4, <1>9 DEF RankOf, Least, Operands
  <2>2. Binds(node.at["operand"]) >= 7
    BY <1>5, <2>1
  <2> QED  BY <2>1, <2>2
<1>10. CASE type \notin {"ASSIGNMENT", "NEXUS_FLOW", "NEXUS_PIPE", "BINARY_EXPR", "UNARY_EXPR"}
  <2>1. Rank(n) \in {0, 8}
    BY <1>4, <1>10 DEF RankOf
  <2>2. type = "POSTFIX_EXPR" => Binds(node.at["operand"]) = 8
    <3> SUFFICES ASSUME type = "POSTFIX_EXPR" PROVE Binds(node.at["operand"]) = 8
      OBVIOUS
    <3>1. "operand" \in Operands(type) /\ Least(node, "operand") = 8
      BY DEF Least, Operands
    <3> QED  BY <1>5, <3>1
  <2> QED  BY <1>4, <1>10, <2>1, <2>2
<1> QED  BY <1>6, <1>7, <1>8, <1>9, <1>10

(* A NULL in the place of a node always comes with a reported error: no    *)
(* NULL is followed before one (parser.c:346, 484, 585, 1600), and a       *)
(* program that is compiled lacks no part of an operator, call, function,  *)
(* loop or handler, for neither semantic.c nor codegen.c looks for a hole. *)
THEOREM EveryNullMeansError == Spec => []NullMeansError
  BY Invariance, InvMeansError, PTL

(* The tree of an accepted program groups operators as the levels of the   *)
(* parser say (parser.c:607-854), also in flows and behind parentheses.    *)
THEOREM EveryTreeGroups == Spec => []GroupsByPrecedence
  BY Invariance, InvGroups, PTL

-------------------------------------------------------------------------------
(* The operators of the lexer: the tables.                                 *)

LEMMA TableIs ==
  ASSUME NEW rows, NEW k, NEW v, <<k, v>> \in rows, \A r \in rows : r[1] = k => r = <<k, v>>
  PROVE  k \in DOMAIN Table(rows) /\ Table(rows)[k] = v
<1>1. k \in {r[1] : r \in rows}
  OBVIOUS
<1>2. (CHOOSE r \in rows : r[1] = k) = <<k, v>>
  OBVIOUS
<1> QED  BY <1>1, <1>2 DEF Table

LEMMA TableFrom ==
  ASSUME NEW rows, NEW k \in DOMAIN Table(rows)
  PROVE  \E r \in rows : r[1] = k /\ Table(rows)[k] = r[2]
<1>1. k \in {r[1] : r \in rows} /\ Table(rows)[k] = (CHOOSE r \in rows : r[1] = k)[2]
  BY DEF Table
<1> QED  BY <1>1

LEMMA SecondsAre ==
  /\ ":" \in DOMAIN Seconds /\ Seconds[":"] = <<">">>
  /\ "." \in DOMAIN Seconds /\ Seconds["."] = <<".", "=">>
  /\ "=" \in DOMAIN Seconds /\ Seconds["="] = <<">", "?", "=">>
  /\ "!" \in DOMAIN Seconds /\ Seconds["!"] = <<"-", "!", "=">>
  /\ "?" \in DOMAIN Seconds /\ Seconds["?"] = <<"-", "=", ">", SEMICOLON, "?">>
  /\ "-" \in DOMAIN Seconds /\ Seconds["-"] = <<">", "=", "-">>
  /\ "+" \in DOMAIN Seconds /\ Seconds["+"] = <<"=", "+">>
  /\ "<" \in DOMAIN Seconds /\ Seconds["<"] = <<"-", "<", "=">>
  /\ ">" \in DOMAIN Seconds /\ Seconds[">"] = <<LBRACE, ">", "=">>
  /\ "^" \in DOMAIN Seconds /\ Seconds["^"] = <<"^", "=">>
  /\ "*" \in DOMAIN Seconds /\ Seconds["*"] = <<"=">>
  /\ "/" \in DOMAIN Seconds /\ Seconds["/"] = <<"=">>
  /\ "&" \in DOMAIN Seconds /\ Seconds["&"] = <<"&", "=">>
  /\ "|" \in DOMAIN Seconds /\ Seconds["|"] = <<"|", "=">>
<1>0. Seconds = Table(SecondsRows)
  BY DEF Seconds
<1>1. ":" \in DOMAIN Seconds /\ Seconds[":"] = <<">">>
  <2>1. <<":", <<">">>>> \in SecondsRows
    BY DEF SecondsRows
  <2>2. \A r \in SecondsRows : r[1] = ":" => r = <<":", <<">">>>>
    BY DEF SecondsRows
  <2> QED  BY <1>0, <2>1, <2>2, TableIs
<1>2. "." \in DOMAIN Seconds /\ Seconds["."] = <<".", "=">>
  <2>1. <<".", <<".", "=">>>> \in SecondsRows
    BY DEF SecondsRows
  <2>2. \A r \in SecondsRows : r[1] = "." => r = <<".", <<".", "=">>>>
    BY DEF SecondsRows
  <2> QED  BY <1>0, <2>1, <2>2, TableIs
<1>3. "=" \in DOMAIN Seconds /\ Seconds["="] = <<">", "?", "=">>
  <2>1. <<"=", <<">", "?", "=">>>> \in SecondsRows
    BY DEF SecondsRows
  <2>2. \A r \in SecondsRows : r[1] = "=" => r = <<"=", <<">", "?", "=">>>>
    BY DEF SecondsRows
  <2> QED  BY <1>0, <2>1, <2>2, TableIs
<1>4. "!" \in DOMAIN Seconds /\ Seconds["!"] = <<"-", "!", "=">>
  <2>1. <<"!", <<"-", "!", "=">>>> \in SecondsRows
    BY DEF SecondsRows
  <2>2. \A r \in SecondsRows : r[1] = "!" => r = <<"!", <<"-", "!", "=">>>>
    BY DEF SecondsRows
  <2> QED  BY <1>0, <2>1, <2>2, TableIs
<1>5. "?" \in DOMAIN Seconds /\ Seconds["?"] = <<"-", "=", ">", SEMICOLON, "?">>
  <2>1. <<"?", <<"-", "=", ">", SEMICOLON, "?">>>> \in SecondsRows
    BY DEF SecondsRows
  <2>2. \A r \in SecondsRows : r[1] = "?" => r = <<"?", <<"-", "=", ">", SEMICOLON, "?">>>>
    BY DEF SecondsRows
  <2> QED  BY <1>0, <2>1, <2>2, TableIs
<1>6. "-" \in DOMAIN Seconds /\ Seconds["-"] = <<">", "=", "-">>
  <2>1. <<"-", <<">", "=", "-">>>> \in SecondsRows
    BY DEF SecondsRows
  <2>2. \A r \in SecondsRows : r[1] = "-" => r = <<"-", <<">", "=", "-">>>>
    BY DEF SecondsRows
  <2> QED  BY <1>0, <2>1, <2>2, TableIs
<1>7. "+" \in DOMAIN Seconds /\ Seconds["+"] = <<"=", "+">>
  <2>1. <<"+", <<"=", "+">>>> \in SecondsRows
    BY DEF SecondsRows
  <2>2. \A r \in SecondsRows : r[1] = "+" => r = <<"+", <<"=", "+">>>>
    BY DEF SecondsRows
  <2> QED  BY <1>0, <2>1, <2>2, TableIs
<1>8. "<" \in DOMAIN Seconds /\ Seconds["<"] = <<"-", "<", "=">>
  <2>1. <<"<", <<"-", "<", "=">>>> \in SecondsRows
    BY DEF SecondsRows
  <2>2. \A r \in SecondsRows : r[1] = "<" => r = <<"<", <<"-", "<", "=">>>>
    BY DEF SecondsRows
  <2> QED  BY <1>0, <2>1, <2>2, TableIs
<1>9. ">" \in DOMAIN Seconds /\ Seconds[">"] = <<LBRACE, ">", "=">>
  <2>1. <<">", <<LBRACE, ">", "=">>>> \in SecondsRows
    BY DEF SecondsRows
  <2>2. \A r \in SecondsRows : r[1] = ">" => r = <<">", <<LBRACE, ">", "=">>>>
    BY DEF SecondsRows
  <2> QED  BY <1>0, <2>1, <2>2, TableIs
<1>10. "^" \in DOMAIN Seconds /\ Seconds["^"] = <<"^", "=">>
  <2>1. <<"^", <<"^", "=">>>> \in SecondsRows
    BY DEF SecondsRows
  <2>2. \A r \in SecondsRows : r[1] = "^" => r = <<"^", <<"^", "=">>>>
    BY DEF SecondsRows
  <2> QED  BY <1>0, <2>1, <2>2, TableIs
<1>11. "*" \in DOMAIN Seconds /\ Seconds["*"] = <<"=">>
  <2>1. <<"*", <<"=">>>> \in SecondsRows
    BY DEF SecondsRows
  <2>2. \A r \in SecondsRows : r[1] = "*" => r = <<"*", <<"=">>>>
    BY DEF SecondsRows
  <2> QED  BY <1>0, <2>1, <2>2, TableIs
<1>12. "/" \in DOMAIN Seconds /\ Seconds["/"] = <<"=">>
  <2>1. <<"/", <<"=">>>> \in SecondsRows
    BY DEF SecondsRows
  <2>2. \A r \in SecondsRows : r[1] = "/" => r = <<"/", <<"=">>>>
    BY DEF SecondsRows
  <2> QED  BY <1>0, <2>1, <2>2, TableIs
<1>13. "&" \in DOMAIN Seconds /\ Seconds["&"] = <<"&", "=">>
  <2>1. <<"&", <<"&", "=">>>> \in SecondsRows
    BY DEF SecondsRows
  <2>2. \A r \in SecondsRows : r[1] = "&" => r = <<"&", <<"&", "=">>>>
    BY DEF SecondsRows
  <2> QED  BY <1>0, <2>1, <2>2, TableIs
<1>14. "|" \in DOMAIN Seconds /\ Seconds["|"] = <<"|", "=">>
  <2>1. <<"|", <<"|", "=">>>> \in SecondsRows
    BY DEF SecondsRows
  <2>2. \A r \in SecondsRows : r[1] = "|" => r = <<"|", <<"|", "=">>>>
    BY DEF SecondsRows
  <2> QED  BY <1>0, <2>1, <2>2, TableIs
<1> QED  BY <1>1, <1>2, <1>3, <1>4, <1>5, <1>6, <1>7, <1>8, <1>9, <1>10, <1>11, <1>12,
          <1>13, <1>14

Firsts == {":", ".", "=", "!", "?", "-", "+", "<", ">", "^", "*", "/", "&", "|"}

PlainNames ==
  {":>", "..", "...", "...>", ".=", "=>", "=?>", "==", "===", "==!", "!->", "!!",
    "!!=", "!=", "?->", "?=>", "?>", "??", "->", "-=", "--", "+=", "++", "<--", "<-",
    "<<", "<=", ">>", ">=", "^^", "^=", "*=", "/=", "&&", "&=", "||", "|="}

LEMMA NamesDiffer ==
  /\ HALT \notin PlainNames \union Firsts
  /\ THREAD_BLOCK \notin PlainNames \union Firsts
  /\ HALT # THREAD_BLOCK
  /\ SEMICOLON \notin {"-", "=", ">", "?"} /\ LBRACE \notin {">", "="}
  BY Zenon DEF HALT, THREAD_BLOCK, SEMICOLON, LBRACE, PlainNames, Firsts

LEMMA FirstsAre == DOMAIN Seconds = Firsts
<1>1. ASSUME NEW c \in DOMAIN Seconds PROVE c \in Firsts
  <2>1. \E r \in SecondsRows : r[1] = c
    BY TableFrom DEF Seconds
  <2>2. \A r \in SecondsRows : r[1] \in Firsts
    BY DEF SecondsRows, Firsts
  <2> QED  BY <2>1, <2>2
<1>2. \A c \in Firsts : c \in DOMAIN Seconds
  BY SecondsAre DEF Firsts
<1> QED  BY <1>1, <1>2

Spells(s) == \E op \in DOMAIN Spelling : Spelling[op] = s

LEMMA SpellingsAre == \A r \in SpellingRows : Spells(r[2])
<1>0. Spelling = Table(SpellingRows)
  BY DEF Spelling
<1>1. ASSUME NEW r \in SpellingRows, NEW q \in SpellingRows, q[1] = r[1] PROVE q = r
  <2>1. CASE r[1] \in {":>", "..", "...", "...>", ".="}
    BY <1>1, <2>1, NamesDiffer DEF SpellingRows, PlainNames, Firsts
  <2>2. CASE r[1] \in {"=>", "=?>", "==", "===", "==!"}
    BY <1>1, <2>2, NamesDiffer DEF SpellingRows, PlainNames, Firsts
  <2>3. CASE r[1] \in {"!->", "!!", "!!=", "!=", "?->"}
    BY <1>1, <2>3, NamesDiffer DEF SpellingRows, PlainNames, Firsts
  <2>4. CASE r[1] \in {"?=>", "?>", HALT, "??", "->"}
    BY <1>1, <2>4, NamesDiffer DEF SpellingRows, PlainNames, Firsts
  <2>5. CASE r[1] \in {"-=", "--", "+=", "++", "<--"}
    BY <1>1, <2>5, NamesDiffer DEF SpellingRows, PlainNames, Firsts
  <2>6. CASE r[1] \in {"<-", "<<", "<=", THREAD_BLOCK, ">>"}
    BY <1>1, <2>6, NamesDiffer DEF SpellingRows, PlainNames, Firsts
  <2>7. CASE r[1] \in {">=", "^^", "^=", "*=", "/="}
    BY <1>1, <2>7, NamesDiffer DEF SpellingRows, PlainNames, Firsts
  <2>8. CASE r[1] \in {"&&", "&=", "||", "|="}
    BY <1>1, <2>8, NamesDiffer DEF SpellingRows, PlainNames, Firsts
  <2> QED  BY <2>1, <2>2, <2>3, <2>4, <2>5, <2>6, <2>7, <2>8 DEF SpellingRows
<1> SUFFICES ASSUME NEW r \in SpellingRows PROVE Spells(r[2])
  OBVIOUS
<1>2. <<r[1], r[2]>> \in SpellingRows /\ r = <<r[1], r[2]>>
  BY DEF SpellingRows
<1>3. \A q \in SpellingRows : q[1] = r[1] => q = <<r[1], r[2]>>
  BY <1>1, <1>2
<1>4. r[1] \in DOMAIN Table(SpellingRows) /\ Table(SpellingRows)[r[1]] = r[2]
  BY <1>2, <1>3, TableIs
<1> QED  BY <1>0, <1>4 DEF Spells

(* What the order of the cases comes down to: the character d is tried as  *)
(* the second one behind c.                                                *)
Tried(c, d) == c \in DOMAIN Seconds /\ \E j \in 1..Len(Seconds[c]) : Seconds[c][j] = d

LEMMA TriedAt ==
  ASSUME NEW c \in DOMAIN Seconds, NEW s, Seconds[c] = s, NEW j \in 1..Len(s)
  PROVE  Tried(c, s[j])
  BY DEF Tried

LEMMA TriedAre ==
  /\ Tried(":", ">")
  /\ Tried(".", ".") /\ Tried(".", "=")
  /\ Tried("=", ">") /\ Tried("=", "?") /\ Tried("=", "=")
  /\ Tried("!", "-") /\ Tried("!", "!") /\ Tried("!", "=")
  /\ Tried("?", "-") /\ Tried("?", "=") /\ Tried("?", ">") /\ Tried("?", SEMICOLON) /\ Tried("?", "?")
  /\ Tried("-", ">") /\ Tried("-", "=") /\ Tried("-", "-")
  /\ Tried("+", "=") /\ Tried("+", "+")
  /\ Tried("<", "-") /\ Tried("<", "<") /\ Tried("<", "=")
  /\ Tried(">", LBRACE) /\ Tried(">", ">") /\ Tried(">", "=")
  /\ Tried("^", "^") /\ Tried("^", "=")
  /\ Tried("*", "=")
  /\ Tried("/", "=")
  /\ Tried("&", "&") /\ Tried("&", "=")
  /\ Tried("|", "|") /\ Tried("|", "=")
<1>1. ASSUME NEW c \in DOMAIN Seconds, NEW d1,
            Seconds[c] = <<d1>>
     PROVE  Tried(c, d1)
  <2> DEFINE s == <<d1>>
  <2>1. Len(s) = 1 /\ s[1] = d1
    OBVIOUS
  <2>2. Seconds[c] = s
    BY <1>1
  <2> HIDE DEF s
  <2>3. \A j \in 1..Len(s) : Tried(c, s[j])
    BY <2>2, TriedAt
  <2>4. Tried(c, s[1])
    BY <2>1, <2>3
  <2> QED  BY <2>1, <2>4
<1>2. ASSUME NEW c \in DOMAIN Seconds, NEW d1, NEW d2,
            Seconds[c] = <<d1, d2>>
     PROVE  Tried(c, d1) /\ Tried(c, d2)
  <2> DEFINE s == <<d1, d2>>
  <2>1. Len(s) = 2 /\ s[1] = d1 /\ s[2] = d2
    OBVIOUS
  <2>2. Seconds[c] = s
    BY <1>2
  <2> HIDE DEF s
  <2>3. \A j \in 1..Len(s) : Tried(c, s[j])
    BY <2>2, TriedAt
  <2>4. Tried(c, s[1]) /\ Tried(c, s[2])
    BY <2>1, <2>3
  <2> QED  BY <2>1, <2>4
<1>3. ASSUME NEW c \in DOMAIN Seconds, NEW d1, NEW d2, NEW d3,
            Seconds[c] = <<d1, d2, d3>>
     PROVE  Tried(c, d1) /\ Tried(c, d2) /\ Tried(c, d3)
  <2> DEFINE s == <<d1, d2, d3>>
  <2>1. Len(s) = 3 /\ s[1] = d1 /\ s[2] = d2 /\ s[3] = d3
    OBVIOUS
  <2>2. Seconds[c] = s
    BY <1>3
  <2> HIDE DEF s
  <2>3. \A j \in 1..Len(s) : Tried(c, s[j])
    BY <2>2, TriedAt
  <2>4. Tried(c, s[1]) /\ Tried(c, s[2]) /\ Tried(c, s[3])
    BY <2>1, <2>3
  <2> QED  BY <2>1, <2>4
<1>5. ASSUME NEW c \in DOMAIN Seconds, NEW d1, NEW d2, NEW d3, NEW d4, NEW d5,
            Seconds[c] = <<d1, d2, d3, d4, d5>>
     PROVE  Tried(c, d1) /\ Tried(c, d2) /\ Tried(c, d3) /\ Tried(c, d4) /\ Tried(c, d5)
  <2> DEFINE s == <<d1, d2, d3, d4, d5>>
  <2>1. Len(s) = 5 /\ s[1] = d1 /\ s[2] = d2 /\ s[3] = d3 /\ s[4] = d4 /\ s[5] = d5
    OBVIOUS
  <2>2. Seconds[c] = s
    BY <1>5
  <2> HIDE DEF s
  <2>3. \A j \in 1..Len(s) : Tried(c, s[j])
    BY <2>2, TriedAt
  <2>4. /\ Tried(c, s[1]) /\ Tried(c, s[2]) /\ Tried(c, s[3])
        /\ Tried(c, s[4]) /\ Tried(c, s[5])
    BY <2>1, <2>3
  <2> QED  BY <2>1, <2>4
<1>6. Tried(":", ">")
  BY <1>1, SecondsAre
<1>7. Tried("*", "=")
  BY <1>1, SecondsAre
<1>8. Tried("/", "=")
  BY <1>1, SecondsAre
<1>9. Tried(".", ".") /\ Tried(".", "=")
  BY <1>2, SecondsAre
<1>10. Tried("+", "=") /\ Tried("+", "+")
  BY <1>2, SecondsAre
<1>11. Tried("^", "^") /\ Tried("^", "=")
  BY <1>2, SecondsAre
<1>12. Tried("&", "&") /\ Tried("&", "=")
  BY <1>2, SecondsAre
<1>13. Tried("|", "|") /\ Tried("|", "=")
  BY <1>2, SecondsAre
<1>14. Tried("=", ">") /\ Tried("=", "?") /\ Tried("=", "=")
  BY <1>3, SecondsAre
<1>15. Tried("!", "-") /\ Tried("!", "!") /\ Tried("!", "=")
  BY <1>3, SecondsAre
<1>16. Tried("-", ">") /\ Tried("-", "=") /\ Tried("-", "-")
  BY <1>3, SecondsAre
<1>17. Tried("<", "-") /\ Tried("<", "<") /\ Tried("<", "=")
  BY <1>3, SecondsAre
<1>18. Tried(">", LBRACE) /\ Tried(">", ">") /\ Tried(">", "=")
  BY <1>3, SecondsAre
<1>19. /\ Tried("?", "-") /\ Tried("?", "=") /\ Tried("?", ">")
       /\ Tried("?", SEMICOLON) /\ Tried("?", "?")
  BY <1>5, SecondsAre
<1> QED  BY <1>6, <1>7, <1>8, <1>9, <1>10, <1>11, <1>12, <1>13, <1>14, <1>15, <1>16,
          <1>17, <1>18, <1>19

LEMMA SpellingStarts ==
  ASSUME NEW op \in DOMAIN Spelling
  PROVE  /\ Len(Spelling[op]) \in 2..4 /\ Tried(Spelling[op][1], Spelling[op][2])
         /\ op \notin DOMAIN Seconds
<1>1. PICK r \in SpellingRows : r[1] = op /\ Spelling[op] = r[2]
  <2>1. Spelling = Table(SpellingRows)
    BY DEF Spelling
  <2> QED  BY <2>1, TableFrom
<1>2. op \notin DOMAIN Seconds
  <2>1. \A q \in SpellingRows : q[1] \notin Firsts
    BY NamesDiffer DEF SpellingRows, PlainNames, Firsts
  <2> QED  BY <1>1, <2>1, FirstsAre
<1>3. \A q \in SpellingRows : Len(q[2]) \in 2..4 /\ Tried(q[2][1], q[2][2])
  BY TriedAre DEF SpellingRows
<1> QED  BY <1>1, <1>2, <1>3

(* Each second character makes an operator, or is swallowed unless > comes *)
(* behind it, and none is tried twice.                                     *)
Order(c, s) ==
  /\ Len(s) \in 1..5
  /\ \A j, k \in 1..Len(s) : s[j] = s[k] => j = k
  /\ \A j \in 1..Len(s) : \/ Spells(<<c, s[j]>>)
                          \/ <<c, s[j]>> \in Swallowed /\ Spells(<<c, s[j], ">">>)

LEMMA OrderIs == \A c \in DOMAIN Seconds : Order(c, Seconds[c])
<1>1. ASSUME NEW a, NEW d1, Spells(<<a, d1>>) PROVE Order(a, <<d1>>)
  BY <1>1 DEF Order
<1>2. Order(":", <<">">>)
  <2>1. /\ Spells(<<":", ">">>)
    BY SpellingsAre DEF SpellingRows
  <2> QED  BY <2>1, NamesDiffer DEF Order
<1>3. Order(".", <<".", "=">>)
  <2>1. /\ Spells(<<".", ".">>)
        /\ Spells(<<".", "=">>)
    BY SpellingsAre DEF SpellingRows
  <2> QED  BY <2>1, NamesDiffer DEF Order
<1>4. Order("=", <<">", "?", "=">>)
  <2>1. /\ Spells(<<"=", ">">>)
        /\ Spells(<<"=", "?", ">">>)
        /\ Spells(<<"=", "=">>)
    BY SpellingsAre DEF SpellingRows
  <2>2. {<<"=", "?">>} \subseteq Swallowed
    BY DEF Swallowed
  <2> QED  BY <2>1, <2>2, NamesDiffer DEF Order
<1>5. Order("!", <<"-", "!", "=">>)
  <2>1. /\ Spells(<<"!", "-", ">">>)
        /\ Spells(<<"!", "!">>)
        /\ Spells(<<"!", "=">>)
    BY SpellingsAre DEF SpellingRows
  <2>2. {<<"!", "-">>} \subseteq Swallowed
    BY DEF Swallowed
  <2> QED  BY <2>1, <2>2, NamesDiffer DEF Order
<1>6. Order("?", <<"-", "=", ">", SEMICOLON, "?">>)
  <2>1. /\ Spells(<<"?", "-", ">">>)
        /\ Spells(<<"?", "=", ">">>)
        /\ Spells(<<"?", ">">>)
        /\ Spells(<<"?", SEMICOLON>>)
        /\ Spells(<<"?", "?">>)
    BY SpellingsAre DEF SpellingRows
  <2>2. {<<"?", "-">>, <<"?", "=">>} \subseteq Swallowed
    BY DEF Swallowed
  <2> QED  BY <2>1, <2>2, NamesDiffer DEF Order
<1>7. Order("-", <<">", "=", "-">>)
  <2>1. /\ Spells(<<"-", ">">>)
        /\ Spells(<<"-", "=">>)
        /\ Spells(<<"-", "-">>)
    BY SpellingsAre DEF SpellingRows
  <2> QED  BY <2>1, NamesDiffer DEF Order
<1>8. Order("+", <<"=", "+">>)
  <2>1. /\ Spells(<<"+", "=">>)
        /\ Spells(<<"+", "+">>)
    BY SpellingsAre DEF SpellingRows
  <2> QED  BY <2>1, NamesDiffer DEF Order
<1>9. Order("<", <<"-", "<", "=">>)
  <2>1. /\ Spells(<<"<", "-">>)
        /\ Spells(<<"<", "<">>)
        /\ Spells(<<"<", "=">>)
    BY SpellingsAre DEF SpellingRows
  <2> QED  BY <2>1, NamesDiffer DEF Order
<1>10. Order(">", <<LBRACE, ">", "=">>)
  <2>1. /\ Spells(<<">", LBRACE>>)
        /\ Spells(<<">", ">">>)
        /\ Spells(<<">", "=">>)
    BY SpellingsAre DEF SpellingRows
  <2> QED  BY <2>1, NamesDiffer DEF Order
<1>11. Order("^", <<"^", "=">>)
  <2>1. /\ Spells(<<"^", "^">>)
        /\ Spells(<<"^", "=">>)
    BY SpellingsAre DEF SpellingRows
  <2> QED  BY <2>1, NamesDiffer DEF Order
<1>12. Order("*", <<"=">>)
  <2>1. /\ Spells(<<"*", "=">>)
    BY SpellingsAre DEF SpellingRows
  <2> QED  BY <2>1, NamesDiffer DEF Order
<1>13. Order("/", <<"=">>)
  <2>1. /\ Spells(<<"/", "=">>)
    BY SpellingsAre DEF SpellingRows
  <2> QED  BY <2>1, NamesDiffer DEF Order
<1>14. Order("&", <<"&", "=">>)
  <2>1. /\ Spells(<<"&", "&">>)
        /\ Spells(<<"&", "=">>)
    BY SpellingsAre DEF SpellingRows
  <2> QED  BY <2>1, NamesDiffer DEF Order
<1>15. Order("|", <<"|", "=">>)
  <2>1. /\ Spells(<<"|", "|">>)
        /\ Spells(<<"|", "=">>)
    BY SpellingsAre DEF SpellingRows
  <2> QED  BY <2>1, NamesDiffer DEF Order
<1> QED  BY <1>2, <1>3, <1>4, <1>5, <1>6, <1>7, <1>8, <1>9, <1>10, <1>11, <1>12, <1>13,
          <1>14, <1>15, SecondsAre, FirstsAre DEF Firsts

LEMMA Smallest ==
  ASSUME NEW S \in SUBSET Nat, S # {} PROVE \E n \in S : \A m \in S : n <= m
<1>1. PICK n \in S : \A m \in S : <<m, n>> \notin OpToRel(<, Nat)
  BY NatLessThanWellFounded, WFMin
<1>2. \A m \in S : ~(m < n)
  BY <1>1 DEF OpToRel
<1> QED  BY <1>2

(* The function of FoundAt exists, and goes through the second characters. *)
Here(i, d, j) ==
  {op \in OpsFrom[Sym(i)] :
    Spelling[op][2] = d /\ \A k \in 2..Len(Spelling[op]) : Sym(j + k - 2) = Spelling[op][k]}

Try(i, found, d) ==
  LET ops == Here(i, d, found.next)
  IN  IF found.op # Sym(i) \/ Sym(found.next) # d THEN found
      ELSE IF ops = {} THEN [found EXCEPT !.next = @ + 1]
      ELSE [op |-> Longest(ops), next |-> found.next + Len(Spelling[Longest(ops)]) - 1]

TryAt(h, i, k) ==
  IF k = 0 THEN [op |-> Sym(i), next |-> i + 1] ELSE Try(i, h[k - 1], Seconds[Sym(i)][k])
IsTry(h, i, n) == h = [k \in 0..n |-> TryAt(h, i, k)]

LEMMA TryExists == ASSUME NEW i, NEW n \in Nat PROVE \E h : IsTry(h, i, n)
<1> DEFINE Bad == {m \in 0..n : ~\E h : IsTry(h, i, m)}
<1> SUFFICES ASSUME Bad # {} PROVE FALSE
  OBVIOUS
<1>1. PICK m \in Bad : \A l \in Bad : m <= l
  <2>1. Bad \in SUBSET Nat
    OBVIOUS
  <2> HIDE DEF Bad
  <2> QED  BY <2>1, Smallest
<1>2. CASE m = 0
  <2> DEFINE b == [op |-> Sym(i), next |-> i + 1]
             g == [k \in 0..0 |-> b]
  <2>1. g = [k \in 0..0 |-> TryAt(g, i, k)]
    BY DEF TryAt
  <2>2. IsTry(g, i, 0)
    BY <2>1 DEF IsTry
  <2> QED  BY <1>1, <1>2, <2>2
<1>3. CASE m # 0
  <2>1. m - 1 \in 0..n /\ m - 1 \notin Bad /\ m \in Nat
    BY <1>1, <1>3
  <2>2. PICK h : IsTry(h, i, m - 1)
    BY <2>1
  <2>3. h = [k \in 0..(m - 1) |-> TryAt(h, i, k)]
    BY <2>2 DEF IsTry
  <2> DEFINE g == [k \in 0..m |-> TryAt(h, i, k)]
  <2>4. \A r \in 0..(m - 1) : g[r] = h[r]
    <3> TAKE r \in 0..(m - 1)
    <3>1. r \in 0..m /\ h[r] = TryAt(h, i, r)
      BY <2>1, <2>3
    <3> QED  BY <3>1
  <2>5. ASSUME NEW k \in 0..m PROVE TryAt(h, i, k) = TryAt(g, i, k)
    <3>1. k = 0 \/ g[k - 1] = h[k - 1]
      <4>1. k # 0 => k - 1 \in 0..(m - 1)
        BY <2>1
      <4> HIDE DEF g
      <4> QED  BY <2>4, <4>1
    <3> HIDE DEF g
    <3> QED  BY <3>1 DEF TryAt
  <2>6. g = [k \in 0..m |-> TryAt(g, i, k)]
    BY <2>5
  <2>7. IsTry(g, i, m)
    BY <2>6 DEF IsTry
  <2> HIDE DEF g
  <2> QED  BY <1>1, <2>7
<1> QED  BY <1>2, <1>3

LEMMA FoundAtIs ==
  ASSUME NEW i, Sym(i) \in DOMAIN Seconds
  PROVE  \E h : FoundAt(i) = h[Len(Seconds[Sym(i)])] /\ IsTry(h, i, Len(Seconds[Sym(i)]))
<1> DEFINE n == Len(Seconds[Sym(i)])
           A == CHOOSE h : h = [k \in 0..n |-> TryAt(h, i, k)]
<1>1. FoundAt(i) = A[n]
  BY DEF FoundAt, TryAt, Try, Here
<1>2. n \in Nat
  BY OrderIs DEF Order
<1>3. \E h : h = [k \in 0..n |-> TryAt(h, i, k)]
  <2> HIDE DEF n
  <2>1. PICK h : IsTry(h, i, n)
    BY <1>2, TryExists
  <2>2. h = [k \in 0..n |-> TryAt(h, i, k)]
    BY <2>1 DEF IsTry
  <2> QED  BY <2>2, Zenon
<1>4. A = [k \in 0..n |-> TryAt(A, i, k)]
  BY <1>3, Zenon
<1> HIDE DEF A
<1>5. IsTry(A, i, n)
  BY <1>4 DEF IsTry
<1> QED  BY <1>1, <1>5

(* How an operator is found: none that does not start with the first two   *)
(* symbols, and among those that fit the longest one.                      *)
Fitting(i) == {op \in DOMAIN Spelling : Fits(op, i)}

LEMMA Greatest ==
  ASSUME NEW S, S # {}, NEW f, \A p \in S : f[p] \in 2..4
  PROVE  \E o \in S : \A p \in S : f[o] >= f[p]
<1>1. CASE \E o \in S : f[o] = 4
  BY <1>1
<1>2. CASE (\A o \in S : f[o] # 4) /\ \E o \in S : f[o] = 3
  BY <1>2
<1>3. CASE \A o \in S : f[o] \notin {3, 4}
  BY <1>3
<1> QED  BY <1>1, <1>2, <1>3

LEMMA LongestIs ==
  ASSUME NEW ops \in SUBSET DOMAIN Spelling, ops # {}
  PROVE  /\ Longest(ops) \in ops
         /\ \A p \in ops : Len(Spelling[p]) <= Len(Spelling[Longest(ops)])
<1>1. \A p \in ops : Len(Spelling[p]) \in 2..4
  BY SpellingStarts
<1>2. \E o \in ops : \A p \in ops : Len(Spelling[o]) >= Len(Spelling[p])
  <2> DEFINE f == [p \in ops |-> Len(Spelling[p])]
  <2>1. \A p \in ops : f[p] = Len(Spelling[p]) /\ f[p] \in 2..4
    BY <1>1
  <2> HIDE DEF f
  <2>2. \E o \in ops : \A p \in ops : f[o] >= f[p]
    BY <2>1, Greatest
  <2> QED  BY <2>1, <2>2
<1>3. Longest(ops) \in ops /\ \A p \in ops : Len(Spelling[Longest(ops)]) >= Len(Spelling[p])
  BY <1>2, Zenon DEF Longest
<1> QED  BY <1>1, <1>3

LEMMA FittingIs ==
  ASSUME NEW i \in Int, NEW op \in DOMAIN Spelling, Sym(i) \in DOMAIN Seconds
  PROVE  /\ Fits(op, i) => Spelling[op][1] = Sym(i) /\ Spelling[op][2] = Sym(i + 1)
         /\ op \in Here(i, Sym(i + 1), i + 1) <=> Fits(op, i)
<1> DEFINE n == Len(Spelling[op])
<1>1. n \in 2..4
  BY SpellingStarts
<1> HIDE DEF n
<1>2. /\ 1 \in 1..n /\ 2 \in 1..n /\ 2 \in 2..n /\ i + 1 - 1 = i /\ i + 2 - 1 = i + 1
      /\ i + 1 + 2 - 2 = i + 1
  BY <1>1
<1>3. \A k \in 2..n : k \in 1..n /\ i + 1 + k - 2 = i + k - 1
  BY <1>1
<1>4. \A k \in 1..n : k = 1 \/ k \in 2..n
  BY <1>1
<1>5. Fits(op, i) <=> \A k \in 1..n : Sym(i + k - 1) = Spelling[op][k]
  BY DEF Fits, n
<1>6. Fits(op, i) => Spelling[op][1] = Sym(i) /\ Spelling[op][2] = Sym(i + 1)
  BY <1>2, <1>5
<1>7. Fits(op, i) <=> Spelling[op][1] = Sym(i)
                      /\ \A k \in 2..n : Sym(i + 1 + k - 2) = Spelling[op][k]
  BY <1>2, <1>3, <1>4, <1>5
<1>8. op \in OpsFrom[Sym(i)] <=> Spelling[op][1] = Sym(i)
  BY DEF OpsFrom
<1>9. op \in Here(i, Sym(i + 1), i + 1) <=>
        /\ Spelling[op][1] = Sym(i) /\ Spelling[op][2] = Sym(i + 1)
        /\ \A k \in 2..n : Sym(i + 1 + k - 2) = Spelling[op][k]
  BY <1>8 DEF Here, OpsFrom, n
<1> QED  BY <1>6, <1>7, <1>9

Alone(i) == [op |-> Sym(i), next |-> i + 1]

LEMMA TryUp ==
  ASSUME NEW i, NEW n \in Nat, NEW h, IsTry(h, i, n)
  PROVE  h[0] = Alone(i) /\ \A k \in 1..n : h[k] = Try(i, h[k - 1], Seconds[Sym(i)][k])
<1>1. h = [k \in 0..n |-> TryAt(h, i, k)]
  BY DEF IsTry
<1>2. \A k \in 0..n : h[k] = TryAt(h, i, k)
  BY <1>1
<1>3. h[0] = Alone(i)
  BY <1>2 DEF TryAt, Alone
<1>4. ASSUME NEW k \in 1..n PROVE h[k] = Try(i, h[k - 1], Seconds[Sym(i)][k])
  <2>1. k \in 0..n /\ k # 0
    OBVIOUS
  <2> QED  BY <1>2, <2>1 DEF TryAt
<1> QED  BY <1>3, <1>4

(* What a step leaves stays, up to some place.                             *)
LEMMA Stays ==
  ASSUME NEW h, NEW a \in Nat, NEW b \in Nat,
         \A k \in (a + 1)..b : h[k - 1] = h[a] => h[k] = h[a]
  PROVE  \A k \in a..b : h[k] = h[a]
<1> DEFINE Bad == {k \in a..b : h[k] # h[a]}
<1> SUFFICES ASSUME Bad # {} PROVE FALSE
  OBVIOUS
<1>1. PICK m \in Bad : \A l \in Bad : m <= l
  <2>1. Bad \in SUBSET Nat
    OBVIOUS
  <2> HIDE DEF Bad
  <2> QED  BY <2>1, Smallest
<1>2. m \in (a + 1)..b /\ m - 1 \in a..b /\ ~(m <= m - 1)
  BY <1>1
<1>3. m - 1 \notin Bad
  BY <1>1, <1>2
<1> QED  BY <1>1, <1>2, <1>3

LEMMA TryOther ==
  ASSUME NEW i, NEW d, d # Sym(i + 1) PROVE Try(i, Alone(i), d) = Alone(i)
  BY DEF Try, Alone

LEMMA TryThis ==
  ASSUME NEW i \in Int, Here(i, Sym(i + 1), i + 1) # {}
  PROVE  LET o == Longest(Here(i, Sym(i + 1), i + 1))
         IN  Try(i, Alone(i), Sym(i + 1))
               = [op |-> o, next |-> i + 1 + Len(Spelling[o]) - 1]
<1>1. Alone(i).op = Sym(i) /\ Alone(i).next = i + 1
  BY DEF Alone
<1> QED  BY <1>1 DEF Try

LEMMA TryDone ==
  ASSUME NEW i, NEW found, NEW d, found.op # Sym(i) PROVE Try(i, found, d) = found
  BY DEF Try

(* An operator that fits starts with a second character that is tried.     *)
LEMMA FittingTried ==
  ASSUME NEW i \in Int, Sym(i) \in DOMAIN Seconds, NEW op \in Fitting(i)
  PROVE  Tried(Sym(i), Sym(i + 1))
<1>1. op \in DOMAIN Spelling /\ Fits(op, i)
  BY DEF Fitting
<1>2. Spelling[op][1] = Sym(i) /\ Spelling[op][2] = Sym(i + 1)
  BY <1>1, FittingIs
<1> QED  BY <1>1, <1>2, SpellingStarts

(* A spelled operator that the text has is one that fits.                  *)
LEMMA SpelledFits ==
  ASSUME NEW i \in Int, NEW s, Spells(s), \A k \in 1..Len(s) : Sym(i + k - 1) = s[k]
  PROVE  Fitting(i) # {}
  BY DEF Spells, Fitting, Fits

LEMMA TwoSymbols ==
  ASSUME NEW i \in Int, Spells(<<Sym(i), Sym(i + 1)>>) PROVE Fitting(i) # {}
<1> DEFINE s == <<Sym(i), Sym(i + 1)>>
<1>1. Len(s) = 2 /\ s[1] = Sym(i) /\ s[2] = Sym(i + 1) /\ Spells(s)
  OBVIOUS
<1> HIDE DEF s
<1>2. \A k \in 1..Len(s) : Sym(i + k - 1) = s[k]
  <2>1. i + 1 - 1 = i /\ i + 2 - 1 = i + 1 /\ \A k \in 1..Len(s) : k = 1 \/ k = 2
    BY <1>1
  <2> QED  BY <1>1, <2>1
<1> QED  BY <1>1, <1>2, SpelledFits

LEMMA ThreeSymbols ==
  ASSUME NEW i \in Int, Spells(<<Sym(i), Sym(i + 1), Sym(i + 2)>>) PROVE Fitting(i) # {}
<1> DEFINE s == <<Sym(i), Sym(i + 1), Sym(i + 2)>>
<1>1. Len(s) = 3 /\ s[1] = Sym(i) /\ s[2] = Sym(i + 1) /\ s[3] = Sym(i + 2) /\ Spells(s)
  OBVIOUS
<1> HIDE DEF s
<1>2. \A k \in 1..Len(s) : Sym(i + k - 1) = s[k]
  <2>1. /\ i + 1 - 1 = i /\ i + 2 - 1 = i + 1 /\ i + 3 - 1 = i + 2
        /\ \A k \in 1..Len(s) : k = 1 \/ k = 2 \/ k = 3
    BY <1>1
  <2> QED  BY <1>1, <2>1
<1> QED  BY <1>1, <1>2, SpelledFits

(* What FoundAt finds.                                                     *)
Swallows(i) == <<Sym(i), Sym(i + 1)>> \in Swallowed /\ Sym(i + 2) # ">"
FoundLongest(i, found) ==
  \/ Swallows(i)
  \/ Fitting(i) = {} /\ found = Alone(i)
  \/ /\ found.op \in Fitting(i) /\ found.next = i + Len(Spelling[found.op])
     /\ \A op \in Fitting(i) : Len(Spelling[op]) <= Len(Spelling[found.op])

LEMMA FoundIsLongest ==
  ASSUME NEW i \in Int, Sym(i) \in DOMAIN Seconds
  PROVE  FoundLongest(i, FoundAt(i))
<1> DEFINE s == Seconds[Sym(i)]
           n == Len(s)
           ops == Here(i, Sym(i + 1), i + 1)
<1>1. PICK h : FoundAt(i) = h[n] /\ IsTry(h, i, n)
  BY FoundAtIs
<1>2. Order(Sym(i), s) /\ n \in 1..5
  BY OrderIs DEF Order
<1> HIDE DEF s
<1>3. h[0] = Alone(i) /\ \A k \in 1..n : h[k] = Try(i, h[k - 1], s[k])
  BY <1>1, <1>2, TryUp DEF s
<1>4. ops = Fitting(i)
  <2>1. ops \subseteq DOMAIN Spelling
    BY DEF Here, OpsFrom
  <2> QED  BY <2>1, FittingIs DEF Fitting
<1> HIDE DEF ops, n
<1>5. CASE \A j \in 1..n : s[j] # Sym(i + 1)
  <2>1. Fitting(i) = {}
    BY <1>5, FittingTried DEF Tried, s, n
  <2>2. \A k \in (0 + 1)..n : h[k - 1] = h[0] => h[k] = h[0]
    BY <1>3, <1>5, TryOther
  <2>3. \A k \in 0..n : h[k] = h[0]
    BY <1>2, <2>2, Stays
  <2>4. h[n] = Alone(i)
    BY <1>2, <1>3, <2>3
  <2> QED  BY <1>1, <2>1, <2>4 DEF FoundLongest
<1>6. ASSUME NEW m \in 1..n, s[m] = Sym(i + 1), Fitting(i) = {} PROVE Swallows(i)
  <2>1. ~Spells(<<Sym(i), s[m]>>)
    BY <1>6, TwoSymbols
  <2>2. <<Sym(i), s[m]>> \in Swallowed /\ Spells(<<Sym(i), s[m], ">">>)
    BY <1>2, <2>1 DEF Order, n
  <2>3. Sym(i + 2) # ">"
    BY <1>6, <2>2, ThreeSymbols
  <2> QED  BY <1>6, <2>2, <2>3 DEF Swallows
<1>7. ASSUME NEW m \in 1..n, s[m] = Sym(i + 1), Fitting(i) # {} PROVE FoundLongest(i, h[n])
  <2>1. \A j \in 1..n : s[j] = s[m] => j = m
    BY <1>2 DEF Order, n
  <2>2. m - 1 \in Nat /\ m - 1 \in 0..n /\ m \in Nat /\ n \in Nat
    BY <1>2
  <2>3. h[m - 1] = Alone(i)
    <3>1. \A k \in (0 + 1)..(m - 1) : k \in 1..n /\ k # m
      BY <2>2
    <3>2. \A k \in (0 + 1)..(m - 1) : h[k - 1] = h[0] => h[k] = h[0]
      BY <1>3, <1>7, <2>1, <3>1, TryOther
    <3>3. \A k \in 0..(m - 1) : h[k] = h[0]
      BY <2>2, <3>2, Stays
    <3>4. m - 1 \in 0..(m - 1)
      BY <2>2
    <3> QED  BY <1>3, <3>3, <3>4
  <2> DEFINE o == Longest(Fitting(i))
             e == i + 1 + Len(Spelling[o]) - 1
  <2>4. o \in Fitting(i) /\ \A p \in Fitting(i) : Len(Spelling[p]) <= Len(Spelling[o])
    BY <1>7, LongestIs DEF Fitting
  <2>5. h[m] = Try(i, Alone(i), Sym(i + 1))
    BY <1>3, <1>7, <2>3
  <2>6. Try(i, Alone(i), Sym(i + 1)) = [op |-> o, next |-> e]
    BY <1>4, <1>7, TryThis DEF ops
  <2> HIDE DEF o, e
  <2>7. h[m].op = o /\ h[m].next = e
    BY <2>5, <2>6
  <2>8. o # Sym(i)
    BY <2>4, SpellingStarts DEF Fitting
  <2>9. \A k \in (m + 1)..n : h[k - 1] = h[m] => h[k] = h[m]
    <3>1. \A k \in (m + 1)..n : k \in 1..n
      BY <2>2
    <3> QED  BY <1>3, <2>7, <2>8, <3>1, TryDone
  <2>10. h[n] = h[m]
    <3>1. \A k \in m..n : h[k] = h[m]
      BY <2>2, <2>9, Stays
    <3>2. n \in m..n
      BY <2>2
    <3> QED  BY <3>1, <3>2
  <2>11. Len(Spelling[o]) \in 2..4
    BY <2>4, SpellingStarts DEF Fitting
  <2>12. h[n].op = o /\ h[n].next = i + Len(Spelling[o])
    <3> DEFINE z == Len(Spelling[o])
    <3>1. z \in Int
      BY <2>11
    <3> HIDE DEF z
    <3>2. i + 1 + z - 1 = i + z
      BY <3>1
    <3> QED  BY <2>7, <2>10, <3>2 DEF z, e
  <2> QED  BY <2>4, <2>12 DEF FoundLongest
<1> QED  BY <1>1, <1>5, <1>6, <1>7 DEF FoundLongest

IsFound(found) == found = [op |-> found.op, next |-> found.next] /\ found.next \in Nat

LEMMA TryFound ==
  ASSUME NEW i, Sym(i) \in DOMAIN Seconds, NEW found, IsFound(found), NEW d
  PROVE  IsFound(Try(i, found, d))
<1> DEFINE ops == Here(i, d, found.next)
<1>1. CASE found.op # Sym(i) \/ Sym(found.next) # d
  BY <1>1 DEF Try
<1>2. CASE ~(found.op # Sym(i) \/ Sym(found.next) # d) /\ ops = {}
  <2> DEFINE a == found.op
             b == found.next
  <2>1. found = [op |-> a, next |-> b] /\ b \in Nat
    BY DEF IsFound
  <2>2. Try(i, found, d) = [found EXCEPT !.next = @ + 1]
    BY <1>2 DEF Try
  <2> HIDE DEF a, b
  <2>3. [found EXCEPT !.next = @ + 1] = [op |-> a, next |-> b + 1]
    BY <2>1
  <2>4. b + 1 \in Nat
    BY <2>1
  <2> QED  BY <2>2, <2>3, <2>4 DEF IsFound
<1>3. CASE ~(found.op # Sym(i) \/ Sym(found.next) # d) /\ ops # {}
  <2> DEFINE o == Longest(ops)
             z == Len(Spelling[o])
             e == found.next + z - 1
  <2>1. Try(i, found, d) = [op |-> o, next |-> e]
    BY <1>3 DEF Try
  <2>2. ops \subseteq DOMAIN Spelling
    BY DEF Here, OpsFrom
  <2> HIDE DEF ops
  <2>3. o \in DOMAIN Spelling
    BY <1>3, <2>2, LongestIs
  <2>4. z \in 2..4
    BY <2>3, SpellingStarts
  <2> HIDE DEF o, z
  <2>5. e \in Nat
    BY <2>4 DEF IsFound
  <2> HIDE DEF e
  <2> QED  BY <2>1, <2>5 DEF IsFound
<1> QED  BY <1>1, <1>2, <1>3

LEMMA FoundNext ==
  ASSUME NEW i \in Nat, Sym(i) \in DOMAIN Seconds PROVE FoundAt(i).next \in Nat
<1> DEFINE n == Len(Seconds[Sym(i)])
<1>1. PICK h : FoundAt(i) = h[n] /\ IsTry(h, i, n)
  BY FoundAtIs
<1>2. n \in Nat
  BY OrderIs DEF Order
<1> HIDE DEF n
<1>3. h[0] = Alone(i) /\ \A k \in 1..n : h[k] = Try(i, h[k - 1], Seconds[Sym(i)][k])
  BY <1>1, <1>2, TryUp
<1>4. IsFound(h[0])
  <2>1. i + 1 \in Nat
    OBVIOUS
  <2> QED  BY <1>3, <2>1 DEF Alone, IsFound
<1>5. \A k \in 1..n : IsFound(h[k - 1]) => IsFound(h[k])
  BY <1>3, TryFound
<1> DEFINE Bad == {k \in 0..n : ~IsFound(h[k])}
<1>6. Bad = {}
  <2> SUFFICES ASSUME Bad # {} PROVE FALSE
    OBVIOUS
  <2>1. PICK m \in Bad : \A l \in Bad : m <= l
    <3>1. Bad \in SUBSET Nat
      OBVIOUS
    <3> HIDE DEF Bad
    <3> QED  BY <3>1, Smallest
  <2>2. m # 0 /\ m \in 0..n /\ ~IsFound(h[m])
    BY <1>4, <2>1
  <2>3. m \in 1..n /\ m - 1 \in 0..n /\ ~(m <= m - 1)
    BY <1>2, <2>2
  <2>4. m - 1 \notin Bad
    BY <2>1, <2>3
  <2>5. IsFound(h[m - 1])
    BY <2>3, <2>4
  <2> QED  BY <1>5, <2>2, <2>3, <2>5
<1>7. IsFound(h[n])
  BY <1>2, <1>6
<1> QED  BY <1>1, <1>7 DEF IsFound

(* No token but an operator is known by the text of one.                   *)
OpNames == {r[1] : r \in SpellingRows} \union Firsts
OtherTypes ==
  {"EOF", "error", "num", "str", "chr", "(e)", "fn", "type", "id"}
    \union {"v:", "c:", "m:", "r:", "t:", "o:", "f:", "nt:", "struct:", "enum:", "union:"}
    \union Keywords
OtherSingles == {"(", ")", LBRACE, RBRACE, "[", "]", COMMA, SEMICOLON, "@", "%", "~"}

LEMMA SpellingNames == \A op \in DOMAIN Spelling : \E r \in SpellingRows : r[1] = op
<1>1. Spelling = Table(SpellingRows)
  BY DEF Spelling
<1> QED  BY <1>1, TableFrom

LEMMA OpNamesAre == DOMAIN Spelling \union DOMAIN Seconds \subseteq OpNames
  BY SpellingNames, FirstsAre DEF OpNames

LEMMA SinglesDiffer ==
  \A t \in OtherSingles : t \notin {r[1] : r \in SpellingRows}
<1>1. \A r \in SpellingRows : r[1] \in PlainNames \union {HALT, THREAD_BLOCK}
  BY DEF SpellingRows, PlainNames
<1>2. \A t \in OtherSingles : t \notin PlainNames \union {HALT, THREAD_BLOCK}
  BY Zenon DEF OtherSingles, PlainNames, HALT, THREAD_BLOCK, LBRACE, RBRACE, COMMA,
               SEMICOLON
<1> QED  BY <1>1, <1>2

LEMMA OthersDiffer == OtherTypes \intersect OpNames = {}
<1>1. \A t \in OtherTypes : t # HALT /\ t # THREAD_BLOCK
  BY Zenon DEF OtherTypes, Keywords, HALT, THREAD_BLOCK
<1>2. \A t \in OtherTypes : t \notin Firsts
  BY DEF OtherTypes, Keywords, Firsts
<1>3. \A t \in OtherTypes : \A r \in SpellingRows : r[1] # t
  <2>1. \A r \in SpellingRows : r[1] \in PlainNames \union {HALT, THREAD_BLOCK}
    BY DEF SpellingRows, PlainNames
  <2>2. \A t \in OtherTypes : t \notin PlainNames
    BY DEF OtherTypes, Keywords, PlainNames
  <2> QED  BY <1>1, <2>1, <2>2
<1> QED  BY <1>2, <1>3 DEF OpNames

(* The lexer: every token it returns, and where it goes on.                *)
LongestAt(t) ==
  \/ Swallows(t.from)
  \/ Fitting(t.from) = {} /\ t.type = Sym(t.from) /\ t.next = t.from + 1
  \/ /\ t.type \in Fitting(t.from) /\ t.next = t.from + Len(Spelling[t.type])
     /\ \A op \in Fitting(t.from) : Len(Spelling[op]) <= Len(Spelling[t.type])

IsOp(t) == t.type \in DOMAIN Spelling \union DOMAIN Seconds

LexInv ==
  /\ Len(text) \in Nat /\ pos \in Nat /\ IsSeq(toks)
  /\ \A t : toks # <<>> /\ t = toks[Len(toks)] /\ IsOp(t) => LongestAt(t)

LEMMA LexInvMeans == ASSUME LexInv PROVE LongestOperator
  BY DEF LexInv, LongestOperator, LongestAt, IsOp, Fitting, Swallows, Last

LEMMA LexInvStarts == ASSUME TextsAssumption, LexInit PROVE LexInv
<1>1. Len(text) \in Nat
  BY LenProperties DEF LexInit, TextsAssumption
<1>2. IsSeq(<<>>)
  BY DEF IsSeq
<1> QED  BY <1>1, <1>2 DEF LexInit, LexInv

LEMMA LexInvStays == ASSUME LexInv, text' = text, toks' = toks, pos' \in Nat PROVE LexInv'
<1>1. \A t : LongestAt(t)' <=> LongestAt(t)
  BY DEF LongestAt, Swallows, Fitting, Fits, Sym
<1>2. \A t : IsOp(t)' <=> IsOp(t)
  BY DEF IsOp
<1> QED  BY <1>1, <1>2 DEF LexInv, IsSeq

LEMMA Yields ==
  ASSUME LexInv,
         \E tok : Yield(tok) /\ tok.next \in Nat /\ (IsOp(tok) => LongestAt(tok))
  PROVE  LexInv'
<1>1. PICK tok : Yield(tok) /\ tok.next \in Nat /\ (IsOp(tok) => LongestAt(tok))
  OBVIOUS
<1>2. toks' = Append(toks, tok) /\ pos' = tok.next /\ text' = text
  BY <1>1 DEF Yield
<1>3. LongestAt(tok)' <=> LongestAt(tok)
  BY <1>2 DEF LongestAt, Swallows, Fitting, Fits, Sym
<1>4. IsSeq(Append(toks, tok)) /\ Append(toks, tok)[Len(Append(toks, tok))] = tok
  <2>1. IsSeq(toks)
    BY DEF LexInv
  <2> QED  BY <2>1, AppendSeq
<1>5. IsSeq(toks)' /\ toks'[Len(toks')] = tok
  BY <1>2, <1>4 DEF IsSeq
<1>6. IsOp(tok)' <=> IsOp(tok)
  BY DEF IsOp
<1>7. (Len(text) \in Nat)' /\ (pos \in Nat)'
  BY <1>1, <1>2 DEF LexInv
<1> QED  BY <1>1, <1>3, <1>5, <1>6, <1>7 DEF LexInv

LEMMA FirstIs ==
  ASSUME NEW stops \in SUBSET Nat, Len(text) \in Nat PROVE First(stops) \in Nat
<1> DEFINE S == stops \union {Len(text) + 1}
<1>1. S \in SUBSET Nat /\ S # {}
  <2>1. Len(text) + 1 \in Nat
    OBVIOUS
  <2> DEFINE e == Len(text) + 1
  <2> HIDE DEF e
  <2>2. stops \union {e} \in SUBSET Nat /\ stops \union {e} # {}
    BY <2>1 DEF e
  <2> QED  BY <2>2 DEF e
<1> HIDE DEF S
<1>2. \E x \in S : \A y \in S : x <= y
  BY <1>1, Smallest
<1>3. Min(S) \in S
  BY <1>2, Zenon DEF Min
<1> QED  BY <1>1, <1>3 DEF First, S

LEMMA FromIs == ASSUME Len(text) \in Nat, NEW i \in Nat PROVE From(i) \subseteq Nat
  BY DEF From

(* A token of another type.                                                *)
LEMMA OtherNotOp == ASSUME NEW t, t.type \in OtherTypes PROVE ~IsOp(t)
  BY OthersDiffer, OpNamesAre DEF IsOp

LEMMA YieldsOther ==
  ASSUME LexInv, \E type, val, next : /\ Yield(Token(type, val, next)) /\ next \in Nat
                                      /\ type \in OtherTypes
  PROVE  LexInv'
<1>1. PICK type, val, next :
        Yield(Token(type, val, next)) /\ next \in Nat /\ type \in OtherTypes
  OBVIOUS
<1>2. Token(type, val, next).next = next /\ Token(type, val, next).type = type
  BY DEF Token
<1>3. ~IsOp(Token(type, val, next))
  BY <1>1, <1>2, OtherNotOp
<1> QED  BY <1>1, <1>2, <1>3, Yields

LEMMA TypeOther == ASSUME NEW next PROVE IdentifierType(next) \in OtherTypes
<1>1. \A w \in DOMAIN PrefixType : PrefixType[w] \in OtherTypes
  BY DEF PrefixType, OtherTypes
<1>2. {"fn", "type", "id"} \subseteq OtherTypes /\ Keywords \subseteq OtherTypes
  BY DEF OtherTypes
<1> DEFINE w == Sym(pos)
           colon == Sym(pos + 1) = ":" /\ next > pos + 1
<1>3. IdentifierType(next) =
        CASE colon /\ w = "f" /\ next = pos + 2 -> "fn"
          [] colon /\ w \in DOMAIN PrefixType -> PrefixType[w]
          [] next = pos + 1 /\ w \in Keywords -> w
          [] next = pos + 1 /\ w \in DataTypes -> "type"
          [] OTHER -> "id"
  BY DEF IdentifierType
<1> HIDE DEF w, colon
<1> QED  BY <1>1, <1>2, <1>3

LEMMA OperatorYields == ASSUME LexInv, Operator PROVE LexInv'
<1> DEFINE found == FoundAt(pos)
           tok == Token(found.op, found.op, found.next)
<1>1. Yield(tok) /\ Sym(pos) \in DOMAIN Seconds /\ pos \in Int /\ pos \in Nat
  BY DEF Operator, LexInv
<1>2. /\ tok.type = found.op /\ tok.from = pos /\ tok.next = found.next
  BY DEF Token
<1>3. FoundLongest(pos, found)
  BY <1>1, FoundIsLongest
<1>4. found.next \in Nat
  BY <1>1, FoundNext
<1> HIDE DEF tok, found
<1>5. LongestAt(tok)
  <2>1. CASE Swallows(pos)
    BY <1>2, <2>1 DEF LongestAt
  <2>2. CASE Fitting(pos) = {} /\ found = Alone(pos)
    BY <1>2, <2>2 DEF LongestAt, Alone
  <2>3. CASE ~Swallows(pos) /\ ~(Fitting(pos) = {} /\ found = Alone(pos))
    BY <1>2, <1>3, <2>3 DEF LongestAt, FoundLongest
  <2> QED  BY <2>1, <2>2, <2>3
<1> QED  BY <1>1, <1>2, <1>4, <1>5, Yields

LEMMA LexInvSteps == ASSUME LexInv, NextToken PROVE LexInv'
<1>0. Len(text) \in Nat /\ pos \in Nat /\ \A k \in Nat : From(pos + k) \subseteq Nat
  BY FromIs DEF LexInv
<1>1. ASSUME NEW i \in Nat, SkipTo(i) PROVE LexInv'
  BY <1>1, LexInvStays DEF SkipTo
<1>2. CASE Space
  <2>1. SkipTo(pos + 1)
    BY <1>2, Zenon DEF Space
  <2>2. pos + 1 \in Nat
    BY <1>0
  <2> QED  BY <1>1, <2>1, <2>2
<1>3. CASE LineComment
  <2> DEFINE i == First({j \in From(pos) : Sym(j) = "nl"})
  <2>1. SkipTo(i)
    BY <1>3 DEF LineComment
  <2>2. {j \in From(pos) : Sym(j) = "nl"} \in SUBSET Nat
    BY <1>0, FromIs
  <2>3. i \in Nat
    BY <1>0, <2>2, FirstIs
  <2> HIDE DEF i
  <2> QED  BY <1>1, <2>1, <2>3
<1>4. CASE BlockComment
  <2> DEFINE S == {k \in From(pos + 2) : Sym(k) = "*" /\ Sym(k + 1) = "/"}
             i == IF First(S) <= Len(text) THEN First(S) + 2 ELSE Len(text) + 1
  <2>1. SkipTo(i)
    BY <1>4 DEF BlockComment
  <2>2. S \in SUBSET Nat
    BY <1>0
  <2>3. First(S) \in Nat
    <3> HIDE DEF S
    <3> QED  BY <1>0, <2>2, FirstIs
  <2>4. i \in Nat
    <3> HIDE DEF S
    <3> QED  BY <1>0, <2>3
  <2> HIDE DEF i
  <2> QED  BY <1>1, <2>1, <2>4
<1>5. CASE EndOfText
  <2>1. Yield(Token("EOF", "EOF", pos)) /\ "EOF" \in OtherTypes
    BY <1>5 DEF EndOfText, OtherTypes
  <2> QED  BY <1>0, <2>1, YieldsOther
<1>6. CASE Identifier
  <2> DEFINE S == {j \in From(pos + 1) : ~Continues(j)}
             n == First(S)
  <2>1. Yield(Token(IdentifierType(n), Sym(n - 1), n))
    BY <1>6 DEF Identifier
  <2>2. S \in SUBSET Nat
    BY <1>0
  <2>3. n \in Nat
    <3> HIDE DEF S
    <3> QED  BY <1>0, <2>2, FirstIs
  <2> HIDE DEF n
  <2> QED  BY <2>1, <2>3, TypeOther, YieldsOther
<1>7. CASE Number
  <2> DEFINE n == IF Sym(pos + 1) = "." /\ Sym(pos + 2) \in Numbers THEN pos + 3
                  ELSE pos + 1
  <2>1. Yield(Token("num", Sym(pos), n)) /\ "num" \in OtherTypes
    BY <1>7 DEF Number, OtherTypes
  <2>2. n \in Nat
    BY <1>0
  <2> HIDE DEF n
  <2> QED  BY <2>1, <2>2, YieldsOther
<1>8. ASSUME NEW n \in Nat, Error(n) PROVE LexInv'
  <2>1. Yield(Token("error", "error", n)) /\ "error" \in OtherTypes
    BY <1>8 DEF Error, OtherTypes
  <2> QED  BY <2>1, YieldsOther
<1>9. CASE String
  <2> DEFINE S == {k \in From(pos + 1) : Sym(k) = "\""}
             j == First(S)
  <2>1. Error(j) \/ Yield(Token("str", "string", j + 1))
    BY <1>9, Zenon DEF String
  <2>2. S \in SUBSET Nat
    BY <1>0
  <2>3. j \in Nat
    <3> HIDE DEF S
    <3> QED  BY <1>0, <2>2, FirstIs
  <2> HIDE DEF j
  <2>4. j + 1 \in Nat /\ "str" \in OtherTypes
    BY <2>3 DEF OtherTypes
  <2> QED  BY <1>8, <2>1, <2>3, <2>4, YieldsOther
<1>10. CASE Char
  <2> DEFINE j == IF Sym(pos + 1) = "\\" THEN pos + 3 ELSE pos + 2
  <2>1. Error(j) \/ Yield(Token("chr", "char", j + 1))
    BY <1>10, Zenon DEF Char
  <2>2. j \in Nat
    <3>1. pos + 3 \in Nat /\ pos + 2 \in Nat
      BY <1>0
    <3> QED  BY <3>1, Zenon
  <2> HIDE DEF j
  <2>3. j + 1 \in Nat /\ "chr" \in OtherTypes
    BY <2>2 DEF OtherTypes
  <2> QED  BY <1>8, <2>1, <2>2, <2>3, YieldsOther
<1>11. CASE Operator
  BY <1>11, OperatorYields
<1>12. CASE Single
  <2>1. CASE ErrHandler
    <3>1. Yield(Token("(e)", "(e)", pos + 3)) /\ "(e)" \in OtherTypes /\ pos + 3 \in Nat
      BY <1>0, <1>12, <2>1 DEF Single, OtherTypes
    <3> QED  BY <3>1, YieldsOther
  <2>2. CASE ~ErrHandler
    <3> DEFINE c == Sym(pos)
               tok == Token(c, c, pos + 1)
    <3>1. Yield(tok) /\ c \in Singles \ DOMAIN Seconds
      BY <1>12, <2>2 DEF Single
    <3>2. tok.next = pos + 1 /\ tok.type = c /\ pos + 1 \in Nat
      BY <1>0 DEF Token
    <3>3. c \notin DOMAIN Seconds /\ c \in OtherSingles
      BY <3>1 DEF Singles, OtherSingles
    <3>4. c \notin DOMAIN Spelling
      BY <3>3, SinglesDiffer, SpellingNames
    <3> HIDE DEF tok, c
    <3>5. ~IsOp(tok)
      BY <3>2, <3>3, <3>4 DEF IsOp
    <3> QED  BY <3>1, <3>2, <3>5, Yields
  <2> QED  BY <2>1, <2>2
<1>13. CASE Unexpected
  <2>1. Error(pos + 1)
    BY <1>13, Zenon DEF Unexpected
  <2>2. pos + 1 \in Nat
    BY <1>0
  <2> QED  BY <1>8, <2>1, <2>2
<1> QED  BY <1>2, <1>3, <1>4, <1>5, <1>6, <1>7, <1>9, <1>10, <1>11, <1>12,
          <1>13 DEF NextToken

-------------------------------------------------------------------------------
(* The parser reads the tokens, and leaves them as they are.               *)
LEMMA ParseKeeps == ASSUME Parse PROVE UNCHANGED lexVars
<1>1. ASSUME Expect \/ OptSemi \/ Give \/ SetChild \/ Link \/ Argument
      PROVE  UNCHANGED lexVars
  BY <1>1, Zenon DEF Expect, OptSemi, Give, SetChild, Link, Argument, Then, Crash
<1>2. ASSUME LiteralExpr \/ IdentifierExpr \/ LambdaExpr \/ LoopExpr \/ LoopKind \/
             LoopBody
      PROVE  UNCHANGED lexVars
  BY <1>2, Zenon DEF LiteralExpr, IdentifierExpr, LambdaExpr, LoopExpr, LoopKind, LoopBody,
             Then, Crash
<1>3. ASSUME InfiniteLoop \/ Parenthesis \/ Paren \/ BraceTuple \/ Brace \/ TupleRest
      PROVE  UNCHANGED lexVars
  BY <1>3, Zenon DEF InfiniteLoop, Parenthesis, Paren, BraceTuple, Brace, TupleRest, Then, Crash
<1>4. ASSUME IntrinsicCall \/ AiLogic \/ NotPrimary \/ Postfix \/ PostfixRest \/ Unary
      PROVE  UNCHANGED lexVars
  BY <1>4, Zenon DEF IntrinsicCall, AiLogic, NotPrimary, Postfix, PostfixRest, Unary, Then,
             Crash
<1>5. ASSUME UnaryRest \/ BinaryExpr \/ LeftOperand \/ RightOperand \/ NexusFlow \/
             FlowOp
      PROVE  UNCHANGED lexVars
  BY <1>5, Zenon DEF UnaryRest, BinaryExpr, LeftOperand, RightOperand, NexusFlow, FlowOp, Then,
             Crash
<1>6. ASSUME FlowRight \/ FlowEnd \/ Assignment \/ Assign \/ Assigned \/ VarDecl
      PROVE  UNCHANGED lexVars
  BY <1>6, Zenon DEF FlowRight, FlowEnd, Assignment, Assign, Assigned, VarDecl, Then, Crash
<1>7. ASSUME VarInit \/ Fields \/ Variants \/ Params \/ Function \/ FunctionRest
      PROVE  UNCHANGED lexVars
  BY <1>7, Zenon DEF VarInit, Fields, Variants, Params, Function, FunctionRest, Then, Crash
<1>8. ASSUME Lambda \/ Block \/ Statements \/ TypeDecl \/ NewTypeNamed \/ NewTypeOfKind
      PROVE  UNCHANGED lexVars
  BY <1>8, Zenon DEF Lambda, Block, Statements, TypeDecl, NewTypeNamed, NewTypeOfKind, Then,
             Crash
<1>9. ASSUME PlainVariants \/ SkipData \/ NameBehind \/ NewTypeAlias \/ NewTypeFreed \/
             Group
      PROVE  UNCHANGED lexVars
  BY <1>9, Zenon DEF PlainVariants, SkipData, NameBehind, NewTypeAlias, NewTypeFreed, Group,
             Then, Crash
<1>10. ASSUME Method \/ GroupMember \/ Statement \/ Declaration \/ Flags \/ Use
       PROVE  UNCHANGED lexVars
  BY <1>10, Zenon DEF Method, GroupMember, Statement, Declaration, Flags, Use, Then, Crash
<1>11. ASSUME Defer \/ Return \/ ThreadBlock \/ Packed \/ Listen \/ Command
       PROVE  UNCHANGED lexVars
  BY <1>11, Zenon DEF Defer, Return, ThreadBlock, Packed, Listen, Command, Then, Crash
<1>12. ASSUME TypeCommand \/ NewType \/ LateGroup \/ BareBlock \/ Jump \/ NoCommand
       PROVE  UNCHANGED lexVars
  BY <1>12, Zenon DEF TypeCommand, NewType, LateGroup, BareBlock, Jump, NoCommand, Then, Crash
<1>13. ASSUME Halt \/ Intent \/ PanicNow \/ ExpressionStatement \/ ExpressionRest \/
              Unwrap
       PROVE  UNCHANGED lexVars
  BY <1>13, Zenon DEF Halt, Intent, PanicNow, ExpressionStatement, ExpressionRest, Unwrap, Then,
             Crash
<1>14. ASSUME Label \/ Run \/ Program \/ SemanticErrors \/ Compile \/ DestroyTree
       PROVE  UNCHANGED lexVars
  BY <1>14, Zenon DEF Label, Run, Program, SemanticErrors, Compile, DestroyTree, Then, Crash
<1>15. ASSUME DestroyJunk
       PROVE  UNCHANGED lexVars
  BY <1>15, Zenon DEF DestroyJunk, Then, Crash
<1> QED  BY <1>1, <1>2, <1>3, <1>4, <1>5, <1>6, <1>7, <1>8, <1>9, <1>10, <1>11, <1>12,
            <1>13, <1>14, <1>15
              DEF Parse

LEMMA LexInvKept == ASSUME LexInv, [Next]_vars PROVE LexInv'
<1>1. CASE NextToken
  BY <1>1, LexInvSteps
<1>2. CASE UNCHANGED lexVars
  <2>1. text' = text /\ pos' = pos /\ toks' = toks
    BY <1>2 DEF lexVars
  <2>2. pos' \in Nat
    BY <2>1 DEF LexInv
  <2> QED  BY <2>1, <2>2, LexInvStays
<1>3. UNCHANGED vars => UNCHANGED lexVars
  BY DEF vars, lexVars
<1> QED  BY <1>1, <1>2, <1>3, ParseKeeps DEF Next

(* An operator is the longest one the text has at its place, whatever the  *)
(* order of the cases of lexer_next_token (lexer.c:319-419), for every     *)
(* source; the four pairs whose second character is swallowed excepted.    *)
THEOREM EveryOperatorLongest == Spec => []LongestOperator
<1>1. Init => LexInv
  BY TextsAssumption, LexInvStarts DEF Init
<1>2. LexInv /\ [Next]_vars => LexInv'
  BY LexInvKept
<1>3. LexInv => LongestOperator
  BY LexInvMeans
<1> QED  BY <1>1, <1>2, <1>3, PTL DEF Spec

===============================================================================
