--------------------------- MODULE AstArchiveProofs ---------------------------
(***************************************************************************)
(* What AstArchive says of the life of the tree of one of a few programs,  *)
(* proved for every tree, every archive and a disk that fills up anywhere: *)
(* a tree is destroyed once and whole.                                     *)
(***************************************************************************)
EXTENDS AstArchive, SequenceTheorems, WellFoundedInduction, TLAPS

-------------------------------------------------------------------------------
(* The inductive invariant.                                                *)

Token == STRING \union {Mark, Part, Zero, "junk", "variable"}
Value == Nat \union Token
Node == [type : Token, at : UNION {[D -> Value] : D \in SUBSET MemberNames}]
Item == Nat \X MemberNames

Pending == Among(todo)

(* The tree that is loaded is one at every moment of the load: a new node  *)
(* is stored in one member, and lies after all there were.                 *)
LoadedInv ==
  /\ loaded \in Seq(Node) /\ Len(loaded) # 0
  /\ DOMAIN loaded[1].at = {"root"}
  /\ \A c \in 2..Len(loaded) : DOMAIN loaded[c].at = DOMAIN Blank(loaded[c].type).at
  /\ TreeShaped(loaded)

TypeInv ==
  /\ phase \in {"start", "save", "codegen", "load", "destroy_loaded",
                "destroy_program", "done", "crashed"}
  /\ program \in Programs
  /\ archive = NoFile \/ archive \in Seq(Token)
  /\ phase = "save" => archive \in Seq(Token)
  /\ in \in Seq(Token) /\ todo \in Seq(Item)
  /\ phase = "save" => \A x \in Pending : x[1] \in 1..Len(program)
  /\ phase = "load" => \A x \in Pending : x[1] \in 1..Len(loaded)

(* What ast_destroy has yet to visit it has not freed.  For a tree D, a    *)
(* stack q and what was freed, F: what is on the stack has not been freed, *)
(* a node whose members are pending is pending itself, after them, no child*)
(* of a pending member was visited, and a node that was hangs from one that*)
(* was.                                                                    *)
Ordered(q) ==
  \A i \in 1..Len(q) : q[i] # Root => \E j \in i..Len(q) : q[j] = <<q[i][1], "node">>

Touched(q, F) == {x[1] : x \in Among(q) \union F}

Once(D, q, F) ==
  /\ \A x \in Among(q) : x = Root \/ x[1] \in 2..Len(D)
  /\ F \subseteq (2..Len(D)) \X MemberNames
  /\ Distinct(q) /\ Among(q) \intersect F = {}
  /\ Ordered(q)
  /\ \A x \in Among(q) \intersect Links(D) : Child(D, x) \notin Touched(q, F)
  /\ \A c \in Touched(q, F) \ {1} :
       \E x \in Links(D) : Child(D, x) = c /\ x[1] \in Touched(q, F) \union {1}

FreeInv ==
  /\ Destroying => Once(Doomed, todo, freed)
  /\ phase \in {"start", "save", "codegen", "load"} => freed = {}

IInv == LoadedInv /\ TypeInv /\ FreeInv

(* When no type is cast to a larger struct, none of these is in an archive *)
(* or a loaded tree, what the recursions visit lies in the structs, and    *)
(* every node that is read is stored in its parent and stays there.        *)
Odd == Miscast \union Undeclared

Clean(seq) == \A i \in 1..Len(seq) : seq[i] \notin Odd

ArchiveClean ==
  /\ archive # NoFile \/ phase = "save" => Clean(archive)
  /\ Clean(in)

LoadedClean == \A c \in 2..Len(loaded) : loaded[c].type \notin Odd /\ HasParent(loaded, c)

SavesInStruct == phase = "save" => \A x \in Pending : InStruct(program, x[1], x[2])

LoadsInStruct ==
  phase = "load" =>
    /\ Distinct(todo)
    /\ \A x \in Pending : InStruct(loaded, x[1], x[2]) /\ x \notin Links(loaded)

Unread == phase \in {"start", "save", "codegen"} => loaded = <<Variable(NULL)>>

SoundInv ==
  /\ ArchiveClean /\ LoadedClean /\ Unread /\ SavesInStruct /\ LoadsInStruct
  /\ phase # "crashed"

(* What ast_destroy is to free of a tree.                                  *)
HasText(tree, x) == x[2] \in Strings /\ InStruct(tree, x[1], x[2]) /\ Child(tree, x) # Zero

(* What it has visited it has freed or will free, and goes on to the       *)
(* children of.                                                            *)
Whole(D, q, F) ==
  /\ \A x \in Among(q) : InStruct(D, x[1], x[2]) \/ x[2] = "node"
  /\ \A x \in Among(q) : x[2] \in Pointers \union Strings \union {"node"}
  /\ \A x \in F : x[2] = "node" \/ HasText(D, x)
  /\ \A c \in Touched(q, F) \ {1} :
       /\ <<c, "node">> \in Among(q) \union F
       /\ \A m \in Strings : HasText(D, <<c, m>>) => <<c, m>> \in Among(q) \union F
  /\ \A x \in Links(D) :
       x[1] \in Touched(q, F) \union {1} => x \in Among(q) \/ Child(D, x) \in Touched(q, F)

CleanInv == Sound => SoundInv /\ (Destroying => Whole(Doomed, todo, freed))

-------------------------------------------------------------------------------
(* Sequences.                                                              *)

LEMMA AmongSeq ==
  ASSUME NEW S, NEW q \in Seq(S)
  PROVE  Among(q) = {q[i] : i \in 1..Len(q)}
BY LenProperties DEF Among

LEMMA DistinctSeq ==
  ASSUME NEW S, NEW q \in Seq(S)
  PROVE  Distinct(q) <=> \A i, j \in 1..Len(q) : q[i] = q[j] => i = j
BY LenProperties DEF Distinct

(* What is left of a stack whose head is taken off.                        *)
LEMMA Popped ==
  ASSUME NEW S, NEW q \in Seq(S), q # <<>>
  PROVE  /\ Head(q) = q[1] /\ 1 \in 1..Len(q) /\ Tail(q) \in Seq(S)
         /\ Len(Tail(q)) = Len(q) - 1
         /\ \A i \in 1..Len(Tail(q)) : Tail(q)[i] = q[i + 1]
         /\ Among(q) = {Head(q)} \union Among(Tail(q))
         /\ Distinct(q) => Distinct(Tail(q)) /\ Head(q) \notin Among(Tail(q))
<1>1. /\ Len(q) \in Nat \ {0} /\ Head(q) = q[1] /\ Tail(q) \in Seq(S)
      /\ Len(Tail(q)) = Len(q) - 1
      /\ \A i \in 1..Len(Tail(q)) : Tail(q)[i] = q[i + 1]
  BY HeadTailProperties, EmptySeq, LenProperties
<1>2. Among(q) = {q[i] : i \in 1..Len(q)}
      /\ Among(Tail(q)) = {Tail(q)[i] : i \in 1..Len(Tail(q))}
  <2>1. Among(q) = {q[i] : i \in 1..Len(q)}
    BY AmongSeq
  <2>2. Among(Tail(q)) = {Tail(q)[i] : i \in 1..Len(Tail(q))}
    BY <1>1, AmongSeq
  <2> QED  BY <2>1, <2>2
<1>3. \A x : x \in Among(q) <=> x = Head(q) \/ x \in Among(Tail(q))
  <2> TAKE x
  <2>1. ASSUME NEW i \in 1..Len(q), x = q[i]  PROVE  x = Head(q) \/ x \in Among(Tail(q))
    <3>1. CASE i = 1
      BY <1>1, <2>1, <3>1
    <3>2. CASE i # 1
      <4>1. i - 1 \in 1..Len(Tail(q)) /\ (i - 1) + 1 = i
        BY <1>1, <3>2
      <4>2. Tail(q)[i - 1] = q[i]
        BY <1>1, <4>1
      <4> QED  BY <1>2, <2>1, <4>1, <4>2
    <3> QED  BY <3>1, <3>2
  <2>2. ASSUME NEW i \in 1..Len(Tail(q)), x = Tail(q)[i]  PROVE  x \in Among(q)
    <3>1. i + 1 \in 1..Len(q) /\ x = q[i + 1]
      BY <1>1, <2>2
    <3> QED  BY <1>2, <3>1
  <2>3. Head(q) \in Among(q)
    BY <1>1, <1>2
  <2> QED  BY <1>2, <2>1, <2>2, <2>3
<1>4. ASSUME Distinct(q)
      PROVE  Distinct(Tail(q)) /\ Head(q) \notin Among(Tail(q))
  <2>1. \A i, j \in 1..Len(q) : q[i] = q[j] => i = j
    BY <1>4, DistinctSeq
  <2>2. \A i, j \in 1..Len(Tail(q)) : Tail(q)[i] = Tail(q)[j] => i = j
    <3> TAKE i, j \in 1..Len(Tail(q))
    <3>1. i + 1 \in 1..Len(q) /\ j + 1 \in 1..Len(q)
      BY <1>1
    <3>2. q[i + 1] = q[j + 1] => i + 1 = j + 1
      BY <2>1, <3>1
    <3> QED  BY <1>1, <3>1, <3>2
  <2>3. \A i \in 1..Len(Tail(q)) : Tail(q)[i] # Head(q)
    <3> TAKE i \in 1..Len(Tail(q))
    <3>1. i + 1 \in 1..Len(q) /\ 1 \in 1..Len(q) /\ i + 1 # 1
      BY <1>1
    <3>2. q[i + 1] # q[1]
      BY <2>1, <3>1
    <3> QED  BY <1>1, <3>2
  <2> QED  BY <1>1, <1>2, <2>2, <2>3, DistinctSeq
<1> QED  BY <1>1, <1>3, <1>4

(* A stack whose head is replaced by the members of a node.                *)
LEMMA Pushed ==
  ASSUME NEW q \in Seq(Item), q # <<>>, NEW c \in Nat, NEW view \in Seq(MemberNames)
  PROVE  LET r == Visit(c, view) \o Tail(q)
         IN  /\ r \in Seq(Item) /\ Len(r) = Len(view) + Len(Tail(q))
             /\ \A i \in 1..Len(view) : r[i] = <<c, view[i]>>
             /\ \A i \in 1..Len(Tail(q)) : r[i + Len(view)] = Tail(q)[i]
             /\ Among(r) = {<<c, m>> : m \in Among(view)} \union Among(Tail(q))
<1> DEFINE v == Visit(c, view)
           t == Tail(q)
           r == v \o t
<1>1. Len(view) \in Nat /\ DOMAIN view = 1..Len(view) /\ \A i \in 1..Len(view) : view[i] \in MemberNames
  BY LenProperties, ElementOfSeq
<1>2. v \in Seq(Item) /\ Len(v) = Len(view) /\ \A i \in 1..Len(view) : v[i] = <<c, view[i]>>
  <2>1. v = [i \in 1..Len(view) |-> <<c, view[i]>>]
    BY <1>1 DEF Visit
  <2>2. \A i \in 1..Len(view) : <<c, view[i]>> \in Item
    BY <1>1 DEF Item
  <2>3. v \in [1..Len(view) -> Item]
    BY <2>1, <2>2
  <2>4. v \in Seq(Item)
    BY <1>1, <2>3, SeqDef
  <2>5. Len(v) \in Nat /\ 1..Len(v) = 1..Len(view)
    BY <2>3, <2>4, LenProperties
  <2>6. Len(v) = Len(view)
    BY <1>1, <2>5
  <2> QED  BY <2>1, <2>4, <2>6
<1>3. t \in Seq(Item) /\ Len(t) \in Nat
  BY Popped, LenProperties
<1> HIDE DEF v, t
<1>4. /\ r \in Seq(Item) /\ Len(r) = Len(v) + Len(t)
      /\ \A i \in 1..Len(v) + Len(t) : r[i] = IF i <= Len(v) THEN v[i] ELSE t[i - Len(v)]
  BY <1>2, <1>3, ConcatProperties
<1>5. \A i \in 1..Len(view) : r[i] = <<c, view[i]>>
  BY <1>1, <1>2, <1>3, <1>4
<1>6. \A i \in 1..Len(t) : r[i + Len(view)] = t[i]
  <2> TAKE i \in 1..Len(t)
  <2>1. i + Len(v) \in 1..Len(v) + Len(t) /\ ~(i + Len(v) <= Len(v)) /\ i + Len(v) - Len(v) = i
    BY <1>1, <1>2, <1>3
  <2> QED  BY <1>2, <1>4, <2>1
<1> HIDE DEF r
<1>7. Among(r) = {r[i] : i \in 1..Len(r)} /\ Among(t) = {t[i] : i \in 1..Len(t)}
      /\ Among(view) = {view[i] : i \in 1..Len(view)}
  <2>1. Among(r) = {r[i] : i \in 1..Len(r)}
    BY <1>4, AmongSeq
  <2>2. Among(t) = {t[i] : i \in 1..Len(t)}
    BY <1>3, AmongSeq
  <2>3. Among(view) = {view[i] : i \in 1..Len(view)}
    BY AmongSeq
  <2> QED  BY <2>1, <2>2, <2>3
<1>8. ASSUME NEW x \in Among(r)
      PROVE  x \in {<<c, m>> : m \in Among(view)} \union Among(t)
  <2>1. PICK i \in 1..Len(r) : x = r[i]
    BY <1>7
  <2>2. i \in 1..Len(view) \/ (i - Len(view) \in 1..Len(t) /\ (i - Len(view)) + Len(view) = i)
    BY <1>1, <1>2, <1>3, <1>4
  <2>3. CASE i \in 1..Len(view)
    BY <1>5, <1>7, <2>1, <2>3
  <2>4. CASE i - Len(view) \in 1..Len(t) /\ (i - Len(view)) + Len(view) = i
    <3>1. r[(i - Len(view)) + Len(view)] = t[i - Len(view)]
      BY <1>6, <2>4
    <3> QED  BY <1>7, <2>1, <2>4, <3>1
  <2> QED  BY <2>2, <2>3, <2>4
<1>9. ASSUME NEW m \in Among(view)  PROVE  <<c, m>> \in Among(r)
  <2>1. PICK i \in 1..Len(view) : m = view[i]
    BY <1>7
  <2>2. i \in 1..Len(r)
    BY <1>1, <1>2, <1>3, <1>4
  <2> QED  BY <1>5, <1>7, <2>1, <2>2
<1>10. ASSUME NEW x \in Among(t)  PROVE  x \in Among(r)
  <2>1. PICK i \in 1..Len(t) : x = t[i]
    BY <1>7
  <2>2. i + Len(view) \in 1..Len(r)
    BY <1>1, <1>2, <1>3, <1>4
  <2> QED  BY <1>6, <1>7, <2>1, <2>2
<1>11. Among(r) = {<<c, m>> : m \in Among(view)} \union Among(t)
  BY <1>8, <1>9, <1>10
<1> QED  BY <1>1, <1>2, <1>3, <1>4, <1>5, <1>6, <1>11 DEF r, v, t

-------------------------------------------------------------------------------
(* Tables.                                                                 *)

LEMMA Names ==
  /\ Strings \intersect Pointers = {} /\ "next" \in Pointers /\ "root" \in Pointers
  /\ {"node", "line"} \intersect (Strings \union Pointers) = {}
  /\ "next" \notin Strings /\ "root" \notin Strings
BY DEF Strings, Pointers

(* The struct of a type, and when the cast is to that one.                 *)
LEMMA Structs ==
  ASSUME NEW t
  PROVE  /\ StructOf(t) \in DOMAIN Members /\ CastTo(t) \in DOMAIN Members
         /\ \A s \in DOMAIN Allocated : t \in Allocated[s] => StructOf(t) = s
         /\ t \notin Odd => CastTo(t) = StructOf(t)
<1>1. {"ASTNode", "ASTUnaryExpr"} \subseteq DOMAIN Members
  BY DEF Members
<1>2. \A s \in DOMAIN Allocated : t \in Allocated[s] => StructOf(t) = s
  <2> SUFFICES ASSUME NEW s \in DOMAIN Allocated, t \in Allocated[s]
               PROVE  StructOf(t) = s
    OBVIOUS
  <2>1. \A u \in DOMAIN Allocated : t \in Allocated[u] => u = s
    BY TablesAssumption DEF TablesAssumption
  <2> QED  BY <2>1 DEF StructOf
<1>3. StructOf(t) \in DOMAIN Members
  BY <1>1, TablesAssumption DEF StructOf, TablesAssumption
<1>4. CastTo(t) \in DOMAIN Members
  BY <1>1, <1>3 DEF CastTo
<1>5. t \notin Odd => CastTo(t) = StructOf(t)
  BY DEF CastTo, Odd, Miscast, Undeclared
<1> QED  BY <1>2, <1>3, <1>4, <1>5

(* A blank node has the members of its struct and those of the header, and *)
(* nothing in them.                                                        *)
LEMMA BlankNode ==
  ASSUME NEW t
  PROVE  /\ DOMAIN Blank(t).at = {"line", "next"} \union Among(Members[StructOf(t)])
         /\ Blank(t).type = t
         /\ \A m \in DOMAIN Blank(t).at :
              Blank(t).at[m] = IF m \in Pointers THEN NULL ELSE Zero
         /\ t \in Token => Blank(t) \in Node
<1> DEFINE struct == Members[StructOf(t)]
           D == {"line", "next"} \union Among(struct)
           f == [m \in D |-> IF m \in Pointers THEN NULL ELSE Zero]
<1>1. Blank(t) = [type |-> t, at |-> f]
  BY DEF Blank, Among
<1>2. struct \in Seq(MemberNames)
  BY Structs, TablesAssumption DEF TablesAssumption
<1>3. D \subseteq MemberNames
  <2>1. Among(struct) = {struct[i] : i \in 1..Len(struct)}
    BY <1>2, AmongSeq
  <2>2. Among(struct) \subseteq MemberNames
    BY <1>2, <2>1, ElementOfSeq
  <2> QED  BY <2>2 DEF MemberNames
<1>4. f \in [D -> Value]
  <2>1. NULL \in Value /\ Zero \in Value
    BY DEF Value, Token, NULL
  <2> QED  BY <2>1
<1>5. f \in UNION {[E -> Value] : E \in SUBSET MemberNames}
  BY <1>3, <1>4
<1>6. t \in Token => Blank(t) \in Node
  BY <1>1, <1>5 DEF Node
<1> QED  BY <1>1, <1>6

(* What a view may be, for every type, and for one cast to its own struct. *)
GoodView(view) ==
  /\ view \in Seq(MemberNames) /\ Distinct(view)
  /\ Among(view) \intersect {"line", "next", "node", "root"} = {}

Special == {"LITERAL", "FUNC_DECL", "MEMBER_ACCESS", "LOOP"}

LEMMA SpecialStructs ==
  /\ Special \intersect Odd = {}
  /\ Members[StructOf("LITERAL")] = Members.ASTLiteral
  /\ Members[StructOf("FUNC_DECL")] = Members.ASTFuncDecl
  /\ Members[StructOf("MEMBER_ACCESS")] = Members.ASTMemberAccess
  /\ Members[StructOf("LOOP")] = Members.ASTLoop
<1>1. /\ {"ASTLiteral", "ASTFuncDecl", "ASTMemberAccess", "ASTLoop"} \subseteq DOMAIN Allocated
      /\ "LITERAL" \in Allocated["ASTLiteral"] /\ "FUNC_DECL" \in Allocated["ASTFuncDecl"]
      /\ "MEMBER_ACCESS" \in Allocated["ASTMemberAccess"] /\ "LOOP" \in Allocated["ASTLoop"]
  BY DEF Allocated
<1>2. /\ StructOf("LITERAL") = "ASTLiteral" /\ StructOf("FUNC_DECL") = "ASTFuncDecl"
      /\ StructOf("MEMBER_ACCESS") = "ASTMemberAccess" /\ StructOf("LOOP") = "ASTLoop"
  BY <1>1, Structs
<1> QED  BY <1>2 DEF Special, Odd, Miscast, Undeclared

(* A view that lists members of a struct.                                  *)
LEMMA MemberView ==
  ASSUME NEW n \in Nat, NEW view, view \in [1..n -> Among(view)], Distinct(view),
         NEW s \in DOMAIN Members, Among(view) \subseteq Among(Members[s])
  PROVE  GoodView(view)
<1>1. Among(view) \subseteq MemberNames
  BY DEF MemberNames
<1>2. view \in Seq(MemberNames)
  BY <1>1, SeqDef
<1>3. Among(view) \intersect {"line", "next", "node", "root"} = {}
  BY TablesAssumption DEF TablesAssumption
<1> QED  BY <1>2, <1>3 DEF GoodView

LEMMA FreeViews ==
  ASSUME NEW t
  PROVE  /\ GoodView(FreeView(t)) /\ Among(FreeView(t)) \subseteq Strings \union Pointers
         /\ t \notin Odd => Among(FreeView(t)) = Among(Members[StructOf(t)])
                                                   \intersect (Strings \union Pointers)
<1>1. CASE t = "FUNC_DECL"
  <2> DEFINE view == <<"name", "return_type", "params", "body">>
  <2>1. FreeView(t) = view
    BY <1>1 DEF FreeView
  <2>2. /\ Distinct(view) /\ view \in [1..4 -> Among(view)]
        /\ Among(view) = {"name", "return_type", "params", "body"}
    <3>1. \A i, j \in 1..4 : view[i] = view[j] => i = j
      OBVIOUS
    <3>2. DOMAIN view = 1..4 /\ 1..4 = {1, 2, 3, 4}
      OBVIOUS
    <3>3. Among(view) = {view[1], view[2], view[3], view[4]}
      BY <3>2 DEF Among
    <3>4. view \in [DOMAIN view -> Among(view)]
      BY DEF Among
    <3> QED  BY <3>1, <3>2, <3>3, <3>4 DEF Distinct
  <2>3. Members[StructOf(t)] = <<"name", "params", "return_type", "body", "is_extern",
                                 "is_public", "is_exported">>
    BY <1>1, SpecialStructs DEF Members
  <2>4. Among(Members[StructOf(t)]) = {"name", "params", "return_type", "body", "is_extern",
                                       "is_public", "is_exported"}
    BY <2>3 DEF Among
  <2>5. Among(view) = Among(Members[StructOf(t)]) \intersect (Strings \union Pointers)
    BY <2>2, <2>4 DEF Strings, Pointers
  <2>6. GoodView(view)
    BY <2>2, <2>5, MemberView, Structs
  <2> QED  BY <2>1, <2>5, <2>6
<1>2. CASE t # "FUNC_DECL"
  <2>1. FreeView(t) = Owned(CastTo(t))
    BY <1>2 DEF FreeView
  <2> QED  BY <2>1, Structs, TablesAssumption DEF TablesAssumption, GoodView
<1> QED  BY <1>1, <1>2

(* The order of the archive is the same for the writer and the reader.     *)
LEMMA ReadViews ==
  ASSUME NEW t
  PROVE  /\ WriteView(t) = ReadView(t) /\ GoodView(ReadView(t))
         /\ t \notin Odd => Among(ReadView(t)) \subseteq Among(Members[StructOf(t)])
<1>0. WriteView(t) = ReadView(t)
  BY DEF WriteView, ReadView
<1>1. CASE t \notin Special
  <2>1. ReadView(t) = Members[CastTo(t)]
    BY <1>1 DEF ReadView, Special
  <2> QED  BY <1>0, <2>1, Structs, TablesAssumption DEF TablesAssumption, GoodView
<1>2. CASE t = "LITERAL"
  <2> DEFINE view == <<"lit_type", "int_value", "float_value", "string_value">>
  <2>1. ReadView(t) = view
    BY <1>2 DEF ReadView
  <2>2. /\ Distinct(view) /\ view \in [1..4 -> Among(view)]
        /\ Among(view) = {"lit_type", "int_value", "float_value", "string_value"}
    <3>1. \A i, j \in 1..4 : view[i] = view[j] => i = j
      OBVIOUS
    <3>2. DOMAIN view = 1..4 /\ 1..4 = {1, 2, 3, 4}
      OBVIOUS
    <3>3. Among(view) = {view[1], view[2], view[3], view[4]}
      BY <3>2 DEF Among
    <3>4. view \in [DOMAIN view -> Among(view)]
      BY DEF Among
    <3> QED  BY <3>1, <3>2, <3>3, <3>4 DEF Distinct
  <2>3. Members[StructOf(t)] = <<"type", "lit_type", "int_value", "float_value", "string_value">>
    BY <1>2, SpecialStructs DEF Members
  <2>4. Among(view) \subseteq Among(Members[StructOf(t)])
    BY <2>2, <2>3 DEF Among
  <2>5. GoodView(view)
    BY <2>2, <2>4, MemberView, Structs
  <2> QED  BY <1>0, <2>1, <2>4, <2>5
<1>3. CASE t = "FUNC_DECL"
  <2> DEFINE view == <<"name", "return_type", "is_extern", "is_public",
                       "is_exported", "params", "body">>
  <2>1. ReadView(t) = view
    BY <1>3 DEF ReadView
  <2>2. /\ Distinct(view) /\ view \in [1..7 -> Among(view)]
        /\ Among(view) = {"name", "return_type", "is_extern", "is_public",
                          "is_exported", "params", "body"}
    <3>1. \A i, j \in 1..7 : view[i] = view[j] => i = j
      OBVIOUS
    <3>2. DOMAIN view = 1..7 /\ 1..7 = {1, 2, 3, 4, 5, 6, 7}
      OBVIOUS
    <3>3. Among(view) = {view[1], view[2], view[3], view[4], view[5], view[6], view[7]}
      BY <3>2 DEF Among
    <3>4. view \in [DOMAIN view -> Among(view)]
      BY DEF Among
    <3> QED  BY <3>1, <3>2, <3>3, <3>4 DEF Distinct
  <2>3. Members[StructOf(t)] = <<"name", "params", "return_type", "body", "is_extern",
                                 "is_public", "is_exported">>
    BY <1>3, SpecialStructs DEF Members
  <2>4. Among(view) \subseteq Among(Members[StructOf(t)])
    BY <2>2, <2>3 DEF Among
  <2>5. GoodView(view)
    BY <2>2, <2>4, MemberView, Structs
  <2> QED  BY <1>0, <2>1, <2>4, <2>5
<1>4. CASE t = "MEMBER_ACCESS"
  <2> DEFINE view == <<"member_name", "object">>
  <2>1. ReadView(t) = view
    BY <1>4 DEF ReadView
  <2>2. /\ Distinct(view) /\ view \in [1..2 -> Among(view)]
        /\ Among(view) = {"member_name", "object"}
    <3>1. \A i, j \in 1..2 : view[i] = view[j] => i = j
      OBVIOUS
    <3>2. DOMAIN view = 1..2 /\ 1..2 = {1, 2}
      OBVIOUS
    <3>3. Among(view) = {view[1], view[2]}
      BY <3>2 DEF Among
    <3>4. view \in [DOMAIN view -> Among(view)]
      BY DEF Among
    <3>5. Distinct(view)
      BY <3>1, <3>2 DEF Distinct
    <3>6. view[1] = "member_name" /\ view[2] = "object"
      OBVIOUS
    <3> HIDE DEF view
    <3> QED  BY <3>2, <3>3, <3>4, <3>5, <3>6
  <2>3. Members[StructOf(t)] = <<"object", "member_name">>
    BY <1>4, SpecialStructs DEF Members
  <2>4. Among(view) \subseteq Among(Members[StructOf(t)])
    BY <2>2, <2>3 DEF Among
  <2>5. GoodView(view)
    BY <2>2, <2>4, MemberView, Structs
  <2> QED  BY <1>0, <2>1, <2>4, <2>5
<1>5. CASE t = "LOOP"
  <2> DEFINE view == <<"loop_type", "init", "condition", "increment", "body",
                       "collection", "variable">>
  <2>1. ReadView(t) = view
    BY <1>5 DEF ReadView
  <2>2. /\ Distinct(view) /\ view \in [1..7 -> Among(view)]
        /\ Among(view) = {"loop_type", "init", "condition", "increment", "body",
                          "collection", "variable"}
    <3>1. \A i, j \in 1..7 : view[i] = view[j] => i = j
      OBVIOUS
    <3>2. DOMAIN view = 1..7 /\ 1..7 = {1, 2, 3, 4, 5, 6, 7}
      OBVIOUS
    <3>3. Among(view) = {view[1], view[2], view[3], view[4], view[5], view[6], view[7]}
      BY <3>2 DEF Among
    <3>4. view \in [DOMAIN view -> Among(view)]
      BY DEF Among
    <3> QED  BY <3>1, <3>2, <3>3, <3>4 DEF Distinct
  <2>3. Members[StructOf(t)] = <<"init", "condition", "increment", "body", "collection",
                                 "variable", "loop_type">>
    BY <1>5, SpecialStructs DEF Members
  <2>4. Among(view) \subseteq Among(Members[StructOf(t)])
    BY <2>2, <2>3 DEF Among
  <2>5. GoodView(view)
    BY <2>2, <2>4, MemberView, Structs
  <2> QED  BY <1>0, <2>1, <2>4, <2>5
<1> QED  BY <1>1, <1>2, <1>3, <1>4, <1>5 DEF Special

(* A view between two members of the header.                               *)
LEMMA Framed ==
  ASSUME NEW view, GoodView(view), NEW a \in {"line", "next"}, NEW b \in {"next", "node"}, a # b
  PROVE  LET w == <<a>> \o view \o <<b>>
         IN  /\ w \in Seq(MemberNames) /\ Distinct(w)
             /\ Len(w) \in Nat \ {0} /\ w[Len(w)] = b
             /\ Among(w) = {a, b} \union Among(view)
<1> DEFINE u == <<a>> \o view
           w == u \o <<b>>
<1>1. /\ view \in Seq(MemberNames) /\ <<a>> \in Seq(MemberNames) /\ <<b>> \in Seq(MemberNames)
      /\ Len(view) \in Nat /\ Len(<<a>>) = 1 /\ Len(<<b>>) = 1
  <2>1. a \in MemberNames /\ b \in MemberNames
    BY DEF MemberNames
  <2> QED  BY <2>1, LenProperties DEF GoodView
<1>2. /\ u \in Seq(MemberNames) /\ Len(u) = Len(view) + 1
      /\ \A i \in 1..Len(view) + 1 : u[i] = IF i <= 1 THEN a ELSE view[i - 1]
  <2>1. /\ u \in Seq(MemberNames) /\ Len(u) = 1 + Len(view)
        /\ \A i \in 1..1 + Len(view) : u[i] = IF i <= 1 THEN (<<a>>)[i] ELSE view[i - 1]
    BY <1>1, ConcatProperties
  <2> QED  BY <1>1, <2>1
<1> HIDE DEF u
<1>3. /\ w \in Seq(MemberNames) /\ Len(w) = Len(view) + 2
      /\ \A i \in 1..Len(view) + 2 :
           w[i] = IF i = 1 THEN a ELSE IF i = Len(view) + 2 THEN b ELSE view[i - 1]
  <2>1. /\ w \in Seq(MemberNames) /\ Len(w) = Len(u) + 1
        /\ \A i \in 1..Len(u) + 1 : w[i] = IF i <= Len(u) THEN u[i] ELSE (<<b>>)[i - Len(u)]
    BY <1>1, <1>2, ConcatProperties
  <2>2. ASSUME NEW i \in 1..Len(view) + 2
        PROVE  w[i] = IF i = 1 THEN a ELSE IF i = Len(view) + 2 THEN b ELSE view[i - 1]
    <3>1. i \in 1..Len(u) + 1
      BY <1>1, <1>2, <2>2
    <3>2. CASE i <= Len(u)
      <4>1. w[i] = u[i] /\ i \in 1..Len(view) + 1
        BY <1>1, <1>2, <2>1, <3>1, <3>2
      <4>2. u[i] = IF i <= 1 THEN a ELSE view[i - 1]
        BY <1>2, <4>1
      <4> QED  BY <1>1, <1>2, <3>2, <4>1, <4>2
    <3>3. CASE ~(i <= Len(u))
      <4>1. i = Len(view) + 2 /\ i - Len(u) = 1 /\ i # 1
        BY <1>1, <1>2, <2>2, <3>3
      <4>2. w[i] = (<<b>>)[1]
        BY <2>1, <3>1, <3>3, <4>1
      <4> QED  BY <4>1, <4>2
    <3> QED  BY <3>2, <3>3
  <2> QED  BY <1>1, <1>2, <2>1, <2>2
<1> HIDE DEF w
<1>4. Among(view) = {view[i] : i \in 1..Len(view)} /\ Among(w) = {w[i] : i \in 1..Len(w)}
  <2>1. Among(view) = {view[i] : i \in 1..Len(view)}
    BY <1>1, AmongSeq
  <2>2. Among(w) = {w[i] : i \in 1..Len(w)}
    BY <1>3, AmongSeq
  <2> QED  BY <2>1, <2>2
<1>5. \A i \in 2..Len(view) + 1 : i - 1 \in 1..Len(view) /\ w[i] = view[i - 1]
  <2> TAKE i \in 2..Len(view) + 1
  <2>1. i \in 1..Len(view) + 2 /\ i # 1 /\ i # Len(view) + 2 /\ i - 1 \in 1..Len(view)
    BY <1>1
  <2> QED  BY <1>3, <2>1
<1>6. w[1] = a /\ w[Len(view) + 2] = b
  <2>1. 1 \in 1..Len(view) + 2 /\ Len(view) + 2 \in 1..Len(view) + 2 /\ Len(view) + 2 # 1
    BY <1>1
  <2> QED  BY <1>3, <2>1
<1>7. Among(w) = {a, b} \union Among(view)
  <2>1. ASSUME NEW x \in Among(w)  PROVE  x \in {a, b} \union Among(view)
    <3>1. PICK i \in 1..Len(w) : x = w[i]
      BY <1>4
    <3>2. i = 1 \/ i = Len(view) + 2 \/ i \in 2..Len(view) + 1
      BY <1>1, <1>3
    <3> QED  BY <1>4, <1>5, <1>6, <3>1, <3>2
  <2>2. ASSUME NEW x \in Among(view)  PROVE  x \in Among(w)
    <3>1. PICK i \in 1..Len(view) : x = view[i]
      BY <1>4
    <3>2. i + 1 \in 2..Len(view) + 1 /\ i + 1 \in 1..Len(w) /\ (i + 1) - 1 = i
      BY <1>1, <1>3
    <3>3. w[i + 1] = view[i]
      BY <1>5, <3>2
    <3> QED  BY <1>4, <3>1, <3>2, <3>3
  <2>3. 1 \in 1..Len(w) /\ Len(view) + 2 \in 1..Len(w)
    BY <1>1, <1>3
  <2>4. a \in Among(w) /\ b \in Among(w)
    BY <1>4, <1>6, <2>3
  <2> QED  BY <2>1, <2>2, <2>4
<1>8. a \notin Among(view) /\ b \notin Among(view)
  BY DEF GoodView
<1>9. Distinct(w)
  <2>1. \A i, j \in 1..Len(view) : view[i] = view[j] => i = j
    BY <1>1, DistinctSeq DEF GoodView
  <2>2. ASSUME NEW i \in 1..Len(w), NEW j \in 1..Len(w), w[i] = w[j]  PROVE  i = j
    <3>1. /\ i = 1 \/ i = Len(view) + 2 \/ i \in 2..Len(view) + 1
          /\ j = 1 \/ j = Len(view) + 2 \/ j \in 2..Len(view) + 1
      BY <1>1, <1>3
    <3>2. \A k \in 2..Len(view) + 1 : w[k] \in Among(view)
      BY <1>4, <1>5
    <3>3. CASE i \in 2..Len(view) + 1 /\ j \in 2..Len(view) + 1
      <4>1. view[i - 1] = view[j - 1] /\ i - 1 \in 1..Len(view) /\ j - 1 \in 1..Len(view)
        BY <1>5, <2>2, <3>3
      <4>2. i - 1 = j - 1
        BY <2>1, <4>1
      <4> QED  BY <1>1, <3>3, <4>2
    <3>4. CASE ~(i \in 2..Len(view) + 1 /\ j \in 2..Len(view) + 1)
      BY <1>6, <1>8, <2>2, <3>1, <3>2, <3>4
    <3> QED  BY <3>3, <3>4
  <2> QED  BY <1>3, <2>2, DistinctSeq
<1> QED  BY <1>1, <1>3, <1>6, <1>7, <1>9 DEF w, u

DestroyView(t) == <<"next">> \o FreeView(t) \o <<"node">>
LoadView(t) == <<"line">> \o ReadView(t) \o <<"next">>

LEMMA NodeViews ==
  ASSUME NEW t
  PROVE  /\ DestroyView(t) \in Seq(MemberNames) /\ Distinct(DestroyView(t))
         /\ Len(DestroyView(t)) \in Nat \ {0}
         /\ DestroyView(t)[Len(DestroyView(t))] = "node"
         /\ Among(DestroyView(t)) = {"next", "node"} \union Among(FreeView(t))
         /\ Among(DestroyView(t)) \subseteq Strings \union Pointers \union {"node"}
         /\ LoadView(t) \in Seq(MemberNames) /\ Distinct(LoadView(t))
         /\ Among(LoadView(t)) = {"line", "next"} \union Among(ReadView(t))
         /\ t \notin Odd => Among(LoadView(t)) \subseteq DOMAIN Blank(t).at
<1>1. GoodView(FreeView(t)) /\ Among(FreeView(t)) \subseteq Strings \union Pointers
  BY FreeViews
<1>2. GoodView(ReadView(t)) /\ (t \notin Odd => Among(ReadView(t)) \subseteq Among(Members[StructOf(t)]))
  BY ReadViews
<1>3. "next" # "node" /\ "line" # "next"
  OBVIOUS
<1>4. /\ DestroyView(t) \in Seq(MemberNames) /\ Distinct(DestroyView(t))
      /\ Len(DestroyView(t)) \in Nat \ {0}
      /\ DestroyView(t)[Len(DestroyView(t))] = "node"
      /\ Among(DestroyView(t)) = {"next", "node"} \union Among(FreeView(t))
  BY <1>1, <1>3, Framed DEF DestroyView
<1>5. /\ LoadView(t) \in Seq(MemberNames) /\ Distinct(LoadView(t))
      /\ Among(LoadView(t)) = {"line", "next"} \union Among(ReadView(t))
  BY <1>2, <1>3, Framed DEF LoadView
<1>6. t \notin Odd => Among(LoadView(t)) \subseteq DOMAIN Blank(t).at
  BY <1>2, <1>5, BlankNode
<1> QED  BY <1>1, <1>4, <1>5, <1>6, Names

-------------------------------------------------------------------------------
(* Trees.                                                                  *)

(* What a member that is a pointer holds.                                  *)
LEMMA HeldNode ==
  ASSUME NEW tree, Len(tree) \in Nat, TreeShaped(tree),
         NEW c \in 1..Len(tree), NEW m \in Pointers, Held(tree, c, m) # NULL
  PROVE  /\ <<c, m>> \in Links(tree) /\ Child(tree, <<c, m>>) = Held(tree, c, m)
         /\ Held(tree, c, m) \in (c + 1)..Len(tree) /\ Held(tree, c, m) \in 2..Len(tree)
<1>1. InStruct(tree, c, m) /\ Held(tree, c, m) = tree[c].at[m]
  BY DEF Held
<1>2. <<c, m>> \in Links(tree) /\ Child(tree, <<c, m>>) = Held(tree, c, m)
  BY <1>1 DEF Links, Child
<1>3. Child(tree, <<c, m>>) \in (c + 1)..Len(tree)
  BY <1>2 DEF TreeShaped
<1> QED  BY <1>2, <1>3

(* A member of a link holds what is found there.                           *)
LEMMA LinkHeld ==
  ASSUME NEW tree, Len(tree) \in Nat, TreeShaped(tree), NEW x \in Links(tree)
  PROVE  /\ x[1] \in 1..Len(tree) /\ x[2] \in Pointers /\ x = <<x[1], x[2]>>
         /\ InStruct(tree, x[1], x[2])
         /\ Held(tree, x[1], x[2]) = Child(tree, x) /\ Child(tree, x) # NULL
         /\ Child(tree, x) \in 2..Len(tree) /\ x[1] < Child(tree, x)
<1>1. /\ x[1] \in 1..Len(tree) /\ x[2] \in Pointers /\ x = <<x[1], x[2]>>
      /\ InStruct(tree, x[1], x[2]) /\ tree[x[1]].at[x[2]] # NULL
  BY DEF Links
<1>2. Child(tree, x) \in (x[1] + 1)..Len(tree)
  BY DEF TreeShaped
<1> QED  BY <1>1, <1>2 DEF Held, Child

(* A store through the cast changes the one member, if it is in the struct.*)
LEMMA Stored ==
  ASSUME NEW tree \in Seq(Node), NEW c \in 1..Len(tree), NEW m \in MemberNames,
         NEW v \in Value
  PROVE  LET t == Store(tree, c, m, v)
         IN  /\ t \in Seq(Node) /\ Len(t) = Len(tree)
             /\ \A d \in 1..Len(tree) :
                  /\ t[d].type = tree[d].type /\ DOMAIN t[d].at = DOMAIN tree[d].at
                  /\ \A n \in DOMAIN tree[d].at :
                       t[d].at[n] = IF d = c /\ n = m THEN v ELSE tree[d].at[n]
<1> DEFINE t == Store(tree, c, m, v)
<1>1. CASE ~InStruct(tree, c, m)
  <2>1. t = tree
    BY <1>1 DEF Store
  <2> QED  BY <1>1, <2>1 DEF InStruct
<1>2. CASE InStruct(tree, c, m)
  <2>1. t = [tree EXCEPT ![c].at[m] = v]
    BY <1>2 DEF Store
  <2> DEFINE old == tree[c]
             new == [old EXCEPT !.at = [old.at EXCEPT ![m] = v]]
  <2>2. t = [tree EXCEPT ![c] = new]
    BY <2>1
  <2>3. old \in Node
    BY ElementOfSeq
  <2>4. PICK D \in SUBSET MemberNames : old.at \in [D -> Value]
    BY <2>3 DEF Node
  <2>5. [old.at EXCEPT ![m] = v] \in [D -> Value]
    BY <2>4
  <2>6. new \in Node /\ new.type = old.type /\ new.at = [old.at EXCEPT ![m] = v]
    BY <2>3, <2>5 DEF Node
  <2> HIDE DEF new
  <2>7. /\ t \in Seq(Node) /\ Len(t) = Len(tree)
        /\ \A d \in 1..Len(tree) : t[d] = IF d = c THEN new ELSE tree[d]
    BY <2>2, <2>6, ExceptSeq
  <2>8. DOMAIN new.at = DOMAIN old.at
        /\ \A n \in DOMAIN old.at : new.at[n] = IF n = m THEN v ELSE old.at[n]
    BY <2>4, <2>6
  <2> QED  BY <2>6, <2>7, <2>8
<1> QED  BY <1>1, <1>2

LEMMA StoredNodes ==
  ASSUME NEW tree \in Seq(Node), NEW c \in 1..Len(tree), NEW m \in MemberNames,
         NEW v \in Value
  PROVE  /\ Store(tree, c, m, v) \in Seq(Node) /\ Len(Store(tree, c, m, v)) = Len(tree)
         /\ \A d \in 1..Len(tree) :
              /\ Store(tree, c, m, v)[d].type = tree[d].type
              /\ DOMAIN Store(tree, c, m, v)[d].at = DOMAIN tree[d].at
<1> DEFINE t == Store(tree, c, m, v)
<1>1. /\ t \in Seq(Node) /\ Len(t) = Len(tree)
      /\ \A d \in 1..Len(tree) :
           /\ t[d].type = tree[d].type /\ DOMAIN t[d].at = DOMAIN tree[d].at
           /\ \A n \in DOMAIN tree[d].at :
                t[d].at[n] = IF d = c /\ n = m THEN v ELSE tree[d].at[n]
  BY Stored
<1> HIDE DEF t
<1>2. /\ t \in Seq(Node) /\ Len(t) = Len(tree)
      /\ \A d \in 1..Len(tree) :
           /\ t[d].type = tree[d].type /\ DOMAIN t[d].at = DOMAIN tree[d].at
  BY <1>1, Zenon
<1> QED  BY <1>2, Zenon DEF t

(* The links after a store.                                                *)
LEMMA StoredLinks ==
  ASSUME NEW tree \in Seq(Node), NEW c \in 1..Len(tree), NEW m \in MemberNames,
         NEW v \in Value
  PROVE  LET t == Store(tree, c, m, v)
         IN  /\ \A x \in Links(t) :
                  IF x = <<c, m>> THEN m \in Pointers /\ Child(t, x) = v /\ v # NULL
                  ELSE x \in Links(tree) /\ Child(t, x) = Child(tree, x)
             /\ \A x \in Links(tree) :
                  x # <<c, m>> => x \in Links(t) /\ Child(t, x) = Child(tree, x)
             /\ m \in Pointers /\ InStruct(tree, c, m) /\ v # NULL =>
                  <<c, m>> \in Links(t) /\ Child(t, <<c, m>>) = v
<1> DEFINE t == Store(tree, c, m, v)
<1>1. /\ Len(t) = Len(tree) /\ Len(tree) \in Nat
      /\ \A d \in 1..Len(tree) :
           /\ DOMAIN t[d].at = DOMAIN tree[d].at
           /\ \A n \in DOMAIN tree[d].at :
                t[d].at[n] = IF d = c /\ n = m THEN v ELSE tree[d].at[n]
  BY Stored, LenProperties
<1> HIDE DEF t
<1>2. ASSUME NEW x \in Links(t)
      PROVE  IF x = <<c, m>> THEN m \in Pointers /\ Child(t, x) = v /\ v # NULL
             ELSE x \in Links(tree) /\ Child(t, x) = Child(tree, x)
  <2>1. /\ x[1] \in 1..Len(tree) /\ x[2] \in Pointers /\ x = <<x[1], x[2]>>
        /\ x[2] \in DOMAIN tree[x[1]].at /\ t[x[1]].at[x[2]] # NULL
    BY <1>1, <1>2 DEF Links, InStruct
  <2>2. t[x[1]].at[x[2]] = IF x = <<c, m>> THEN v ELSE tree[x[1]].at[x[2]]
    BY <1>1, <2>1
  <2>3. x # <<c, m>> => x \in Links(tree)
    BY <2>1, <2>2 DEF Links, InStruct
  <2> QED  BY <2>1, <2>2, <2>3 DEF Child
<1>3. ASSUME NEW x \in Links(tree), x # <<c, m>>
      PROVE  x \in Links(t) /\ Child(t, x) = Child(tree, x)
  <2>1. /\ x[1] \in 1..Len(tree) /\ x[2] \in Pointers /\ x = <<x[1], x[2]>>
        /\ x[2] \in DOMAIN tree[x[1]].at /\ tree[x[1]].at[x[2]] # NULL
    BY <1>3 DEF Links, InStruct
  <2>2. t[x[1]].at[x[2]] = tree[x[1]].at[x[2]] /\ x[2] \in DOMAIN t[x[1]].at
    BY <1>1, <1>3, <2>1
  <2> QED  BY <1>1, <2>1, <2>2 DEF Links, InStruct, Child
<1>4. ASSUME m \in Pointers, InStruct(tree, c, m), v # NULL
      PROVE  <<c, m>> \in Links(t) /\ Child(t, <<c, m>>) = v
  <2>1. m \in DOMAIN t[c].at /\ t[c].at[m] = v
    BY <1>1, <1>4 DEF InStruct
  <2> QED  BY <1>1, <1>4, <2>1 DEF Links, InStruct, Child
<1> QED  BY <1>2, <1>3, <1>4 DEF t

(* A node added behind the others.                                         *)
LEMMA Grown ==
  ASSUME NEW tree \in Seq(Node), NEW t \in Token
  PROVE  LET r == Append(tree, Blank(t))
         IN  /\ r \in Seq(Node) /\ Len(r) = Len(tree) + 1
             /\ \A d \in 1..Len(tree) : r[d] = tree[d]
             /\ r[Len(tree) + 1] = Blank(t)
             /\ Links(r) = Links(tree)
             /\ \A x \in Links(tree) : Child(r, x) = Child(tree, x)
<1> DEFINE r == Append(tree, Blank(t))
           n == Len(tree) + 1
<1>1. /\ r \in Seq(Node) /\ Len(r) = n /\ Len(tree) \in Nat
      /\ \A d \in 1..Len(tree) : r[d] = tree[d]
      /\ r[n] = Blank(t)
  BY BlankNode, AppendProperties, LenProperties
<1> HIDE DEF r
<1>2. ASSUME NEW x \in Links(r)  PROVE  x \in Links(tree)
  <2>1. /\ x[1] \in 1..n /\ x[2] \in Pointers /\ x = <<x[1], x[2]>>
        /\ x[2] \in DOMAIN r[x[1]].at /\ r[x[1]].at[x[2]] # NULL
    BY <1>1, <1>2 DEF Links, InStruct
  <2>2. x[1] # n
    BY <1>1, <2>1, BlankNode
  <2>3. x[1] \in 1..Len(tree)
    BY <1>1, <2>1, <2>2
  <2> QED  BY <1>1, <2>1, <2>3 DEF Links, InStruct
<1>3. ASSUME NEW x \in Links(tree)  PROVE  x \in Links(r) /\ Child(r, x) = Child(tree, x)
  <2>1. x[1] \in 1..Len(tree) /\ x[1] \in 1..n /\ x[2] \in Pointers /\ x = <<x[1], x[2]>>
        /\ x[2] \in DOMAIN tree[x[1]].at /\ tree[x[1]].at[x[2]] # NULL
    BY <1>1, <1>3 DEF Links, InStruct
  <2> QED  BY <1>1, <2>1 DEF Links, InStruct, Child
<1> QED  BY <1>1, <1>2, <1>3 DEF r

(* What one read makes of the tree: a scalar or no node in a member of the *)
(* tree, or a new node in it.                                              *)
LEMMA LoadedScalar ==
  ASSUME NEW tree \in Seq(Node), TreeShaped(tree), NEW c \in 1..Len(tree),
         NEW m \in MemberNames, NEW v \in Value, m \notin Pointers \/ v = NULL
  PROVE  LET t == Store(tree, c, m, v)
         IN  /\ TreeShaped(t)
             /\ <<c, m>> \notin Links(tree) => Links(t) = Links(tree)
             /\ \A x \in Links(t) : x \in Links(tree) /\ Child(t, x) = Child(tree, x)
<1> DEFINE t == Store(tree, c, m, v)
<1>1. Len(t) = Len(tree)
  BY StoredNodes
<1>0. /\ \A x \in Links(t) :
           IF x = <<c, m>> THEN m \in Pointers /\ Child(t, x) = v /\ v # NULL
           ELSE x \in Links(tree) /\ Child(t, x) = Child(tree, x)
      /\ \A x \in Links(tree) :
           x # <<c, m>> => x \in Links(t) /\ Child(t, x) = Child(tree, x)
      /\ m \in Pointers /\ InStruct(tree, c, m) /\ v # NULL =>
           <<c, m>> \in Links(t) /\ Child(t, <<c, m>>) = v
  BY StoredLinks
<1>2. \A x \in Links(t) : x \in Links(tree) /\ Child(t, x) = Child(tree, x)
  BY <1>0
<1>3. <<c, m>> \notin Links(tree) => Links(t) = Links(tree)
  BY <1>0, <1>2
<1> HIDE DEF t
<1>4. TreeShaped(t)
  BY <1>1, <1>2 DEF TreeShaped
<1> QED  BY <1>2, <1>3, <1>4 DEF t

WithNode(tree, c, m, t) == Append(Store(tree, c, m, Len(tree) + 1), Blank(t))

LEMMA LoadedLinks ==
  ASSUME NEW tree \in Seq(Node), TreeShaped(tree), NEW c \in 1..Len(tree),
         NEW m \in MemberNames, m \in Pointers, NEW t \in Token
  PROVE  LET r == WithNode(tree, c, m, t)
             new == Len(tree) + 1
         IN  /\ r \in Seq(Node) /\ Len(r) = new /\ r[new] = Blank(t) /\ TreeShaped(r)
             /\ \A d \in 1..Len(tree) :
                  r[d].type = tree[d].type /\ DOMAIN r[d].at = DOMAIN tree[d].at
             /\ <<c, m>> \notin Links(tree) =>
                  \A x \in Links(tree) : x \in Links(r) /\ Child(r, x) = Child(tree, x)
             /\ \A x \in Links(r) : x = <<c, m>> \/ x \in Links(tree)
             /\ InStruct(tree, c, m) => <<c, m>> \in Links(r) /\ Child(r, <<c, m>>) = new
<1> DEFINE new == Len(tree) + 1
           s == Store(tree, c, m, new)
           r == WithNode(tree, c, m, t)
<1>1. Len(tree) \in Nat /\ new \in Nat /\ new \in Value /\ new # NULL
  BY LenProperties DEF Value, NULL
<1>2. /\ s \in Seq(Node) /\ Len(s) = Len(tree)
      /\ \A d \in 1..Len(tree) :
           s[d].type = tree[d].type /\ DOMAIN s[d].at = DOMAIN tree[d].at
  BY <1>1, StoredNodes, SMTT(30)
<1>3. /\ \A x \in Links(s) :
           IF x = <<c, m>> THEN Child(s, x) = new
           ELSE x \in Links(tree) /\ Child(s, x) = Child(tree, x)
      /\ \A x \in Links(tree) :
           x # <<c, m>> => x \in Links(s) /\ Child(s, x) = Child(tree, x)
      /\ InStruct(tree, c, m) => <<c, m>> \in Links(s) /\ Child(s, <<c, m>>) = new
  BY <1>1, StoredLinks
<1> HIDE DEF s
<1>4. /\ r \in Seq(Node) /\ Len(r) = new /\ r[new] = Blank(t)
      /\ \A d \in 1..Len(tree) : r[d] = s[d]
      /\ Links(r) = Links(s)
      /\ \A x \in Links(s) : Child(r, x) = Child(s, x)
  <2> DEFINE q == Append(s, Blank(t))
  <2>1. /\ q \in Seq(Node) /\ Len(q) = Len(s) + 1 /\ q[Len(s) + 1] = Blank(t)
        /\ \A d \in 1..Len(s) : q[d] = s[d]
        /\ Links(q) = Links(s)
        /\ \A x \in Links(s) : Child(q, x) = Child(s, x)
    BY <1>2, Grown
  <2>2. r = q
    BY DEF s, WithNode
  <2> HIDE DEF q
  <2> QED  BY <1>2, <2>1, <2>2
<1>5. TreeShaped(r)
  <2>1. \A x \in Links(tree) : Child(tree, x) \in (x[1] + 1)..Len(tree) /\ x[1] \in 1..Len(tree)
    BY DEF TreeShaped, Links
  <2>2. \A x \in Links(r) : Child(r, x) \in (x[1] + 1)..Len(r)
    <3> TAKE x \in Links(r)
    <3>1. CASE x = <<c, m>>
      <4>1. Child(r, x) = new /\ x[1] = c
        BY <1>3, <1>4, <3>1
      <4> QED  BY <1>1, <1>4, <4>1
    <3>2. CASE x # <<c, m>>
      <4>1. x \in Links(tree) /\ Child(r, x) = Child(tree, x)
        BY <1>3, <1>4, <3>2
      <4> QED  BY <1>1, <1>4, <2>1, <4>1
    <3> QED  BY <3>1, <3>2
  <2>3. ASSUME NEW x \in Links(r), NEW y \in Links(r), Child(r, x) = Child(r, y)  PROVE  x = y
    <3>1. \A z \in Links(r) : IF z = <<c, m>> THEN Child(r, z) = new
                              ELSE z \in Links(tree) /\ Child(r, z) = Child(tree, z)
      BY <1>3, <1>4
    <3>2. \A z \in Links(tree) : Child(tree, z) # new
      BY <1>1, <2>1
    <3>3. CASE x = <<c, m>> \/ y = <<c, m>>
      BY <2>3, <3>1, <3>2, <3>3
    <3>4. CASE x # <<c, m>> /\ y # <<c, m>>
      BY <2>3, <3>1, <3>4 DEF TreeShaped
    <3> QED  BY <3>3, <3>4
  <2> QED  BY <2>2, <2>3 DEF TreeShaped
<1> QED  BY <1>2, <1>3, <1>4, <1>5 DEF r

LEMMA LoadedNode ==
  ASSUME NEW tree \in Seq(Node), TreeShaped(tree), NEW c \in 1..Len(tree),
         NEW m \in MemberNames, m \in Pointers, NEW t \in Token
  PROVE  LET r == WithNode(tree, c, m, t)
             new == Len(tree) + 1
         IN  /\ r \in Seq(Node) /\ Len(r) = new /\ r[new] = Blank(t) /\ TreeShaped(r)
             /\ \A d \in 1..Len(tree) :
                  r[d].type = tree[d].type /\ DOMAIN r[d].at = DOMAIN tree[d].at
<1> DEFINE new == Len(tree) + 1
           r == WithNode(tree, c, m, t)
<1>1. /\ r \in Seq(Node) /\ Len(r) = new /\ r[new] = Blank(t) /\ TreeShaped(r)
      /\ \A d \in 1..Len(tree) :
           r[d].type = tree[d].type /\ DOMAIN r[d].at = DOMAIN tree[d].at
      /\ <<c, m>> \notin Links(tree) =>
           \A x \in Links(tree) : x \in Links(r) /\ Child(r, x) = Child(tree, x)
      /\ \A x \in Links(r) : x = <<c, m>> \/ x \in Links(tree)
      /\ InStruct(tree, c, m) => <<c, m>> \in Links(r) /\ Child(r, <<c, m>>) = new
  BY LoadedLinks, SMT
<1> QED  BY <1>1, Zenon

-------------------------------------------------------------------------------
(* The tree that is loaded, and the stack, at every step.                  *)

LEMMA ProgramNode ==
  ASSUME NEW p \in Programs, NEW c \in 2..Len(p)
  PROVE  /\ p[c].type \in Token /\ DOMAIN p[c].at = DOMAIN Blank(p[c].type).at
         /\ p[c].type \notin Miscast => p[c].type \notin Odd
BY ProgramsAssumption DEF ProgramsAssumption, Token, Odd

LEMMA ProgramTree ==
  ASSUME NEW p \in Programs
  PROVE  /\ Len(p) \in Nat \ {0} /\ TreeShaped(p) /\ DOMAIN p[1].at = {"root"}
         /\ \A c \in 2..Len(p) : HasParent(p, c)
BY ProgramsAssumption DEF ProgramsAssumption, Variable

LEMMA OddAllocated == Odd \subseteq UNION {Allocated[s] : s \in DOMAIN Allocated}
<1>1. /\ {"ASTUnpack", "ASTHalt", "ASTFuncDecl"} \subseteq DOMAIN Allocated
      /\ "UNPACK" \in Allocated["ASTUnpack"] /\ "NEXUS_HALT" \in Allocated["ASTHalt"]
      /\ "EXTERN_DECL" \in Allocated["ASTFuncDecl"]
  BY DEF Allocated
<1> QED  BY <1>1 DEF Odd, Miscast, Undeclared

(* A scalar is a token, and not a type.                                    *)
LEMMA ProgramScalar ==
  ASSUME NEW p \in Programs, NEW c \in 1..Len(p), NEW m, m \notin Pointers
  PROVE  Held(p, c, m) \in Token \ Odd
<1>1. CASE InStruct(p, c, m)
  <2>1. c # 1
    BY <1>1, ProgramTree, Names DEF InStruct
  <2>2. c \in 2..Len(p) /\ m \in DOMAIN p[c].at \ Pointers
    BY <1>1, <2>1, ProgramTree DEF InStruct
  <2>3. p[c].at[m] \in STRING \ UNION {Allocated[s] : s \in DOMAIN Allocated}
    BY <2>2, ProgramsAssumption DEF ProgramsAssumption
  <2> QED  BY <1>1, <2>3, OddAllocated DEF Held, Token
<1>2. CASE ~InStruct(p, c, m)
  BY <1>2 DEF Held, Token, Odd, Miscast, Undeclared
<1> QED  BY <1>1, <1>2

LEMMA NoOdd == {Mark, Part, Zero} \intersect Odd = {} /\ {Mark, Part, Zero} \subseteq Token
BY DEF Odd, Miscast, Undeclared, Mark, Part, Zero, Token

(* What is written.                                                        *)
LEMMA Longer ==
  ASSUME NEW v \in Token, archive' = archive \o <<v>>, archive \in Seq(Token)
  PROVE  /\ archive' \in Seq(Token)
         /\ v \notin Odd /\ Clean(archive) => Clean(archive')
<1>1. <<v>> \in Seq(Token) /\ Len(<<v>>) = 1 /\ Len(archive) \in Nat
  BY LenProperties
<1>2. /\ archive' \in Seq(Token) /\ Len(archive') = Len(archive) + 1
      /\ \A i \in 1..Len(archive) + 1 :
           archive'[i] = IF i <= Len(archive) THEN archive[i] ELSE (<<v>>)[i - Len(archive)]
  BY <1>1, ConcatProperties
<1>3. ASSUME v \notin Odd, Clean(archive), NEW i \in 1..Len(archive) + 1
      PROVE  archive'[i] \notin Odd
  <2>1. CASE i <= Len(archive)
    BY <1>1, <1>2, <1>3, <2>1 DEF Clean
  <2>2. CASE ~(i <= Len(archive))
    <3>1. i - Len(archive) = 1
      BY <1>1, <2>2
    <3> QED  BY <1>2, <1>3, <2>2, <3>1
  <2> QED  BY <2>1, <2>2
<1> QED  BY <1>2, <1>3 DEF Clean

LEMMA Written ==
  ASSUME NEW v \in Token, Put(<<v>>), archive \in Seq(Token)
  PROVE  /\ archive' \in Seq(Token)
         /\ v \notin Odd /\ Clean(archive) => Clean(archive')
<1>1. CASE full
  BY <1>1 DEF Put
<1>2. CASE ~full
  BY <1>2, Longer DEF Put
<1> QED  BY <1>1, <1>2

LEMMA Filled ==
  ASSUME archive \in Seq(Token), DiskFills
  PROVE  archive' \in Seq(Token) /\ (Clean(archive) => Clean(archive'))
<1>1. CASE archive' = archive
  BY <1>1
<1>2. CASE archive' = archive \o <<Part>>
  BY <1>2, NoOdd, Longer
<1> QED  BY <1>1, <1>2 DEF DiskFills

(* What has been read is taken off the file.                               *)
LEMMA Consumed ==
  ASSUME in \in Seq(Token), in' = IF in = <<>> THEN in ELSE Tail(in)
  PROVE  /\ in' \in Seq(Token)
         /\ Clean(in) => Clean(in')
         /\ in # <<>> => Head(in) \in Token /\ (Clean(in) => Head(in) \notin Odd)
<1>1. CASE in = <<>>
  BY <1>1
<1>2. CASE in # <<>>
  <2>1. /\ Head(in) = in[1] /\ 1 \in 1..Len(in) /\ Tail(in) \in Seq(Token)
        /\ Len(in) \in Nat /\ Len(Tail(in)) = Len(in) - 1
        /\ \A i \in 1..Len(Tail(in)) : Tail(in)[i] = in[i + 1]
    BY <1>2, Popped, LenProperties
  <2>2. in[1] \in Token
    BY <2>1, ElementOfSeq
  <2>3. ASSUME Clean(in), NEW i \in 1..Len(Tail(in))  PROVE  Tail(in)[i] \notin Odd
    <3>1. i + 1 \in 1..Len(in)
      BY <2>1
    <3> QED  BY <2>1, <2>3, <3>1 DEF Clean
  <2>4. in' = Tail(in)
    BY <1>2
  <2> QED  BY <2>1, <2>2, <2>3, <2>4 DEF Clean
<1> QED  BY <1>1, <1>2

(* The item at hand.                                                       *)
LEMMA HeadItem ==
  ASSUME todo \in Seq(Item), todo # <<>>
  PROVE  /\ Head(todo) \in Pending /\ Head(todo) \in Item
         /\ Head(todo) = <<Head(todo)[1], Head(todo)[2]>>
         /\ Head(todo)[1] \in Nat /\ Head(todo)[2] \in MemberNames
         /\ Tail(todo) \in Seq(Item) /\ Among(Tail(todo)) \subseteq Pending
<1>1. Head(todo) \in Item /\ Tail(todo) \in Seq(Item)
  BY HeadTailProperties
<1>2. Among(todo) = {Head(todo)} \union Among(Tail(todo))
  BY Popped
<1> QED  BY <1>1, <1>2 DEF Item, Pending

(* The stack after a visit.                                                *)
LEMMA Visited ==
  ASSUME todo \in Seq(Item), todo # <<>>, NEW p \in Nat, NEW view \in Seq(MemberNames),
         todo' = Visit(p, view) \o Tail(todo)
  PROVE  /\ todo' \in Seq(Item)
         /\ Pending' = {<<p, m>> : m \in Among(view)} \union Among(Tail(todo))
BY Pushed DEF Pending

LEMMA RootItem ==
  ASSUME todo' = <<Root>>
  PROVE  /\ todo' \in Seq(Item) /\ Pending' = {Root} /\ Distinct(todo')
         /\ Len(todo') = 1 /\ todo'[1] = Root
<1>1. Root \in Item
  BY DEF Root, Item, MemberNames
<1>2. todo' \in [1..1 -> Item] /\ DOMAIN todo' = {1} /\ todo'[1] = Root
  BY <1>1
<1>3. todo' \in Seq(Item)
  BY <1>1
<1> QED  BY <1>2, <1>3 DEF Pending, Among, Distinct

(* One step of the load keeps the tree a tree.                             *)
LEMMA ReadNodeStep ==
  ASSUME LoadedInv, TypeInv, ReadNode
  PROVE  LoadedInv' /\ TypeInv'
<1> DEFINE c == Head(todo)[1]
           m == Head(todo)[2]
           new == Len(loaded) + 1
<1>1. /\ phase = "load" /\ todo # <<>> /\ m \in Pointers
      /\ in' = IF in = <<>> THEN in ELSE Tail(in)
      /\ phase' = phase /\ program' = program /\ archive' = archive
  BY DEF ReadNode, AtPointer
<1>2. /\ todo \in Seq(Item) /\ in \in Seq(Token) /\ loaded \in Seq(Node)
      /\ \A x \in Pending : x[1] \in 1..Len(loaded)
      /\ Len(loaded) \in Nat \ {0} /\ TreeShaped(loaded)
  BY <1>1, LenProperties DEF TypeInv, LoadedInv
<1>3. /\ c \in 1..Len(loaded) /\ m \in MemberNames /\ Tail(todo) \in Seq(Item)
      /\ Among(Tail(todo)) \subseteq Pending
  BY <1>1, <1>2, HeadItem
<1>4. in' \in Seq(Token) /\ (in # <<>> => Head(in) \in Token)
  BY <1>1, <1>2, Consumed
<1>5. CASE in = <<>> \/ Head(in) \in {Mark, Part}
  <2>1. loaded' = Store(loaded, c, m, NULL) /\ todo' = Tail(todo)
    BY <1>5 DEF ReadNode, NoNode
  <2>2. NULL \in Value
    BY DEF Value, NULL
  <2>3. /\ loaded' \in Seq(Node) /\ Len(loaded') = Len(loaded)
        /\ \A d \in 1..Len(loaded) :
             loaded'[d].type = loaded[d].type /\ DOMAIN loaded'[d].at = DOMAIN loaded[d].at
    BY <1>2, <1>3, <2>1, <2>2, StoredNodes DEF LoadedInv
  <2>4. TreeShaped(loaded')
    BY <1>2, <1>3, <2>1, <2>2, LoadedScalar
  <2>5. LoadedInv'
    BY <1>2, <2>3, <2>4 DEF LoadedInv
  <2>6. Pending' \subseteq Pending /\ todo' \in Seq(Item)
    BY <1>3, <2>1 DEF Pending
  <2> QED  BY <1>1, <1>2, <1>4, <2>3, <2>5, <2>6 DEF TypeInv
<1>6. CASE ~(in = <<>> \/ Head(in) \in {Mark, Part})
  <2>1. /\ loaded' = WithNode(loaded, c, m, Head(in))
        /\ todo' = Visit(new, LoadView(Head(in))) \o Tail(todo)
    BY <1>6 DEF ReadNode, LoadView, WithNode
  <2>2. Head(in) \in Token
    BY <1>4, <1>6
  <2>3. /\ loaded' \in Seq(Node) /\ Len(loaded') = new /\ loaded'[new] = Blank(Head(in))
        /\ TreeShaped(loaded')
        /\ \A d \in 1..Len(loaded) :
             loaded'[d].type = loaded[d].type /\ DOMAIN loaded'[d].at = DOMAIN loaded[d].at
    <3> DEFINE r == WithNode(loaded, c, m, Head(in))
    <3>1. m \in Pointers /\ m \in MemberNames /\ c \in 1..Len(loaded)
      BY <1>1, <1>3
    <3> HIDE DEF c, m
    <3>2. /\ r \in Seq(Node) /\ Len(r) = new /\ r[new] = Blank(Head(in)) /\ TreeShaped(r)
          /\ \A d \in 1..Len(loaded) :
               r[d].type = loaded[d].type /\ DOMAIN r[d].at = DOMAIN loaded[d].at
      BY <1>2, <2>2, <3>1, LoadedNode
    <3> HIDE DEF r, new
    <3> QED  BY <2>1, <3>2 DEF r
  <2>4. LoadedInv'
    <3>1. \A d \in 2..new : DOMAIN loaded'[d].at = DOMAIN Blank(loaded'[d].type).at
      <4> TAKE d \in 2..new
      <4>1. CASE d = new
        BY <2>3, <4>1, BlankNode
      <4>2. CASE d # new
        <5>1. d \in 2..Len(loaded) /\ d \in 1..Len(loaded)
          BY <1>2, <4>2
        <5> QED  BY <2>3, <5>1 DEF LoadedInv
      <4> QED  BY <4>1, <4>2
    <3>2. DOMAIN loaded'[1].at = {"root"}
      <4>1. 1 \in 1..Len(loaded)
        BY <1>2
      <4> QED  BY <2>3, <4>1 DEF LoadedInv
    <3> QED  BY <1>2, <2>3, <3>1, <3>2 DEF LoadedInv
  <2>5. LoadView(Head(in)) \in Seq(MemberNames)
    BY NodeViews
  <2>6. /\ todo' \in Seq(Item)
        /\ Pending' = {<<new, n>> : n \in Among(LoadView(Head(in)))} \union Among(Tail(todo))
    <3>1. new \in Nat
      BY <1>2
    <3> HIDE DEF new
    <3> QED  BY <1>1, <1>2, <2>1, <2>5, <3>1, Visited
  <2>7. \A x \in Pending' : x[1] \in 1..Len(loaded')
    BY <1>2, <1>3, <2>3, <2>6
  <2> QED  BY <1>1, <1>2, <1>4, <2>4, <2>6, <2>7 DEF TypeInv
<1> QED  BY <1>5, <1>6

LEMMA ReadScalarStep ==
  ASSUME LoadedInv, TypeInv, ReadScalar
  PROVE  LoadedInv' /\ TypeInv'
<1> DEFINE c == Head(todo)[1]
           m == Head(todo)[2]
           v == IF in = <<>> \/ Head(in) = Mark \/ (Head(in) = Part /\ m \in Strings)
                THEN NoScalar ELSE Head(in)
<1>1. /\ phase = "load" /\ todo # <<>> /\ m \notin Pointers
      /\ in' = IF in = <<>> THEN in ELSE Tail(in)
      /\ loaded' = Store(loaded, c, m, v) /\ todo' = Tail(todo)
      /\ phase' = phase /\ program' = program /\ archive' = archive
  BY DEF ReadScalar, AtScalar
<1>2. /\ todo \in Seq(Item) /\ in \in Seq(Token) /\ loaded \in Seq(Node)
      /\ \A x \in Pending : x[1] \in 1..Len(loaded)
      /\ TreeShaped(loaded)
  BY <1>1 DEF TypeInv, LoadedInv
<1>3. /\ c \in 1..Len(loaded) /\ m \in MemberNames /\ Tail(todo) \in Seq(Item)
      /\ Among(Tail(todo)) \subseteq Pending
  BY <1>1, <1>2, HeadItem
<1>4. in' \in Seq(Token) /\ v \in Value
  <2>1. in' \in Seq(Token) /\ (in # <<>> => Head(in) \in Token)
    BY <1>1, <1>2, Consumed
  <2> QED  BY <2>1, NoOdd DEF NoScalar, Value
<1> HIDE DEF v
<1>5. /\ loaded' \in Seq(Node) /\ Len(loaded') = Len(loaded)
      /\ \A d \in 1..Len(loaded) :
           loaded'[d].type = loaded[d].type /\ DOMAIN loaded'[d].at = DOMAIN loaded[d].at
  <2> DEFINE t == Store(loaded, c, m, v)
  <2>1. /\ t \in Seq(Node) /\ Len(t) = Len(loaded)
        /\ \A d \in 1..Len(loaded) :
             t[d].type = loaded[d].type /\ DOMAIN t[d].at = DOMAIN loaded[d].at
    BY <1>2, <1>3, <1>4, Stored
  <2> HIDE DEF t
  <2> QED  BY <1>1, <2>1 DEF t
<1>6. TreeShaped(loaded')
  BY <1>1, <1>2, <1>3, <1>4, LoadedScalar
<1>7. LoadedInv'
  BY <1>2, <1>5, <1>6, LenProperties DEF LoadedInv
<1>8. Pending' \subseteq Pending /\ todo' \in Seq(Item)
  BY <1>1, <1>3 DEF Pending
<1> QED  BY <1>1, <1>2, <1>4, <1>5, <1>7, <1>8 DEF TypeInv

LEMMA WriteNodeStep ==
  ASSUME LoadedInv, TypeInv, WriteNode
  PROVE  LoadedInv' /\ TypeInv'
<1> DEFINE c == Head(todo)[1]
           m == Head(todo)[2]
           p == Held(program, c, m)
           t == program[p].type
<1>1. /\ phase = "save" /\ todo # <<>> /\ m \in Pointers
      /\ phase' = phase /\ program' = program /\ loaded' = loaded /\ in' = in
  BY DEF WriteNode, AtPointer
<1>2. /\ todo \in Seq(Item) /\ archive \in Seq(Token) /\ program \in Programs
      /\ \A x \in Pending : x[1] \in 1..Len(program)
  BY <1>1 DEF TypeInv
<1>3. /\ c \in 1..Len(program) /\ Tail(todo) \in Seq(Item)
      /\ Among(Tail(todo)) \subseteq Pending
  BY <1>1, <1>2, HeadItem
<1>4. CASE p = NULL
  <2>1. Put(<<Mark>>) /\ todo' = Tail(todo)
    BY <1>4 DEF WriteNode
  <2>2. archive' \in Seq(Token)
    BY <1>2, <2>1, NoOdd, Written
  <2>3. Pending' \subseteq Pending /\ todo' \in Seq(Item)
    BY <1>3, <2>1 DEF Pending
  <2> QED  BY <1>1, <1>2, <2>2, <2>3 DEF TypeInv, LoadedInv
<1>5. CASE p # NULL
  <2>1. /\ Put(<<t>>)
        /\ todo' = Visit(p, <<"line">> \o WriteView(t) \o <<"next">>) \o Tail(todo)
    BY <1>5 DEF WriteNode
  <2>2. Len(program) \in Nat /\ p \in 2..Len(program)
    BY <1>1, <1>2, <1>3, <1>5, ProgramTree, HeldNode
  <2>3. t \in Token
    BY <1>2, <2>2, ProgramNode
  <2>4. archive' \in Seq(Token)
    BY <1>2, <2>1, <2>3, Written
  <2>5. todo' = Visit(p, LoadView(t)) \o Tail(todo)
    BY <2>1, ReadViews DEF LoadView
  <2>6. LoadView(t) \in Seq(MemberNames) /\ p \in Nat
    BY <2>2, NodeViews
  <2> HIDE DEF p, t
  <2>7. /\ todo' \in Seq(Item)
        /\ Pending' = {<<p, n>> : n \in Among(LoadView(t))} \union Among(Tail(todo))
    BY <1>1, <1>2, <2>5, <2>6, Visited
  <2>8. \A x \in Pending' : x[1] \in 1..Len(program)
    BY <1>2, <1>3, <2>2, <2>7
  <2> QED  BY <1>1, <1>2, <2>4, <2>7, <2>8 DEF TypeInv, LoadedInv
<1> QED  BY <1>4, <1>5

LEMMA WriteScalarStep ==
  ASSUME LoadedInv, TypeInv, WriteScalar
  PROVE  LoadedInv' /\ TypeInv'
<1> DEFINE m == Head(todo)[2]
           v == Held(program, Head(todo)[1], m)
           w == IF m \in Strings /\ v = Zero THEN Mark ELSE v
<1>1. /\ phase = "save" /\ todo # <<>> /\ m \notin Pointers /\ Put(<<w>>)
      /\ todo' = Tail(todo)
      /\ phase' = phase /\ program' = program /\ loaded' = loaded /\ in' = in
  BY DEF WriteScalar, AtScalar
<1>2. /\ todo \in Seq(Item) /\ archive \in Seq(Token) /\ program \in Programs
      /\ \A x \in Pending : x[1] \in 1..Len(program)
  BY <1>1 DEF TypeInv
<1>3. /\ Head(todo)[1] \in 1..Len(program) /\ Tail(todo) \in Seq(Item)
      /\ Among(Tail(todo)) \subseteq Pending
  BY <1>1, <1>2, HeadItem
<1>4. w \in Token
  BY <1>1, <1>2, <1>3, ProgramScalar, NoOdd
<1>5. archive' \in Seq(Token)
  BY <1>1, <1>2, <1>4, Written
<1>6. Pending' \subseteq Pending /\ todo' \in Seq(Item)
  BY <1>1, <1>3 DEF Pending
<1> QED  BY <1>1, <1>2, <1>5, <1>6 DEF TypeInv, LoadedInv

LEMMA NotLoading ==
  ASSUME LoadedInv, loaded' = loaded
  PROVE  LoadedInv'
BY DEF LoadedInv

(* The steps of ast_destroy as the two things they do to the stack.        *)
LEMMA DestroyNodeActs ==
  ASSUME todo \in Seq(Item), DestroyNode
  PROVE  LET p == Held(Doomed, Head(todo)[1], Head(todo)[2])
         IN  /\ todo # <<>> /\ Head(todo)[2] \in Pointers
             /\ p = NULL => todo' = Tail(todo)
             /\ p # NULL => todo' = Visit(p, DestroyView(Doomed[p].type)) \o Tail(todo)
BY DEF DestroyNode, AtPointer, DestroyView

LEMMA TypeInit ==
  ASSUME Init
  PROVE  LoadedInv /\ TypeInv
<1> DEFINE v == Variable(NULL)
<1>1. loaded = <<v>> /\ program \in Programs /\ phase = "start" /\ archive = OldArchive
      /\ in = <<>> /\ todo = <<>>
  BY DEF Init
<1>2. v \in Node /\ DOMAIN v.at = {"root"} /\ v.at["root"] = NULL
  <2>1. v.type \in Token /\ v = [type |-> v.type, at |-> v.at]
    BY DEF Variable, Token
  <2>2. v.at \in [{"root"} -> Value] /\ DOMAIN v.at = {"root"} /\ v.at["root"] = NULL
    BY DEF Variable, Value, NULL
  <2>3. {"root"} \in SUBSET MemberNames
    BY DEF MemberNames
  <2> HIDE DEF v
  <2>4. v.at \in UNION {[D -> Value] : D \in SUBSET MemberNames}
    BY <2>2, <2>3
  <2> QED  BY <2>1, <2>2, <2>4 DEF Node
<1> HIDE DEF v
<1>3. loaded \in Seq(Node) /\ Len(loaded) = 1 /\ loaded[1] = v
  BY <1>1, <1>2
<1>4. Links(loaded) = {}
  BY <1>2, <1>3 DEF Links, InStruct
<1>5. LoadedInv
  BY <1>2, <1>3, <1>4 DEF LoadedInv, TreeShaped
<1>6. OldArchive = NoFile \/ OldArchive \in Seq(Token)
  BY ArchiveAssumption, SeqMonotonic DEF ArchiveAssumption, Token
<1>7. Pending = {} /\ todo \in Seq(Item) /\ in \in Seq(Token)
  BY <1>1, EmptySeq DEF Pending, Among
<1> QED  BY <1>1, <1>5, <1>6, <1>7 DEF TypeInv

(* The tree that ast_destroy is given.                                     *)
LEMMA DoomedTree ==
  ASSUME LoadedInv, TypeInv
  PROVE  /\ Len(Doomed) \in Nat \ {0} /\ TreeShaped(Doomed)
         /\ DOMAIN Doomed[1].at = {"root"}
         /\ \A c \in 2..Len(Doomed) : DOMAIN Doomed[c].at = DOMAIN Blank(Doomed[c].type).at
<1>1. CASE phase = "destroy_loaded"
  BY <1>1, LenProperties DEF LoadedInv, Doomed
<1>2. CASE phase # "destroy_loaded"
  BY <1>2, ProgramTree, ProgramNode DEF TypeInv, Doomed
<1> QED  BY <1>1, <1>2

LEMMA TypeStep ==
  ASSUME LoadedInv, TypeInv, FreeInv, [Next]_vars
  PROVE  LoadedInv' /\ TypeInv'
<1>1. CASE OpenFails
  BY <1>1, NotLoading DEF OpenFails, Go, TypeInv
<1>2. CASE Open
  <2>1. todo' = <<Root>> /\ archive' = <<>> /\ program' = program /\ phase' = "save"
        /\ loaded' = loaded /\ in' = in
    BY <1>2 DEF Open
  <2>2. archive' \in Seq(Token)
    BY <2>1, EmptySeq
  <2>3. Len(program) \in Nat \ {0}
    BY ProgramTree DEF TypeInv
  <2>4. \A x \in Pending' : x[1] \in 1..Len(program)
    BY <2>1, <2>3, RootItem DEF Root
  <2> QED  BY <2>1, <2>2, <2>4, NotLoading, RootItem DEF TypeInv
<1>3. CASE DiskFills
  <2>1. archive' \in Seq(Token)
    BY <1>3, Filled DEF DiskFills, TypeInv
  <2> QED  BY <1>3, <2>1, NotLoading DEF DiskFills, TypeInv, Pending
<1>4. CASE WriteNode
  BY <1>4, WriteNodeStep
<1>5. CASE WriteScalar
  BY <1>5, WriteScalarStep
<1>6. CASE Saved
  BY <1>6, NotLoading DEF Saved, Go, TypeInv
<1>7. CASE NoCodegen
  BY <1>7, NotLoading, RootItem DEF NoCodegen, Go, TypeInv
<1>8. CASE CodegenRun
  <2>1. todo' = <<Root>> /\ in' = archive /\ archive # NoFile /\ program' = program
        /\ phase' = "load" /\ loaded' = loaded /\ archive' = archive
    BY <1>8 DEF CodegenRun, Go
  <2>2. \A x \in Pending' : x[1] \in 1..Len(loaded)
    BY <2>1, RootItem, LenProperties DEF Root, LoadedInv
  <2> QED  BY <2>1, <2>2, NotLoading, RootItem DEF TypeInv
<1>9. CASE ReadNode
  BY <1>9, ReadNodeStep
<1>10. CASE ReadScalar
  BY <1>10, ReadScalarStep
<1>11. CASE Loaded
  <2>1. todo' = <<Root>> /\ phase' \in {"destroy_program", "destroy_loaded"}
        /\ program' = program /\ loaded' = loaded /\ archive' = archive /\ in' = in
    BY <1>11 DEF Loaded, Go
  <2> QED  BY <2>1, NotLoading, RootItem DEF TypeInv
<1>12. CASE DestroyNode
  <2> DEFINE p == Held(Doomed, Head(todo)[1], Head(todo)[2])
             d == DestroyView(Doomed[p].type)
  <2>1. /\ phase' = phase /\ program' = program /\ loaded' = loaded /\ archive' = archive
        /\ in' = in /\ Destroying /\ todo # <<>>
    BY <1>12 DEF DestroyNode, AtPointer
  <2>2. todo \in Seq(Item)
    BY DEF TypeInv
  <2>3. todo' = Tail(todo) \/ (p # NULL /\ todo' = Visit(p, d) \o Tail(todo))
    BY <1>12, <2>2, DestroyNodeActs
  <2>4. todo' \in Seq(Item)
    <3>1. CASE todo' = Tail(todo)
      BY <2>1, <2>2, <3>1, HeadItem
    <3>2. CASE p # NULL /\ todo' = Visit(p, d) \o Tail(todo)
      <4>1. p \in Nat
        <5>1. Head(todo)[1] \in 1..Len(Doomed)
          BY <2>1, <2>2, DoomedTree, HeadItem DEF FreeInv, Once, Root, Pending
        <5>2. Head(todo)[2] \in Pointers /\ p # NULL
          BY <1>12, <3>2 DEF DestroyNode, AtPointer
        <5>3. Len(Doomed) \in Nat /\ TreeShaped(Doomed)
          BY DoomedTree
        <5>4. p \in 2..Len(Doomed)
          BY <5>1, <5>2, <5>3, HeldNode
        <5> QED  BY <5>3, <5>4
      <4>2. d \in Seq(MemberNames)
        BY NodeViews
      <4> QED  BY <2>1, <2>2, <3>2, <4>1, <4>2, Visited
    <3> QED  BY <2>3, <3>1, <3>2
  <2> QED  BY <2>1, <2>4, NotLoading DEF TypeInv, Destroying
<1>13. CASE Free
  <2>1. /\ phase' = phase /\ program' = program /\ loaded' = loaded /\ archive' = archive
        /\ in' = in /\ Destroying /\ todo # <<>> /\ todo' = Tail(todo)
    BY <1>13 DEF Free, AtScalar
  <2>2. todo' \in Seq(Item)
    BY <2>1, HeadItem DEF TypeInv
  <2> QED  BY <2>1, <2>2, NotLoading DEF TypeInv, Destroying
<1>14. CASE Destroyed
  <2>1. /\ phase' \in {"destroy_program", "done"} /\ program' = program
        /\ loaded' = loaded /\ archive' = archive /\ in' = in
        /\ todo' = <<Root>> \/ todo' = todo
    BY <1>14 DEF Destroyed, Go
  <2> QED  BY <2>1, NotLoading, RootItem DEF TypeInv
<1>15. CASE WildPointer
  BY <1>15, NotLoading DEF WildPointer, Go, TypeInv
<1>16. CASE UNCHANGED vars
  BY <1>16, NotLoading DEF vars, TypeInv, Pending
<1> QED
  BY <1>1, <1>2, <1>3, <1>4, <1>5, <1>6, <1>7, <1>8, <1>9, <1>10, <1>11, <1>12, <1>13,
     <1>14, <1>15, <1>16 DEF Next, Step

-------------------------------------------------------------------------------
(* ast_destroy visits and frees once.                                      *)

(* A node stays visited when one of its members is taken off the stack.    *)
LEMMA StillTouched ==
  ASSUME NEW D, NEW F, NEW q \in Seq(Item), q # <<>>, Once(D, q, F), Head(q)[2] # "node"
  PROVE  /\ Touched(Tail(q), F) \subseteq Touched(q, F)
         /\ \A c \in Touched(q, F) \ {1} : c \in Touched(Tail(q), F)
<1>1. /\ Head(q) = q[1] /\ 1 \in 1..Len(q) /\ Len(q) \in Nat /\ Len(Tail(q)) = Len(q) - 1
      /\ Tail(q) \in Seq(Item) /\ \A i \in 1..Len(Tail(q)) : Tail(q)[i] = q[i + 1]
      /\ Among(q) = {Head(q)} \union Among(Tail(q))
  BY Popped, LenProperties
<1>2. ASSUME NEW c \in Touched(q, F), c # 1  PROVE  c \in Touched(Tail(q), F)
  <2>1. PICK x \in Among(q) \union F : x[1] = c
    BY DEF Touched
  <2>2. CASE x \in Among(Tail(q)) \union F
    BY <2>1, <2>2 DEF Touched
  <2>3. CASE x = Head(q)
    <3>1. q[1] # Root /\ q[1][1] = c
      BY <1>1, <1>2, <2>1, <2>3 DEF Root
    <3>2. PICK j \in 1..Len(q) : q[j] = <<c, "node">>
      BY <1>1, <3>1 DEF Once, Ordered
    <3>3. j # 1
      BY <1>1, <3>2
    <3>4. j - 1 \in 1..Len(Tail(q)) /\ (j - 1) + 1 = j
      BY <1>1, <3>3
    <3>5. Tail(q)[j - 1] = <<c, "node">>
      BY <1>1, <3>2, <3>4
    <3>6. <<c, "node">> \in Among(Tail(q))
      BY <1>1, <3>4, <3>5, AmongSeq
    <3> QED  BY <3>6 DEF Touched
  <2> QED  BY <1>1, <2>1, <2>2, <2>3
<1> QED  BY <1>1, <1>2 DEF Touched

(* The order on a stack whose head is taken off.                           *)
LEMMA TailOrder ==
  ASSUME NEW q \in Seq(Item), q # <<>>, Ordered(q)
  PROVE  Ordered(Tail(q))
<1>1. /\ Len(q) \in Nat /\ Len(Tail(q)) = Len(q) - 1
      /\ \A i \in 1..Len(Tail(q)) : Tail(q)[i] = q[i + 1]
  BY Popped, LenProperties
<1> SUFFICES ASSUME NEW i \in 1..Len(Tail(q)), Tail(q)[i] # Root
             PROVE  \E j \in i..Len(Tail(q)) : Tail(q)[j] = <<Tail(q)[i][1], "node">>
  BY DEF Ordered
<1>2. i + 1 \in 1..Len(q) /\ Tail(q)[i] = q[i + 1]
  BY <1>1
<1>3. PICK j \in (i + 1)..Len(q) : q[j] = <<q[i + 1][1], "node">>
  BY <1>2 DEF Ordered
<1>4. j - 1 \in i..Len(Tail(q)) /\ j - 1 \in 1..Len(Tail(q)) /\ (j - 1) + 1 = j
  BY <1>1
<1>5. Tail(q)[j - 1] = q[j]
  BY <1>1, <1>4
<1> QED  BY <1>2, <1>3, <1>4, <1>5

(* A member that leads nowhere, or holds nothing to free.                  *)
LEMMA PopOnce ==
  ASSUME NEW D, Len(D) \in Nat, NEW F, NEW q \in Seq(Item), q # <<>>, Once(D, q, F),
         Head(q)[2] # "node"
  PROVE  Once(D, Tail(q), F)
<1>1. /\ Among(q) = {Head(q)} \union Among(Tail(q)) /\ Distinct(Tail(q))
  BY Popped DEF Once
<1>2. /\ Touched(Tail(q), F) \subseteq Touched(q, F)
      /\ \A c \in Touched(q, F) \ {1} : c \in Touched(Tail(q), F)
  BY StillTouched
<1>3. \A c \in Touched(Tail(q), F) \ {1} :
        \E x \in Links(D) : Child(D, x) = c /\ x[1] \in Touched(Tail(q), F) \union {1}
  BY <1>2 DEF Once
<1>4. Ordered(Tail(q))
  BY TailOrder DEF Once
<1> QED  BY <1>1, <1>2, <1>3, <1>4 DEF Once

(* One that is freed.                                                      *)
LEMMA FreeOnce ==
  ASSUME NEW D, Len(D) \in Nat, NEW F, NEW q \in Seq(Item), q # <<>>, Once(D, q, F),
         Head(q) # Root
  PROVE  Once(D, Tail(q), F \union {Head(q)})
<1>1. /\ Among(q) = {Head(q)} \union Among(Tail(q))
      /\ Distinct(Tail(q)) /\ Head(q) \notin Among(Tail(q))
  BY Popped DEF Once
<1>2. Touched(Tail(q), F \union {Head(q)}) = Touched(q, F)
  BY <1>1 DEF Touched
<1>3. Ordered(Tail(q))
  BY TailOrder DEF Once
<1>4. Head(q) \in (2..Len(D)) \X MemberNames
  <2>1. Head(q) \in Item
    BY HeadTailProperties
  <2> QED  BY <1>1, <2>1 DEF Once, Item
<1>5. F \union {Head(q)} \subseteq (2..Len(D)) \X MemberNames
  BY <1>4 DEF Once
<1> QED  BY <1>1, <1>2, <1>3, <1>5 DEF Once

(* A stack r that is t with the members of a node p put on top of it.      *)
Laid(r, p, view, t) ==
  /\ r \in Seq(Item) /\ t \in Seq(Item) /\ view \in Seq(MemberNames)
  /\ Len(r) = Len(view) + Len(t)
  /\ \A i \in 1..Len(view) : r[i] = <<p, view[i]>>
  /\ \A i \in 1..Len(t) : r[i + Len(view)] = t[i]

LEMMA LaidAt ==
  ASSUME NEW p, NEW view, NEW t, NEW r, Laid(r, p, view, t), NEW i \in 1..Len(r)
  PROVE  /\ Len(view) \in Nat /\ Len(t) \in Nat /\ Len(r) = Len(view) + Len(t)
         /\ i <= Len(view) => i \in 1..Len(view) /\ r[i] = <<p, view[i]>> /\ r[i][1] = p
         /\ ~(i <= Len(view)) => i - Len(view) \in 1..Len(t) /\ r[i] = t[i - Len(view)]
<1>1. Len(view) \in Nat /\ Len(t) \in Nat /\ Len(r) = Len(view) + Len(t)
  BY LenProperties DEF Laid
<1>2. CASE i <= Len(view)
  <2>1. i \in 1..Len(view)
    BY <1>1, <1>2
  <2>2. r[i] = <<p, view[i]>>
    BY <2>1 DEF Laid
  <2> QED  BY <1>1, <1>2, <2>1, <2>2
<1>3. CASE ~(i <= Len(view))
  <2> DEFINE k == i - Len(view)
  <2>1. k \in 1..Len(t) /\ k + Len(view) = i
    BY <1>1, <1>3
  <2> HIDE DEF k
  <2>2. r[k + Len(view)] = t[k]
    BY <2>1 DEF Laid
  <2>3. k \in 1..Len(t) /\ r[i] = t[k]
    BY <2>1, <2>2
  <2> QED  BY <1>1, <1>3, <2>3 DEF k
<1> QED  BY <1>2, <1>3

(* The order on such a stack.                                              *)
LEMMA PushedOrder ==
  ASSUME NEW p, NEW view, NEW t, NEW r, Laid(r, p, view, t),
         Len(view) # 0, view[Len(view)] = "node", Ordered(t)
  PROVE  Ordered(r)
<1>1. Len(view) \in Nat \ {0} /\ Len(t) \in Nat /\ Len(r) = Len(view) + Len(t)
  BY LenProperties DEF Laid
<1> SUFFICES ASSUME NEW i \in 1..Len(r), r[i] # Root
             PROVE  \E j \in i..Len(r) : r[j] = <<r[i][1], "node">>
  BY DEF Ordered
<1>2. CASE i <= Len(view)
  <2>1. Len(view) \in i..Len(r) /\ Len(view) \in 1..Len(view)
    BY <1>1, <1>2
  <2>2. r[Len(view)] = <<p, "node">>
    BY <2>1 DEF Laid
  <2>3. r[i][1] = p
    BY <1>2, LaidAt
  <2> QED  BY <2>1, <2>2, <2>3
<1>3. CASE ~(i <= Len(view))
  <2> DEFINE k == i - Len(view)
  <2>1. k \in 1..Len(t) /\ r[i] = t[k]
    BY <1>3, LaidAt
  <2>2. k + Len(view) = i
    BY <1>1
  <2> HIDE DEF k
  <2>3. PICK j \in k..Len(t) : t[j] = <<t[k][1], "node">>
    BY <2>1 DEF Ordered
  <2>4. j \in 1..Len(t) /\ j + Len(view) \in i..Len(r)
    BY <1>1, <2>1, <2>2
  <2>5. r[j + Len(view)] = t[j]
    BY <2>4 DEF Laid
  <2> QED  BY <2>1, <2>3, <2>4, <2>5
<1> QED  BY <1>2, <1>3

(* No member is twice on it when the node had none there.                  *)
LEMMA PushedDistinct ==
  ASSUME NEW p, NEW view, NEW t, NEW r, Laid(r, p, view, t),
         Distinct(view), Distinct(t), \A x \in Among(t) : x[1] # p
  PROVE  Distinct(r)
<1>1. Len(view) \in Nat /\ Len(t) \in Nat /\ t \in Seq(Item) /\ view \in Seq(MemberNames)
      /\ r \in Seq(Item)
  BY LenProperties DEF Laid
<1>2. \A i, j \in 1..Len(view) : view[i] = view[j] => i = j
  BY <1>1, DistinctSeq
<1>3. \A i, j \in 1..Len(t) : t[i] = t[j] => i = j
  BY <1>1, DistinctSeq
<1>4. \A i \in 1..Len(t) : t[i][1] # p
  <2>1. Among(t) = {t[i] : i \in 1..Len(t)}
    BY <1>1, AmongSeq
  <2> QED  BY <2>1
<1>5. ASSUME NEW i \in 1..Len(r), NEW j \in 1..Len(r), r[i] = r[j]  PROVE  i = j
  <2>1. CASE i <= Len(view) /\ j <= Len(view)
    <3>1. i \in 1..Len(view) /\ r[i] = <<p, view[i]>>
      BY <2>1, LaidAt
    <3>2. j \in 1..Len(view) /\ r[j] = <<p, view[j]>>
      BY <2>1, LaidAt
    <3>3. view[i] = view[j]
      <4>1. <<p, view[i]>> = <<p, view[j]>>
        BY <1>5, <3>1, <3>2
      <4>2. <<p, view[i]>>[2] = view[i] /\ <<p, view[j]>>[2] = view[j]
        OBVIOUS
      <4> QED  BY <4>1, <4>2, Zenon
    <3> QED  BY <1>2, <3>1, <3>2, <3>3
  <2>2. CASE ~(i <= Len(view)) /\ ~(j <= Len(view))
    <3>1. i - Len(view) \in 1..Len(t) /\ r[i] = t[i - Len(view)]
      BY <2>2, LaidAt
    <3>2. j - Len(view) \in 1..Len(t) /\ r[j] = t[j - Len(view)]
      BY <2>2, LaidAt
    <3>3. i - Len(view) = j - Len(view)
      BY <1>3, <1>5, <3>1, <3>2
    <3> QED  BY <1>1, <3>3
  <2>3. CASE i <= Len(view) /\ ~(j <= Len(view))
    <3>1. r[i][1] = p
      BY <2>3, LaidAt
    <3>2. j - Len(view) \in 1..Len(t) /\ r[j] = t[j - Len(view)]
      BY <2>3, LaidAt
    <3> QED  BY <1>4, <1>5, <3>1, <3>2
  <2>4. CASE ~(i <= Len(view)) /\ j <= Len(view)
    <3>1. r[j][1] = p
      BY <2>4, LaidAt
    <3>2. i - Len(view) \in 1..Len(t) /\ r[i] = t[i - Len(view)]
      BY <2>4, LaidAt
    <3> QED  BY <1>4, <1>5, <3>1, <3>2
  <2> QED  BY <2>1, <2>2, <2>3, <2>4
<1> QED  BY <1>1, <1>5, DistinctSeq

(* ast_destroy's stack when the member at its head leads to a node.        *)
Descended(D, q) ==
  LET p == Child(D, Head(q)) IN Visit(p, DestroyView(D[p].type)) \o Tail(q)

(* A node that is visited: it was not before, nor was any child of its.    *)
LEMMA PushOnce ==
  ASSUME NEW D, Len(D) \in Nat, TreeShaped(D), NEW F, NEW q \in Seq(Item), q # <<>>,
         Once(D, q, F), Head(q) \in Links(D)
  PROVE  LET p == Child(D, Head(q))
             r == Descended(D, q)
         IN  /\ Once(D, r, F)
             /\ Touched(r, F) \subseteq Touched(q, F) \union {p}
             /\ p \in Touched(r, F) /\ \A c \in Touched(q, F) \ {1} : c \in Touched(r, F)
             /\ Among(r) = {<<p, m>> : m \in Among(DestroyView(D[p].type))} \union Among(Tail(q))
<1> DEFINE h == Head(q)
           p == Child(D, h)
           r == Descended(D, q)
           view == DestroyView(D[p].type)
<1>0. h = Head(q) /\ h \in Links(D) /\ p = Child(D, h)
      /\ r = Visit(p, DestroyView(D[p].type)) \o Tail(q)
  BY DEF Descended
<1> HIDE DEF h, p, r
<1>1. /\ view \in Seq(MemberNames) /\ Distinct(view) /\ Len(view) \in Nat \ {0}
      /\ view[Len(view)] = "node" /\ "node" \in Among(view)
  BY NodeViews
<1>2. /\ h[1] \in 1..Len(D) /\ h[2] \in Pointers /\ h = <<h[1], h[2]>>
      /\ p \in 2..Len(D) /\ p \in Nat
  BY <1>0, LinkHeld
<1>3. h[2] # "node"
  BY <1>2, Names
<1> HIDE DEF view
<1>4. /\ Laid(r, p, view, Tail(q))
      /\ Among(r) = {<<p, m>> : m \in Among(view)} \union Among(Tail(q))
  <2> DEFINE w == Visit(p, view) \o Tail(q)
  <2>1. /\ w \in Seq(Item) /\ Len(w) = Len(view) + Len(Tail(q))
        /\ \A i \in 1..Len(view) : w[i] = <<p, view[i]>>
        /\ \A i \in 1..Len(Tail(q)) : w[i + Len(view)] = Tail(q)[i]
        /\ Among(w) = {<<p, m>> : m \in Among(view)} \union Among(Tail(q))
    BY <1>1, <1>2, Pushed, ZenonT(40)
  <2>2. Tail(q) \in Seq(Item)
    BY Popped
  <2>3. r = w
    BY <1>0 DEF view
  <2> HIDE DEF w
  <2> QED  BY <1>1, <2>1, <2>2, <2>3 DEF Laid
<1>5. /\ Among(q) = {h} \union Among(Tail(q)) /\ h \notin Among(Tail(q)) /\ Distinct(Tail(q))
      /\ Tail(q) \in Seq(Item)
  BY <1>0, Popped DEF Once
<1>6. p \notin Touched(q, F)
  BY <1>0, <1>5 DEF Once
<1>7. /\ \A c \in Touched(q, F) \ {1} : c \in Touched(Tail(q), F)
      /\ Touched(Tail(q), F) \subseteq Touched(q, F)
  BY <1>0, <1>3, StillTouched
<1>8. Touched(r, F) = Touched(Tail(q), F) \union {p}
  <2>1. \A x \in Among(r) : x \in Among(Tail(q)) \/ x[1] = p
    BY <1>4
  <2>2. <<p, "node">> \in Among(r)
    BY <1>1, <1>4
  <2>3. Among(Tail(q)) \subseteq Among(r)
    BY <1>4
  <2> QED  BY <2>1, <2>2, <2>3 DEF Touched
<1>9. /\ Touched(r, F) \subseteq Touched(q, F) \union {p} /\ p \in Touched(r, F)
      /\ \A c \in Touched(q, F) \ {1} : c \in Touched(r, F)
  BY <1>7, <1>8
<1>10. \A x \in Among(Tail(q)) \union F : x[1] # p
  BY <1>5, <1>6 DEF Touched
<1>11. Ordered(r)
  <2>1. Ordered(Tail(q))
    BY TailOrder DEF Once
  <2> QED  BY <1>1, <1>4, <2>1, PushedOrder
<1>12. Distinct(r)
  <2>1. \A x \in Among(Tail(q)) : x[1] # p
    BY <1>10
  <2> QED  BY <1>1, <1>4, <1>5, <2>1, PushedDistinct
<1>13. Among(r) \intersect F = {}
  <2>1. Among(Tail(q)) \intersect F = {}
    BY <1>5 DEF Once
  <2>2. \A m : <<p, m>> \notin F
    BY <1>10
  <2> QED  BY <1>4, <2>1, <2>2
<1>14. \A x \in Among(r) : x = Root \/ x[1] \in 2..Len(D)
  <2>1. \A x \in Among(Tail(q)) : x = Root \/ x[1] \in 2..Len(D)
    BY <1>5 DEF Once
  <2> QED  BY <1>2, <1>4, <2>1
<1>15. ASSUME NEW x \in Among(r) \intersect Links(D)  PROVE  Child(D, x) \notin Touched(r, F)
  <2>1. x[1] < Child(D, x) /\ Child(D, x) \in 2..Len(D) /\ x[1] \in 1..Len(D)
    BY <1>0, LinkHeld
  <2>2. CASE x \in Among(Tail(q))
    <3>1. Child(D, x) \notin Touched(q, F) /\ x # h
      BY <1>5, <2>2 DEF Once
    <3>2. Child(D, x) # p
      BY <1>0, <3>1 DEF TreeShaped
    <3> QED  BY <1>9, <3>1, <3>2
  <2>3. CASE x \notin Among(Tail(q))
    <3>1. x[1] = p
      BY <1>4, <2>3
    <3>2. Child(D, x) # p
      BY <2>1, <3>1
    <3>3. ASSUME Child(D, x) \in Touched(q, F)  PROVE  FALSE
      <4>1. Child(D, x) \in Touched(q, F) \ {1}
        BY <2>1, <3>3
      <4>2. PICK y \in Links(D) : Child(D, y) = Child(D, x) /\ y[1] \in Touched(q, F) \union {1}
        BY <4>1 DEF Once
      <4>3. y = x
        BY <4>2 DEF TreeShaped
      <4> QED  BY <1>2, <1>6, <3>1, <4>2, <4>3
    <3> QED  BY <1>9, <3>2, <3>3
  <2> QED  BY <2>2, <2>3
<1>16. ASSUME NEW c \in Touched(r, F) \ {1}
       PROVE  \E x \in Links(D) : Child(D, x) = c /\ x[1] \in Touched(r, F) \union {1}
  <2>1. CASE c = p
    <3>1. h[1] \in Touched(q, F)
      BY <1>5 DEF Touched
    <3>2. h[1] \in Touched(r, F) \union {1}
      BY <1>9, <3>1
    <3> QED  BY <1>0, <2>1, <3>2
  <2>2. CASE c # p
    <3>1. c \in Touched(q, F) \ {1}
      BY <1>9, <2>2
    <3>2. PICK x \in Links(D) : Child(D, x) = c /\ x[1] \in Touched(q, F) \union {1}
      BY <3>1 DEF Once
    <3> QED  BY <1>9, <3>2
  <2> QED  BY <2>1, <2>2
<1>17. F \subseteq (2..Len(D)) \X MemberNames
  BY DEF Once
<1>18. Once(D, r, F)
  BY <1>11, <1>12, <1>13, <1>14, <1>15, <1>16, <1>17 DEF Once
<1> QED  BY <1>4, <1>9, <1>18 DEF h, p, r, view

(* The whole tree is still to be visited.                                  *)
LEMMA RootOnce ==
  ASSUME NEW D, Len(D) \in Nat, TreeShaped(D)
  PROVE  Once(D, <<Root>>, {}) /\ Touched(<<Root>>, {}) = {1}
<1> DEFINE q == <<Root>>
<1>1. q \in Seq(Item) /\ Len(q) = 1 /\ q[1] = Root
  BY DEF Item, Root, MemberNames
<1> HIDE DEF q
<1>2. Among(q) = {Root}
  BY <1>1, AmongSeq
<1>3. Touched(q, {}) = {1}
  BY <1>2 DEF Touched, Root
<1>4. Distinct(q) /\ Ordered(q)
  BY <1>1, DistinctSeq DEF Ordered
<1>5. \A x \in Links(D) : Child(D, x) # 1
  BY LinkHeld
<1>6. Once(D, q, {})
  BY <1>2, <1>3, <1>4, <1>5 DEF Once
<1> QED  BY <1>3, <1>6 DEF q

(* What lies in the head of ast_destroy's stack.                           *)
LEMMA DoomedHead ==
  ASSUME LoadedInv, TypeInv, FreeInv, Destroying, todo # <<>>
  PROVE  /\ Len(Doomed) \in Nat /\ TreeShaped(Doomed) /\ Once(Doomed, todo, freed)
         /\ todo \in Seq(Item) /\ Head(todo) \in Among(todo)
         /\ Head(todo) = <<Head(todo)[1], Head(todo)[2]>>
         /\ Head(todo)[1] \in 1..Len(Doomed)
<1>1. todo \in Seq(Item) /\ Len(Doomed) \in Nat \ {0} /\ TreeShaped(Doomed)
  BY DoomedTree DEF TypeInv
<1>2. Once(Doomed, todo, freed)
  BY DEF FreeInv
<1>3. Head(todo) \in Among(todo) /\ Head(todo) = <<Head(todo)[1], Head(todo)[2]>>
  BY <1>1, HeadItem DEF Pending
<1>4. Head(todo) = Root \/ Head(todo)[1] \in 2..Len(Doomed)
  BY <1>2, <1>3 DEF Once
<1>5. Head(todo)[1] \in 1..Len(Doomed)
  BY <1>1, <1>4 DEF Root
<1> QED  BY <1>1, <1>2, <1>3, <1>5

LEMMA DestroyNodeOnce ==
  ASSUME LoadedInv, TypeInv, FreeInv, DestroyNode
  PROVE  Once(Doomed, todo', freed)
<1> DEFINE h == Head(todo)
           p == Held(Doomed, h[1], h[2])
<1>1. Destroying /\ todo # <<>> /\ h[2] \in Pointers
  BY DEF DestroyNode, AtPointer
<1>2. /\ Len(Doomed) \in Nat /\ TreeShaped(Doomed) /\ Once(Doomed, todo, freed)
      /\ todo \in Seq(Item) /\ h = <<h[1], h[2]>> /\ h[1] \in 1..Len(Doomed)
  BY <1>1, DoomedHead
<1>3. CASE p = NULL
  <2>1. todo' = Tail(todo)
    BY <1>2, <1>3, DestroyNodeActs
  <2>2. h[2] # "node"
    BY <1>1, Names
  <2> QED  BY <1>1, <1>2, <2>1, <2>2, PopOnce
<1>4. CASE p # NULL
  <2>1. todo' = Visit(p, DestroyView(Doomed[p].type)) \o Tail(todo)
    BY <1>2, <1>4, DestroyNodeActs
  <2>2. <<h[1], h[2]>> \in Links(Doomed) /\ Child(Doomed, <<h[1], h[2]>>) = p
    BY <1>1, <1>2, <1>4, HeldNode
  <2> HIDE DEF p
  <2>3. h \in Links(Doomed) /\ p = Child(Doomed, h)
    BY <1>2, <2>2
  <2>4. todo' = Descended(Doomed, todo)
    BY <2>1, <2>3 DEF Descended
  <2>5. Once(Doomed, Descended(Doomed, todo), freed)
    BY <1>1, <1>2, <2>3, PushOnce
  <2> QED  BY <2>4, <2>5
<1> QED  BY <1>3, <1>4

LEMMA FreeActs ==
  ASSUME LoadedInv, TypeInv, FreeInv, Free
  PROVE  /\ todo # <<>> /\ todo' = Tail(todo) /\ Head(todo)[2] \notin Pointers
         /\ Head(todo) # Root
         /\ Head(todo)[2] = "node" => freed' = freed \union {Head(todo)}
         /\ freed' = freed \/ freed' = freed \union {Head(todo)}
<1>1. todo # <<>> /\ todo' = Tail(todo) /\ Head(todo)[2] \notin Pointers
  BY DEF Free, AtScalar
<1>2. Head(todo) # Root
  BY <1>1, Names DEF Root
<1> QED  BY <1>1, <1>2 DEF Free, At

LEMMA FreeStepOnce ==
  ASSUME LoadedInv, TypeInv, FreeInv, Free
  PROVE  Once(Doomed, todo', freed')
<1>1. Destroying
  BY DEF Free
<1>2. /\ todo # <<>> /\ todo' = Tail(todo) /\ Head(todo) # Root
      /\ Head(todo)[2] = "node" => freed' = freed \union {Head(todo)}
      /\ freed' = freed \/ freed' = freed \union {Head(todo)}
  BY FreeActs
<1>3. Len(Doomed) \in Nat /\ Once(Doomed, todo, freed) /\ todo \in Seq(Item)
  BY <1>1, <1>2, DoomedHead
<1>4. CASE freed' = freed \union {Head(todo)}
  BY <1>2, <1>3, <1>4, FreeOnce
<1>5. CASE freed' = freed /\ Head(todo)[2] # "node"
  BY <1>2, <1>3, <1>5, PopOnce
<1> QED  BY <1>2, <1>4, <1>5

LEMMA FreeInit ==
  ASSUME Init
  PROVE  FreeInv
BY DEF Init, FreeInv, Destroying

LEMMA FreeStep ==
  ASSUME LoadedInv, TypeInv, FreeInv, [Next]_vars
  PROVE  FreeInv'
<1> USE DEF FreeInv
<1>1. /\ Len(program) \in Nat /\ TreeShaped(program)
      /\ Len(loaded) \in Nat /\ TreeShaped(loaded)
  BY ProgramTree, LenProperties DEF TypeInv, LoadedInv
<1>2. ASSUME todo' = <<Root>>, freed' = {}, program' = program, loaded' = loaded
      PROVE  Once(Doomed', todo', freed')
  <2>1. Doomed' = program \/ Doomed' = loaded
    BY <1>2 DEF Doomed
  <2> QED  BY <1>1, <1>2, <2>1, RootOnce
<1>3. ASSUME phase' \in {"start", "save", "codegen", "load"}, freed' = freed,
             phase \in {"start", "save", "codegen", "load"}
      PROVE  FreeInv'
  BY <1>3 DEF Destroying
<1>4. ASSUME phase' = phase, loaded' = loaded, program' = program
      PROVE  Doomed' = Doomed /\ (Destroying' <=> Destroying)
  BY <1>4 DEF Doomed, Destroying
<1>5. CASE OpenFails \/ Open \/ WriteNode \/ WriteScalar \/ Saved \/ CodegenRun
  BY <1>3, <1>5 DEF OpenFails, Open, WriteNode, WriteScalar, Saved, CodegenRun, Go
<1>6. CASE ReadNode \/ ReadScalar \/ DiskFills
  BY <1>3, <1>6 DEF ReadNode, ReadScalar, DiskFills
<1>7. CASE NoCodegen
  <2>1. freed' = {} /\ phase' = "destroy_program"
    BY <1>7 DEF NoCodegen, Go
  <2>2. Once(Doomed', todo', freed')
    BY <1>2, <1>7, <2>1 DEF NoCodegen, Go
  <2> QED  BY <2>1, <2>2
<1>8. CASE Loaded
  <2>1. freed' = {} /\ phase' \in {"destroy_program", "destroy_loaded"}
    BY <1>8 DEF Loaded, Go
  <2>2. Once(Doomed', todo', freed')
    BY <1>2, <1>8, <2>1 DEF Loaded, Go
  <2> QED  BY <2>1, <2>2
<1>9. CASE DestroyNode
  <2>1. /\ phase' = phase /\ loaded' = loaded /\ program' = program /\ freed' = freed
        /\ Destroying
    BY <1>9 DEF DestroyNode
  <2>2. Doomed' = Doomed
    BY <1>4, <2>1
  <2>3. Once(Doomed, todo', freed)
    BY <1>9, DestroyNodeOnce
  <2> QED  BY <2>1, <2>2, <2>3 DEF Destroying
<1>10. CASE Free
  <2>1. phase' = phase /\ loaded' = loaded /\ program' = program /\ Destroying
    BY <1>10 DEF Free
  <2>2. Doomed' = Doomed
    BY <1>4, <2>1
  <2>3. Once(Doomed, todo', freed')
    BY <1>10, FreeStepOnce
  <2> QED  BY <2>1, <2>2, <2>3 DEF Destroying
<1>11. CASE Destroyed
  <2>1. CASE phase = "destroy_loaded"
    <3>1. todo' = <<Root>> /\ freed' = {} /\ program' = program /\ loaded' = loaded
          /\ phase' = "destroy_program"
      BY <1>11, <2>1 DEF Destroyed, Go
    <3>2. Once(Doomed', todo', freed')
      BY <1>2, <3>1
    <3> QED  BY <3>1, <3>2
  <2>2. CASE phase # "destroy_loaded"
    <3>1. phase' = "done"
      BY <1>11, <2>2 DEF Destroyed, Go
    <3> QED  BY <3>1 DEF Destroying
  <2> QED  BY <2>1, <2>2
<1>12. CASE WildPointer
  BY <1>12 DEF WildPointer, Go, Destroying
<1>13. CASE UNCHANGED vars
  <2>1. phase' = phase /\ loaded' = loaded /\ program' = program /\ freed' = freed
        /\ todo' = todo
    BY <1>13 DEF vars
  <2> QED  BY <1>4, <2>1
<1> QED
  BY <1>5, <1>6, <1>7, <1>8, <1>9, <1>10, <1>11, <1>12, <1>13 DEF Next, Step

-------------------------------------------------------------------------------
(* The invariant of ast.c's passes over every tree: the tree that is read  *)
(* back is one at every moment (ast_deserialize_recursive), and the part of*)
(* a tree ast_destroy_recursive has yet to visit is untouched.             *)
THEOREM Invariance == Spec => []IInv
<1>1. Init => IInv
  BY TypeInit, FreeInit DEF IInv
<1>2. IInv /\ [Next]_vars => IInv'
  BY TypeStep, FreeStep DEF IInv
<1> QED  BY <1>1, <1>2, PTL DEF Spec

(* ast_destroy never visits a node it has freed, and never frees one or a  *)
(* string of one twice, of the tree the parser made and of whatever was    *)
(* read from the archive, a truncated or an older one's remains included.  *)
THEOREM FreedOnce == Spec => []NoUseAfterFree
<1>1. IInv => NoUseAfterFree
  <2> SUFFICES ASSUME LoadedInv, TypeInv, FreeInv, Destroying, todo # <<>>
               PROVE  /\ <<Head(todo)[1], "node">> \notin freed
                      /\ Head(todo) \notin freed
    BY DEF IInv, NoUseAfterFree
  <2>1. Once(Doomed, todo, freed) /\ todo \in Seq(Item) /\ Head(todo) \in Among(todo)
    BY DoomedHead
  <2>2. Head(todo) \notin freed
    BY <2>1 DEF Once
  <2>3. CASE Head(todo) = Root
    BY <2>1, <2>3 DEF Once, Root
  <2>4. CASE Head(todo) # Root
    <3>1. 1 \in 1..Len(todo) /\ Len(todo) \in Nat /\ todo[1] = Head(todo)
      BY <2>1, Popped, LenProperties
    <3>2. PICK j \in 1..Len(todo) : todo[j] = <<todo[1][1], "node">>
      BY <2>1, <2>4, <3>1 DEF Once, Ordered
    <3>3. todo[j] \in Among(todo)
      BY <2>1, <3>2, AmongSeq
    <3> QED  BY <2>1, <3>1, <3>2, <3>3 DEF Once
  <2> QED  BY <2>2, <2>3, <2>4
<1> QED  BY <1>1, Invariance, PTL

-------------------------------------------------------------------------------
(* ast_destroy frees everything.  A tree none of whose types is cast to a  *)
(* larger struct, each of whose nodes has the members of its own and a     *)
(* parent.                                                                 *)
CleanTree(D) ==
  /\ Len(D) \in Nat \ {0} /\ TreeShaped(D) /\ DOMAIN D[1].at = {"root"}
  /\ \A c \in 2..Len(D) :
       /\ D[c].type \notin Odd /\ HasParent(D, c)
       /\ DOMAIN D[c].at = DOMAIN Blank(D[c].type).at

(* The members ast_destroy visits of a node.                               *)
LEMMA DestroyedMembers ==
  ASSUME NEW D, CleanTree(D), NEW c \in 2..Len(D)
  PROVE  Among(DestroyView(D[c].type))
           = {"node"} \union (DOMAIN D[c].at \intersect (Strings \union Pointers))
<1> DEFINE t == D[c].type
<1>1. t \notin Odd /\ DOMAIN D[c].at = {"line", "next"} \union Among(Members[StructOf(t)])
  BY BlankNode DEF CleanTree
<1> HIDE DEF t
<1>2. Among(FreeView(t)) = Among(Members[StructOf(t)]) \intersect (Strings \union Pointers)
  BY <1>1, FreeViews
<1>3. Among(DestroyView(t)) = {"next", "node"} \union Among(FreeView(t))
  BY NodeViews
<1>4. "next" \in Pointers /\ "line" \notin Strings \union Pointers
  BY Names
<1> QED  BY <1>1, <1>2, <1>3, <1>4 DEF t

LEMMA RootWhole ==
  ASSUME NEW D, CleanTree(D)
  PROVE  Whole(D, <<Root>>, {})
<1> DEFINE q == <<Root>>
<1>1. Among(q) = {Root}
  BY DEF Among
<1>2. Touched(q, {}) = {1}
  BY RootOnce DEF CleanTree
<1> HIDE DEF q
<1>3. Root[1] = 1 /\ Root[2] = "root" /\ InStruct(D, 1, "root") /\ "root" \in Pointers
  BY Names DEF Root, InStruct, CleanTree
<1>4. ASSUME NEW x \in Links(D), x[1] = 1  PROVE  x = Root
  <2>1. x = <<x[1], x[2]>> /\ InStruct(D, x[1], x[2])
    BY LinkHeld DEF CleanTree
  <2>2. x[2] = "root"
    BY <1>4, <2>1 DEF InStruct, CleanTree
  <2> QED  BY <1>4, <2>1, <2>2 DEF Root
<1>5. Whole(D, q, {})
  BY <1>1, <1>2, <1>3, <1>4 DEF Whole
<1> QED  BY <1>5 DEF q

(* A member that leads nowhere and holds nothing to free.                  *)
LEMMA PopWhole ==
  ASSUME NEW D, CleanTree(D), NEW F, NEW q \in Seq(Item), q # <<>>,
         Once(D, q, F), Whole(D, q, F),
         Head(q) \notin Links(D), ~HasText(D, Head(q)), Head(q)[2] # "node"
  PROVE  Whole(D, Tail(q), F)
<1> DEFINE t == Tail(q)
<1>1. Among(q) = {Head(q)} \union Among(t)
  BY Popped
<1>2. /\ Touched(t, F) \subseteq Touched(q, F)
      /\ \A c \in Touched(q, F) \ {1} : c \in Touched(t, F)
  BY StillTouched
<1> HIDE DEF t
<1>3. ASSUME NEW c \in Touched(t, F) \ {1}
      PROVE  /\ <<c, "node">> \in Among(t) \union F
             /\ \A m \in Strings : HasText(D, <<c, m>>) => <<c, m>> \in Among(t) \union F
  <2>1. /\ <<c, "node">> \in Among(q) \union F
        /\ \A m \in Strings : HasText(D, <<c, m>>) => <<c, m>> \in Among(q) \union F
    BY <1>2, <1>3 DEF Whole
  <2>2. <<c, "node">> # Head(q)
    OBVIOUS
  <2> QED  BY <1>1, <2>1, <2>2
<1>4. ASSUME NEW x \in Links(D), x[1] \in Touched(t, F) \union {1}
      PROVE  x \in Among(t) \/ Child(D, x) \in Touched(t, F)
  <2>1. x \in Among(q) \/ Child(D, x) \in Touched(q, F)
    BY <1>2, <1>4 DEF Whole
  <2>2. Child(D, x) # 1
    BY LinkHeld DEF CleanTree
  <2> QED  BY <1>1, <1>2, <2>1, <2>2
<1>5. /\ \A x \in Among(t) : InStruct(D, x[1], x[2]) \/ x[2] = "node"
      /\ \A x \in Among(t) : x[2] \in Pointers \union Strings \union {"node"}
      /\ \A x \in F : x[2] = "node" \/ HasText(D, x)
  BY <1>1 DEF Whole
<1> QED  BY <1>3, <1>4, <1>5 DEF Whole, t

(* One that is freed.                                                      *)
LEMMA FreeWhole ==
  ASSUME NEW D, NEW F, NEW q \in Seq(Item), q # <<>>, Whole(D, q, F),
         Head(q) \notin Links(D), Head(q)[2] = "node" \/ HasText(D, Head(q))
  PROVE  Whole(D, Tail(q), F \union {Head(q)})
<1> DEFINE t == Tail(q)
           G == F \union {Head(q)}
<1>1. Among(q) = {Head(q)} \union Among(t)
  BY Popped
<1>2. Touched(t, G) = Touched(q, F) /\ Among(t) \union G = Among(q) \union F
  BY <1>1 DEF Touched
<1> HIDE DEF t
<1>3. \A x \in G : x[2] = "node" \/ HasText(D, x)
  BY DEF Whole
<1> HIDE DEF G
<1>4. \A x \in Links(D) : x[1] \in Touched(t, G) \union {1} =>
                            x \in Among(t) \/ Child(D, x) \in Touched(t, G)
  BY <1>1, <1>2 DEF Whole
<1> QED  BY <1>1, <1>2, <1>3, <1>4 DEF Whole, t, G

(* A node that is visited.                                                 *)
LEMMA PushWhole ==
  ASSUME NEW D, CleanTree(D), NEW F, NEW q \in Seq(Item), q # <<>>,
         Once(D, q, F), Whole(D, q, F), Head(q) \in Links(D)
  PROVE  Whole(D, Descended(D, q), F)
<1> DEFINE h == Head(q)
           p == Child(D, h)
           r == Descended(D, q)
           view == DestroyView(D[p].type)
           t == Tail(q)
<1>1. /\ Touched(r, F) \subseteq Touched(q, F) \union {p}
      /\ p \in Touched(r, F) /\ \A c \in Touched(q, F) \ {1} : c \in Touched(r, F)
      /\ Among(r) = {<<p, m>> : m \in Among(view)} \union Among(t)
  <2>1. Len(D) \in Nat /\ TreeShaped(D)
    BY DEF CleanTree
  <2> QED  BY <2>1, PushOnce
<1>2. Among(q) = {h} \union Among(t)
  BY Popped
<1>3. p \in 2..Len(D) /\ h[2] \in Pointers
  BY LinkHeld DEF CleanTree
<1>4. Among(view) = {"node"} \union (DOMAIN D[p].at \intersect (Strings \union Pointers))
  BY <1>3, DestroyedMembers
<1>5. h[2] # "node" /\ h[2] \notin Strings
  BY <1>3, Names
<1> DEFINE k == h
<1> HIDE DEF r, view, t, p
<1>6. /\ \A x \in Among(r) : InStruct(D, x[1], x[2]) \/ x[2] = "node"
      /\ \A x \in Among(r) : x[2] \in Pointers \union Strings \union {"node"}
  <2>1. /\ \A x \in Among(t) : InStruct(D, x[1], x[2]) \/ x[2] = "node"
        /\ \A x \in Among(t) : x[2] \in Pointers \union Strings \union {"node"}
    BY <1>2 DEF Whole
  <2>2. \A m \in Among(view) : /\ InStruct(D, p, m) \/ m = "node"
                               /\ m \in Pointers \union Strings \union {"node"}
    BY <1>4 DEF InStruct
  <2> QED  BY <1>1, <2>1, <2>2
<1>7. ASSUME NEW c \in Touched(r, F) \ {1}
      PROVE  /\ <<c, "node">> \in Among(r) \union F
             /\ \A m \in Strings : HasText(D, <<c, m>>) => <<c, m>> \in Among(r) \union F
  <2>1. CASE c = p
    <3>1. <<p, "node">> \in Among(r)
      BY <1>1, <1>4
    <3>2. \A m \in Strings : HasText(D, <<p, m>>) => <<p, m>> \in Among(r)
      BY <1>1, <1>4 DEF HasText, InStruct
    <3> QED  BY <2>1, <3>1, <3>2
  <2>2. CASE c # p
    <3>1. c \in Touched(q, F) \ {1}
      BY <1>1, <2>2
    <3>2. /\ <<c, "node">> \in Among(q) \union F
          /\ \A m \in Strings : HasText(D, <<c, m>>) => <<c, m>> \in Among(q) \union F
      BY <3>1 DEF Whole
    <3>3. <<c, "node">> # h /\ \A m \in Strings : <<c, m>> # h
      BY <1>5
    <3> QED  BY <1>1, <1>2, <3>2, <3>3
  <2> QED  BY <2>1, <2>2
<1>8. ASSUME NEW x \in Links(D), x[1] \in Touched(r, F) \union {1}
      PROVE  x \in Among(r) \/ Child(D, x) \in Touched(r, F)
  <2>1. x = <<x[1], x[2]>> /\ x[2] \in Pointers /\ InStruct(D, x[1], x[2]) /\ Child(D, x) # 1
    BY LinkHeld DEF CleanTree
  <2>2. CASE x[1] = p
    <3>1. x[2] \in Among(view)
      BY <1>4, <2>1, <2>2 DEF InStruct
    <3> QED  BY <1>1, <2>1, <2>2, <3>1
  <2>3. CASE x[1] # p
    <3>1. x[1] \in Touched(q, F) \union {1}
      BY <1>1, <1>8, <2>3
    <3>2. x \in Among(q) \/ Child(D, x) \in Touched(q, F)
      BY <3>1 DEF Whole
    <3>3. x = h => Child(D, x) \in Touched(r, F)
      BY <1>1 DEF p
    <3> QED  BY <1>1, <1>2, <2>1, <3>2, <3>3
  <2> QED  BY <2>2, <2>3
<1>9. \A x \in F : x[2] = "node" \/ HasText(D, x)
  BY DEF Whole
<1> QED  BY <1>6, <1>7, <1>8, <1>9 DEF Whole, r

(* At the end: a node that was not freed would have a parent before it that*)
(* was not freed either, up to the root's.                                 *)
LEMMA EndWhole ==
  ASSUME NEW D, CleanTree(D), NEW F, Once(D, <<>>, F), Whole(D, <<>>, F)
  PROVE  \A x : x \in F <=> \E c \in 2..Len(D) :
                             x = <<c, "node">> \/ \E m \in Strings : x = <<c, m>> /\ HasText(D, x)
<1>1. Among(<<>>) = {}
  BY DEF Among
<1>2. Touched(<<>>, F) = {x[1] : x \in F}
  BY <1>1 DEF Touched
<1>3. 2..Len(D) \subseteq Touched(<<>>, F)
  <2> DEFINE T == (2..Len(D)) \ Touched(<<>>, F)
  <2> SUFFICES ASSUME T # {}  PROVE  FALSE
    OBVIOUS
  <2>1. T \subseteq Nat
    BY DEF CleanTree
  <2>2. PICK c \in T : \A d \in T : <<d, c>> \notin OpToRel(<, Nat)
    BY <2>1, NatLessThanWellFounded, WFMin
  <2>3. \A d \in T : ~(d < c)
    BY <2>1, <2>2 DEF OpToRel
  <2>4. PICK x \in Links(D) : Child(D, x) = c
    BY <2>2 DEF CleanTree, HasParent
  <2>5. x[1] \in 1..Len(D) /\ x[1] < c
    BY <2>4, LinkHeld DEF CleanTree
  <2>6. x[1] \in Touched(<<>>, F) \union {1}
    <3>1. x[1] \notin T
      BY <2>3, <2>5
    <3>2. x[1] = 1 \/ x[1] \in 2..Len(D)
      BY <2>5 DEF CleanTree
    <3> QED  BY <3>1, <3>2
  <2>7. c \in Touched(<<>>, F)
    BY <1>1, <2>4, <2>6 DEF Whole
  <2> QED  BY <2>2, <2>7
<1>4. ASSUME NEW x \in F
      PROVE  \E c \in 2..Len(D) :
               x = <<c, "node">> \/ \E m \in Strings : x = <<c, m>> /\ HasText(D, x)
  <2>1. x = <<x[1], x[2]>> /\ x[1] \in 2..Len(D)
    BY <1>4 DEF Once
  <2>2. x[2] = "node" \/ HasText(D, x)
    BY <1>4 DEF Whole
  <2> QED  BY <2>1, <2>2 DEF HasText
<1>5. ASSUME NEW c \in 2..Len(D)
      PROVE  <<c, "node">> \in F /\ \A m \in Strings : HasText(D, <<c, m>>) => <<c, m>> \in F
  <2>1. c \in Touched(<<>>, F) \ {1}
    BY <1>3
  <2> QED  BY <1>1, <2>1 DEF Whole
<1> QED  BY <1>4, <1>5

-------------------------------------------------------------------------------
(* A program without a miscast type is written and read in its structs.    *)
LEMMA CleanTrees ==
  ASSUME IInv, Sound, LoadedClean
  PROVE  CleanTree(program) /\ CleanTree(loaded) /\ CleanTree(Doomed)
<1>1. CleanTree(program)
  BY ProgramTree, ProgramNode DEF IInv, TypeInv, Sound, CleanTree
<1>2. CleanTree(loaded)
  BY LenProperties DEF IInv, LoadedInv, LoadedClean, CleanTree
<1> QED  BY <1>1, <1>2 DEF Doomed

(* Steps outside of the two recursions.                                    *)
LEMMA StillClean ==
  ASSUME SoundInv, loaded' = loaded, archive' = archive, in' = in,
         phase' \notin {"start", "save", "load", "crashed"},
         phase' = "codegen" => phase \in {"start", "save", "codegen"}
  PROVE  SoundInv'
BY DEF SoundInv, ArchiveClean, LoadedClean, Unread, SavesInStruct, LoadsInStruct

(* The root is a member of the variable that holds it.                     *)
LEMMA OpenClean ==
  ASSUME IInv, Sound, SoundInv, Open
  PROVE  SoundInv'
<1>1. /\ phase = "start" /\ phase' = "save" /\ archive' = <<>> /\ todo' = <<Root>>
      /\ in' = in /\ loaded' = loaded /\ program' = program
  BY DEF Open
<1>2. Clean(archive')
  BY <1>1 DEF Clean
<1>3. Pending' = {Root}
  BY <1>1, RootItem
<1>4. InStruct(program, 1, "root")
  BY CleanTrees DEF SoundInv, CleanTree, InStruct
<1> QED
  BY <1>1, <1>2, <1>3, <1>4
  DEF Root, SoundInv, ArchiveClean, LoadedClean, Unread, SavesInStruct, LoadsInStruct

LEMMA CodegenRunClean ==
  ASSUME IInv, Sound, SoundInv, CodegenRun
  PROVE  SoundInv'
<1>1. /\ phase = "codegen" /\ phase' = "load" /\ archive # NoFile /\ in' = archive
      /\ archive' = archive /\ todo' = <<Root>> /\ loaded' = loaded
  BY DEF CodegenRun, Go
<1>2. Pending' = {Root} /\ Distinct(todo')
  BY <1>1, RootItem
<1>3. InStruct(loaded, 1, "root")
  BY CleanTrees DEF SoundInv, CleanTree, InStruct
<1>4. Root \notin Links(loaded)
  <2>1. loaded = <<Variable(NULL)>>
    BY <1>1 DEF SoundInv, Unread
  <2>2. loaded[1].at["root"] = NULL
    BY <2>1 DEF Variable
  <2> QED  BY <2>2 DEF Links, Root
<1>5. ArchiveClean'
  BY <1>1 DEF SoundInv, ArchiveClean
<1>6. LoadsInStruct'
  BY <1>1, <1>2, <1>3, <1>4 DEF LoadsInStruct, Root
<1>7. LoadedClean' /\ Unread' /\ SavesInStruct'
  BY <1>1 DEF SoundInv, LoadedClean, Unread, SavesInStruct
<1> QED  BY <1>1, <1>5, <1>6, <1>7 DEF SoundInv

LEMMA WriteNodeClean ==
  ASSUME IInv, Sound, SoundInv, WriteNode
  PROVE  SoundInv'
<1> DEFINE c == Head(todo)[1]
           m == Head(todo)[2]
           p == Held(program, c, m)
           t == program[p].type
<1>1. /\ phase = "save" /\ todo # <<>> /\ m \in Pointers
      /\ phase' = phase /\ program' = program /\ loaded' = loaded /\ in' = in
  BY DEF WriteNode, AtPointer
<1>2. /\ todo \in Seq(Item) /\ archive \in Seq(Token) /\ program \in Programs
      /\ \A x \in Pending : x[1] \in 1..Len(program) /\ InStruct(program, x[1], x[2])
      /\ Clean(archive) /\ CleanTree(program)
  BY <1>1, CleanTrees DEF IInv, TypeInv, SoundInv, ArchiveClean, SavesInStruct
<1>3. /\ c \in 1..Len(program) /\ Tail(todo) \in Seq(Item)
      /\ Among(Tail(todo)) \subseteq Pending
  BY <1>1, <1>2, HeadItem
<1>4. Clean(archive') /\ \A x \in Pending' : InStruct(program, x[1], x[2])
  <2>1. CASE p = NULL
    <3>1. Put(<<Mark>>) /\ todo' = Tail(todo)
      BY <2>1 DEF WriteNode
    <3>2. Clean(archive')
      BY <1>2, <3>1, NoOdd, Written
    <3> QED  BY <1>2, <1>3, <3>1, <3>2 DEF Pending
  <2>2. CASE p # NULL
    <3>1. /\ Put(<<t>>)
          /\ todo' = Visit(p, <<"line">> \o WriteView(t) \o <<"next">>) \o Tail(todo)
      BY <2>2 DEF WriteNode
    <3>2. Len(program) \in Nat /\ p \in 2..Len(program)
      BY <1>1, <1>2, <1>3, <2>2, ProgramTree, HeldNode
    <3>3. t \in Token /\ t \notin Odd /\ DOMAIN program[p].at = DOMAIN Blank(t).at
      BY <1>2, <3>2, ProgramNode DEF CleanTree
    <3>4. Clean(archive')
      BY <1>2, <3>1, <3>3, Written
    <3>5. todo' = Visit(p, LoadView(t)) \o Tail(todo)
      BY <3>1, ReadViews DEF LoadView
    <3>6. LoadView(t) \in Seq(MemberNames) /\ p \in Nat
          /\ Among(LoadView(t)) \subseteq DOMAIN program[p].at
      <4> HIDE DEF p, t
      <4>1. LoadView(t) \in Seq(MemberNames)
            /\ (t \notin Odd => Among(LoadView(t)) \subseteq DOMAIN Blank(t).at)
        BY NodeViews, Zenon
      <4> QED  BY <3>2, <3>3, <4>1
    <3> HIDE DEF p, t
    <3>7. Pending' = {<<p, n>> : n \in Among(LoadView(t))} \union Among(Tail(todo))
      BY <1>1, <1>2, <3>5, <3>6, Visited
    <3>8. \A n \in Among(LoadView(t)) : InStruct(program, p, n)
      BY <3>6 DEF InStruct
    <3> QED  BY <1>2, <1>3, <3>4, <3>7, <3>8
  <2> QED  BY <2>1, <2>2
<1> QED
  BY <1>1, <1>4
  DEF SoundInv, ArchiveClean, LoadedClean, Unread, SavesInStruct, LoadsInStruct

LEMMA WriteScalarClean ==
  ASSUME IInv, Sound, SoundInv, WriteScalar
  PROVE  SoundInv'
<1> DEFINE m == Head(todo)[2]
           v == Held(program, Head(todo)[1], m)
           w == IF m \in Strings /\ v = Zero THEN Mark ELSE v
<1>1. /\ phase = "save" /\ todo # <<>> /\ m \notin Pointers /\ Put(<<w>>)
      /\ todo' = Tail(todo)
      /\ phase' = phase /\ program' = program /\ loaded' = loaded /\ in' = in
  BY DEF WriteScalar, AtScalar
<1>2. /\ todo \in Seq(Item) /\ archive \in Seq(Token) /\ program \in Programs
      /\ \A x \in Pending : x[1] \in 1..Len(program) /\ InStruct(program, x[1], x[2])
      /\ Clean(archive)
  BY <1>1 DEF IInv, TypeInv, SoundInv, ArchiveClean, SavesInStruct
<1>3. Head(todo)[1] \in 1..Len(program) /\ Among(Tail(todo)) \subseteq Pending
  BY <1>1, <1>2, HeadItem
<1>4. w \in Token /\ w \notin Odd
  BY <1>1, <1>2, <1>3, ProgramScalar, NoOdd
<1>5. Clean(archive')
  BY <1>1, <1>2, <1>4, Written
<1>6. \A x \in Pending' : InStruct(program, x[1], x[2])
  BY <1>1, <1>2, <1>3 DEF Pending
<1> QED
  BY <1>1, <1>5, <1>6
  DEF SoundInv, ArchiveClean, LoadedClean, Unread, SavesInStruct, LoadsInStruct

(* A scalar or no node is stored in a member that held none.               *)
LEMMA StoredClean ==
  ASSUME IInv, SoundInv, phase = "load", phase' = phase, todo # <<>>, todo' = Tail(todo),
         NEW v \in Value, Head(todo)[2] \notin Pointers \/ v = NULL,
         loaded' = Store(loaded, Head(todo)[1], Head(todo)[2], v)
  PROVE  LoadedClean' /\ LoadsInStruct'
<1> DEFINE c == Head(todo)[1]
           m == Head(todo)[2]
           t == Store(loaded, c, m, v)
<1>1. /\ todo \in Seq(Item) /\ loaded \in Seq(Node) /\ TreeShaped(loaded)
      /\ \A x \in Pending : /\ x[1] \in 1..Len(loaded)
                            /\ InStruct(loaded, x[1], x[2]) /\ x \notin Links(loaded)
      /\ Distinct(todo)
  BY DEF IInv, TypeInv, LoadedInv, SoundInv, LoadsInStruct
<1>2. /\ c \in 1..Len(loaded) /\ m \in MemberNames /\ <<c, m>> \notin Links(loaded)
      /\ Among(Tail(todo)) \subseteq Pending
  BY <1>1, HeadItem
<1>3. /\ Len(t) = Len(loaded)
      /\ \A d \in 1..Len(loaded) :
           t[d].type = loaded[d].type /\ DOMAIN t[d].at = DOMAIN loaded[d].at
  BY <1>1, <1>2, Stored
<1>4. Links(t) = Links(loaded) /\ \A x \in Links(t) : Child(t, x) = Child(loaded, x)
  BY <1>1, <1>2, LoadedScalar
<1>5. loaded' = t
  OBVIOUS
<1> HIDE DEF t, c, m
<1>6. LoadedClean'
  <2>1. \A d \in 2..Len(t) : t[d].type \notin Odd /\ HasParent(t, d)
    <3> TAKE d \in 2..Len(t)
    <3>1. d \in 1..Len(loaded) /\ d \in 2..Len(loaded)
      BY <1>1, <1>3, LenProperties
    <3>2. loaded[d].type \notin Odd /\ HasParent(loaded, d)
      BY <3>1 DEF SoundInv, LoadedClean
    <3> QED  BY <1>3, <1>4, <3>1, <3>2 DEF HasParent
  <2> QED  BY <1>5, <2>1 DEF LoadedClean
<1>7. LoadsInStruct'
  <2>1. Distinct(Tail(todo))
    BY <1>1, Popped
  <2>2. \A x \in Among(Tail(todo)) : InStruct(t, x[1], x[2]) /\ x \notin Links(t)
    BY <1>1, <1>2, <1>3, <1>4 DEF InStruct
  <2> QED  BY <1>5, <2>1, <2>2 DEF LoadsInStruct, Pending
<1> QED  BY <1>6, <1>7

(* A node is stored in the tree, and its own members are still to be read. *)
LEMMA GrownClean ==
  ASSUME IInv, SoundInv, phase = "load", phase' = phase, todo # <<>>,
         Head(todo)[2] \in Pointers, NEW type \in Token \ Odd,
         loaded' = WithNode(loaded, Head(todo)[1], Head(todo)[2], type),
         todo' = Visit(Len(loaded) + 1, LoadView(type)) \o Tail(todo)
  PROVE  LoadedClean' /\ LoadsInStruct'
<1> DEFINE h == Head(todo)
           c == h[1]
           m == h[2]
           new == Len(loaded) + 1
           view == LoadView(type)
           r == WithNode(loaded, c, m, type)
           t == Tail(todo)
<1>1. /\ todo \in Seq(Item) /\ loaded \in Seq(Node) /\ TreeShaped(loaded)
      /\ \A x \in Pending : /\ x[1] \in 1..Len(loaded)
                            /\ InStruct(loaded, x[1], x[2]) /\ x \notin Links(loaded)
      /\ Distinct(todo) /\ Len(loaded) \in Nat
  BY LenProperties DEF IInv, TypeInv, LoadedInv, SoundInv, LoadsInStruct
<1>2. /\ c \in 1..Len(loaded) /\ m \in MemberNames /\ m \in Pointers /\ h = <<c, m>>
      /\ h \notin Links(loaded) /\ InStruct(loaded, c, m)
      /\ Among(t) \subseteq Pending /\ t \in Seq(Item)
  BY <1>1, HeadItem
<1>3. h \notin Among(t) /\ Distinct(t)
  BY <1>1, Popped
<1>4. view \in Seq(MemberNames) /\ Distinct(view)
      /\ Among(view) \subseteq DOMAIN Blank(type).at
  BY NodeViews
<1>5. loaded' = r /\ todo' = Visit(new, view) \o t
  OBVIOUS
<1> HIDE DEF h, c, m, view, t
<1>6. /\ r \in Seq(Node) /\ Len(r) = new /\ r[new] = Blank(type)
      /\ \A d \in 1..Len(loaded) :
           r[d].type = loaded[d].type /\ DOMAIN r[d].at = DOMAIN loaded[d].at
      /\ \A x \in Links(loaded) : x \in Links(r) /\ Child(r, x) = Child(loaded, x)
      /\ \A x \in Links(r) : x = <<c, m>> \/ x \in Links(loaded)
      /\ <<c, m>> \in Links(r) /\ Child(r, <<c, m>>) = new
  BY <1>1, <1>2, LoadedLinks
<1> HIDE DEF r
<1>7. LoadedClean'
  <2>1. \A d \in 2..new : r[d].type \notin Odd /\ HasParent(r, d)
    <3> TAKE d \in 2..new
    <3>1. CASE d = new
      BY <1>6, <3>1, BlankNode DEF HasParent
    <3>2. CASE d # new
      <4>1. d \in 1..Len(loaded) /\ d \in 2..Len(loaded)
        BY <1>1, <3>2
      <4>2. loaded[d].type \notin Odd /\ HasParent(loaded, d)
        BY <4>1 DEF SoundInv, LoadedClean
      <4> QED  BY <1>6, <4>1, <4>2 DEF HasParent
    <3> QED  BY <3>1, <3>2
  <2> QED  BY <1>5, <1>6, <2>1 DEF LoadedClean
<1>8. Laid(todo', new, view, t) /\ Pending' = {<<new, n>> : n \in Among(view)} \union Among(t)
  <2> DEFINE w == Visit(new, view) \o Tail(todo)
  <2>1. new \in Nat
    BY <1>1
  <2> HIDE DEF new
  <2>2. /\ w \in Seq(Item) /\ Len(w) = Len(view) + Len(Tail(todo))
        /\ \A i \in 1..Len(view) : w[i] = <<new, view[i]>>
        /\ \A i \in 1..Len(Tail(todo)) : w[i + Len(view)] = Tail(todo)[i]
        /\ Among(w) = {<<new, m1>> : m1 \in Among(view)} \union Among(Tail(todo))
    BY <1>1, <1>4, <2>1, Pushed, Zenon
  <2>3. todo' = w
    BY <1>5 DEF t
  <2> HIDE DEF w
  <2> QED  BY <1>2, <1>4, <2>2, <2>3 DEF Laid, Pending, t
<1>9. LoadsInStruct'
  <2>1. \A x \in Among(t) : x[1] # new
    BY <1>1, <1>2
  <2>2. Distinct(todo')
    BY <1>3, <1>4, <1>8, <2>1, PushedDistinct
  <2>3. \A n \in Among(view) : InStruct(r, new, n) /\ <<new, n>> \notin Links(r)
    <3> TAKE n \in Among(view)
    <3>1. InStruct(r, new, n)
      BY <1>4, <1>6 DEF InStruct
    <3>2. <<new, n>> # <<c, m>>
      BY <1>1, <1>2
    <3>3. <<new, n>> \notin Links(loaded)
      BY <1>1 DEF Links
    <3> QED  BY <1>6, <3>1, <3>2, <3>3
  <2>4. \A x \in Among(t) : InStruct(r, x[1], x[2]) /\ x \notin Links(r)
    <3> TAKE x \in Among(t)
    <3>1. x[1] \in 1..Len(loaded) /\ InStruct(loaded, x[1], x[2]) /\ x \notin Links(loaded)
      BY <1>1, <1>2
    <3>2. x # <<c, m>>
      BY <1>2, <1>3
    <3> QED  BY <1>6, <3>1, <3>2 DEF InStruct
  <2>5. \A x \in Pending' : InStruct(r, x[1], x[2]) /\ x \notin Links(r)
    BY <1>8, <2>3, <2>4
  <2> QED  BY <1>5, <2>2, <2>5 DEF LoadsInStruct
<1> QED  BY <1>7, <1>9

LEMMA ReadNodeClean ==
  ASSUME IInv, SoundInv, ReadNode
  PROVE  SoundInv'
<1>1. /\ phase = "load" /\ todo # <<>> /\ Head(todo)[2] \in Pointers
      /\ in' = IF in = <<>> THEN in ELSE Tail(in)
      /\ phase' = phase /\ archive' = archive
  BY DEF ReadNode, AtPointer
<1>2. in \in Seq(Token) /\ Clean(in)
  BY DEF IInv, TypeInv, SoundInv, ArchiveClean
<1>3. Clean(in') /\ (in # <<>> => Head(in) \in Token \ Odd)
  BY <1>1, <1>2, Consumed
<1>4. LoadedClean' /\ LoadsInStruct'
  <2>1. CASE in = <<>> \/ Head(in) \in {Mark, Part}
    <3>1. /\ loaded' = Store(loaded, Head(todo)[1], Head(todo)[2], NULL)
          /\ todo' = Tail(todo)
      BY <2>1 DEF ReadNode, NoNode
    <3>2. NULL \in Value
      BY DEF Value, NULL
    <3> QED  BY <1>1, <3>1, <3>2, StoredClean
  <2>2. CASE ~(in = <<>> \/ Head(in) \in {Mark, Part})
    <3>1. /\ loaded' = WithNode(loaded, Head(todo)[1], Head(todo)[2], Head(in))
          /\ todo' = Visit(Len(loaded) + 1, LoadView(Head(in))) \o Tail(todo)
      BY <2>2 DEF ReadNode, LoadView, WithNode
    <3> QED  BY <1>1, <1>3, <2>2, <3>1, GrownClean
  <2> QED  BY <2>1, <2>2
<1> QED
  BY <1>1, <1>3, <1>4 DEF SoundInv, ArchiveClean, Unread, SavesInStruct

LEMMA ReadScalarClean ==
  ASSUME IInv, SoundInv, ReadScalar
  PROVE  SoundInv'
<1> DEFINE m == Head(todo)[2]
           v == IF in = <<>> \/ Head(in) = Mark \/ (Head(in) = Part /\ m \in Strings)
                THEN NoScalar ELSE Head(in)
<1>1. /\ phase = "load" /\ todo # <<>> /\ Head(todo)[2] \notin Pointers
      /\ in' = IF in = <<>> THEN in ELSE Tail(in)
      /\ loaded' = Store(loaded, Head(todo)[1], Head(todo)[2], v) /\ todo' = Tail(todo)
      /\ phase' = phase /\ archive' = archive
  BY DEF ReadScalar, AtScalar
<1>2. in \in Seq(Token) /\ Clean(in)
  BY DEF IInv, TypeInv, SoundInv, ArchiveClean
<1>3. Clean(in') /\ v \in Value
  <2>1. Clean(in') /\ (in # <<>> => Head(in) \in Token)
    BY <1>1, <1>2, Consumed
  <2> QED  BY <2>1, NoOdd DEF NoScalar, Value
<1> HIDE DEF v
<1>4. LoadedClean' /\ LoadsInStruct'
  BY <1>1, <1>3, StoredClean
<1> QED
  BY <1>1, <1>3, <1>4 DEF SoundInv, ArchiveClean, Unread, SavesInStruct

-------------------------------------------------------------------------------
(* The archive that was there before holds no type that is cast to a larger*)
(* struct either: it is the work of this compiler on a program like this.  *)
OldIsClean == OldArchive # NoFile => Clean(OldArchive)

(* ast_destroy's steps.                                                    *)
LEMMA DestroyNodeWhole ==
  ASSUME IInv, Sound, LoadedClean, DestroyNode, Whole(Doomed, todo, freed)
  PROVE  Whole(Doomed, todo', freed)
<1> DEFINE h == Head(todo)
           p == Held(Doomed, h[1], h[2])
<1>1. Destroying /\ todo # <<>> /\ h[2] \in Pointers
  BY DEF DestroyNode, AtPointer
<1>2. /\ Once(Doomed, todo, freed) /\ todo \in Seq(Item) /\ h = <<h[1], h[2]>>
      /\ h[1] \in 1..Len(Doomed) /\ h \in Among(todo)
      /\ Len(Doomed) \in Nat /\ TreeShaped(Doomed)
  BY <1>1, DoomedHead DEF IInv
<1>3. CleanTree(Doomed)
  BY CleanTrees
<1>4. h[2] # "node" /\ h[2] \notin Strings
  BY <1>1, Names
<1>5. CASE p = NULL
  <2>1. todo' = Tail(todo)
    BY <1>2, <1>5, DestroyNodeActs
  <2>2. h \notin Links(Doomed)
    BY <1>3, <1>5, LinkHeld DEF CleanTree
  <2>3. ~HasText(Doomed, h)
    BY <1>4 DEF HasText
  <2> QED  BY <1>1, <1>2, <1>3, <1>4, <2>1, <2>2, <2>3, PopWhole
<1>6. CASE p # NULL
  <2>1. todo' = Visit(p, DestroyView(Doomed[p].type)) \o Tail(todo)
    BY <1>2, <1>6, DestroyNodeActs
  <2>2. <<h[1], h[2]>> \in Links(Doomed) /\ Child(Doomed, <<h[1], h[2]>>) = p
    BY <1>1, <1>2, <1>6, HeldNode
  <2> HIDE DEF p
  <2>3. h \in Links(Doomed) /\ p = Child(Doomed, h)
    BY <1>2, <2>2
  <2>4. todo' = Descended(Doomed, todo)
    BY <2>1, <2>3 DEF Descended
  <2>5. Whole(Doomed, Descended(Doomed, todo), freed)
    BY <1>1, <1>2, <1>3, <2>3, PushWhole
  <2> QED  BY <2>4, <2>5
<1> QED  BY <1>5, <1>6

LEMMA FreeStepWhole ==
  ASSUME IInv, Sound, LoadedClean, Free, Whole(Doomed, todo, freed)
  PROVE  Whole(Doomed, todo', freed')
<1> DEFINE h == Head(todo)
<1>1. /\ Destroying /\ todo # <<>> /\ h[2] \notin Pointers /\ todo' = Tail(todo)
      /\ freed' = IF At("node") \/ Held(Doomed, h[1], h[2]) # Zero
                  THEN freed \union {h} ELSE freed
  BY DEF Free, AtScalar
<1>2. /\ Once(Doomed, todo, freed) /\ todo \in Seq(Item) /\ h \in Among(todo)
      /\ h = <<h[1], h[2]>>
  BY <1>1, DoomedHead DEF IInv
<1>3. CleanTree(Doomed)
  BY CleanTrees
<1>4. h \notin Links(Doomed)
  BY <1>1 DEF Links
<1>5. h[2] = "node" \/ (h[2] \in Strings /\ InStruct(Doomed, h[1], h[2]))
  BY <1>1, <1>2 DEF Whole
<1>6. CASE h[2] = "node"
  <2>1. freed' = freed \union {h}
    BY <1>1, <1>6 DEF At
  <2> QED  BY <1>1, <1>2, <1>4, <1>6, <2>1, FreeWhole
<1>7. CASE h[2] # "node"
  <2>1. Held(Doomed, h[1], h[2]) = Child(Doomed, h)
    BY <1>5, <1>7 DEF Held, Child
  <2>2. ~At("node")
    BY <1>7 DEF At
  <2>3. CASE Child(Doomed, h) # Zero
    <3>1. freed' = freed \union {h} /\ HasText(Doomed, h)
      BY <1>1, <1>5, <1>7, <2>1, <2>3 DEF HasText
    <3> QED  BY <1>1, <1>2, <1>4, <3>1, FreeWhole
  <2>4. CASE Child(Doomed, h) = Zero
    <3>1. freed' = freed /\ ~HasText(Doomed, h)
      BY <1>1, <2>1, <2>2, <2>4 DEF HasText
    <3> QED  BY <1>1, <1>2, <1>3, <1>4, <1>7, <3>1, PopWhole
  <2> QED  BY <2>3, <2>4
<1> QED  BY <1>6, <1>7

(* No member that is followed lies outside its struct.                     *)
LEMMA NeverWild ==
  ASSUME IInv, Sound, CleanInv, WildPointer
  PROVE  FALSE
<1>1. AtPointer /\ todo # <<>> /\ Head(todo)[2] \in Pointers /\ todo \in Seq(Item)
  BY DEF WildPointer, AtPointer, IInv, TypeInv
<1>2. Head(todo) \in Pending /\ Head(todo)[2] # "node"
  BY <1>1, HeadItem, Names
<1>3. CASE phase = "save" /\ ~InStruct(program, Head(todo)[1], Head(todo)[2])
  BY <1>2, <1>3 DEF CleanInv, SoundInv, SavesInStruct
<1>4. CASE phase = "load" /\ ~InStruct(loaded, Head(todo)[1], Head(todo)[2])
  BY <1>2, <1>4 DEF CleanInv, SoundInv, LoadsInStruct
<1>5. CASE Destroying /\ ~InStruct(Doomed, Head(todo)[1], Head(todo)[2])
  BY <1>2, <1>5 DEF CleanInv, Whole, Pending
<1> QED  BY <1>3, <1>4, <1>5 DEF WildPointer

LEMMA CleanInit ==
  ASSUME OldIsClean, Init
  PROVE  CleanInv
<1>1. /\ phase = "start" /\ loaded = <<Variable(NULL)>> /\ archive = OldArchive /\ in = <<>>
  BY DEF Init
<1>2. ArchiveClean
  BY <1>1 DEF ArchiveClean, OldIsClean, Clean
<1>3. LoadedClean /\ Unread
  BY <1>1 DEF LoadedClean, Unread
<1> QED
  BY <1>1, <1>2, <1>3
  DEF CleanInv, SoundInv, SavesInStruct, LoadsInStruct, Destroying

LEMMA CleanStep ==
  ASSUME IInv, CleanInv, [Next]_vars
  PROVE  CleanInv'
<1>1. program' = program
  BY DEF Next, Step, OpenFails, Open, WriteNode, WriteScalar, Saved, NoCodegen, CodegenRun,
         ReadNode, ReadScalar, Loaded, DestroyNode, Free, Destroyed, WildPointer, DiskFills,
         Go, vars
<1> SUFFICES ASSUME Sound, SoundInv, Destroying => Whole(Doomed, todo, freed)
             PROVE  SoundInv' /\ (Destroying' => Whole(Doomed', todo', freed'))
  BY <1>1 DEF CleanInv, Sound
<1>2. LoadedClean
  BY DEF SoundInv
<1>3. ASSUME SoundInv', phase' \notin {"destroy_loaded", "destroy_program"}
      PROVE  SoundInv' /\ (Destroying' => Whole(Doomed', todo', freed'))
  BY <1>3 DEF Destroying
<1>4. ASSUME todo' = <<Root>>, freed' = {}, loaded' = loaded
      PROVE  Whole(Doomed', todo', freed')
  <2>1. Doomed' = program \/ Doomed' = loaded
    BY <1>1, <1>4 DEF Doomed
  <2>2. CleanTree(program) /\ CleanTree(loaded)
    BY <1>2, CleanTrees
  <2> QED  BY <1>4, <2>1, <2>2, RootWhole
<1>5. ASSUME phase' = phase, loaded' = loaded
      PROVE  Doomed' = Doomed
  BY <1>1, <1>5 DEF Doomed
<1>6. CASE OpenFails \/ Saved
  <2>1. SoundInv'
    BY <1>6, StillClean DEF OpenFails, Saved, Go
  <2> QED  BY <1>3, <1>6, <2>1 DEF OpenFails, Saved, Go
<1>7. CASE Open
  BY <1>3, <1>7, OpenClean DEF Open
<1>8. CASE WriteNode
  BY <1>3, <1>8, WriteNodeClean DEF WriteNode
<1>9. CASE WriteScalar
  BY <1>3, <1>9, WriteScalarClean DEF WriteScalar
<1>10. CASE CodegenRun
  BY <1>3, <1>10, CodegenRunClean DEF CodegenRun, Go
<1>11. CASE ReadNode
  BY <1>3, <1>11, ReadNodeClean DEF ReadNode
<1>12. CASE ReadScalar
  BY <1>3, <1>12, ReadScalarClean DEF ReadScalar
<1>13. CASE NoCodegen \/ Loaded
  <2>1. /\ todo' = <<Root>> /\ loaded' = loaded /\ archive' = archive /\ in' = in
        /\ phase' \in {"destroy_program", "destroy_loaded"}
        /\ freed' = freed /\ phase \in {"codegen", "load"}
    BY <1>13 DEF NoCodegen, Loaded, Go
  <2>2. freed' = {}
    BY <2>1 DEF IInv, FreeInv
  <2>3. SoundInv'
    BY <2>1, StillClean
  <2> QED  BY <1>4, <2>1, <2>2, <2>3
<1>14. CASE DestroyNode
  <2>1. /\ Destroying /\ phase' = phase /\ loaded' = loaded /\ archive' = archive /\ in' = in
        /\ freed' = freed
    BY <1>14 DEF DestroyNode
  <2>2. SoundInv'
    BY <2>1, StillClean DEF Destroying
  <2>3. Whole(Doomed, todo', freed)
    BY <1>2, <1>14, <2>1, DestroyNodeWhole
  <2> QED  BY <1>5, <2>1, <2>2, <2>3
<1>15. CASE Free
  <2>1. /\ Destroying /\ phase' = phase /\ loaded' = loaded /\ archive' = archive /\ in' = in
    BY <1>15 DEF Free
  <2>2. SoundInv'
    BY <2>1, StillClean DEF Destroying
  <2>3. Whole(Doomed, todo', freed')
    BY <1>2, <1>15, <2>1, FreeStepWhole
  <2> QED  BY <1>5, <2>1, <2>2, <2>3
<1>16. CASE Destroyed
  <2>1. /\ phase' \in {"destroy_program", "done"} /\ loaded' = loaded
        /\ archive' = archive /\ in' = in
        /\ phase' = "destroy_program" => todo' = <<Root>> /\ freed' = {}
    BY <1>16 DEF Destroyed, Go
  <2>2. SoundInv'
    BY <2>1, StillClean
  <2> QED  BY <1>4, <2>1, <2>2 DEF Destroying
<1>17. CASE WildPointer
  BY <1>17, NeverWild DEF CleanInv
<1>18. CASE DiskFills \/ UNCHANGED vars
  <2>1. /\ phase' = phase /\ loaded' = loaded /\ in' = in
        /\ freed' = freed /\ todo' = todo
    BY <1>18 DEF DiskFills, vars
  <2>2. ArchiveClean'
    <3>1. CASE UNCHANGED vars
      BY <3>1 DEF vars, SoundInv, ArchiveClean
    <3>2. CASE DiskFills
      <4>1. archive \in Seq(Token) /\ phase = "save" /\ Clean(archive) /\ Clean(in)
        BY <3>2 DEF DiskFills, IInv, TypeInv, SoundInv, ArchiveClean
      <4> QED  BY <2>1, <3>2, <4>1, Filled DEF ArchiveClean
    <3> QED  BY <1>18, <3>1, <3>2
  <2>3. SoundInv'
    BY <1>1, <2>1, <2>2
    DEF SoundInv, LoadedClean, Unread, SavesInStruct, LoadsInStruct, Pending
  <2> QED  BY <1>5, <2>1, <2>3 DEF Destroying
<1> QED
  BY <1>6, <1>7, <1>8, <1>9, <1>10, <1>11, <1>12, <1>13, <1>14, <1>15, <1>16, <1>17, <1>18
  DEF Next, Step

THEOREM CleanInvariance ==
  ASSUME OldIsClean
  PROVE  Spec => []CleanInv
<1>1. Init => CleanInv
  BY CleanInit
<1>2. IInv /\ CleanInv /\ [Next]_vars => CleanInv'
  BY CleanStep
<1> QED  BY <1>1, <1>2, Invariance, PTL DEF Spec

(* When ast_destroy returns it has freed every node and every string of the*)
(* tree, the one the parser made and the one codegen_run could read of the *)
(* archive, however little that was.                                       *)
THEOREM AllIsFreed ==
  ASSUME OldIsClean
  PROVE  Spec => []NothingLeaks
<1>1. IInv /\ CleanInv => NothingLeaks
  <2> SUFFICES ASSUME IInv, CleanInv, Destroying, todo = <<>>, Sound
               PROVE  freed = UNION {{<<c, "node">>}
                        \union {<<c, m>> : m \in {s \in Strings \intersect DOMAIN Doomed[c].at :
                                                    Doomed[c].at[s] # Zero}}
                      : c \in 2..Len(Doomed)}
    BY DEF NothingLeaks
  <2> DEFINE D == Doomed
  <2>1. CleanTree(D)
    BY CleanTrees DEF CleanInv, SoundInv
  <2>2. Once(D, <<>>, freed) /\ Whole(D, <<>>, freed)
    BY DEF IInv, FreeInv, CleanInv
  <2> HIDE DEF D
  <2>3. \A x : x \in freed <=> \E c \in 2..Len(D) :
                 x = <<c, "node">> \/ \E m \in Strings : x = <<c, m>> /\ HasText(D, x)
    BY <2>1, <2>2, EndWhole
  <2>4. \A c, m : HasText(D, <<c, m>>) <=>
          m \in {s \in Strings \intersect DOMAIN D[c].at : D[c].at[s] # Zero}
    BY DEF HasText, InStruct, Child
  <2>5. freed = UNION {{<<c, "node">>}
                  \union {<<c, m>> : m \in {s \in Strings \intersect DOMAIN D[c].at :
                                              D[c].at[s] # Zero}}
                : c \in 2..Len(D)}
    BY <2>3, <2>4
  <2> QED  BY <2>5 DEF D
<1> QED  BY <1>1, Invariance, CleanInvariance, PTL

(* None of the passes over a program without a type that is cast to a      *)
(* larger struct follows a pointer that lies outside its node: ast.c's four*)
(* switches agree on the layout, for every such tree and every archive.    *)
THEOREM SoundNeverCrashes ==
  ASSUME OldIsClean
  PROVE  Spec => [](Sound => phase # "crashed")
<1>1. CleanInv => (Sound => phase # "crashed")
  BY DEF CleanInv, SoundInv
<1> QED  BY <1>1, CleanInvariance, PTL

===============================================================================
