----------------------------- MODULE CParserOwners -----------------------------
(***************************************************************************)
(* Who frees what, for every source: in an accepted program no node of the *)
(* C compiler's tree is led to by two pointers, and none is led to by no   *)
(* pointer but what is known to be lost.                                   *)
(*                                                                         *)
(* The invariant is an account of the nodes.  Each one is the program, is  *)
(* led to by one pointer, is excused, or is kept: by a frame that will     *)
(* return it, link it or store it, or as the node last returned when the   *)
(* first frame that looks at one is going to use it.  What is kept is led  *)
(* to by no pointer yet, and is kept once.  A frame whose result nobody    *)
(* uses does not keep the node that it returns.                            *)
(***************************************************************************)
EXTENDS CParserProofs

(* Frames that pass on what was returned before them, that do something    *)
(* with it, that return their node, that keep their node for themselves,   *)
(* and that keep the head of a list.                                       *)
Kind(f) == IF f.fn = "link" THEN f.op ELSE f.fn

Passing == {"expect", "optsemi", "flags", "skipdata"}
Using == {"set", "link", "args", "loopkind", "paren", "brace", "postfixrest", "unaryrest",
          "left", "right", "flowop", "flowright", "flowend", "assign", "assigned", "exprrest",
          "lambda"}
Returning == {"give", "set", "tuple", "fields", "variants", "plainvariants", "statements",
              "members", "loopkind", "loopbody", "init", "funcrest", "lambda", "cname"}
Waiting == {"right", "flowright", "assigned", "unwrap"}
Listing == {"tuple", "fields", "variants", "plainvariants", "statements", "members", "program",
            "args", "params", "use"}

(* What these return is never used; what all others but those that pass    *)
(* something on or return a node they were given return, always is.        *)
Barren == {"args", "params", "program", "compile", "destroy"}

(* Is what the frame k of the stack returns used, and that of the whole?   *)
LiveAt(st, k) ==
  \E j \in (k + 1)..Len(st) :
    st[j].fn \in Using /\ \A i \in (k + 1)..(j - 1) : st[i].fn \in Passing
Needed(st) == LiveAt(st, 0)
Goes(f, l) == f.fn \in Using \/ (f.fn \in Passing /\ l)

Own(f, l) ==
  ((IF f.fn \in Waiting \/ (Kind(f) \in Returning /\ l) THEN {f.n} ELSE {})
     \union (IF Kind(f) \in Listing THEN {f.head} ELSE {})) \ {NULL}
OwnAt(st, k) == Own(st[k], LiveAt(st, k))
KeptBy(st) == UNION {OwnAt(st, k) : k \in 1..Len(st)}

(* What a frame relies on, of whose result is used or not.                 *)
Sits(c, f, l) ==
  /\ Kind(f) \in Barren => ~l
  /\ Kind(f) \notin Barren \union Passing \union Returning => l
  /\ f.fn # "run" /\ (f.fn = "set" => f.m \in Pointers)
  /\ Kind(f) \in (Returning \union Waiting \union Listing) \ {"use"} => IsNode(c, f.n)
  /\ Kind(f) \in Listing /\ f.head # NULL => IsNode(c, f.tail)
  /\ Kind(f) \in Returning /\ l => f.n # f.head
  /\ f.fn = "unwrap" => f.head = f.n \/ c.nodes[f.n].type = "TUPLE"

Fair(c, st) ==
  \A k \in 1..Len(st) :
    /\ Sits(c, st[k], LiveAt(st, k))
    /\ \A j \in 1..Len(st) : j # k => OwnAt(st, j) \intersect OwnAt(st, k) = {}

(* A member of node i leads to n.                                          *)
Points(c, i, m, n) ==
  /\ i \in 1..Len(c.nodes) /\ m \in Pointers /\ m \in DOMAIN c.nodes[i].at
  /\ c.nodes[i].at[m] = n /\ n # NULL

Excused(c, n) == c.lost # {} \/ c.nodes[n].type \in {"IDENTIFIER", "LITERAL", "TUPLE"}

(* The account of the nodes of c, when those of K are kept.                *)
Tidy(c, K) ==
  /\ Shaped(c) /\ K \subseteq 1..Len(c.nodes)
  /\ \A i, m, n : Points(c, i, m, n) => n \in 1..Len(c.nodes) /\ n \notin K
  /\ \A i, m, j, k, n : Points(c, i, m, n) /\ Points(c, j, k, n) => i = j /\ m = k
  /\ \A n \in 1..Len(c.nodes) :
       n \in K \/ n = 1 \/ Excused(c, n) \/ \E i, m : Points(c, i, m, n)

Live(c, st) == IF Needed(st) THEN {c.ret} ELSE {}

Owned(c, st) ==
  /\ IsSeq(st) /\ Fair(c, st) /\ Live(c, st) \intersect KeptBy(st) = {}
  /\ Tidy(c, KeptBy(st) \union Live(c, st))

OwnInv ==
  \/ cur.bad \/ cur.crash # "no"
  \/ cur.nodes = <<>> /\ stack = <<F("run")>>
  \/ Owned(cur, stack)

-------------------------------------------------------------------------------
(* The account, and what the helpers do to it.                             *)

LEMMA TidyLost ==
  ASSUME NEW c, NEW K, Tidy(c, K), NEW J, J \subseteq K,
         c.lost # {} \/ \A n \in K \ J : Excused(c, n)
  PROVE  Tidy(c, J)
<1>1. \A n \in K \ J : Excused(c, n)
  BY DEF Excused
<1> QED  BY <1>1 DEF Tidy

(* What leaves the nodes alone, and the node returned.                     *)
Stirs(c, d) ==
  /\ DOMAIN d = CurFields /\ d.nodes = c.nodes /\ d.ret = c.ret /\ c.lost \subseteq d.lost

LEMMA TidyMove ==
  ASSUME NEW c, NEW K, Tidy(c, K), NEW d, d.nodes = c.nodes, c.lost \subseteq d.lost,
         DOMAIN d = CurFields
  PROVE  Tidy(d, K)
<1>1. \A i, m, n : Points(d, i, m, n) <=> Points(c, i, m, n)
  BY DEF Points
<1>2. \A n : Excused(c, n) => Excused(d, n)
  BY DEF Excused
<1>3. Shaped(d)
  BY DEF Tidy, Shaped
<1> QED  BY <1>1, <1>2, <1>3 DEF Tidy

LEMMA StirsBy ==
  ASSUME NEW b, NEW c, Stirs(b, c)
  PROVE  /\ Stirs(b, Adv(c)) /\ Stirs(b, Fails(c)) /\ \A why : Stirs(b, Lose(c, why))
         /\ \A t : Stirs(b, Consume(c, t)) /\ Stirs(b, Match(c, t))
         /\ \A why : Stirs(b, Skip(c, why))
<1>1. ASSUME NEW x, Stirs(b, x)
      PROVE  /\ Stirs(b, Adv(x)) /\ Stirs(b, Fails(x)) /\ \A why : Stirs(b, Lose(x, why))
  BY <1>1 DEF Stirs, Adv, Fails, Lose, CurFields
<1>2. \A t : Stirs(b, Consume(c, t)) /\ Stirs(b, Match(c, t))
  BY <1>1 DEF Consume, Match
<1>3. \A why : Stirs(b, Skip(c, why))
  BY <1>1 DEF Skip
<1> QED  BY <1>1, <1>2, <1>3

LEMMA BlankPointers ==
  ASSUME NEW type, NEW m \in Given(type), m \in Pointers PROVE Blank(type).at[m] = NULL
  BY DEF Given, Blank

(* The nodes U are what a new node with these members leads to.            *)
Feeds(type, members, U) ==
  LET P == Given(type) \intersect Pointers \intersect DOMAIN members
  IN  /\ \A m \in P : members[m] \in U
      /\ \A u \in U : \E m \in P : members[m] = u
      /\ \A m, k \in P : members[m] = members[k] => m = k

Adds(c, d, type) ==
  /\ d.ret = Len(c.nodes) + 1 /\ Len(d.nodes) = Len(c.nodes) + 1 /\ d.nodes[d.ret].type = type
  /\ \A i \in 1..Len(c.nodes) : d.nodes[i] = c.nodes[i]

LEMMA TidyMake ==
  ASSUME NEW c, NEW K, Tidy(c, K), NEW type, NEW members, NEW U, U \subseteq K,
         Feeds(type, members, U)
  PROVE  LET d == Make(c, type, members)
         IN  Tidy(d, (K \ U) \union {d.ret}) /\ Adds(c, d, type)
<1> DEFINE d == Make(c, type, members)
           n == Len(c.nodes) + 1
           P == Given(type) \intersect Pointers \intersect DOMAIN members
<1>0. /\ \A m \in P : members[m] \in U
      /\ \A u \in U : \E m \in P : members[m] = u
      /\ \A m, k \in P : members[m] = members[k] => m = k
  BY DEF Feeds
<1>1. IsMade(c, type, members, d) /\ Len(c.nodes) \in Nat /\ d.lost = c.lost
  <2>1. d.lost = c.lost
    BY DEF Tidy, Shaped, Make, CurFields
  <2> QED  BY <2>1, MakeIs DEF Tidy, Shaped, IsSeq
<1>2. /\ Len(d.nodes) = n /\ d.ret = n /\ n \in 1..n /\ n \notin 1..Len(c.nodes)
      /\ 1..n = 1..Len(c.nodes) \union {n}
  BY <1>1 DEF IsMade
<1>3. /\ DOMAIN d = CurFields /\ IsSeq(d.nodes)
      /\ \A i \in 1..Len(c.nodes) : d.nodes[i] = c.nodes[i]
      /\ DOMAIN d.nodes[n] = {"type", "at"} /\ d.nodes[n].type = type
      /\ DOMAIN d.nodes[n].at = Given(type)
      /\ \A m \in Given(type) :
           d.nodes[n].at[m] = IF m \in DOMAIN members THEN members[m] ELSE Blank(type).at[m]
  BY <1>1 DEF IsMade
<1> HIDE DEF d, n
<1>4. Shaped(d)
  BY <1>2, <1>3 DEF Shaped, Tidy
<1>5. \A i \in 1..Len(c.nodes) : \A m, x : Points(d, i, m, x) <=> Points(c, i, m, x)
  BY <1>2, <1>3 DEF Points
<1>6. \A m, x : Points(d, n, m, x) <=> m \in P /\ members[m] = x /\ x # NULL
  BY <1>2, <1>3, BlankPointers DEF Points
<1>6a. \A i, m, x : Points(d, i, m, x) => i = n \/ (i \in 1..Len(c.nodes) /\ Points(c, i, m, x))
  <2> SUFFICES ASSUME NEW i, NEW m, NEW x, Points(d, i, m, x), i # n
               PROVE  i \in 1..Len(c.nodes) /\ Points(c, i, m, x)
    OBVIOUS
  <2>1. i \in 1..n
    BY <1>2 DEF Points
  <2>2. i \in 1..Len(c.nodes)
    BY <1>2, <2>1
  <2> QED  BY <1>5, <2>2
<1>7. U \subseteq 1..Len(c.nodes) /\ NULL \notin U
  BY DEF Tidy, NULL
<1>8. \A x \in 1..Len(c.nodes) : Excused(c, x) => Excused(d, x)
  BY <1>1, <1>3 DEF Excused
<1>9. \A i, m, x : Points(d, i, m, x) => x \in 1..Len(d.nodes) /\ x \notin (K \ U) \union {d.ret}
  <2> TAKE i, m, x
  <2> HAVE Points(d, i, m, x)
  <2>1. CASE i = n
    <3>1. x \in U
      BY <1>0, <1>6, <2>1
    <3> QED  BY <1>2, <1>7, <3>1
  <2>2. CASE i # n
    BY <1>2, <1>6a, <2>2 DEF Tidy
  <2> QED  BY <2>1, <2>2
<1>10. \A i, m, j, k, x : Points(d, i, m, x) /\ Points(d, j, k, x) => i = j /\ m = k
  <2> TAKE i, m, j, k, x
  <2> HAVE Points(d, i, m, x) /\ Points(d, j, k, x)
  <2>1. CASE i = n /\ j = n
    BY <1>0, <1>6, <2>1
  <2>2. CASE i # n /\ j # n
    BY <1>6a, <2>2 DEF Tidy
  <2>3. CASE (i = n /\ j # n) \/ (i # n /\ j = n)
    BY <1>0, <1>6, <1>6a, <2>3 DEF Tidy
  <2> QED  BY <2>1, <2>2, <2>3
<1>11. ASSUME NEW x \in 1..Len(d.nodes)
       PROVE  x \in (K \ U) \union {d.ret} \/ x = 1 \/ Excused(d, x) \/ \E i, m : Points(d, i, m, x)
  <2>1. CASE x = n
    BY <1>2, <2>1
  <2>2. CASE x \in U
    <3>1. PICK m \in P : members[m] = x
      BY <1>0, <2>2
    <3> QED  BY <1>6, <1>7, <2>2, <3>1
  <2>3. CASE x # n /\ x \notin U
    <3>1. x \in 1..Len(c.nodes)
      BY <1>2, <2>3
    <3>2. x \in K \/ x = 1 \/ Excused(c, x) \/ \E i, m : Points(c, i, m, x)
      BY <3>1 DEF Tidy
    <3>3. \A i, m : Points(c, i, m, x) => Points(d, i, m, x)
      BY <1>5 DEF Points
    <3> QED  BY <1>8, <2>3, <3>1, <3>2, <3>3
  <2> QED  BY <2>1, <2>2, <2>3
<1>12. (K \ U) \union {d.ret} \subseteq 1..Len(d.nodes)
  BY <1>2 DEF Tidy
<1>13. Tidy(d, (K \ U) \union {d.ret})
  BY <1>4, <1>9, <1>10, <1>11, <1>12 DEF Tidy
<1> QED  BY <1>2, <1>3, <1>13 DEF d, n, Adds

LEMMA PutLost ==
  ASSUME NEW c, Shaped(c), NEW n, NEW m, NEW v
  PROVE  LET d == Put(c, n, m, v)
             at == c.nodes[n].at
         IN  /\ c.lost \subseteq d.lost
             /\ m \notin DOMAIN at \/ (m \in Pointers /\ at[m] # NULL) => d.lost # {}
<1>1. ASSUME NEW b, DOMAIN b = CurFields
      PROVE  Lose(b, m).lost = b.lost \union {m}
  BY <1>1 DEF Lose, CurFields
<1> DEFINE e == [c EXCEPT !.nodes[n].at[m] = v]
           at == c.nodes[n].at
           member == m \in DOMAIN at
           d == IF member THEN e ELSE c
<1>2. DOMAIN e = CurFields /\ e.lost = c.lost
  BY DEF Shaped, CurFields
<1>3. Put(c, n, m, v) = IF member /\ (m \in Pointers => at[m] = NULL) THEN d ELSE Lose(d, m)
  BY DEF Put
<1>4. DOMAIN d = CurFields /\ d.lost = c.lost
  BY <1>2 DEF Shaped
<1> HIDE DEF d, e
<1> QED  BY <1>1, <1>3, <1>4

(* What is stored into a pointer is one of K or NULL, and kept no longer.  *)
Storable(m, v, K) == m \in Pointers => v \in K \union {NULL}
Left(m, v, K) == IF m \in Pointers THEN K \ {v} ELSE K

Remains(c, d) ==
  /\ d.ret = c.ret /\ Len(d.nodes) = Len(c.nodes)
  /\ \A i \in 1..Len(c.nodes) : d.nodes[i].type = c.nodes[i].type

LEMMA TidyPut ==
  ASSUME NEW c, NEW K, Tidy(c, K), NEW n, IsNode(c, n), NEW m, NEW v, Storable(m, v, K)
  PROVE  LET d == Put(c, n, m, v) IN Tidy(d, Left(m, v, K)) /\ Remains(c, d)
<1> DEFINE d == Put(c, n, m, v)
           at == c.nodes[n].at
           J == IF m \in Pointers THEN K \ {v} ELSE K
<1>0. m \in Pointers => v \in K \union {NULL}
  BY DEF Storable
<1>1. IsPut(c, n, m, v, d) /\ Len(c.nodes) \in Nat
  BY PutIs DEF Tidy, Shaped, IsSeq
<1>2. /\ c.lost \subseteq d.lost
      /\ m \notin DOMAIN at \/ (m \in Pointers /\ at[m] # NULL) => d.lost # {}
  BY PutLost DEF Tidy
<1>3. /\ DOMAIN d = CurFields /\ d.ret = c.ret /\ IsSeq(d.nodes) /\ Len(d.nodes) = Len(c.nodes)
      /\ \A i \in 1..Len(c.nodes) :
           /\ DOMAIN d.nodes[i] = {"type", "at"} /\ d.nodes[i].type = c.nodes[i].type
           /\ DOMAIN d.nodes[i].at = DOMAIN c.nodes[i].at
           /\ \A k \in DOMAIN c.nodes[i].at :
                d.nodes[i].at[k] = IF i = n /\ k = m THEN v ELSE c.nodes[i].at[k]
  BY <1>1 DEF IsPut
<1>3a. v \in K => v # NULL
  BY DEF Tidy, NULL
<1> HIDE DEF d
<1>4. Shaped(d)
  BY <1>3 DEF Shaped, Tidy
<1>5. \A i, k, x : ~(i = n /\ k = m) => (Points(d, i, k, x) <=> Points(c, i, k, x))
  BY <1>3 DEF Points
<1>6. \A x : Points(d, n, m, x) => m \in Pointers /\ m \in DOMAIN at /\ x = v /\ v # NULL
  BY <1>3 DEF Points, IsNode
<1>7. m \in Pointers /\ m \in DOMAIN at /\ v # NULL => Points(d, n, m, v)
  BY <1>3 DEF Points, IsNode
<1>8. \A x \in 1..Len(c.nodes) : Excused(c, x) => Excused(d, x)
  BY <1>2, <1>3 DEF Excused
<1>9. \A i, k, x : Points(d, i, k, x) => x \in 1..Len(d.nodes) /\ x \notin J
  <2> TAKE i, k, x
  <2> HAVE Points(d, i, k, x)
  <2>1. CASE i = n /\ k = m
    <3>1. x = v /\ m \in Pointers /\ v \in K
      BY <1>0, <1>6, <2>1
    <3> QED  BY <1>3, <3>1 DEF Tidy
  <2>2. CASE ~(i = n /\ k = m)
    BY <1>3, <1>5, <2>2 DEF Tidy
  <2> QED  BY <2>1, <2>2
<1>10. \A i, k, j, l, x : Points(d, i, k, x) /\ Points(d, j, l, x) => i = j /\ k = l
  <2>0. \A i, k : ~(i = n /\ k = m) => ~(Points(d, n, m, v) /\ Points(d, i, k, v))
    <3>1. m \in Pointers /\ v # NULL => \A i, k : ~Points(c, i, k, v)
      BY <1>0 DEF Tidy
    <3> QED  BY <1>5, <1>6, <3>1
  <2> TAKE i, k, j, l, x
  <2> HAVE Points(d, i, k, x) /\ Points(d, j, l, x)
  <2>1. CASE i = n /\ k = m
    BY <1>6, <2>0, <2>1
  <2>2. CASE j = n /\ l = m
    BY <1>6, <2>0, <2>2
  <2>3. CASE ~(i = n /\ k = m) /\ ~(j = n /\ l = m)
    BY <1>5, <2>3 DEF Tidy
  <2> QED  BY <2>1, <2>2, <2>3
<1>11. ASSUME NEW x \in 1..Len(d.nodes)
       PROVE  x \in J \/ x = 1 \/ Excused(d, x) \/ \E i, k : Points(d, i, k, x)
  <2>1. CASE d.lost # {}
    BY <2>1 DEF Excused
  <2>2. CASE d.lost = {}
    <3>1. m \in DOMAIN at /\ (m \in Pointers => at[m] = NULL)
      BY <1>2, <2>2
    <3>2. \A i, k : Points(c, i, k, x) => Points(d, i, k, x)
      <4> SUFFICES ASSUME NEW i, NEW k, Points(c, i, k, x) PROVE Points(d, i, k, x)
        OBVIOUS
      <4>1. ~(i = n /\ k = m)
        BY <3>1 DEF Points
      <4> QED  BY <1>5, <4>1
    <3>3. x \in K \/ x = 1 \/ Excused(c, x) \/ \E i, k : Points(c, i, k, x)
      BY <1>3 DEF Tidy
    <3>4. CASE x = v /\ m \in Pointers /\ x \in K
      BY <1>3a, <1>7, <3>1, <3>4
    <3>5. CASE ~(x = v /\ m \in Pointers /\ x \in K)
      BY <1>3, <1>8, <3>2, <3>3, <3>5
    <3> QED  BY <3>4, <3>5
  <2> QED  BY <2>1, <2>2
<1>12. J \subseteq 1..Len(d.nodes)
  BY <1>3 DEF Tidy
<1>13. Tidy(d, J)
  BY <1>4, <1>9, <1>10, <1>11, <1>12 DEF Tidy
<1> QED  BY <1>3, <1>13 DEF d, Left, Remains

-------------------------------------------------------------------------------
(* The stack, frame by frame.                                              *)

(* The stack st is s with f on top.                                        *)
Pushed(st, f, s) ==
  /\ IsSeq(s) /\ IsSeq(st) /\ Len(st) = Len(s) + 1 /\ st[1] = f
  /\ \A i \in 1..Len(s) : st[i + 1] = s[i]

LEMMA LiveShift ==
  ASSUME NEW st, NEW f, NEW s, Pushed(st, f, s), NEW k \in 0..Len(s)
  PROVE  LiveAt(st, k + 1) <=> LiveAt(s, k)
<1>0. Len(s) \in Nat /\ Len(st) = Len(s) + 1
  BY DEF Pushed, IsSeq
<1>1. ASSUME LiveAt(s, k) PROVE LiveAt(st, k + 1)
  <2>1. PICK j \in (k + 1)..Len(s) :
          s[j].fn \in Using /\ \A i \in (k + 1)..(j - 1) : s[i].fn \in Passing
    BY <1>1 DEF LiveAt
  <2>2. j + 1 \in (k + 1 + 1)..Len(st) /\ j \in 1..Len(s)
    BY <1>0
  <2>3. st[j + 1].fn \in Using
    BY <2>1, <2>2 DEF Pushed
  <2>4. ASSUME NEW i \in (k + 1 + 1)..(j + 1 - 1) PROVE st[i].fn \in Passing
    <3>1. i - 1 \in (k + 1)..(j - 1) /\ i - 1 \in 1..Len(s) /\ (i - 1) + 1 = i
      BY <1>0
    <3>2. st[i] = s[i - 1]
      BY <3>1 DEF Pushed
    <3> QED  BY <2>1, <3>1, <3>2
  <2> QED  BY <2>2, <2>3, <2>4 DEF LiveAt
<1>2. ASSUME LiveAt(st, k + 1) PROVE LiveAt(s, k)
  <2>1. PICK j \in (k + 1 + 1)..Len(st) :
          st[j].fn \in Using /\ \A i \in (k + 1 + 1)..(j - 1) : st[i].fn \in Passing
    BY <1>2 DEF LiveAt
  <2>2. j - 1 \in (k + 1)..Len(s) /\ j - 1 \in 1..Len(s) /\ (j - 1) + 1 = j
    BY <1>0
  <2>3. s[j - 1].fn \in Using
    BY <2>1, <2>2 DEF Pushed
  <2>4. ASSUME NEW i \in (k + 1)..(j - 1 - 1) PROVE s[i].fn \in Passing
    <3>1. i + 1 \in (k + 1 + 1)..(j - 1) /\ i \in 1..Len(s)
      BY <1>0
    <3>2. st[i + 1] = s[i]
      BY <3>1 DEF Pushed
    <3> QED  BY <2>1, <3>1, <3>2
  <2> QED  BY <2>2, <2>3, <2>4 DEF LiveAt
<1> QED  BY <1>1, <1>2

LEMMA NeededShift ==
  ASSUME NEW st, NEW f, NEW s, Pushed(st, f, s)
  PROVE  Needed(st) <=> Goes(f, Needed(s))
<1>0. Len(s) \in Nat /\ Len(st) = Len(s) + 1 /\ st[1] = f
  BY DEF Pushed, IsSeq
<1>1. LiveAt(st, 1) <=> Needed(s)
  <2>1. 0 \in 0..Len(s) /\ 0 + 1 = 1
    BY <1>0
  <2>2. LiveAt(st, 0 + 1) <=> LiveAt(s, 0)
    BY <2>1, LiveShift
  <2> QED  BY <2>1, <2>2 DEF Needed
<1>2. ASSUME f.fn \in Using PROVE LiveAt(st, 0)
  <2>1. 1 \in (0 + 1)..Len(st) /\ \A i \in (0 + 1)..(1 - 1) : FALSE
    BY <1>0
  <2> QED  BY <1>0, <1>2, <2>1 DEF LiveAt
<1>3. ASSUME f.fn \in Passing, LiveAt(st, 1) PROVE LiveAt(st, 0)
  <2>1. PICK j \in (1 + 1)..Len(st) :
          st[j].fn \in Using /\ \A i \in (1 + 1)..(j - 1) : st[i].fn \in Passing
    BY <1>3 DEF LiveAt
  <2>2. \A i \in (0 + 1)..(j - 1) : i = 1 \/ i \in (1 + 1)..(j - 1)
    BY <1>0
  <2>3. \A i \in (0 + 1)..(j - 1) : st[i].fn \in Passing
    BY <1>0, <1>3, <2>1, <2>2
  <2>4. j \in (0 + 1)..Len(st)
    BY <1>0
  <2> QED  BY <2>1, <2>3, <2>4 DEF LiveAt
<1>4. ASSUME LiveAt(st, 0), f.fn \notin Using PROVE f.fn \in Passing /\ LiveAt(st, 1)
  <2>1. PICK j \in (0 + 1)..Len(st) :
          st[j].fn \in Using /\ \A i \in (0 + 1)..(j - 1) : st[i].fn \in Passing
    BY <1>4 DEF LiveAt
  <2>2. j # 1
    BY <1>0, <1>4, <2>1
  <2>3. j \in (1 + 1)..Len(st) /\ 1 \in (0 + 1)..(j - 1)
        /\ \A i \in (1 + 1)..(j - 1) : i \in (0 + 1)..(j - 1)
    BY <1>0, <2>2
  <2> QED  BY <1>0, <2>1, <2>3 DEF LiveAt
<1> QED  BY <1>1, <1>2, <1>3, <1>4 DEF Goes, Needed

LEMMA OwnShift ==
  ASSUME NEW st, NEW f, NEW s, Pushed(st, f, s)
  PROVE  /\ OwnAt(st, 1) = Own(f, Needed(s))
         /\ LiveAt(st, 1) <=> Needed(s)
         /\ \A k \in 1..Len(s) :
              OwnAt(st, k + 1) = OwnAt(s, k) /\ (LiveAt(st, k + 1) <=> LiveAt(s, k))
         /\ KeptBy(st) = KeptBy(s) \union Own(f, Needed(s))
<1>0. Len(s) \in Nat /\ Len(st) = Len(s) + 1 /\ st[1] = f
  BY DEF Pushed, IsSeq
<1>1. LiveAt(st, 1) <=> Needed(s)
  <2>1. 0 \in 0..Len(s) /\ 0 + 1 = 1
    BY <1>0
  <2>2. LiveAt(st, 0 + 1) <=> LiveAt(s, 0)
    BY <2>1, LiveShift
  <2> QED  BY <2>1, <2>2 DEF Needed
<1>2. OwnAt(st, 1) = Own(f, Needed(s))
  BY <1>0, <1>1 DEF OwnAt, Own
<1>3. ASSUME NEW k \in 1..Len(s)
      PROVE  OwnAt(st, k + 1) = OwnAt(s, k) /\ (LiveAt(st, k + 1) <=> LiveAt(s, k))
  <2>1. k \in 0..Len(s)
    BY <1>0
  <2>2. (LiveAt(st, k + 1) <=> LiveAt(s, k)) /\ st[k + 1] = s[k]
    BY <2>1, LiveShift DEF Pushed
  <2> QED  BY <2>2 DEF OwnAt, Own
<1>4. KeptBy(st) = KeptBy(s) \union OwnAt(st, 1)
  <2>1. ASSUME NEW x \in KeptBy(st) PROVE x \in KeptBy(s) \union OwnAt(st, 1)
    <3>1. PICK k \in 1..Len(st) : x \in OwnAt(st, k)
      BY DEF KeptBy
    <3>2. CASE k # 1
      <4>1. k - 1 \in 1..Len(s) /\ (k - 1) + 1 = k
        BY <1>0, <3>2
      <4> QED  BY <1>3, <3>1, <4>1 DEF KeptBy
    <3> QED  BY <3>1, <3>2
  <2>2. ASSUME NEW x \in KeptBy(s) PROVE x \in KeptBy(st)
    <3>1. PICK k \in 1..Len(s) : x \in OwnAt(s, k)
      BY DEF KeptBy
    <3>2. k + 1 \in 1..Len(st)
      BY <1>0
    <3> QED  BY <1>3, <3>1, <3>2 DEF KeptBy
  <2>3. 1 \in 1..Len(st)
    BY <1>0
  <2>4. OwnAt(st, 1) \subseteq KeptBy(st)
    BY <2>3 DEF KeptBy
  <2> QED  BY <2>1, <2>2, <2>4
<1> QED  BY <1>1, <1>2, <1>3, <1>4

LEMMA FairShift ==
  ASSUME NEW c, NEW st, NEW f, NEW s, Pushed(st, f, s)
  PROVE  Fair(c, st) <=> /\ Fair(c, s) /\ Sits(c, f, Needed(s))
                         /\ Own(f, Needed(s)) \intersect KeptBy(s) = {}
<1>0. /\ Len(s) \in Nat /\ Len(st) = Len(s) + 1 /\ st[1] = f
      /\ \A k \in 1..Len(s) : st[k + 1] = s[k] /\ k + 1 \in 1..Len(st) /\ k + 1 # 1
      /\ \A k \in 1..Len(st) : k = 1 \/ (k - 1 \in 1..Len(s) /\ (k - 1) + 1 = k)
      /\ 1 \in 1..Len(st)
  BY DEF Pushed, IsSeq
<1>1. /\ OwnAt(st, 1) = Own(f, Needed(s))
      /\ LiveAt(st, 1) <=> Needed(s)
      /\ \A k \in 1..Len(s) :
              OwnAt(st, k + 1) = OwnAt(s, k) /\ (LiveAt(st, k + 1) <=> LiveAt(s, k))
  BY OwnShift
<1>2. Sits(c, st[1], LiveAt(st, 1)) <=> Sits(c, f, Needed(s))
  BY <1>0, <1>1 DEF Sits
<1>3. \A k \in 1..Len(s) : Sits(c, st[k + 1], LiveAt(st, k + 1)) <=> Sits(c, s[k], LiveAt(s, k))
  BY <1>0, <1>1 DEF Sits
<1>4. ASSUME Fair(c, st)
      PROVE  Fair(c, s) /\ Sits(c, f, Needed(s)) /\ Own(f, Needed(s)) \intersect KeptBy(s) = {}
  <2>1. Sits(c, f, Needed(s))
    BY <1>0, <1>2, <1>4 DEF Fair
  <2>2. ASSUME NEW k \in 1..Len(s)
        PROVE  /\ Sits(c, s[k], LiveAt(s, k)) /\ OwnAt(st, 1) \intersect OwnAt(s, k) = {}
               /\ \A j \in 1..Len(s) : j # k => OwnAt(s, j) \intersect OwnAt(s, k) = {}
    <3>1. Sits(c, st[k + 1], LiveAt(st, k + 1))
          /\ \A j \in 1..Len(st) : j # k + 1 => OwnAt(st, j) \intersect OwnAt(st, k + 1) = {}
      BY <1>0, <1>4 DEF Fair
    <3>2. \A j \in 1..Len(s) : j # k => j + 1 # k + 1
      OBVIOUS
    <3>3. OwnAt(st, 1) \intersect OwnAt(s, k) = {}
      BY <1>0, <1>1, <3>1
    <3>4. \A j \in 1..Len(s) : j # k => OwnAt(s, j) \intersect OwnAt(s, k) = {}
      BY <1>0, <1>1, <3>1, <3>2
    <3> QED  BY <1>3, <3>1, <3>3, <3>4
  <2> QED  BY <1>1, <2>1, <2>2 DEF Fair, KeptBy
<1>5. ASSUME Fair(c, s), Sits(c, f, Needed(s)), Own(f, Needed(s)) \intersect KeptBy(s) = {}
      PROVE  Fair(c, st)
  <2>1. \A k \in 1..Len(s) : OwnAt(st, 1) \intersect OwnAt(s, k) = {}
    BY <1>1, <1>5 DEF KeptBy
  <2> SUFFICES ASSUME NEW k \in 1..Len(st)
               PROVE  /\ Sits(c, st[k], LiveAt(st, k))
                      /\ \A j \in 1..Len(st) : j # k => OwnAt(st, j) \intersect OwnAt(st, k) = {}
    BY DEF Fair
  <2>2. CASE k = 1
    <3>1. Sits(c, st[1], LiveAt(st, 1))
      BY <1>2, <1>5
    <3>2. ASSUME NEW j \in 1..Len(st), j # 1 PROVE OwnAt(st, j) \intersect OwnAt(st, 1) = {}
      <4>1. j - 1 \in 1..Len(s) /\ (j - 1) + 1 = j
        BY <1>0, <3>2
      <4>2. OwnAt(st, j) = OwnAt(s, j - 1)
        BY <1>1, <4>1
      <4> QED  BY <2>1, <4>1, <4>2
    <3> QED  BY <2>2, <3>1, <3>2
  <2>3. CASE k # 1
    <3>0. k - 1 \in 1..Len(s) /\ (k - 1) + 1 = k
      BY <1>0, <2>3
    <3>1. Sits(c, s[k - 1], LiveAt(s, k - 1))
      BY <1>5, <3>0 DEF Fair
    <3>2. Sits(c, st[k], LiveAt(st, k)) /\ OwnAt(st, k) = OwnAt(s, k - 1)
      BY <1>1, <1>3, <3>0, <3>1
    <3>3. ASSUME NEW j \in 1..Len(st), j # k PROVE OwnAt(st, j) \intersect OwnAt(st, k) = {}
      <4>1. CASE j = 1
        BY <2>1, <3>0, <3>2, <4>1
      <4>2. CASE j # 1
        <5>1. j - 1 \in 1..Len(s) /\ (j - 1) + 1 = j
          BY <1>0, <4>2
        <5>2. OwnAt(st, j) = OwnAt(s, j - 1) /\ j - 1 # k - 1
          BY <1>1, <3>0, <3>3, <5>1
        <5> QED  BY <1>5, <3>0, <3>2, <5>1, <5>2 DEF Fair
      <4> QED  BY <4>1, <4>2
    <3> QED  BY <3>2, <3>3
  <2> QED  BY <2>2, <2>3
<1> QED  BY <1>4, <1>5

-------------------------------------------------------------------------------
(* What is known when a function goes on: the frames below keep Rest, and  *)
(* Want says whether they use what it returns.                             *)
Rest == KeptBy(Tail(stack))
Want == Needed(Tail(stack))

Going == Calling /\ ~cur.bad /\ stack # <<>> /\ Owned(cur, stack)

Grows(c) ==
  /\ Len(cur.nodes) \in 0..Len(c.nodes)
  /\ \A i \in 1..Len(cur.nodes) : c.nodes[i].type = cur.nodes[i].type

(* On the way to cursor c the function itself keeps P.                     *)
Has(c, P) == Tidy(c, Rest \union P) /\ P \intersect Rest = {} /\ Grows(c)

(* The frame f, of whose result is used or not, keeps X, and is going to   *)
(* use what is returned to it or not.                                      *)
Rung(c, f, l, X, g) == Sits(c, f, l) /\ Own(f, l) = X /\ (Goes(f, l) <=> g)

Returned(c, l) == IF l THEN {c.ret} ELSE {}

LEMMA PopIs ==
  ASSUME IsSeq(stack), stack # <<>>
  PROVE  Pushed(stack, Top, Tail(stack))
<1>1. Len(stack) # 0 /\ Len(stack) \in Nat
  BY DEF IsSeq
<1>2. IsSeq(Tail(stack)) /\ Len(Tail(stack)) = Len(stack) - 1 /\ Head(stack) = stack[1]
      /\ \A i \in 1..(Len(stack) - 1) : Tail(stack)[i] = stack[i + 1]
  BY <1>1, TailSeq
<1> QED  BY <1>1, <1>2 DEF Pushed, Top

LEMMA SitsGrown ==
  ASSUME NEW c, Grows(c), NEW f, NEW l, Sits(cur, f, l) PROVE Sits(c, f, l)
<1>1. \A n : IsNode(cur, n) => IsNode(c, n) /\ c.nodes[n].type = cur.nodes[n].type
  BY DEF Grows, IsNode
<1>2. f.fn = "unwrap" => IsNode(cur, f.n)
  BY DEF Sits, Kind, Waiting
<1> QED  BY <1>1, <1>2 DEF Sits

LEMMA GoingIs ==
  ASSUME Going
  PROVE  /\ IsSeq(Tail(stack)) /\ Fair(cur, Tail(stack)) /\ Sits(cur, Top, Want)
         /\ Has(cur, Own(Top, Want) \union Returned(cur, Goes(Top, Want)))
         /\ Goes(Top, Want) => cur.ret \notin Own(Top, Want)
         /\ Shaped(cur) /\ Len(cur.nodes) \in Nat
<1>1. Pushed(stack, Top, Tail(stack))
  BY PopIs DEF Going, Owned
<1>2. /\ Fair(cur, Tail(stack)) /\ Sits(cur, Top, Want) /\ Own(Top, Want) \intersect Rest = {}
  BY <1>1, FairShift DEF Going, Owned, Want, Rest
<1>3. KeptBy(stack) = Rest \union Own(Top, Want)
  BY <1>1, OwnShift DEF Rest, Want
<1>4. Needed(stack) <=> Goes(Top, Want)
  BY <1>1, NeededShift DEF Want
<1>5. Live(cur, stack) = Returned(cur, Goes(Top, Want))
  BY <1>4 DEF Live, Returned
<1>6. Tidy(cur, Rest \union (Own(Top, Want) \union Returned(cur, Goes(Top, Want))))
  <2>1. KeptBy(stack) \union Live(cur, stack)
          = Rest \union (Own(Top, Want) \union Returned(cur, Goes(Top, Want)))
    BY <1>3, <1>5
  <2> QED  BY <2>1 DEF Going, Owned
<1>7. Returned(cur, Goes(Top, Want)) \intersect (Rest \union Own(Top, Want)) = {}
  BY <1>3, <1>5 DEF Going, Owned
<1>8. Shaped(cur) /\ Len(cur.nodes) \in Nat
  BY <1>6 DEF Tidy, Shaped, IsSeq
<1>9. Grows(cur)
  BY <1>8 DEF Grows
<1>10. Goes(Top, Want) => cur.ret \notin Own(Top, Want)
  BY <1>7 DEF Returned
<1>11. (Own(Top, Want) \union Returned(cur, Goes(Top, Want))) \intersect Rest = {}
  BY <1>2, <1>7
<1> QED  BY <1>1, <1>2, <1>6, <1>8, <1>9, <1>10, <1>11 DEF Has, Pushed

(* The frames fs above the rest of the stack keep X.                       *)
Lays(c, fs, l, X) ==
  LET st == fs \o Tail(stack)
  IN  IsSeq(fs) /\ IsSeq(st) /\ Fair(c, st) /\ (Needed(st) <=> l) /\ KeptBy(st) = Rest \union X

LEMMA LaysNone ==
  ASSUME Going, NEW c, Grows(c) PROVE Lays(c, <<>>, Want, {})
<1>1. IsSeq(Tail(stack)) /\ Fair(cur, Tail(stack))
  BY GoingIs
<1>2. <<>> \o Tail(stack) = Tail(stack)
  BY <1>1, EmptyIsSeq
<1>3. Fair(c, Tail(stack))
  BY <1>1, SitsGrown DEF Fair
<1>4. IsSeq(<<>>)
  BY DEF IsSeq
<1> QED  BY <1>1, <1>2, <1>3, <1>4 DEF Lays, Want, Rest

LEMMA ConsOver ==
  ASSUME NEW fs, NEW f, NEW us, Pushed(fs, f, us), NEW s, IsSeq(s)
  PROVE  Pushed(fs \o s, f, us \o s)
<1> DEFINE x == fs \o s
           y == us \o s
<1>1. IsSeq(fs) /\ IsSeq(us)
  BY DEF Pushed
<1>2. /\ IsSeq(x) /\ Len(x) = Len(fs) + Len(s)
      /\ \A i \in 1..Len(fs) : x[i] = fs[i]
      /\ \A i \in 1..Len(s) : x[Len(fs) + i] = s[i]
  BY <1>1, ConcatSeq
<1>3. /\ IsSeq(y) /\ Len(y) = Len(us) + Len(s)
      /\ \A i \in 1..Len(us) : y[i] = us[i]
      /\ \A i \in 1..Len(s) : y[Len(us) + i] = s[i]
  BY <1>1, ConcatSeq
<1> HIDE DEF x, y
<1>4. Len(us) \in Nat /\ Len(fs) = Len(us) + 1 /\ fs[1] = f /\ Len(s) \in Nat
      /\ \A i \in 1..Len(us) : fs[i + 1] = us[i]
  BY DEF Pushed, IsSeq
<1>5. Len(x) = Len(y) + 1 /\ x[1] = f
  BY <1>2, <1>3, <1>4
<1>6. ASSUME NEW i \in 1..Len(y) PROVE x[i + 1] = y[i]
  <2>1. CASE i \in 1..Len(us)
    BY <1>2, <1>3, <1>4, <2>1
  <2>2. CASE i \notin 1..Len(us)
    <3>1. i - Len(us) \in 1..Len(s) /\ Len(us) + (i - Len(us)) = i
          /\ Len(fs) + (i - Len(us)) = i + 1
      BY <1>3, <1>4, <2>2
    <3>2. y[i] = s[i - Len(us)] /\ x[i + 1] = s[i - Len(us)]
      BY <1>2, <1>3, <3>1
    <3> QED  BY <3>2
  <2> QED  BY <2>1, <2>2
<1>7. Pushed(x, f, y)
  BY <1>2, <1>3, <1>5, <1>6 DEF Pushed
<1> QED  BY <1>7 DEF x, y

LEMMA LaysPush ==
  ASSUME Going, NEW c, NEW us, NEW l, NEW X, Lays(c, us, l, X), NEW fs, NEW f, Pushed(fs, f, us),
         NEW Y, NEW g, Rung(c, f, l, Y, g), Y \intersect (X \union Rest) = {}
  PROVE  Lays(c, fs, g, X \union Y)
<1> DEFINE x == fs \o Tail(stack)
           y == us \o Tail(stack)
<1>1. IsSeq(Tail(stack)) /\ IsSeq(y) /\ Fair(c, y) /\ (Needed(y) <=> l) /\ KeptBy(y) = Rest \union X
  BY GoingIs DEF Lays
<1>2. Pushed(x, f, y) /\ IsSeq(fs) /\ IsSeq(x)
  <2>1. Pushed(x, f, y)
    BY <1>1, ConsOver
  <2> HIDE DEF x, y
  <2> QED  BY <2>1 DEF Pushed
<1> HIDE DEF x, y
<1>3. Sits(c, f, Needed(y)) /\ Own(f, Needed(y)) = Y /\ (Goes(f, Needed(y)) <=> g)
  BY <1>1 DEF Rung, Sits, Own, Goes
<1>4. Fair(c, x)
  BY <1>1, <1>2, <1>3, FairShift
<1>5. KeptBy(x) = KeptBy(y) \union Y
  BY <1>2, <1>3, OwnShift
<1>6. Needed(x) <=> g
  BY <1>2, <1>3, NeededShift
<1>7. IsSeq(fs) /\ IsSeq(x) /\ Fair(c, x) /\ (Needed(x) <=> g) /\ KeptBy(x) = Rest \union (X \union Y)
  BY <1>1, <1>2, <1>4, <1>5, <1>6
<1> QED  BY <1>7 DEF Lays, x

LEMMA LaysDone ==
  ASSUME Going, NEW c, NEW fs, NEW l, NEW X, Lays(c, fs, l, X), NEW P, Has(c, P),
         P = X \union Returned(c, l), l => c.ret \notin X, Then(c, fs)
  PROVE  OwnInv'
<1> DEFINE x == fs \o Tail(stack)
<1>1. cur' = c /\ stack' = x
  BY DEF Then
<1>2. IsSeq(x) /\ Fair(c, x) /\ (Needed(x) <=> l) /\ KeptBy(x) = Rest \union X
  BY DEF Lays
<1> HIDE DEF x
<1>3. Live(c, x) = Returned(c, l)
  BY <1>2 DEF Live, Returned
<1>4. KeptBy(x) \union Live(c, x) = Rest \union P
  BY <1>2, <1>3
<1>5. Live(c, x) \intersect KeptBy(x) = {}
  <2>1. P \intersect Rest = {}
    BY DEF Has
  <2> QED  BY <1>2, <1>3, <2>1 DEF Returned
<1>6. Owned(c, x)
  BY <1>2, <1>4, <1>5 DEF Owned, Has
<1>7. Owned(cur, stack)'
  BY <1>1, <1>6
<1> QED  BY <1>7 DEF OwnInv

(* The function ends, or calls others.                                     *)
LEMMA Stops ==
  ASSUME Going, NEW c, Has(c, Returned(c, Want)), Then(c, <<>>) PROVE OwnInv'
<1>1. Lays(c, <<>>, Want, {})
  BY LaysNone DEF Has
<1>2. Returned(c, Want) = {} \union Returned(c, Want)
  OBVIOUS
<1>3. Want => c.ret \notin {}
  OBVIOUS
<1> HIDE DEF Then
<1> QED  BY <1>1, <1>2, <1>3, LaysDone

LEMMA Lays1 ==
  ASSUME Going, NEW c, Grows(c), NEW f, NEW X, NEW l, Rung(c, f, Want, X, l),
         X \intersect Rest = {}
  PROVE  Lays(c, <<f>>, l, X)
<1>1. Lays(c, <<>>, Want, {})
  BY LaysNone
<1>2. Pushed(<<f>>, f, <<>>)
  BY DEF Pushed, IsSeq
<1>3. Lays(c, <<f>>, l, {} \union X)
  BY <1>1, <1>2, LaysPush
<1>4. {} \union X = X
  OBVIOUS
<1> QED  BY <1>3, <1>4

LEMMA Lays2 ==
  ASSUME Going, NEW c, Grows(c), NEW f, NEW g, NEW X, NEW l, Rung(c, g, Want, X, l),
         NEW Y, NEW k, Rung(c, f, l, Y, k),
         X \intersect Rest = {}, Y \intersect Rest = {}, X \intersect Y = {}
  PROVE  Lays(c, <<f, g>>, k, X \union Y)
<1>1. Lays(c, <<g>>, l, X)
  BY Lays1
<1>2. Pushed(<<f, g>>, f, <<g>>)
  BY DEF Pushed, IsSeq
<1>3. Y \intersect (X \union Rest) = {}
  OBVIOUS
<1> QED  BY <1>1, <1>2, <1>3, LaysPush

LEMMA Lays3 ==
  ASSUME Going, NEW c, Grows(c), NEW f, NEW g, NEW h, NEW X, NEW l, Rung(c, h, Want, X, l),
         NEW Y, NEW k, Rung(c, g, l, Y, k), NEW Z, NEW j, Rung(c, f, k, Z, j),
         X \intersect Rest = {}, Y \intersect Rest = {}, Z \intersect Rest = {},
         X \intersect Y = {}, Z \intersect (X \union Y) = {}
  PROVE  Lays(c, <<f, g, h>>, j, X \union Y \union Z)
<1>1. Lays(c, <<g, h>>, k, X \union Y)
  BY Lays2
<1>2. Pushed(<<f, g, h>>, f, <<g, h>>)
  BY DEF Pushed, IsSeq
<1>3. Z \intersect ((X \union Y) \union Rest) = {}
  OBVIOUS
<1> QED  BY <1>1, <1>2, <1>3, LaysPush

LEMMA Calling1 ==
  ASSUME Going, NEW c, NEW f, NEW X, NEW l, Rung(c, f, Want, X, l),
         Has(c, X \union Returned(c, l)), l => c.ret \notin X, Then(c, <<f>>)
  PROVE  OwnInv'
<1>1. Grows(c) /\ X \intersect Rest = {}
  BY DEF Has
<1>2. Lays(c, <<f>>, l, X)
  BY <1>1, Lays1
<1> DEFINE P == X \union Returned(c, l)
           fs == <<f>>
<1>3. Has(c, P) /\ P = X \union Returned(c, l) /\ Lays(c, fs, l, X) /\ Then(c, fs)
  BY <1>2
<1> HIDE DEF P, fs
<1> QED  BY <1>3, LaysDone

LEMMA Calling2 ==
  ASSUME Going, NEW c, NEW f, NEW g, NEW X, NEW l, Rung(c, g, Want, X, l),
         NEW Y, NEW k, Rung(c, f, l, Y, k), X \intersect Y = {},
         Has(c, X \union Y \union Returned(c, k)), k => c.ret \notin X \union Y, Then(c, <<f, g>>)
  PROVE  OwnInv'
<1>1. Grows(c) /\ X \intersect Rest = {} /\ Y \intersect Rest = {}
  BY DEF Has
<1> DEFINE P == X \union Y \union Returned(c, k)
           Q == X \union Y
           fs == <<f, g>>
<1>2. Lays(c, fs, k, Q)
  BY <1>1, Lays2
<1>3. Has(c, P) /\ P = Q \union Returned(c, k) /\ Then(c, fs) /\ (k => c.ret \notin Q)
  OBVIOUS
<1> HIDE DEF P, fs, Q
<1> QED  BY <1>2, <1>3, LaysDone

LEMMA Calling3 ==
  ASSUME Going, NEW c, NEW f, NEW g, NEW h, NEW X, NEW l, Rung(c, h, Want, X, l),
         NEW Y, NEW k, Rung(c, g, l, Y, k), NEW Z, NEW j, Rung(c, f, k, Z, j),
         X \intersect Y = {}, Z \intersect (X \union Y) = {},
         Has(c, X \union Y \union Z \union Returned(c, j)),
         j => c.ret \notin X \union Y \union Z, Then(c, <<f, g, h>>)
  PROVE  OwnInv'
<1>1. Grows(c) /\ X \intersect Rest = {} /\ Y \intersect Rest = {} /\ Z \intersect Rest = {}
  BY DEF Has
<1> DEFINE P == X \union Y \union Z \union Returned(c, j)
           Q == X \union Y \union Z
           fs == <<f, g, h>>
<1>2. Lays(c, fs, j, Q)
  BY <1>1, Lays3
<1>3. Has(c, P) /\ P = Q \union Returned(c, j) /\ Then(c, fs) /\ (j => c.ret \notin Q)
  OBVIOUS
<1> HIDE DEF P, fs, Q
<1> QED  BY <1>2, <1>3, LaysDone

LEMMA Calling4 ==
  ASSUME Going, NEW c, NEW f, NEW g, NEW h, NEW i, NEW X, NEW l, Rung(c, i, Want, X, l),
         NEW Y, NEW k, Rung(c, h, l, Y, k), NEW Z, NEW j, Rung(c, g, k, Z, j),
         NEW W, NEW m, Rung(c, f, j, W, m),
         X \intersect Y = {}, Z \intersect (X \union Y) = {}, W \intersect (X \union Y \union Z) = {},
         Has(c, X \union Y \union Z \union W \union Returned(c, m)),
         m => c.ret \notin X \union Y \union Z \union W, Then(c, <<f, g, h, i>>)
  PROVE  OwnInv'
<1>1. /\ Grows(c) /\ X \intersect Rest = {} /\ Y \intersect Rest = {} /\ Z \intersect Rest = {}
      /\ W \intersect ((X \union Y \union Z) \union Rest) = {}
  BY DEF Has
<1> DEFINE P == X \union Y \union Z \union W \union Returned(c, m)
           Q == X \union Y \union Z \union W
           us == <<g, h, i>>
           fs == <<f, g, h, i>>
<1>2. Lays(c, us, j, X \union Y \union Z)
  BY <1>1, Lays3
<1>3. Pushed(fs, f, us)
  BY DEF Pushed, IsSeq
<1>4. Has(c, P) /\ P = Q \union Returned(c, m) /\ Then(c, fs) /\ (m => c.ret \notin Q)
  OBVIOUS
<1> HIDE DEF us, fs
<1>5. Lays(c, fs, m, Q)
  BY <1>1, <1>2, <1>3, LaysPush
<1> HIDE DEF P, Q
<1> QED  BY <1>4, <1>5, LaysDone

-------------------------------------------------------------------------------
(* What a function has, step by step.                                      *)

LEMMA HasLike ==
  ASSUME NEW c, NEW P, Has(c, P), NEW d, DOMAIN d = CurFields, d.nodes = c.nodes,
         c.lost \subseteq d.lost
  PROVE  Has(d, P)
  BY TidyMove DEF Has, Grows

LEMMA HasMove ==
  ASSUME NEW c, NEW P, Has(c, P), NEW d, Stirs(c, d) PROVE Has(d, P) /\ d.ret = c.ret
  BY HasLike DEF Stirs

LEMMA HasShape ==
  ASSUME NEW c, NEW P, Has(c, P)
  PROVE  /\ DOMAIN c = CurFields /\ IsSeq(c.nodes) /\ Len(c.nodes) \in Nat /\ Stirs(c, c)
         /\ NULL \notin P
         /\ \A n \in P : IsNode(c, n)
         /\ \A n : IsNode(cur, n) => IsNode(c, n) /\ c.nodes[n].type = cur.nodes[n].type
<1>1. DOMAIN c = CurFields /\ IsSeq(c.nodes) /\ Len(c.nodes) \in Nat /\ Stirs(c, c)
  BY DEF Has, Tidy, Shaped, IsSeq, Stirs
<1>2. \A n \in P : n \in 1..Len(c.nodes)
  BY DEF Has, Tidy
<1>3. \A n : IsNode(cur, n) => IsNode(c, n) /\ c.nodes[n].type = cur.nodes[n].type
  BY DEF Has, Grows, IsNode
<1> QED  BY <1>1, <1>2, <1>3 DEF IsNode, NULL

(* A new node of a type is returned, and kept with those of Q.             *)
Gains(d, Q, type) ==
  /\ Has(d, Q \union {d.ret}) /\ d.ret \notin Q /\ IsNode(d, d.ret)
  /\ d.nodes[d.ret].type = type /\ DOMAIN d = CurFields

LEMMA HasMake ==
  ASSUME NEW c, NEW P, Has(c, P), NEW type, NEW members, NEW U, U \subseteq P,
         Feeds(type, members, U)
  PROVE  Gains(Make(c, type, members), P \ U, type)
<1> DEFINE d == Make(c, type, members)
           K == Rest \union P
<1>1. Tidy(c, K) /\ U \subseteq K /\ P \intersect Rest = {} /\ Grows(c)
  BY DEF Has
<1> HIDE DEF K
<1>1a. Tidy(d, (K \ U) \union {d.ret}) /\ Adds(c, d, type)
  BY <1>1, TidyMake
<1> HIDE DEF d
<1>2. /\ d.ret = Len(c.nodes) + 1 /\ DOMAIN d = CurFields
      /\ Len(d.nodes) = Len(c.nodes) + 1 /\ d.nodes[d.ret].type = type
      /\ \A i \in 1..Len(c.nodes) : d.nodes[i] = c.nodes[i]
  BY <1>1a DEF Adds, Tidy, Shaped
<1>3. K \subseteq 1..Len(c.nodes) /\ Len(c.nodes) \in Nat
  BY <1>1 DEF Tidy, Shaped, IsSeq
<1>4. d.ret \notin K /\ IsNode(d, d.ret)
  BY <1>2, <1>3 DEF IsNode
<1>5. Rest \union ((P \ U) \union {d.ret}) = (K \ U) \union {d.ret}
  BY <1>1 DEF K
<1>6. Grows(d)
  <2>1. Len(cur.nodes) \in 0..Len(c.nodes)
        /\ \A i \in 1..Len(cur.nodes) : c.nodes[i].type = cur.nodes[i].type
    BY <1>1 DEF Grows
  <2>2. Len(cur.nodes) \in 0..Len(d.nodes)
    BY <1>2, <1>3, <2>1
  <2>3. \A i \in 1..Len(cur.nodes) : i \in 1..Len(c.nodes)
    BY <1>3, <2>1
  <2>4. \A i \in 1..Len(cur.nodes) : d.nodes[i].type = cur.nodes[i].type
    BY <1>2, <2>1, <2>3
  <2> QED  BY <2>2, <2>4 DEF Grows
<1>7. ((P \ U) \union {d.ret}) \intersect Rest = {}
  BY <1>1, <1>4 DEF K
<1>8. Has(d, (P \ U) \union {d.ret})
  BY <1>1a, <1>5, <1>6, <1>7 DEF Has
<1>9. d.ret \notin P \ U
  BY <1>4 DEF K
<1> QED  BY <1>2, <1>4, <1>8, <1>9 DEF d, Gains

LEMMA HasMake0 ==
  ASSUME NEW c, NEW P, Has(c, P), NEW type, NEW members, DOMAIN members \intersect Pointers = {}
  PROVE  Gains(Make(c, type, members), P, type)
<1>1. Feeds(type, members, {})
  BY DEF Feeds
<1>2. Gains(Make(c, type, members), P \ {}, type)
  BY <1>1, HasMake
<1>3. P \ {} = P
  OBVIOUS
<1> QED  BY <1>2, <1>3

LEMMA HasBare ==
  ASSUME NEW c, NEW P, Has(c, P), NEW type PROVE Gains(Bare(c, type), P, type)
<1>1. DOMAIN <<>> \intersect Pointers = {}
  OBVIOUS
<1> QED  BY <1>1, HasMake0 DEF Bare

LEMMA HasMake1 ==
  ASSUME NEW c, NEW P, Has(c, P), NEW type, NEW members, NEW m, m \in Given(type),
         DOMAIN members \intersect Pointers = {m}, members[m] \in P
  PROVE  Gains(Make(c, type, members), P \ {members[m]}, type)
<1>1. Given(type) \intersect Pointers \intersect DOMAIN members = {m}
  OBVIOUS
<1>2. Feeds(type, members, {members[m]})
  BY <1>1 DEF Feeds
<1> QED  BY <1>2, HasMake

LEMMA HasMake2 ==
  ASSUME NEW c, NEW P, Has(c, P), NEW type, {"left", "right"} \subseteq Given(type),
         NEW op, NEW x \in P, NEW y \in P, x # y
  PROVE  Gains(Make(c, type, [op |-> op, left |-> x, right |-> y]), P \ {x, y}, type)
<1> DEFINE members == [op |-> op, left |-> x, right |-> y]
           M == {"left", "right"}
<1>1. Given(type) \intersect Pointers \intersect DOMAIN members = M
  <2>1. DOMAIN members = {"op", "left", "right"}
    OBVIOUS
  <2>2. DOMAIN members \intersect Pointers = M
    BY <2>1 DEF Pointers
  <2> QED  BY <2>2
<1>2. members["left"] = x /\ members["right"] = y
  OBVIOUS
<1> HIDE DEF members
<1>3. Feeds(type, members, {x, y})
  BY <1>1, <1>2 DEF Feeds
<1>4. Gains(Make(c, type, members), P \ {x, y}, type)
  BY <1>3, HasMake
<1> QED  BY <1>4 DEF members

LEMMA HasStore ==
  ASSUME NEW c, NEW P, Has(c, P), NEW n, IsNode(c, n), NEW m, NEW v, Storable(m, v, P)
  PROVE  LET d == Put(c, n, m, v) IN Has(d, Left(m, v, P)) /\ Remains(c, d)
<1> DEFINE d == Put(c, n, m, v)
           K == Rest \union P
<1>1. Tidy(c, K) /\ P \intersect Rest = {} /\ Grows(c) /\ Storable(m, v, K)
  BY DEF Has, Storable
<1> HIDE DEF K
<1>2. Tidy(d, Left(m, v, K)) /\ Remains(c, d)
  BY <1>1, TidyPut
<1> HIDE DEF d
<1>3. m \in Pointers => v \notin Rest
  <2>1. NULL \notin Rest
    BY <1>1 DEF Tidy, K, NULL
  <2> QED  BY <2>1 DEF Storable, Has
<1>4. Rest \union Left(m, v, P) = Left(m, v, K)
  BY <1>3 DEF K, Left
<1>5. Grows(d) /\ Left(m, v, P) \intersect Rest = {}
  BY <1>1, <1>2 DEF Grows, Remains, Left
<1>6. Has(d, Left(m, v, P))
  BY <1>2, <1>4, <1>5 DEF Has
<1> QED  BY <1>2, <1>6 DEF d

(* A node is stored, NULL is, or a string is.                              *)
LEMMA HasPut ==
  ASSUME NEW c, NEW P, Has(c, P), NEW n, IsNode(c, n), NEW m \in Pointers, NEW v \in P
  PROVE  LET d == Put(c, n, m, v) IN Has(d, P \ {v}) /\ Remains(c, d)
  BY HasStore DEF Storable, Left

LEMMA HasNull ==
  ASSUME NEW c, NEW P, Has(c, P), NEW n, IsNode(c, n), NEW m \in Pointers
  PROVE  LET d == Put(c, n, m, NULL) IN Has(d, P) /\ Remains(c, d)
<1>1. Storable(m, NULL, P) /\ Left(m, NULL, P) = P \ {NULL}
  BY DEF Storable, Left
<1>2. P \ {NULL} = P
  BY HasShape
<1> QED  BY <1>1, <1>2, HasStore

LEMMA HasWord ==
  ASSUME NEW c, NEW P, Has(c, P), NEW n, IsNode(c, n), NEW m, m \notin Pointers, NEW v
  PROVE  LET d == Put(c, n, m, v) IN Has(d, P) /\ Remains(c, d)
<1>1. Storable(m, v, P) /\ Left(m, v, P) = P
  BY DEF Storable, Left
<1> QED  BY <1>1, HasStore

LEMMA HasLess ==
  ASSUME NEW c, NEW P, Has(c, P), NEW Q, Q \subseteq P,
         c.lost # {} \/ \A n \in P \ Q : Excused(c, n)
  PROVE  Has(c, Q)
<1>1. Tidy(c, Rest \union P) /\ P \intersect Rest = {} /\ Grows(c)
  BY DEF Has
<1>2. Rest \union Q \subseteq Rest \union P /\ (Rest \union P) \ (Rest \union Q) \subseteq P \ Q
  OBVIOUS
<1>3. c.lost # {} \/ \A n \in (Rest \union P) \ (Rest \union Q) : Excused(c, n)
  BY <1>2
<1>4. Tidy(c, Rest \union Q)
  BY <1>1, <1>2, <1>3, TidyLost
<1> QED  BY <1>1, <1>4 DEF Has

(* A node is linked to the list of a frame, which has a head or not.       *)
Some(n) == {n} \ {NULL}

Lists1(c, f) == f.head # NULL => IsNode(c, f.tail)

Links(c, d, f, g, x, Q) ==
  /\ Has(d, Q \union Some(g.head)) /\ Q \intersect Some(g.head) = {} /\ Lists1(d, g)
  /\ g.fn = f.fn /\ g.n = f.n /\ g.m = f.m /\ g.op = f.op /\ g.tail = x /\ g.head # NULL
  /\ g.head = (IF f.head = NULL THEN x ELSE f.head)
  /\ d.ret = c.ret /\ DOMAIN d = CurFields

LEMMA HasLink ==
  ASSUME NEW c, NEW f, NEW x, NEW Q, Has(c, Q \union Some(f.head) \union {x}),
         x \notin Q \union Some(f.head), Q \intersect Some(f.head) = {}, Lists1(c, f),
         DOMAIN f = FrameFields
  PROVE  Links(c, LinkNode(c, f, x), f, Linked(f, x), x, Q)
<1> DEFINE P == Q \union Some(f.head) \union {x}
           d == LinkNode(c, f, x)
           g == Linked(f, x)
<1>1. /\ g.fn = f.fn /\ g.n = f.n /\ g.m = f.m /\ g.op = f.op /\ g.tail = x
      /\ g.head = IF f.head = NULL THEN x ELSE f.head
  BY DEF Linked, FrameFields
<1>2. x \in P /\ x # NULL /\ IsNode(c, x) /\ DOMAIN c = CurFields
  <2>1. Has(c, P) /\ x \in P
    OBVIOUS
  <2> HIDE DEF P
  <2> QED  BY <2>1, HasShape
<1> HIDE DEF g, P
<1>3. CASE f.head = NULL
  <2>1. d = c /\ Some(g.head) = {x} /\ Some(f.head) = {}
    BY <1>1, <1>2, <1>3 DEF LinkNode, Some
  <2>2. Q \union Some(g.head) = Q \union Some(f.head) \union {x}
    BY <2>1
  <2>3. IsNode(d, g.tail) /\ g.head # NULL
    BY <1>1, <1>2, <1>3, <2>1
  <2> QED  BY <1>1, <1>2, <2>1, <2>2, <2>3 DEF Links, Lists1, g
<1>4. CASE f.head # NULL
  <2>1. d = Put(c, f.tail, "next", x) /\ g.head = f.head /\ IsNode(c, f.tail)
    BY <1>1, <1>4 DEF LinkNode, Lists1
  <2>2. Has(c, P)
    BY DEF P
  <2>3. "next" \in Pointers
    BY DEF Pointers
  <2>4. Has(d, P \ {x}) /\ Remains(c, d)
    BY <1>2, <2>1, <2>2, <2>3, HasPut
  <2>5. P \ {x} = Q \union Some(g.head)
    BY <2>1 DEF P
  <2>6. d.ret = c.ret /\ IsNode(d, x) /\ DOMAIN d = CurFields
    <3>1. DOMAIN d = CurFields
      BY <2>4, HasShape
    <3> QED  BY <1>2, <2>4, <3>1 DEF Remains, IsNode
  <2> HIDE DEF d
  <2>7. Has(d, Q \union Some(g.head)) /\ Q \intersect Some(g.head) = {} /\ g.head # NULL
    BY <1>4, <2>1, <2>4, <2>5
  <2> QED  BY <1>1, <2>6, <2>7 DEF Links, Lists1, g, d
<1> QED  BY <1>3, <1>4

-------------------------------------------------------------------------------
(* The frames.                                                             *)
Idle == {"vardecl", "expression", "block", "statement", "declaration", "command", "control",
         "newtype", "group", "defer", "return", "function", "flow", "range", "equality",
         "comparison", "additive", "term", "unary", "postfix", "primary", "type"}
Users == {"paren", "brace", "postfixrest", "unaryrest", "left", "flowop", "flowend", "assign",
          "exprrest"}
Givers == {"give", "loopbody", "init", "funcrest", "cname"}
Setters == {"set", "loopkind", "lambda"}
Rows == {"tuple", "fields", "variants", "plainvariants", "statements", "members"}
Mine(l, n) == IF l THEN {n} ELSE {}

LEMMA IdleRung ==
  ASSUME NEW c, NEW f, f.fn \in Idle PROVE Rung(c, f, TRUE, {}, FALSE)
  BY DEF Idle, Rung, Sits, Own, Goes, Kind, Passing, Using, Returning, Waiting, Listing, Barren

LEMMA UserRung ==
  ASSUME NEW c, NEW f, f.fn \in Users PROVE Rung(c, f, TRUE, {}, TRUE)
  BY DEF Users, Rung, Sits, Own, Goes, Kind, Passing, Using, Returning, Waiting, Listing, Barren

LEMMA PassRung ==
  ASSUME NEW c, NEW f, f.fn \in Passing, NEW l \in BOOLEAN PROVE Rung(c, f, l, {}, l)
  BY DEF Rung, Sits, Own, Goes, Kind, Passing, Using, Returning, Waiting, Listing, Barren

LEMMA GiveRung ==
  ASSUME NEW c, NEW f, f.fn \in Givers, IsNode(c, f.n), f.head = NULL, NEW l \in BOOLEAN
  PROVE  Rung(c, f, l, Mine(l, f.n), FALSE)
<1>1. f.n # NULL
  BY DEF IsNode, NULL
<1> QED  BY <1>1 DEF Givers, Mine, Rung, Sits, Own, Goes, Kind, Passing, Using, Returning, Waiting,
                  Listing, Barren

LEMMA SetRung ==
  ASSUME NEW c, NEW f, f.fn \in Setters, IsNode(c, f.n), f.head = NULL, NEW l \in BOOLEAN,
         f.fn = "set" => f.m \in Pointers
  PROVE  Rung(c, f, l, Mine(l, f.n), TRUE)
<1>1. f.n # NULL
  BY DEF IsNode, NULL
<1> QED  BY <1>1 DEF Setters, Mine, Rung, Sits, Own, Goes, Kind, Passing, Using, Returning, Waiting,
                  Listing, Barren

LEMMA RowRung ==
  ASSUME NEW c, NEW f, f.fn \in Rows, IsNode(c, f.n), Lists1(c, f), NEW l \in BOOLEAN,
         l => f.n # f.head
  PROVE  Rung(c, f, l, Mine(l, f.n) \union Some(f.head), FALSE)
<1>1. f.n # NULL
  BY DEF IsNode, NULL
<1> QED  BY <1>1 DEF Rows, Lists1, Some, Mine, Rung, Sits, Own, Goes, Kind, Passing, Using,
                  Returning, Waiting, Listing, Barren

LEMMA LinkRung ==
  ASSUME NEW c, NEW f, DOMAIN f = FrameFields, f.fn \in Rows, IsNode(c, f.n), Lists1(c, f),
         NEW l \in BOOLEAN, l => f.n # f.head
  PROVE  Rung(c, FLink(f), l, Mine(l, f.n) \union Some(f.head), TRUE)
<1>1. f.n # NULL
  BY DEF IsNode, NULL
<1> DEFINE g == FLink(f)
<1>2. g.fn = "link" /\ g.op = f.fn /\ g.n = f.n /\ g.head = f.head /\ g.tail = f.tail
  BY DEF FLink, FrameFields
<1> HIDE DEF g
<1>3. Rung(c, g, l, Mine(l, f.n) \union Some(f.head), TRUE)
  BY <1>1, <1>2 DEF Rows, Lists1, Some, Mine, Rung, Sits, Own, Goes, Kind, Passing, Using,
                  Returning, Waiting, Listing, Barren
<1> QED  BY <1>3 DEF g

LEMMA ProgramRungs ==
  ASSUME NEW c, NEW f, DOMAIN f = FrameFields, f.fn = "program", IsNode(c, f.n), Lists1(c, f)
  PROVE  Rung(c, f, FALSE, Some(f.head), FALSE) /\ Rung(c, FLink(f), FALSE, Some(f.head), TRUE)
<1> DEFINE g == FLink(f)
<1>2. g.fn = "link" /\ g.op = f.fn /\ g.n = f.n /\ g.head = f.head /\ g.tail = f.tail
  BY DEF FLink, FrameFields
<1> HIDE DEF g
<1>3. Rung(c, g, FALSE, Some(f.head), TRUE)
  BY <1>2 DEF Lists1, Some, Rung, Sits, Own, Goes, Kind, Passing, Using,
                  Returning, Waiting, Listing, Barren
<1>4. Rung(c, f, FALSE, Some(f.head), FALSE)
  BY DEF Lists1, Some, Rung, Sits, Own, Goes, Kind, Passing, Using,
                  Returning, Waiting, Listing, Barren
<1> QED  BY <1>3, <1>4 DEF g

LEMMA ArgsRung ==
  ASSUME NEW c, NEW f, f.fn = "args", IsNode(c, f.n), Lists1(c, f)
  PROVE  Rung(c, f, FALSE, Some(f.head), TRUE)
  BY DEF Lists1, Some, Rung, Sits, Own, Goes, Kind, Passing, Using,
                  Returning, Waiting, Listing, Barren

LEMMA ParamsRung ==
  ASSUME NEW c, NEW f, f.fn = "params", IsNode(c, f.n), Lists1(c, f)
  PROVE  Rung(c, f, FALSE, Some(f.head), FALSE)
  BY DEF Lists1, Some, Rung, Sits, Own, Goes, Kind, Passing, Using,
                  Returning, Waiting, Listing, Barren

LEMMA UseRung ==
  ASSUME NEW c, NEW f, f.fn = "use", Lists1(c, f)
  PROVE  Rung(c, f, TRUE, Some(f.head), FALSE)
  BY DEF Lists1, Some, Rung, Sits, Own, Goes, Kind, Passing, Using,
                  Returning, Waiting, Listing, Barren

-------------------------------------------------------------------------------
(* The function on top: what it is given.                                  *)
LEMMA WantIs == Want \in BOOLEAN
  BY DEF Want, Needed, LiveAt

LEMMA CurIs ==
  ASSUME Going
  PROVE  /\ DOMAIN cur = CurFields /\ DOMAIN Top = FrameFields /\ Stirs(cur, cur)
         /\ cur.ret # NULL /\ IsNode(cur, cur.ret)
<1>1. DOMAIN cur = CurFields /\ DOMAIN Top = FrameFields /\ cur.ret # NULL /\ IsNode(cur, cur.ret)
  BY DEF Going, Calling, Heap, FrameOk
<1> QED  BY <1>1 DEF Stirs

LEMMA IdleTop ==
  ASSUME Going, Top.fn \in Idle PROVE Want /\ Has(cur, {})
<1>1. Want /\ ~Goes(Top, Want) /\ Own(Top, Want) = {}
  BY GoingIs DEF Idle, Sits, Own, Goes, Kind, Passing, Using, Returning, Waiting, Listing, Barren
<1>2. Own(Top, Want) \union Returned(cur, Goes(Top, Want)) = {}
  BY <1>1 DEF Returned
<1>3. Has(cur, Own(Top, Want) \union Returned(cur, Goes(Top, Want)))
  BY GoingIs
<1> QED  BY <1>1, <1>2, <1>3

LEMMA UserTop ==
  ASSUME Going, Top.fn \in Users PROVE Want /\ Has(cur, {cur.ret})
<1>1. Want /\ Goes(Top, Want) /\ Own(Top, Want) = {}
  BY GoingIs DEF Users, Sits, Own, Goes, Kind, Passing, Using, Returning, Waiting, Listing, Barren
<1>2. Own(Top, Want) \union Returned(cur, Goes(Top, Want)) = {cur.ret}
  BY <1>1 DEF Returned
<1>3. Has(cur, Own(Top, Want) \union Returned(cur, Goes(Top, Want)))
  BY GoingIs
<1> QED  BY <1>1, <1>2, <1>3

LEMMA PassTop ==
  ASSUME Going, Top.fn \in Passing PROVE Has(cur, Returned(cur, Want))
<1>1. (Goes(Top, Want) <=> Want) /\ Own(Top, Want) = {}
  BY DEF Own, Goes, Kind, Passing, Using, Returning, Waiting, Listing, Barren
<1>2. Own(Top, Want) \union Returned(cur, Goes(Top, Want)) = Returned(cur, Want)
  BY <1>1 DEF Returned
<1>3. Has(cur, Own(Top, Want) \union Returned(cur, Goes(Top, Want)))
  BY GoingIs
<1> QED  BY <1>1, <1>2, <1>3

LEMMA LastTop ==
  ASSUME Going, Top.fn \in {"compile", "destroy"} PROVE ~Want /\ Has(cur, {})
<1>1. ~Want /\ ~Goes(Top, Want) /\ Own(Top, Want) = {}
  BY GoingIs DEF Sits, Own, Goes, Kind, Passing, Using, Returning, Waiting, Listing, Barren
<1>2. Own(Top, Want) \union Returned(cur, Goes(Top, Want)) = {}
  BY <1>1 DEF Returned
<1>3. Has(cur, Own(Top, Want) \union Returned(cur, Goes(Top, Want)))
  BY GoingIs
<1> QED  BY <1>1, <1>2, <1>3

LEMMA GiveTop ==
  ASSUME Going, Top.fn \in Givers PROVE Has(cur, Mine(Want, Top.n)) /\ IsNode(cur, Top.n)
<1>0. IsNode(cur, Top.n)
  BY GoingIs DEF Sits, Kind, Givers, Returning
<1>0a. Top.n # NULL
  BY <1>0 DEF IsNode, NULL
<1>1. ~Goes(Top, Want) /\ Own(Top, Want) = Mine(Want, Top.n)
  BY <1>0a DEF Givers, Mine, Own, Goes, Kind, Passing, Using, Returning, Waiting, Listing, Barren
<1>2. Own(Top, Want) \union Returned(cur, Goes(Top, Want)) = Mine(Want, Top.n)
  BY <1>1 DEF Returned
<1>3. Has(cur, Own(Top, Want) \union Returned(cur, Goes(Top, Want)))
  BY GoingIs
<1> QED  BY <1>0, <1>2, <1>3

LEMMA SetTop ==
  ASSUME Going, Top.fn \in Setters
  PROVE  /\ Has(cur, Mine(Want, Top.n) \union {cur.ret}) /\ IsNode(cur, Top.n)
         /\ cur.ret \notin Mine(Want, Top.n) /\ (Top.fn = "set" => Top.m \in Pointers)
<1>0. IsNode(cur, Top.n) /\ (Top.fn = "set" => Top.m \in Pointers)
  BY GoingIs DEF Sits, Kind, Setters, Returning
<1>0a. Top.n # NULL
  BY <1>0 DEF IsNode, NULL
<1>1. Goes(Top, Want) /\ Own(Top, Want) = Mine(Want, Top.n)
  BY <1>0a DEF Setters, Mine, Own, Goes, Kind, Passing, Using, Returning, Waiting, Listing, Barren
<1>2. Own(Top, Want) \union Returned(cur, Goes(Top, Want)) = Mine(Want, Top.n) \union {cur.ret}
  BY <1>1 DEF Returned
<1>3. /\ Has(cur, Own(Top, Want) \union Returned(cur, Goes(Top, Want)))
      /\ cur.ret \notin Own(Top, Want)
  BY <1>1, GoingIs
<1> QED  BY <1>0, <1>1, <1>2, <1>3

LEMMA WaitTop ==
  ASSUME Going, Top.fn \in {"right", "flowright", "assigned"}
  PROVE  Want /\ Has(cur, {Top.n, cur.ret}) /\ cur.ret # Top.n /\ IsNode(cur, Top.n)
<1>0. IsNode(cur, Top.n)
  BY GoingIs DEF Sits, Kind, Waiting
<1>0a. Top.n # NULL
  BY <1>0 DEF IsNode, NULL
<1>1. Want /\ Goes(Top, Want) /\ Own(Top, Want) = {Top.n}
  BY <1>0a, GoingIs
    DEF Sits, Own, Goes, Kind, Passing, Using, Returning, Waiting, Listing, Barren
<1>2. Own(Top, Want) \union Returned(cur, Goes(Top, Want)) = {Top.n, cur.ret}
  BY <1>1 DEF Returned
<1>3. /\ Has(cur, Own(Top, Want) \union Returned(cur, Goes(Top, Want)))
      /\ cur.ret \notin Own(Top, Want)
  BY <1>1, GoingIs
<1> QED  BY <1>0, <1>1, <1>2, <1>3

LEMMA UnwrapTop ==
  ASSUME Going, Top.fn = "unwrap"
  PROVE  Want /\ Has(cur, {Top.n}) /\ IsNode(cur, Top.n)
         /\ (Top.head = Top.n \/ cur.nodes[Top.n].type = "TUPLE")
<1>0. IsNode(cur, Top.n) /\ (Top.head = Top.n \/ cur.nodes[Top.n].type = "TUPLE")
  BY GoingIs DEF Sits, Kind, Waiting
<1>0a. Top.n # NULL
  BY <1>0 DEF IsNode, NULL
<1>1. Want /\ ~Goes(Top, Want) /\ Own(Top, Want) = {Top.n}
  BY <1>0a, GoingIs
    DEF Sits, Own, Goes, Kind, Passing, Using, Returning, Waiting, Listing, Barren
<1>2. Own(Top, Want) \union Returned(cur, Goes(Top, Want)) = {Top.n}
  BY <1>1 DEF Returned
<1>3. Has(cur, Own(Top, Want) \union Returned(cur, Goes(Top, Want)))
  BY GoingIs
<1> QED  BY <1>0, <1>1, <1>2, <1>3

(* A list, which is the function's own or the one it continues.            *)
LEMMA RowTop ==
  ASSUME Going, Top.fn \in Rows
  PROVE  /\ Has(cur, Mine(Want, Top.n) \union Some(Top.head)) /\ IsNode(cur, Top.n)
         /\ Lists1(cur, Top) /\ (Want => Top.n # Top.head)
<1>0. IsNode(cur, Top.n) /\ Lists1(cur, Top) /\ (Want => Top.n # Top.head)
  BY GoingIs DEF Sits, Kind, Rows, Returning, Listing, Lists1
<1>0a. Top.n # NULL
  BY <1>0 DEF IsNode, NULL
<1>1. ~Goes(Top, Want) /\ Own(Top, Want) = Mine(Want, Top.n) \union Some(Top.head)
  BY <1>0a DEF Rows, Some, Mine, Own, Goes, Kind, Passing, Using, Returning, Waiting, Listing, Barren
<1>2. Own(Top, Want) \union Returned(cur, Goes(Top, Want)) = Mine(Want, Top.n) \union Some(Top.head)
  BY <1>1 DEF Returned
<1>3. Has(cur, Own(Top, Want) \union Returned(cur, Goes(Top, Want)))
  BY GoingIs
<1> QED  BY <1>0, <1>2, <1>3

LEMMA LinkTop ==
  ASSUME Going, Top.fn = "link"
  PROVE  /\ Has(cur, Mine(Want /\ Top.op # "program", Top.n) \union Some(Top.head) \union {cur.ret})
         /\ IsNode(cur, Top.n) /\ Lists1(cur, Top)
         /\ cur.ret \notin Mine(Want /\ Top.op # "program", Top.n) \union Some(Top.head)
         /\ (Want => Top.n # Top.head) /\ Top.op \in Rows \union {"program"}
         /\ (Top.op = "program" => ~Want)
<1>0. Top.op \in Rows \union {"program"}
  BY DEF Going, Calling, FrameOk, Lists, Rows
<1>0b. /\ IsNode(cur, Top.n) /\ Lists1(cur, Top) /\ (Top.op \in Rows /\ Want => Top.n # Top.head)
       /\ (Top.op = "program" => ~Want)
  BY <1>0, GoingIs DEF Sits, Kind, Rows, Returning, Listing, Lists1, Barren
<1>0a. Top.n # NULL
  BY <1>0b DEF IsNode, NULL
<1>1. Goes(Top, Want)
      /\ Own(Top, Want) = Mine(Want /\ Top.op # "program", Top.n) \union Some(Top.head)
  BY <1>0, <1>0a, <1>0b
     DEF Rows, Some, Mine, Own, Goes, Kind, Passing, Using, Returning, Waiting, Listing, Barren
<1>2. Own(Top, Want) \union Returned(cur, Goes(Top, Want))
        = Mine(Want /\ Top.op # "program", Top.n) \union Some(Top.head) \union {cur.ret}
  BY <1>1 DEF Returned
<1>3. /\ Has(cur, Own(Top, Want) \union Returned(cur, Goes(Top, Want)))
      /\ cur.ret \notin Own(Top, Want)
  BY <1>1, GoingIs
<1>4. Want => Top.n # Top.head
  BY <1>0, <1>0b
<1> QED  BY <1>0, <1>0b, <1>1, <1>2, <1>3, <1>4

LEMMA ProgramTop ==
  ASSUME Going, Top.fn = "program"
  PROVE  ~Want /\ Has(cur, Some(Top.head)) /\ IsNode(cur, Top.n) /\ Lists1(cur, Top)
<1>0. ~Want /\ IsNode(cur, Top.n) /\ Lists1(cur, Top)
  BY GoingIs DEF Sits, Kind, Barren, Returning, Listing, Lists1
<1>1. ~Goes(Top, Want) /\ Own(Top, Want) = Some(Top.head)
  BY DEF Some, Own, Goes, Kind, Passing, Using, Returning, Waiting, Listing, Barren
<1>2. Own(Top, Want) \union Returned(cur, Goes(Top, Want)) = Some(Top.head)
  BY <1>1 DEF Returned
<1>3. Has(cur, Own(Top, Want) \union Returned(cur, Goes(Top, Want)))
  BY GoingIs
<1> QED  BY <1>0, <1>2, <1>3

LEMMA ArgsTop ==
  ASSUME Going, Top.fn = "args"
  PROVE  ~Want /\ Has(cur, Some(Top.head) \union {cur.ret}) /\ IsNode(cur, Top.n)
         /\ Lists1(cur, Top) /\ cur.ret \notin Some(Top.head)
<1>0. ~Want /\ IsNode(cur, Top.n) /\ Lists1(cur, Top)
  BY GoingIs DEF Sits, Kind, Barren, Returning, Listing, Lists1
<1>1. Goes(Top, Want) /\ Own(Top, Want) = Some(Top.head)
  BY DEF Some, Own, Goes, Kind, Passing, Using, Returning, Waiting, Listing, Barren
<1>2. Own(Top, Want) \union Returned(cur, Goes(Top, Want)) = Some(Top.head) \union {cur.ret}
  BY <1>1 DEF Returned
<1>3. /\ Has(cur, Own(Top, Want) \union Returned(cur, Goes(Top, Want)))
      /\ cur.ret \notin Own(Top, Want)
  BY <1>1, GoingIs
<1> QED  BY <1>0, <1>1, <1>2, <1>3

LEMMA ParamsTop ==
  ASSUME Going, Top.fn = "params"
  PROVE  ~Want /\ Has(cur, Some(Top.head)) /\ IsNode(cur, Top.n) /\ Lists1(cur, Top)
<1>0. ~Want /\ IsNode(cur, Top.n) /\ Lists1(cur, Top)
  BY GoingIs DEF Sits, Kind, Barren, Returning, Listing, Lists1
<1>1. ~Goes(Top, Want) /\ Own(Top, Want) = Some(Top.head)
  BY DEF Some, Own, Goes, Kind, Passing, Using, Returning, Waiting, Listing, Barren
<1>2. Own(Top, Want) \union Returned(cur, Goes(Top, Want)) = Some(Top.head)
  BY <1>1 DEF Returned
<1>3. Has(cur, Own(Top, Want) \union Returned(cur, Goes(Top, Want)))
  BY GoingIs
<1> QED  BY <1>0, <1>2, <1>3

LEMMA UseTop ==
  ASSUME Going, Top.fn = "use"
  PROVE  Want /\ Has(cur, Some(Top.head)) /\ Lists1(cur, Top)
<1>0. Want /\ Lists1(cur, Top)
  BY GoingIs DEF Sits, Kind, Barren, Passing, Returning, Listing, Lists1
<1>1. ~Goes(Top, Want) /\ Own(Top, Want) = Some(Top.head)
  BY DEF Some, Own, Goes, Kind, Passing, Using, Returning, Waiting, Listing, Barren
<1>2. Own(Top, Want) \union Returned(cur, Goes(Top, Want)) = Some(Top.head)
  BY <1>1 DEF Returned
<1>3. Has(cur, Own(Top, Want) \union Returned(cur, Goes(Top, Want)))
  BY GoingIs
<1> QED  BY <1>0, <1>2, <1>3

-------------------------------------------------------------------------------
(* Ways on.                                                                *)
LEMMA BadOwns == ASSUME NEW c, c.bad, NEW fs, Then(c, fs) PROVE OwnInv'
  BY DEF OwnInv, Then

LEMMA CrashOwns == ASSUME Going, NEW why, why # "no", Crash(why) PROVE OwnInv'
  BY CurIs DEF OwnInv, Crash, CurFields

(* A node is returned that is the function's, or the one it was given.     *)
LEMMA Returns1 ==
  ASSUME Going, Want, NEW c, Has(c, {c.ret}), Then(c, <<>>) PROVE OwnInv'
<1>1. Returned(c, Want) = {c.ret}
  BY DEF Returned
<1> QED  BY <1>1, Stops

LEMMA Idle1 ==
  ASSUME Going, Want, NEW c, Has(c, {}), NEW f, f.fn \in Idle, Then(c, <<f>>) PROVE OwnInv'
<1>1. Rung(c, f, Want, {}, FALSE)
  BY IdleRung
<1>2. {} \union Returned(c, FALSE) = {}
  BY DEF Returned
<1> QED  BY <1>1, <1>2, Calling1

LEMMA Idle2 ==
  ASSUME Going, NEW c, NEW X, Has(c, X), NEW f, f.fn \in Idle, NEW g, Rung(c, g, Want, X, TRUE),
         Then(c, <<f, g>>)
  PROVE OwnInv'
<1>1. Rung(c, f, TRUE, {}, FALSE)
  BY IdleRung
<1>2. X \union {} \union Returned(c, FALSE) = X /\ X \intersect {} = {}
  BY DEF Returned
<1> QED  BY <1>1, <1>2, Calling2

(* A frame that holds a node of its own goes on with what is returned.     *)
LEMMA User1 ==
  ASSUME Going, Want, NEW c, Has(c, {c.ret}), NEW f, f.fn \in Users, Then(c, <<f>>) PROVE OwnInv'
<1>1. Rung(c, f, Want, {}, TRUE)
  BY UserRung
<1>2. {} \union Returned(c, TRUE) = {c.ret}
  BY DEF Returned
<1> QED  BY <1>1, <1>2, Calling1

LEMMA IdleUser ==
  ASSUME Going, Want, NEW c, Has(c, {}), NEW f, f.fn \in Idle, NEW g, g.fn \in Users,
         Then(c, <<f, g>>)
  PROVE  OwnInv'
<1>1. Rung(c, g, Want, {}, TRUE)
  BY UserRung
<1> QED  BY <1>1, Idle2

LEMMA IdleSet ==
  ASSUME Going, NEW c, NEW n, Has(c, Mine(Want, n)), IsNode(c, n), NEW f, f.fn \in Idle,
         NEW m \in Pointers, Then(c, <<f, FSet(n, m)>>)
  PROVE  OwnInv'
<1> DEFINE g == FSet(n, m)
<1>1. g.fn \in Setters /\ g.n = n /\ g.m = m /\ g.head = NULL
  BY FIs DEF FSet, FrameFields, Setters
<1>2. Then(c, <<f, g>>)
  OBVIOUS
<1> HIDE DEF g
<1>3. Rung(c, g, Want, Mine(Want, n), TRUE)
  BY <1>1, SetRung, WantIs
<1> QED  BY <1>2, <1>3, Idle2

(* A frame keeps its node, and is not given one.                           *)
LEMMA Keeps1 ==
  ASSUME Going, NEW c, NEW X, Has(c, X), NEW f, Rung(c, f, Want, X, FALSE), Then(c, <<f>>)
  PROVE  OwnInv'
<1>1. X \union Returned(c, FALSE) = X
  BY DEF Returned
<1> QED  BY <1>1, Calling1

LEMMA Keeps2 ==
  ASSUME Going, NEW c, NEW X, Has(c, X), NEW f, NEW g, Rung(c, g, Want, X, FALSE),
         Rung(c, f, FALSE, {}, FALSE), Then(c, <<f, g>>)
  PROVE  OwnInv'
<1>1. X \union {} \union Returned(c, FALSE) = X /\ X \intersect {} = {}
  BY DEF Returned
<1> QED  BY <1>1, Calling2

(* Frames with a node, by name.                                            *)
LEMMA NodeIs ==
  ASSUME NEW fn, NEW n, NEW m, NEW op
  PROVE  /\ FNode(fn, n).fn = fn /\ FNode(fn, n).n = n /\ FNode(fn, n).head = NULL
         /\ FNodeOp(fn, n, op).fn = fn /\ FNodeOp(fn, n, op).n = n
         /\ FGive(n).fn = "give" /\ FGive(n).n = n /\ FGive(n).head = NULL
         /\ FSet(n, m).fn = "set" /\ FSet(n, m).n = n /\ FSet(n, m).m = m /\ FSet(n, m).head = NULL
         /\ FExpect(op).fn = "expect" /\ FType(op, m).fn = "type"
         /\ List(fn, n, m).fn = fn /\ List(fn, n, m).n = n /\ List(fn, n, m).m = m
         /\ List(fn, n, m).head = NULL /\ DOMAIN List(fn, n, m) = FrameFields
  BY FIs DEF FNode, FNodeOp, FGive, FSet, FExpect, FType, List, FrameFields

LEMMA MineIs == ASSUME NEW n PROVE (Want => Mine(Want, n) = {n}) /\ (~Want => Mine(Want, n) = {})
                                   /\ Mine(TRUE, n) = {n} /\ Mine(FALSE, n) = {}
  BY DEF Mine

-------------------------------------------------------------------------------
(* The functions, one by one.                                              *)

LEMMA MoveRet ==
  ASSUME Going, NEW P, Has(cur, P), NEW c, Stirs(cur, c) PROVE Has(c, P) /\ c.ret = cur.ret
  BY HasMove

LEMMA AheadIs == ASSUME Going PROVE Stirs(cur, Ahead)
  BY CurIs, StirsBy DEF Ahead

LEMMA ExpectOwns == ASSUME Going, Expect PROVE OwnInv'
<1>1. Top.fn \in Passing /\ Then(Consume(cur, Top.op), <<>>)
  BY DEF Expect, At, Top, Passing
<1>2. Has(cur, Returned(cur, Want)) /\ Stirs(cur, Consume(cur, Top.op))
  BY <1>1, PassTop, CurIs, StirsBy
<1> QED  BY <1>1, <1>2, MoveRet, Stops DEF Returned

LEMMA OptSemiOwns == ASSUME Going, OptSemi PROVE OwnInv'
<1>1. Top.fn \in Passing /\ Then(Match(cur, SEMICOLON), <<>>)
  BY DEF OptSemi, At, Top, Passing
<1>2. Has(cur, Returned(cur, Want)) /\ Stirs(cur, Match(cur, SEMICOLON))
  BY <1>1, PassTop, CurIs, StirsBy
<1> QED  BY <1>1, <1>2, MoveRet, Stops DEF Returned

LEMMA FlagsOwns == ASSUME Going, Flags PROVE OwnInv'
<1>1. Top.fn \in Passing /\ (Crash("null") \/ Then(cur, <<>>))
  BY DEF Flags, At, Top, Passing
<1>2. CASE Crash("null")
  BY <1>2, CrashOwns
<1>3. CASE Then(cur, <<>>)
  BY <1>1, <1>3, PassTop, Stops
<1> QED  BY <1>1, <1>2, <1>3

LEMMA SkipDataOwns == ASSUME Going, SkipData PROVE OwnInv'
<1> DEFINE c == Consume(cur, ")")
           d == Lose(Ahead, "variant")
<1>1. Top.fn \in Passing /\ (Then(c, <<>>) \/ Then(d, <<Top>>))
  BY DEF SkipData, At, Top, Passing
<1>2. Has(cur, Returned(cur, Want)) /\ Stirs(cur, c) /\ Stirs(cur, d)
  BY <1>1, PassTop, CurIs, AheadIs, StirsBy
<1> HIDE DEF c, d
<1>3. Has(c, Returned(c, Want)) /\ Has(d, Returned(d, Want))
  BY <1>2, MoveRet DEF Returned
<1>4. CASE Then(c, <<>>)
  BY <1>3, <1>4, Stops
<1>5. CASE Then(d, <<Top>>)
  <2>1. Rung(d, Top, Want, {}, Want)
    BY <1>1, PassRung, WantIs
  <2>2. {} \union Returned(d, Want) = Returned(d, Want)
    OBVIOUS
  <2> QED  BY <1>3, <1>5, <2>1, <2>2, Calling1
<1> QED  BY <1>1, <1>4, <1>5

LEMMA GiveOwns == ASSUME Going, Give PROVE OwnInv'
<1> DEFINE c == [cur EXCEPT !.ret = Top.n]
<1>1. Top.fn \in Givers /\ Then(c, <<>>)
  BY DEF Give, At, Top, Givers
<1>2. DOMAIN c = CurFields /\ c.nodes = cur.nodes /\ c.lost = cur.lost /\ c.ret = Top.n
  BY CurIs DEF CurFields
<1> HIDE DEF c
<1>3. Has(c, Mine(Want, Top.n))
  BY <1>1, <1>2, GiveTop, HasLike
<1>4. Mine(Want, Top.n) = Returned(c, Want)
  BY <1>2 DEF Mine, Returned
<1> QED  BY <1>1, <1>3, <1>4, Stops

(* The function ends with its node.                                        *)
LEMMA StopsWith ==
  ASSUME Going, NEW c, NEW n, Has(c, Mine(Want, n)), NEW d, DOMAIN d = CurFields,
         d.nodes = c.nodes, d.lost = c.lost, d.ret = n, Then(d, <<>>)
  PROVE  OwnInv'
<1>1. Has(d, Mine(Want, n))
  BY HasLike
<1>2. Mine(Want, n) = Returned(d, Want)
  BY DEF Mine, Returned
<1> QED  BY <1>1, <1>2, Stops

LEMMA SetChildOwns == ASSUME Going, SetChild PROVE OwnInv'
<1> DEFINE b == Put(cur, Top.n, Top.m, cur.ret)
           c == [b EXCEPT !.ret = Top.n]
<1>1. Top.fn = "set" /\ Then(c, <<>>)
  BY DEF SetChild, At, Top
<1>2. /\ Has(cur, Mine(Want, Top.n) \union {cur.ret}) /\ IsNode(cur, Top.n)
      /\ cur.ret \notin Mine(Want, Top.n) /\ Top.m \in Pointers
  BY <1>1, SetTop DEF Setters
<1>3. Has(b, (Mine(Want, Top.n) \union {cur.ret}) \ {cur.ret})
  BY <1>2, HasPut
<1>4. (Mine(Want, Top.n) \union {cur.ret}) \ {cur.ret} = Mine(Want, Top.n)
  BY <1>2
<1>5. DOMAIN b = CurFields
  BY <1>3, HasShape
<1> HIDE DEF b
<1>6. DOMAIN c = CurFields /\ c.nodes = b.nodes /\ c.lost = b.lost /\ c.ret = Top.n
  BY <1>5 DEF CurFields
<1> HIDE DEF c
<1> QED  BY <1>1, <1>3, <1>4, <1>6, StopsWith

LEMMA LinkOwns == ASSUME Going, Link PROVE OwnInv'
<1> DEFINE f == [Top EXCEPT !.fn = Top.op, !.op = NoName]
           c == LinkNode(cur, f, cur.ret)
           g == Linked(f, cur.ret)
           l == Want /\ Top.op # "program"
           Q == Mine(l, Top.n)
<1>1. Top.fn = "link" /\ Then(c, <<g>>)
  BY CurIs DEF Link, At, Top
<1>2. /\ Has(cur, Q \union Some(Top.head) \union {cur.ret}) /\ IsNode(cur, Top.n)
      /\ Lists1(cur, Top) /\ cur.ret \notin Q \union Some(Top.head)
      /\ (Want => Top.n # Top.head) /\ Top.op \in Rows \union {"program"}
      /\ (Top.op = "program" => ~Want)
  BY <1>1, LinkTop
<1>3. /\ DOMAIN f = FrameFields /\ f.fn = Top.op /\ f.n = Top.n /\ f.head = Top.head
      /\ f.tail = Top.tail
  BY CurIs DEF FrameFields
<1> HIDE DEF f
<1>4. Q \intersect Some(f.head) = {}
  BY <1>2, <1>3 DEF Mine, Some
<1>5. Links(cur, c, f, g, cur.ret, Q)
  <2> HIDE DEF Q
  <2> QED  BY <1>2, <1>3, <1>4, HasLink DEF Lists1
<1>6. g.n = Top.n /\ g.fn = Top.op /\ Lists1(c, g) /\ c.ret = cur.ret /\ Has(c, Q \union Some(g.head))
      /\ g.head = (IF f.head = NULL THEN cur.ret ELSE f.head)
  BY <1>3, <1>5 DEF Links
<1>7. IsNode(c, g.n)
  BY <1>2, <1>6, HasShape
<1>8. Want => g.n # g.head
  BY <1>2, <1>3, <1>6 DEF Mine
<1>9. DOMAIN g = FrameFields
  BY <1>3 DEF Linked, FrameFields
<1>10. Rung(c, g, Want, Q \union Some(g.head), FALSE)
  <2>1. CASE Top.op \in Rows
    <3>1. l <=> Want
      BY <2>1 DEF Rows
    <3>2. Q = Mine(Want, g.n)
      BY <1>6, <3>1 DEF Mine
    <3> HIDE DEF g, Q, l
    <3> QED  BY <1>6, <1>7, <1>8, <2>1, <3>2, WantIs, RowRung
  <2>2. CASE Top.op = "program"
    <3>1. Q = {} /\ ~Want
      BY <1>2, <2>2 DEF Mine
    <3> HIDE DEF g, Q, l
    <3>2. Rung(c, g, FALSE, Some(g.head), FALSE)
      BY <1>6, <1>7, <1>9, <2>2, ProgramRungs
    <3>3. Q \union Some(g.head) = Some(g.head)
      BY <3>1
    <3>4. Want = FALSE
      BY <3>1, WantIs
    <3> QED  BY <3>2, <3>3, <3>4
  <2> QED  BY <1>2, <2>1, <2>2
<1> HIDE DEF g, Q, c
<1> QED  BY <1>1, <1>6, <1>10, Keeps1

(* A list is stored into its node.                                         *)
LEMMA HasRow ==
  ASSUME NEW c, NEW Q, NEW h, Has(c, Q \union Some(h)), Q \intersect Some(h) = {},
         NEW n, IsNode(c, n), NEW m \in Pointers
  PROVE  LET d == Put(c, n, m, h) IN Has(d, Q) /\ Remains(c, d)
<1>1. CASE h = NULL
  <2>1. Q \union Some(h) = Q
    BY <1>1 DEF Some
  <2> QED  BY <1>1, <2>1, HasNull
<1>2. CASE h # NULL
  <2>1. h \in Q \union Some(h) /\ (Q \union Some(h)) \ {h} = Q
    BY <1>2 DEF Some
  <2> QED  BY <2>1, HasPut
<1> QED  BY <1>1, <1>2

LEMMA ArgumentOwns == ASSUME Going, Argument PROVE OwnInv'
<1> DEFINE c == LinkNode(cur, Top, cur.ret)
           f == Linked(Top, cur.ret)
           d == Put(c, f.n, f.m, f.head)
<1>1. Top.fn = "args"
  BY DEF Argument, At, Top
<1>2. Crash("null") \/ Then(Adv(c), <<F("expression"), f>>) \/ Then(d, <<>>)
  BY DEF Argument
<1>3. /\ ~Want /\ Has(cur, Some(Top.head) \union {cur.ret}) /\ IsNode(cur, Top.n)
      /\ Lists1(cur, Top) /\ cur.ret \notin Some(Top.head)
  BY <1>1, ArgsTop
<1>4. Has(cur, {} \union Some(Top.head) \union {cur.ret})
  <2>1. {} \union Some(Top.head) \union {cur.ret} = Some(Top.head) \union {cur.ret}
    OBVIOUS
  <2> QED  BY <1>3, <2>1
<1>5. Links(cur, c, Top, f, cur.ret, {})
  BY <1>3, <1>4, CurIs, HasLink
<1>6. f.n = Top.n /\ f.fn = "args" /\ Lists1(c, f) /\ Has(c, {} \union Some(f.head)) /\ f.m = Top.m
  BY <1>1, <1>5 DEF Links
<1> HIDE DEF c, f
<1>7. IsNode(c, f.n)
  BY <1>3, <1>6, HasShape
<1>8. f.m \in Pointers
  <2>1. Top.m \in {"args", "operand"}
    BY <1>1 DEF Going, Calling, FrameOk
  <2> QED  BY <1>6, <2>1 DEF Pointers
<1>9. CASE Crash("null")
  BY <1>9, CrashOwns
<1>10. CASE Then(Adv(c), <<F("expression"), f>>)
  <2> DEFINE e == Adv(c)
  <2>1. Stirs(c, e)
    BY <1>6, HasShape, StirsBy
  <2> HIDE DEF e
  <2>2. Has(e, Some(f.head))
    <3>1. {} \union Some(f.head) = Some(f.head)
      OBVIOUS
    <3> QED  BY <1>6, <2>1, <3>1, HasMove
  <2>3. IsNode(e, f.n) /\ Lists1(e, f)
    BY <1>6, <1>7, <2>1 DEF Stirs, IsNode, Lists1
  <2>4. Rung(e, f, Want, Some(f.head), TRUE)
    <3>1. Want = FALSE
      BY <1>3, WantIs
    <3> QED  BY <1>6, <2>3, <3>1, ArgsRung
  <2>5. F("expression").fn \in Idle
    BY FIs DEF Idle
  <2> QED  BY <1>10, <2>2, <2>4, <2>5, Idle2 DEF e
<1>11. CASE Then(d, <<>>)
  <2>1. Has(d, {})
    BY <1>6, <1>7, <1>8, HasRow
  <2>2. Returned(d, Want) = {}
    BY <1>3 DEF Returned
  <2> QED  BY <1>11, <2>1, <2>2, Stops
<1> QED  BY <1>2, <1>9, <1>10, <1>11

(* A new node without a part, which is returned.                           *)
LEMMA MakesOne ==
  ASSUME Going, Top.fn \in Idle, NEW c, Stirs(cur, c), NEW type, NEW members,
         DOMAIN members \intersect Pointers = {}
  PROVE  Want /\ Gains(Make(c, type, members), {}, type)
<1>1. Want /\ Has(c, {})
  BY IdleTop, MoveRet
<1> QED  BY <1>1, HasMake0

LEMMA GainsOne ==
  ASSUME NEW d, NEW type, Gains(d, {}, type)
  PROVE  Has(d, {d.ret}) /\ IsNode(d, d.ret) /\ DOMAIN d = CurFields /\ d.nodes[d.ret].type = type
<1>1. {} \union {d.ret} = {d.ret}
  OBVIOUS
<1> QED  BY <1>1 DEF Gains

LEMMA EndsWithNew ==
  ASSUME Going, Top.fn \in Idle, NEW c, Stirs(cur, c), NEW type, NEW members,
         DOMAIN members \intersect Pointers = {}, Then(Make(c, type, members), <<>>)
  PROVE  OwnInv'
<1> DEFINE d == Make(c, type, members)
<1>1. Want /\ Has(d, {d.ret})
  BY MakesOne, GainsOne
<1> HIDE DEF d
<1> QED  BY <1>1, Returns1 DEF d

LEMMA LiteralExprOwns == ASSUME Going, LiteralExpr PROVE OwnInv'
<1> DEFINE members == [type |-> Tok(cur), string_value |-> Word(cur.at)]
<1>1. Top.fn \in Idle /\ Then(Make(Ahead, "LITERAL", members), <<>>)
  BY DEF LiteralExpr, At, Top, Idle
<1>2. DOMAIN members \intersect Pointers = {}
  BY DEF Pointers
<1> HIDE DEF members
<1> QED  BY <1>1, <1>2, AheadIs, EndsWithNew

LEMMA IdentifierExprOwns == ASSUME Going, IdentifierExpr PROVE OwnInv'
<1> DEFINE members == [name |-> Word(cur.at)]
<1>1. Top.fn \in Idle /\ Then(Make(Ahead, "IDENTIFIER", members), <<>>)
  BY DEF IdentifierExpr, At, Top, Idle
<1>2. DOMAIN members \intersect Pointers = {}
  BY DEF Pointers
<1> HIDE DEF members
<1> QED  BY <1>1, <1>2, AheadIs, EndsWithNew

(* A function that only goes on behind a token, or calls another.          *)
LEMMA IdleCalls1 ==
  ASSUME Going, Top.fn \in Idle, NEW c, Stirs(cur, c), NEW f, f.fn \in Idle, Then(c, <<f>>)
  PROVE  OwnInv'
<1>1. Want /\ Has(c, {})
  BY IdleTop, MoveRet
<1> QED  BY <1>1, Idle1

LEMMA IdleCalls2 ==
  ASSUME Going, Top.fn \in Idle, NEW c, Stirs(cur, c), NEW f, f.fn \in Idle, NEW g, g.fn \in Users,
         Then(c, <<f, g>>)
  PROVE  OwnInv'
<1>1. Want /\ Has(c, {})
  BY IdleTop, MoveRet
<1> QED  BY <1>1, IdleUser

LEMMA LambdaExprOwns == ASSUME Going, LambdaExpr PROVE OwnInv'
<1>1. Top.fn \in Idle /\ Then(Ahead, <<F("function")>>) /\ F("function").fn \in Idle
  BY FIs DEF LambdaExpr, At, Top, Idle
<1> QED  BY <1>1, AheadIs, IdleCalls1

LEMMA LoopExprOwns == ASSUME Going, LoopExpr PROVE OwnInv'
<1> DEFINE b == Consume(Ahead, "(")
           n == Bare(b, "LOOP")
           declares == Tok(n) \in {"v:", "c:"}
           c == IF declares THEN Adv(n) ELSE n
           fn == IF declares THEN "vardecl" ELSE "expression"
           g == FNode("loopkind", n.ret)
<1>1. Top.fn \in Idle /\ Then(c, <<F(fn), g>>)
  BY DEF LoopExpr, At, Top, Idle
<1>2. Stirs(cur, b)
  BY AheadIs, StirsBy
<1>3. Want /\ Has(b, {})
  BY <1>1, <1>2, IdleTop, MoveRet
<1> HIDE DEF b
<1>4. Has(n, {n.ret}) /\ IsNode(n, n.ret)
  BY <1>3, HasBare, GainsOne
<1> HIDE DEF n
<1>5. Stirs(n, n)
  BY <1>4, HasShape
<1>6. Stirs(n, c)
  BY <1>5, StirsBy
<1>7. F(fn).fn \in Idle
  BY FIs DEF Idle
<1>8. g.fn \in Setters /\ g.n = n.ret /\ g.head = NULL /\ g.fn # "set"
  BY NodeIs DEF Setters
<1> HIDE DEF c, fn, g
<1>9. Has(c, {n.ret}) /\ IsNode(c, g.n)
  BY <1>4, <1>6, <1>8, HasMove DEF Stirs, IsNode
<1>10. Rung(c, g, Want, Mine(Want, n.ret), TRUE)
  BY <1>8, <1>9, WantIs, SetRung
<1>11. Mine(Want, n.ret) = {n.ret}
  BY <1>3, MineIs
<1> QED  BY <1>1, <1>7, <1>9, <1>10, <1>11, Idle2

LEMMA LaysMore ==
  ASSUME Going, NEW c, NEW us, NEW l, NEW X, Lays(c, us, l, X), NEW fs, NEW f, Pushed(fs, f, us),
         NEW g, Rung(c, f, l, {}, g)
  PROVE  Lays(c, fs, g, X)
<1>1. Lays(c, fs, g, X \union {})
  BY LaysPush
<1>2. X \union {} = X
  OBVIOUS
<1> QED  BY <1>1, <1>2

LEMMA LaysEnd ==
  ASSUME Going, NEW c, NEW fs, NEW X, Lays(c, fs, FALSE, X), Has(c, X), Then(c, fs)
  PROVE  OwnInv'
<1>1. X = X \union Returned(c, FALSE)
  BY DEF Returned
<1> QED  BY <1>1, LaysDone

LEMMA LoopRest ==
  ASSUME Going, NEW c, NEW n, Has(c, Mine(Want, n)), IsNode(c, n), NEW x, x.fn \in Passing
  PROVE  Lays(c, <<x, FNode("loopbody", n)>>, FALSE, Mine(Want, n))
<1> DEFINE g == FNode("loopbody", n)
           X == Mine(Want, n)
<1>1. g.fn \in Givers /\ g.n = n /\ g.head = NULL
  BY NodeIs DEF Givers
<1> HIDE DEF g
<1>2. Rung(c, g, Want, X, FALSE)
  BY <1>1, WantIs, GiveRung
<1>3. Rung(c, x, FALSE, {}, FALSE)
  BY PassRung
<1>4. Grows(c) /\ X \intersect Rest = {}
  BY DEF Has
<1> HIDE DEF X
<1>5. Lays(c, <<g>>, FALSE, X)
  BY <1>2, <1>4, Lays1
<1>6. Pushed(<<x, g>>, x, <<g>>)
  BY DEF Pushed, IsSeq
<1> QED  BY <1>3, <1>5, <1>6, LaysMore DEF X, g

LEMMA LoopKindOwns == ASSUME Going, LoopKind PROVE OwnInv'
<1> DEFINE n == Top.n
           c1 == Put(Ahead, n, "variable", cur.ret)
           c2 == Put(Ahead, n, "init", cur.ret)
           c3 == Put(cur, n, "condition", cur.ret)
           E == F("expression")
           X == FExpect(")")
           B == FNode("loopbody", n)
           K == Mine(Want, n)
<1>1. Top.fn \in Setters
  BY DEF LoopKind, At, Top, Setters
<1>2. \/ Then(c1, <<E, FSet(n, "collection")>> \o <<X, B>>)
      \/ Then(c2, <<E, FSet(n, "condition"), FExpect(COMMA), E, FSet(n, "increment")>> \o <<X, B>>)
      \/ Then(c3, <<X, B>>)
  BY DEF LoopKind
<1>3. Has(cur, K \union {cur.ret}) /\ IsNode(cur, n) /\ cur.ret \notin K
  BY <1>1, SetTop
<1>4. ASSUME NEW c \in {c1, c2, c3} PROVE Has(c, K) /\ IsNode(c, n)
  <2>1. PICK b, m : c = Put(b, n, m, cur.ret) /\ b \in {Ahead, cur}
                    /\ m \in {"variable", "init", "condition"}
    OBVIOUS
  <2> HIDE DEF c1, c2, c3, K
  <2>2. Has(b, K \union {cur.ret})
    BY <1>3, <2>1, AheadIs, MoveRet
  <2>3. IsNode(b, n) /\ m \in Pointers /\ cur.ret \in K \union {cur.ret}
    BY <1>3, <2>1, <2>2, HasShape DEF Pointers
  <2>4. Has(c, (K \union {cur.ret}) \ {cur.ret}) /\ Remains(b, c)
    BY <2>1, <2>2, <2>3, HasPut
  <2>5. (K \union {cur.ret}) \ {cur.ret} = K
    BY <1>3
  <2> QED  BY <2>3, <2>4, <2>5 DEF Remains, IsNode
<1> HIDE DEF c1, c2, c3
<1>5. ASSUME NEW c \in {c1, c2, c3} PROVE Lays(c, <<X, B>>, FALSE, K)
  <2>1. X.fn \in Passing
    BY NodeIs DEF Passing
  <2> QED  BY <1>4, <2>1, LoopRest
<1>6. ASSUME NEW c \in {c1, c2, c3}, NEW m \in Pointers
      PROVE  Rung(c, FSet(n, m), FALSE, {}, TRUE)
  <2>1. /\ FSet(n, m).fn \in Setters /\ FSet(n, m).n = n /\ FSet(n, m).head = NULL
        /\ FSet(n, m).m = m
    BY NodeIs DEF Setters
  <2>2. Mine(FALSE, n) = {}
    BY MineIs
  <2> QED  BY <1>4, <2>1, <2>2, SetRung
<1>7. ASSUME NEW c PROVE Rung(c, E, TRUE, {}, FALSE) /\ Rung(c, FExpect(COMMA), FALSE, {}, FALSE)
  <2>1. E.fn \in Idle /\ FExpect(COMMA).fn \in Passing
    BY NodeIs, FIs DEF Idle, Passing
  <2> HIDE DEF E
  <2> QED  BY <2>1, IdleRung, PassRung
<1>8. {"collection", "condition", "increment"} \subseteq Pointers
  BY DEF Pointers
<1> DEFINE us == <<X, B>>
<1> HIDE DEF K, n, E, X, B
<1>9. CASE Then(c3, us)
  BY <1>4, <1>5, <1>9, LaysEnd
<1>10. CASE Then(c1, <<E, FSet(n, "collection")>> \o us)
  <2> DEFINE S == FSet(n, "collection")
             vs == <<S, X, B>>
             fs == <<E, S, X, B>>
  <2>1. Then(c1, fs)
    BY <1>10, Concat22
  <2>2. Pushed(vs, S, us) /\ Pushed(fs, E, vs)
    BY DEF Pushed, IsSeq
  <2>3. Rung(c1, S, FALSE, {}, TRUE) /\ Rung(c1, E, TRUE, {}, FALSE) /\ Lays(c1, us, FALSE, K)
        /\ Has(c1, K)
    BY <1>4, <1>5, <1>6, <1>7, <1>8
  <2> HIDE DEF S, fs, us, vs
  <2>4. Lays(c1, vs, TRUE, K)
    BY <2>2, <2>3, LaysMore
  <2>5. Lays(c1, fs, FALSE, K)
    BY <2>2, <2>3, <2>4, LaysMore
  <2> QED  BY <2>1, <2>3, <2>5, LaysEnd
<1>11. CASE Then(c2, <<E, FSet(n, "condition"), FExpect(COMMA), E, FSet(n, "increment")>> \o us)
  <2> DEFINE S == FSet(n, "condition")
             T == FSet(n, "increment")
             Y == FExpect(COMMA)
             as == <<T, X, B>>
             bs == <<E, T, X, B>>
             cs == <<Y, E, T, X, B>>
             ds == <<S, Y, E, T, X, B>>
             fs == <<E, S, Y, E, T, X, B>>
  <2>1. Then(c2, fs)
    <3> DEFINE gs == <<E, S, Y, E, T>> \o <<X, B>>
    <3>1. Then(c2, gs)
      BY <1>11
    <3>2. gs = fs
      BY Concat52
    <3> HIDE DEF gs, fs
    <3> QED  BY <3>1, <3>2
  <2>2. Pushed(as, T, us) /\ Pushed(bs, E, as) /\ Pushed(cs, Y, bs) /\ Pushed(ds, S, cs) /\ Pushed(fs, E, ds)
    BY DEF Pushed, IsSeq
  <2>3. /\ Rung(c2, S, FALSE, {}, TRUE) /\ Rung(c2, T, FALSE, {}, TRUE)
        /\ Rung(c2, E, TRUE, {}, FALSE) /\ Rung(c2, Y, FALSE, {}, FALSE)
        /\ Lays(c2, us, FALSE, K) /\ Has(c2, K)
    BY <1>4, <1>5, <1>6, <1>7, <1>8
  <2> HIDE DEF S, T, Y, as, bs, cs, ds, fs, us
  <2>4. Lays(c2, as, TRUE, K)
    BY <2>2, <2>3, LaysMore
  <2>5. Lays(c2, bs, FALSE, K)
    BY <2>2, <2>3, <2>4, LaysMore
  <2>6. Lays(c2, cs, FALSE, K)
    BY <2>2, <2>3, <2>5, LaysMore
  <2>7. Lays(c2, ds, TRUE, K)
    BY <2>2, <2>3, <2>6, LaysMore
  <2>8. Lays(c2, fs, FALSE, K)
    BY <2>2, <2>3, <2>7, LaysMore
  <2> QED  BY <2>1, <2>3, <2>8, LaysEnd
<1> QED  BY <1>2, <1>9, <1>10, <1>11

LEMMA LoopBodyOwns == ASSUME Going, LoopBody PROVE OwnInv'
<1> DEFINE n == Top.n
           b == Match(cur, "->")
           c == [b EXCEPT !.ret = n]
           d == Adv(c)
<1>1. Top.fn \in Givers
  BY DEF LoopBody, At, Top, Givers
<1>2. Then(d, <<F("block"), FSet(n, "body")>>) \/ Then(Fails(c), <<>>)
  BY DEF LoopBody
<1>3. Has(cur, Mine(Want, n)) /\ IsNode(cur, n)
  BY <1>1, GiveTop
<1>4. Has(b, Mine(Want, n)) /\ DOMAIN b = CurFields
  <2>1. Stirs(cur, b)
    BY CurIs, StirsBy
  <2> HIDE DEF b
  <2> QED  BY <1>3, <2>1, MoveRet DEF Stirs
<1> HIDE DEF b
<1>5. DOMAIN c = CurFields /\ c.nodes = b.nodes /\ c.lost = b.lost
  BY <1>4 DEF CurFields
<1> HIDE DEF c
<1>6. Has(c, Mine(Want, n)) /\ Stirs(c, c)
  BY <1>4, <1>5, HasLike, HasShape
<1>7. CASE Then(Fails(c), <<>>)
  <2>1. Fails(c).bad
    BY <1>5 DEF Fails, CurFields
  <2> QED  BY <1>7, <2>1, BadOwns
<1>8. CASE Then(d, <<F("block"), FSet(n, "body")>>)
  <2>1. Has(d, Mine(Want, n))
    BY <1>6, StirsBy, HasMove
  <2>2. IsNode(d, n) /\ F("block").fn \in Idle /\ "body" \in Pointers
    BY <1>3, <2>1, HasShape, FIs DEF Idle, Pointers
  <2> HIDE DEF d, n
  <2> QED  BY <1>8, <2>1, <2>2, IdleSet
<1> QED  BY <1>2, <1>7, <1>8

LEMMA InfiniteLoopOwns == ASSUME Going, InfiniteLoop PROVE OwnInv'
<1> DEFINE b == Consume(Adv(Ahead), ")")
           n == Bare(b, "LOOP")
           g == FNode("loopbody", n.ret)
<1>1. Top.fn \in Idle /\ Then(n, <<g>>)
  BY DEF InfiniteLoop, At, Top, Idle
<1>2. Stirs(cur, b)
  BY AheadIs, StirsBy
<1>3. Want /\ Has(b, {})
  BY <1>1, <1>2, IdleTop, MoveRet
<1> HIDE DEF b
<1>4. Has(n, {n.ret}) /\ IsNode(n, n.ret)
  BY <1>3, HasBare, GainsOne
<1> HIDE DEF n
<1>5. g.fn \in Givers /\ g.n = n.ret /\ g.head = NULL
  BY NodeIs DEF Givers
<1> HIDE DEF g
<1>6. Rung(n, g, Want, Mine(Want, n.ret), FALSE)
  BY <1>4, <1>5, WantIs, GiveRung
<1>7. Mine(Want, n.ret) = {n.ret}
  BY <1>3, MineIs
<1> QED  BY <1>1, <1>4, <1>6, <1>7, Keeps1

LEMMA ParenthesisOwns == ASSUME Going, Parenthesis PROVE OwnInv'
<1>1. Top.fn \in Idle /\ Then(Ahead, <<F("expression"), F("paren")>>)
  BY DEF Parenthesis, At, Top, Idle
<1>2. F("expression").fn \in Idle /\ F("paren").fn \in Users
  BY FIs DEF Idle, Users
<1> QED  BY <1>1, <1>2, AheadIs, IdleCalls2

(* A tuple is begun with its first element.                                *)
LEMMA TupleOwns ==
  ASSUME Going, Top.fn \in Users, NEW m,
         Then([Bare(cur, "TUPLE") EXCEPT !.ret = cur.ret],
              <<FLink(List("tuple", Bare(cur, "TUPLE").ret, m))>>)
  PROVE  OwnInv'
<1> DEFINE c == Bare(cur, "TUPLE")
           d == [c EXCEPT !.ret = cur.ret]
           n == c.ret
           g == List("tuple", n, m)
<1>1. Want /\ Has(cur, {cur.ret})
  BY UserTop
<1>2. Gains(c, {cur.ret}, "TUPLE") /\ Then(d, <<FLink(g)>>)
  BY <1>1, HasBare
<1> HIDE DEF c
<1>3. Has(c, {cur.ret} \union {n}) /\ n # cur.ret /\ IsNode(c, n) /\ DOMAIN c = CurFields
  BY <1>2 DEF Gains
<1>4. DOMAIN d = CurFields /\ d.nodes = c.nodes /\ d.lost = c.lost /\ d.ret = cur.ret
  BY <1>3 DEF CurFields
<1> HIDE DEF d
<1>5. Has(d, {cur.ret} \union {n}) /\ IsNode(d, n)
  BY <1>3, <1>4, HasLike DEF IsNode
<1>6. g.fn \in Rows /\ g.n = n /\ g.head = NULL /\ DOMAIN g = FrameFields
  BY NodeIs DEF Rows
<1> HIDE DEF g, n
<1>7. n # NULL
  BY <1>5 DEF IsNode, NULL
<1>8. Rung(d, FLink(g), Want, Mine(Want, g.n) \union Some(g.head), TRUE)
  BY <1>5, <1>6, <1>7, WantIs, LinkRung DEF Lists1
<1>9. Mine(Want, g.n) \union Some(g.head) = {n}
  BY <1>1, <1>6, MineIs DEF Some
<1>10. {n} \union Returned(d, TRUE) = {cur.ret} \union {n} /\ d.ret \notin {n}
  BY <1>3, <1>4 DEF Returned
<1> QED  BY <1>2, <1>5, <1>8, <1>9, <1>10, Calling1

LEMMA ParenOwns == ASSUME Going, Paren PROVE OwnInv'
<1> DEFINE c == Consume(cur, ")")
           d == [c EXCEPT !.parens = @ \union {cur.ret}]
<1>1. Top.fn \in Users
  BY DEF Paren, At, Top, Users
<1>2. \/ Then(d, <<>>)
      \/ Then([Bare(cur, "TUPLE") EXCEPT !.ret = cur.ret],
              <<FLink(List("tuple", Bare(cur, "TUPLE").ret, ")"))>>)
  BY CurIs DEF Paren
<1>3. CASE Then(d, <<>>)
  <2>1. Stirs(cur, c)
    BY CurIs, StirsBy
  <2> HIDE DEF c
  <2>2. Want /\ Has(c, {cur.ret}) /\ c.ret = cur.ret
    BY <1>1, <2>1, UserTop, MoveRet
  <2>3. DOMAIN d = CurFields /\ d.nodes = c.nodes /\ d.lost = c.lost /\ d.ret = cur.ret
    BY <2>1, <2>2 DEF Stirs, CurFields
  <2> HIDE DEF d
  <2>4. Has(d, {d.ret})
    BY <2>2, <2>3, HasLike
  <2> QED  BY <1>3, <2>2, <2>4, Returns1
<1> QED  BY <1>1, <1>2, <1>3, TupleOwns

LEMMA BraceTupleOwns == ASSUME Going, BraceTuple PROVE OwnInv'
<1>1. /\ Top.fn \in Idle
      /\ Then(Bare(Adv(Ahead), "TUPLE"), <<>>) \/ Then(Ahead, <<F("expression"), F("brace")>>)
  BY DEF BraceTuple, At, Top, Idle
<1>2. CASE Then(Bare(Adv(Ahead), "TUPLE"), <<>>)
  <2>1. DOMAIN <<>> \intersect Pointers = {} /\ Stirs(cur, Adv(Ahead))
    BY AheadIs, StirsBy
  <2> QED  BY <1>1, <1>2, <2>1, EndsWithNew DEF Bare
<1>3. CASE Then(Ahead, <<F("expression"), F("brace")>>)
  <2>2. F("expression").fn \in Idle /\ F("brace").fn \in Users
    BY FIs DEF Idle, Users
  <2> QED  BY <1>1, <1>3, <2>2, AheadIs, IdleCalls2
<1> QED  BY <1>1, <1>2, <1>3

LEMMA BraceOwns == ASSUME Going, Brace PROVE OwnInv'
<1>1. Top.fn \in Users
  BY DEF Brace, At, Top, Users
<1>2. Then([Bare(cur, "TUPLE") EXCEPT !.ret = cur.ret],
           <<FLink(List("tuple", Bare(cur, "TUPLE").ret, RBRACE))>>)
  BY CurIs DEF Brace
<1> QED  BY <1>1, <1>2, TupleOwns

(* A list is stored into its node, which is returned.                      *)
LEMMA RowEnds ==
  ASSUME Going, Top.fn \in Rows, NEW b, Stirs(cur, b), NEW m \in Pointers, NEW d,
         Stirs(Put(b, Top.n, m, Top.head), d), Then(d, <<FGive(Top.n)>>)
  PROVE  OwnInv'
<1> DEFINE n == Top.n
           c == Put(b, n, m, Top.head)
           Q == Mine(Want, n)
           g == FGive(n)
<1>1. Has(cur, Q \union Some(Top.head)) /\ IsNode(cur, n) /\ (Want => n # Top.head)
  BY RowTop
<1>2. Has(b, Q \union Some(Top.head)) /\ IsNode(b, n) /\ Q \intersect Some(Top.head) = {}
  <2>1. Q \intersect Some(Top.head) = {}
    BY <1>1 DEF Mine, Some
  <2> HIDE DEF Q
  <2>2. Has(b, Q \union Some(Top.head))
    BY <1>1, MoveRet
  <2> QED  BY <1>1, <2>1, <2>2, HasShape
<1>3. Has(c, Q)
  <2> HIDE DEF Q
  <2> QED  BY <1>2, HasRow
<1> HIDE DEF c
<1>4. Has(d, Q) /\ Stirs(c, d)
  BY <1>3, HasMove DEF c
<1>5. IsNode(d, n)
  BY <1>1, <1>4, HasShape
<1>6. g.fn \in Givers /\ g.n = n /\ g.head = NULL /\ Then(d, <<g>>)
  BY NodeIs DEF Givers
<1> HIDE DEF g
<1>7. Rung(d, g, Want, Q, FALSE)
  BY <1>5, <1>6, WantIs, GiveRung
<1> QED  BY <1>4, <1>6, <1>7, Keeps1

(* A function is called for the next element of a list.                    *)
LEMMA RowCalls ==
  ASSUME Going, Top.fn \in Rows, NEW c, Stirs(cur, c), NEW f, f.fn \in Idle,
         Then(c, <<f, FLink(Top)>>)
  PROVE  OwnInv'
<1> DEFINE X == Mine(Want, Top.n) \union Some(Top.head)
<1>1. Has(cur, X) /\ IsNode(cur, Top.n) /\ Lists1(cur, Top) /\ (Want => Top.n # Top.head)
  BY RowTop
<1> HIDE DEF X
<1>2. Has(c, X)
  BY <1>1, MoveRet
<1>3. IsNode(c, Top.n) /\ Lists1(c, Top)
  BY <1>1 DEF Stirs, IsNode, Lists1
<1>4. Rung(c, FLink(Top), Want, X, TRUE)
  BY <1>1, <1>3, CurIs, WantIs, LinkRung DEF X
<1> QED  BY <1>2, <1>4, Idle2

LEMMA RowAgain ==
  ASSUME Going, Top.fn \in Rows, NEW c, Stirs(cur, c), Then(c, <<Top>>)
  PROVE  OwnInv'
<1> DEFINE X == Mine(Want, Top.n) \union Some(Top.head)
<1>1. Has(cur, X) /\ IsNode(cur, Top.n) /\ Lists1(cur, Top) /\ (Want => Top.n # Top.head)
  BY RowTop
<1> HIDE DEF X
<1>2. Has(c, X)
  BY <1>1, MoveRet
<1>3. IsNode(c, Top.n) /\ Lists1(c, Top)
  BY <1>1 DEF Stirs, IsNode, Lists1
<1>4. Rung(c, Top, Want, X, FALSE)
  BY <1>1, <1>3, WantIs, RowRung DEF X
<1> QED  BY <1>2, <1>4, Keeps1

LEMMA RowPut ==
  ASSUME Going, Top.fn \in Rows, NEW c, Stirs(cur, c), NEW m \in Pointers
  PROVE  LET b == Put(c, Top.n, m, Top.head) IN Stirs(b, b)
<1> DEFINE Q == Mine(Want, Top.n)
           b == Put(c, Top.n, m, Top.head)
<1>1. Has(cur, Q \union Some(Top.head)) /\ IsNode(cur, Top.n) /\ (Want => Top.n # Top.head)
  BY RowTop
<1>2. Q \intersect Some(Top.head) = {}
  BY <1>1 DEF Mine, Some
<1> HIDE DEF Q
<1>3. Has(c, Q \union Some(Top.head))
  BY <1>1, MoveRet
<1>4. IsNode(c, Top.n)
  BY <1>1, <1>3, HasShape
<1>5. Has(b, Q)
  BY <1>2, <1>3, <1>4, HasRow
<1> HIDE DEF b
<1> QED  BY <1>5, HasShape DEF b

LEMMA TupleRestOwns == ASSUME Going, TupleRest PROVE OwnInv'
<1> DEFINE b == Put(cur, Top.n, "elements", Top.head)
           c == Consume(b, Top.m)
<1>1. Top.fn \in Rows
  BY DEF TupleRest, At, Top, Rows
<1>2. Then(Ahead, <<F("expression"), FLink(Top)>>) \/ Then(c, <<FGive(Top.n)>>)
  BY DEF TupleRest
<1>3. CASE Then(Ahead, <<F("expression"), FLink(Top)>>)
  <2>1. F("expression").fn \in Idle
    BY FIs DEF Idle
  <2> QED  BY <1>1, <1>3, <2>1, AheadIs, RowCalls
<1>4. CASE Then(c, <<FGive(Top.n)>>)
  <2>1. "elements" \in Pointers /\ Stirs(cur, cur)
    BY CurIs DEF Pointers
  <2>2. Stirs(b, c)
    BY <1>1, RowPut, <2>1, StirsBy
  <2> QED  BY <1>1, <1>4, <2>1, <2>2, RowEnds
<1> QED  BY <1>2, <1>3, <1>4

-------------------------------------------------------------------------------
(* Calls, and the operators behind an operand.                             *)

LEMMA ReturnsStruct == "operand" \in Given("RETURN") /\ "statements" \in Given("BLOCK")
<1>1. StructOf("RETURN") = "ASTUnaryExpr" /\ StructOf("BLOCK") = "ASTBlock"
  BY DEF StructOf, Allocated
<1>2. "operand" \in OfStruct("ASTUnaryExpr")
  BY StructHas
<1>3. "statements" \in OfStruct("ASTBlock")
  BY DEF Members, OfStruct
<1> QED  BY <1>1, <1>2, <1>3, GivenIs

(* What follows the parenthesis of a call, above us.                       *)
LEMMA ArgsLays ==
  ASSUME Going, NEW c, NEW us, NEW l \in BOOLEAN, Lays(c, us, l, {}), NEW n, IsNode(c, n),
         Has(c, Mine(l, n)), NEW m, NEW as, NEW bs, NEW cs, NEW ds,
         Pushed(as, FGive(n), us), Pushed(bs, FExpect(")"), as), Pushed(cs, List("args", n, m), bs),
         Pushed(ds, F("expression"), cs)
  PROVE  Lays(c, bs, FALSE, Mine(l, n)) /\ Lays(c, ds, FALSE, Mine(l, n))
<1> DEFINE G == FGive(n)
           X == FExpect(")")
           A == List("args", n, m)
           E == F("expression")
           K == Mine(l, n)
<1>1. /\ G.fn \in Givers /\ G.n = n /\ G.head = NULL /\ X.fn \in Passing /\ A.fn = "args" /\ A.n = n
      /\ A.head = NULL /\ E.fn \in Idle
  BY NodeIs, FIs DEF Givers, Passing, Idle
<1>2. Pushed(as, G, us) /\ Pushed(bs, X, as) /\ Pushed(cs, A, bs) /\ Pushed(ds, E, cs)
  OBVIOUS
<1> HIDE DEF G, X, A, E
<1>3. Rung(c, G, l, K, FALSE)
  BY <1>1, GiveRung
<1>4. Rung(c, X, FALSE, {}, FALSE) /\ Rung(c, E, TRUE, {}, FALSE)
  BY <1>1, PassRung, IdleRung
<1>5. Rung(c, A, FALSE, {}, TRUE)
  <2>1. Some(A.head) = {} /\ Lists1(c, A)
    BY <1>1 DEF Some, Lists1
  <2>2. Rung(c, A, FALSE, Some(A.head), TRUE)
    BY <1>1, <2>1, ArgsRung
  <2> QED  BY <2>1, <2>2
<1>6. K \intersect ({} \union Rest) = {}
  BY DEF Has
<1>7. {} \union K = K
  OBVIOUS
<1> HIDE DEF K
<1>8. Lays(c, as, FALSE, {} \union K)
  BY <1>2, <1>3, <1>6, LaysPush
<1>9. Lays(c, as, FALSE, K)
  BY <1>7, <1>8
<1>10. Lays(c, bs, FALSE, K)
  BY <1>2, <1>4, <1>9, LaysMore
<1>11. Lays(c, cs, TRUE, K)
  BY <1>2, <1>5, <1>10, LaysMore
<1>12. Lays(c, ds, FALSE, K)
  BY <1>2, <1>4, <1>11, LaysMore
<1> QED  BY <1>10, <1>12 DEF K

LEMMA IntrinsicCallOwns == ASSUME Going, IntrinsicCall PROVE OwnInv'
<1> DEFINE type == Intrinsic[Tok(cur)]
           n == Bare(Ahead, type)
           dot == Match(n, ".")
           word == [name |-> Word(dot.at)]
           pid == Make(Adv(dot), "IDENTIFIER", word)
           put == Put(pid, n.ret, "callee", pid.ret)
           named == Sees({"reg"}) /\ Tok(n) = "." /\ Tok(dot) = "id"
           c == IF named THEN [put EXCEPT !.ret = n.ret] ELSE IF Sees({"reg"}) THEN dot ELSE n
           m == IF Sees({"cast"}) THEN "operand" ELSE "args"
           a == Adv(c)
           E == F("expression")
           A == List("args", n.ret, m)
           X == FExpect(")")
           G == FGive(n.ret)
<1>1. Top.fn \in Idle
  BY DEF IntrinsicCall, At, Top, Idle
<1>2. Want /\ Has(Ahead, {})
  BY <1>1, AheadIs, IdleTop, MoveRet
<1>3. \/ Then(c, <<>>) \/ Then(a, (IF Tok(a) = ")" THEN <<>> ELSE <<E, A>>) \o <<X, G>>)
  BY DEF IntrinsicCall, ArgsOf
<1> HIDE DEF type
<1>4. Has(n, {n.ret}) /\ IsNode(n, n.ret) /\ Stirs(n, n)
  BY <1>2, HasBare, GainsOne, HasShape
<1> HIDE DEF n
<1>5. Has(dot, {n.ret}) /\ dot.ret = n.ret /\ Has(Adv(dot), {n.ret}) /\ Adv(dot).ret = n.ret
  <2>1. Stirs(n, dot)
    BY <1>4, StirsBy
  <2> HIDE DEF dot
  <2>2. Stirs(n, Adv(dot))
    BY <2>1, StirsBy
  <2> QED  BY <1>4, <2>1, <2>2, HasMove
<1>6. DOMAIN word \intersect Pointers = {}
  BY DEF Pointers
<1> HIDE DEF dot, word
<1>7. Has(c, {n.ret}) /\ c.ret = n.ret
  <2>1. Gains(pid, {n.ret}, "IDENTIFIER")
    BY <1>5, <1>6, HasMake0
  <2> HIDE DEF pid
  <2>2. Has(pid, {n.ret} \union {pid.ret}) /\ pid.ret # n.ret
    BY <2>1 DEF Gains
  <2>3. IsNode(pid, n.ret) /\ "callee" \in Pointers
    BY <2>2, HasShape DEF Pointers
  <2>4. Has(put, ({n.ret} \union {pid.ret}) \ {pid.ret})
    BY <2>2, <2>3, HasPut
  <2>5. ({n.ret} \union {pid.ret}) \ {pid.ret} = {n.ret}
    BY <2>2
  <2>6. Has(put, {n.ret}) /\ DOMAIN put = CurFields
    BY <2>4, <2>5, HasShape
  <2> HIDE DEF put
  <2> DEFINE d == [put EXCEPT !.ret = n.ret]
  <2>7. DOMAIN d = CurFields /\ d.nodes = put.nodes /\ d.lost = put.lost /\ d.ret = n.ret
    BY <2>6 DEF CurFields
  <2> HIDE DEF d
  <2>8. Has(d, {n.ret})
    BY <2>6, <2>7, HasLike
  <2>9. (named /\ c = d) \/ c = dot \/ c = n
    BY DEF d
  <2> HIDE DEF c
  <2> QED  BY <1>4, <1>5, <2>7, <2>8, <2>9
<1> HIDE DEF c
<1>8. CASE Then(c, <<>>)
  BY <1>2, <1>7, <1>8, Returns1
<1>9. CASE Then(a, (IF Tok(a) = ")" THEN <<>> ELSE <<E, A>>) \o <<X, G>>)
  <2>1. Has(a, {n.ret})
    <3>1. Stirs(c, a)
      BY <1>7, HasShape, StirsBy
    <3> HIDE DEF a
    <3> QED  BY <1>7, <3>1, HasMove
  <2>2. Then(a, <<X, G>>) \/ Then(a, <<E, A, X, G>>)
    <3> DEFINE p == Tok(a) = ")"
               fs == (IF p THEN <<>> ELSE <<E, A>>) \o <<X, G>>
    <3>1. Then(a, fs) /\ p \in BOOLEAN
      BY <1>9
    <3> HIDE DEF E, A, X, G, p
    <3>2. fs = <<X, G>> \/ fs = <<E, A, X, G>>
      BY <3>1, ArgsCat
    <3> HIDE DEF fs, a
    <3> QED  BY <3>1, <3>2
  <2> HIDE DEF a
  <2> DEFINE us == <<>>
             as == <<G>>
             bs == <<X, G>>
             cs == <<A, X, G>>
             ds == <<E, A, X, G>>
  <2>3. Pushed(as, G, us) /\ Pushed(bs, X, as) /\ Pushed(cs, A, bs) /\ Pushed(ds, E, cs)
    BY DEF Pushed, IsSeq
  <2>4. Lays(a, us, Want, {})
    BY <2>1, LaysNone DEF Has
  <2>5. IsNode(a, n.ret) /\ Mine(Want, n.ret) = {n.ret}
    BY <1>2, <2>1, HasShape, MineIs
  <2> HIDE DEF us, as, bs, cs, ds, m
  <2>6. Lays(a, bs, FALSE, {n.ret}) /\ Lays(a, ds, FALSE, {n.ret})
    <3>1. Lays(a, bs, FALSE, Mine(Want, n.ret)) /\ Lays(a, ds, FALSE, Mine(Want, n.ret))
      BY <2>1, <2>3, <2>4, <2>5, WantIs, ArgsLays
    <3> QED  BY <2>5, <3>1
  <2>7. Then(a, bs) \/ Then(a, ds)
    BY <2>2 DEF bs, ds
  <2> QED  BY <2>1, <2>6, <2>7, LaysEnd
<1> QED  BY <1>3, <1>8, <1>9

LEMMA AiLogicOwns == ASSUME Going, AiLogic PROVE OwnInv'
<1> DEFINE c == IF Tok(Ahead) \in {"str", "id"} THEN Adv(Ahead) ELSE Ahead
           members == [query |-> IF Tok(Ahead) \in {"str", "id"} THEN Word(Ahead.at) ELSE "auto"]
<1>1. Top.fn \in Idle /\ Then(Make(c, "AI_LOGIC", members), <<>>)
  BY DEF AiLogic, At, Top, Idle
<1>2. Stirs(cur, c)
  BY AheadIs, StirsBy
<1>3. DOMAIN members \intersect Pointers = {}
  BY DEF Pointers
<1> HIDE DEF c, members
<1> QED  BY <1>1, <1>2, <1>3, EndsWithNew

LEMMA NotPrimaryOwns == ASSUME Going, NotPrimary PROVE OwnInv'
<1>1. Then(NoExpression(cur), <<>>)
  BY DEF NotPrimary
<1>2. NoExpression(cur).bad
  BY CurIs DEF NoExpression, Fails, CurFields
<1> QED  BY <1>1, <1>2, BadOwns

LEMMA PostfixOwns == ASSUME Going, Postfix PROVE OwnInv'
<1>1. Top.fn \in Idle /\ Then(cur, <<F("primary"), F("postfixrest")>>)
  BY DEF Postfix, At, Top, Idle
<1>2. F("primary").fn \in Idle /\ F("postfixrest").fn \in Users
  BY FIs DEF Idle, Users
<1> QED  BY <1>1, <1>2, CurIs, IdleCalls2

(* A new node of the one returned.                                         *)
LEMMA MakesOfRet ==
  ASSUME NEW c, Has(c, {c.ret}), NEW type, NEW members, NEW m \in Given(type),
         DOMAIN members \intersect Pointers = {m}, members[m] = c.ret
  PROVE  LET d == Make(c, type, members) IN Has(d, {d.ret}) /\ IsNode(d, d.ret)
<1> DEFINE d == Make(c, type, members)
<1>1. Gains(d, {c.ret} \ {members[m]}, type)
  BY HasMake1
<1>2. {c.ret} \ {members[m]} = {}
  OBVIOUS
<1> HIDE DEF d
<1> QED  BY <1>1, <1>2, GainsOne DEF d

LEMMA PostfixRestOwns == ASSUME Going, PostfixRest PROVE OwnInv'
<1> DEFINE r == cur.ret
           call == Make(Ahead, "FUNC_CALL", [callee |-> r])
           access == Make(Adv(Ahead), "MEMBER_ACCESS", [object |-> r, member_name |-> Word(Ahead.at)])
           post == Make(Ahead, "POSTFIX_EXPR", [op |-> Tok(cur), operand |-> r])
           again == <<F("postfixrest")>>
<1>1. Top.fn \in Users
  BY DEF PostfixRest, At, Top, Users
<1>2. Want /\ Has(cur, {r})
  BY <1>1, UserTop
<1>3. \/ Then(Fails(Ahead), again) \/ Then(access, again) \/ Then(post, again) \/ Then(cur, <<>>)
      \/ Then(call, ArgsOf(call, call.ret, "args") \o again)
  BY DEF PostfixRest
<1>4. Stirs(cur, Ahead) /\ Stirs(cur, Adv(Ahead))
  BY AheadIs, StirsBy
<1>5. Has(Ahead, {r}) /\ Ahead.ret = r /\ Has(Adv(Ahead), {r}) /\ Adv(Ahead).ret = r
  BY <1>2, <1>4, MoveRet
<1>6. "callee" \in Given("FUNC_CALL") /\ "object" \in Given("MEMBER_ACCESS")
      /\ "operand" \in Given("POSTFIX_EXPR")
  BY NeedsGiven DEF Needs
<1>7. F("postfixrest").fn \in Users
  BY FIs DEF Users
<1> HIDE DEF r
<1>8. CASE Then(Fails(Ahead), again)
  <2>1. Fails(Ahead).bad
    BY <1>4 DEF Fails, Stirs, CurFields
  <2> QED  BY <1>8, <2>1, BadOwns
<1>9. CASE Then(access, again)
  <2> DEFINE members == [object |-> r, member_name |-> Word(Ahead.at)]
  <2>1. DOMAIN members \intersect Pointers = {"object"} /\ members["object"] = r
        /\ access = Make(Adv(Ahead), "MEMBER_ACCESS", members)
    BY DEF Pointers
  <2> HIDE DEF members, access
  <2>2. Has(access, {access.ret})
    BY <1>5, <1>6, <2>1, MakesOfRet
  <2> QED  BY <1>2, <1>7, <1>9, <2>2, User1
<1>10. CASE Then(post, again)
  <2> DEFINE members == [op |-> Tok(cur), operand |-> r]
  <2>1. DOMAIN members \intersect Pointers = {"operand"} /\ members["operand"] = r
        /\ post = Make(Ahead, "POSTFIX_EXPR", members)
    BY DEF Pointers
  <2> HIDE DEF members, post
  <2>2. Has(post, {post.ret})
    BY <1>5, <1>6, <2>1, MakesOfRet
  <2> QED  BY <1>2, <1>7, <1>10, <2>2, User1
<1>11. CASE Then(cur, <<>>)
  BY <1>2, <1>11, Returns1 DEF r
<1>12. CASE Then(call, ArgsOf(call, call.ret, "args") \o again)
  <2> DEFINE members == [callee |-> r]
             n == call.ret
             E == F("expression")
             A == List("args", n, "args")
             X == FExpect(")")
             G == FGive(n)
             P == F("postfixrest")
  <2>1. DOMAIN members \intersect Pointers = {"callee"} /\ members["callee"] = r
        /\ call = Make(Ahead, "FUNC_CALL", members)
    BY DEF Pointers
  <2> HIDE DEF members, call
  <2>2. Has(call, {n}) /\ IsNode(call, n)
    BY <1>5, <1>6, <2>1, MakesOfRet
  <2>3. Then(call, <<X, G, P>>) \/ Then(call, <<E, A, X, G, P>>)
    <3> DEFINE p == Tok(call) = ")"
               fs == (IF p THEN <<>> ELSE <<E, A>>) \o <<X, G>>
    <3>1. Then(call, fs \o <<P>>) /\ p \in BOOLEAN
      BY <1>12 DEF ArgsOf
    <3> HIDE DEF E, A, X, G, P, p
    <3>2. fs = <<X, G>> \/ fs = <<E, A, X, G>>
      BY <3>1, ArgsCat
    <3> HIDE DEF fs
    <3>3. <<X, G>> \o <<P>> = <<X, G, P>> /\ <<E, A, X, G>> \o <<P>> = <<E, A, X, G, P>>
      BY Concat21, Concat41
    <3> QED  BY <3>1, <3>2, <3>3
  <2> DEFINE us == <<P>>
             as == <<G, P>>
             bs == <<X, G, P>>
             cs == <<A, X, G, P>>
             ds == <<E, A, X, G, P>>
  <2>4. Pushed(as, G, us) /\ Pushed(bs, X, as) /\ Pushed(cs, A, bs) /\ Pushed(ds, E, cs)
    BY DEF Pushed, IsSeq
  <2>5. Lays(call, us, TRUE, {})
    <3>1. Rung(call, P, Want, {}, TRUE) /\ Grows(call)
      BY <1>2, <1>7, <2>2, UserRung DEF Has
    <3> QED  BY <3>1, Lays1
  <2>6. Mine(TRUE, n) = {n}
    BY MineIs
  <2> HIDE DEF us, as, bs, cs, ds
  <2>7. Lays(call, bs, FALSE, {n}) /\ Lays(call, ds, FALSE, {n})
    <3>1. Lays(call, bs, FALSE, Mine(TRUE, n)) /\ Lays(call, ds, FALSE, Mine(TRUE, n))
      BY <2>2, <2>4, <2>5, <2>6, ArgsLays
    <3> QED  BY <2>6, <3>1
  <2>8. Then(call, bs) \/ Then(call, ds)
    BY <2>3 DEF bs, ds
  <2> QED  BY <2>2, <2>7, <2>8, LaysEnd
<1> QED  BY <1>3, <1>8, <1>9, <1>10, <1>11, <1>12

LEMMA UnaryOwns == ASSUME Going, Unary PROVE OwnInv'
<1> DEFINE g == FNodeOp("unaryrest", NULL, Tok(cur))
<1>1. Top.fn \in Idle /\ (Then(Ahead, <<F("unary"), g>>) \/ Then(cur, <<F("postfix")>>))
  BY DEF Unary, At, Top, Idle
<1>2. F("unary").fn \in Idle /\ F("postfix").fn \in Idle /\ g.fn \in Users
  BY FIs, NodeIs DEF Idle, Users
<1> HIDE DEF g
<1> QED  BY <1>1, <1>2, AheadIs, CurIs, IdleCalls1, IdleCalls2

LEMMA UnaryRestOwns == ASSUME Going, UnaryRest PROVE OwnInv'
<1> DEFINE members == [op |-> Top.op, operand |-> cur.ret]
           d == Make(cur, "UNARY_EXPR", members)
<1>1. Top.fn \in Users /\ Then(d, <<>>)
  BY CurIs DEF UnaryRest, At, Top, Users
<1>2. Want /\ Has(cur, {cur.ret})
  BY <1>1, UserTop
<1>3. DOMAIN members \intersect Pointers = {"operand"} /\ members["operand"] = cur.ret
  BY DEF Pointers
<1>4. "operand" \in Given("UNARY_EXPR")
  BY NeedsGiven DEF Needs
<1> HIDE DEF members
<1>5. Has(d, {d.ret})
  BY <1>2, <1>3, <1>4, MakesOfRet
<1> HIDE DEF d
<1> QED  BY <1>1, <1>2, <1>5, Returns1

LEMMA OperandIdle == \A l \in Levels : F(Binary[l].operand).fn \in Idle
<1>1. \A l \in Levels : Binary[l].operand \in Idle
  BY LevelsAre DEF Levels, Binary, Level, Idle
<1> QED  BY <1>1, FIs

LEMMA BinaryExprOwns == ASSUME Going, BinaryExpr PROVE OwnInv'
<1> DEFINE f == F(Binary[Top.fn].operand)
           g == List("left", NULL, Top.fn)
<1>1. Top.fn \in DOMAIN Binary /\ Then(cur, <<f, g>>)
  BY DEF BinaryExpr
<1>2. Top.fn \in Levels /\ Top.fn \in Idle
  BY <1>1 DEF Binary, Levels, Idle
<1>3. f.fn \in Idle /\ g.fn \in Users
  BY <1>2, OperandIdle, NodeIs DEF Users
<1> HIDE DEF f, g
<1> QED  BY <1>1, <1>2, <1>3, CurIs, IdleCalls2

(* What was returned waits for what is called.                             *)
LEMMA IdleWait ==
  ASSUME Going, Want, NEW c, NEW f, f.fn \in Idle, NEW g,
         g.fn \in {"right", "flowright", "assigned"}, Has(c, {g.n}), Then(c, <<f, g>>)
  PROVE  OwnInv'
<1> DEFINE X == {g.n}
<1>1. g.n \in X
  OBVIOUS
<1> HIDE DEF X
<1>2. Has(c, X)
  BY DEF X
<1>3. IsNode(c, g.n)
  BY <1>1, <1>2, HasShape
<1>4. Rung(c, g, TRUE, X, TRUE)
  <2>1. g.n # NULL
    BY <1>3 DEF IsNode, NULL
  <2> QED  BY <1>3, <2>1 DEF X, Rung, Sits, Own, Goes, Kind, Passing, Using, Returning, Waiting,
                  Listing, Barren
<1>5. Want = TRUE
  BY WantIs
<1>6. Rung(c, g, Want, X, TRUE)
  BY <1>4, <1>5
<1> QED  BY <1>2, <1>6, Idle2

LEMMA LeftOperandOwns == ASSUME Going, LeftOperand PROVE OwnInv'
<1> DEFINE f == F(Binary[Top.m].operand)
           g == [Top EXCEPT !.fn = "right", !.n = cur.ret, !.op = Tok(cur)]
<1>1. Top.fn = "left" /\ (Then(Ahead, <<f, g>>) \/ Then(cur, <<>>))
  BY DEF LeftOperand, At, Top
<1>2. Want /\ Has(cur, {cur.ret})
  BY <1>1, UserTop DEF Users
<1>3. Top.m \in Levels
  BY <1>1 DEF Going, Calling, FrameOk
<1>4. f.fn \in Idle
  BY <1>3, OperandIdle
<1>5. g.fn = "right" /\ g.n = cur.ret
  BY CurIs DEF FrameFields
<1> HIDE DEF f, g
<1>6. CASE Then(Ahead, <<f, g>>)
  <2>1. Has(Ahead, {cur.ret})
    BY <1>2, AheadIs, MoveRet
  <2>2. Has(Ahead, {g.n}) /\ g.fn \in {"right", "flowright", "assigned"}
    BY <1>5, <2>1
  <2> QED  BY <1>2, <1>4, <1>6, <2>2, IdleWait
<1>7. CASE Then(cur, <<>>)
  BY <1>2, <1>7, Returns1
<1> QED  BY <1>1, <1>6, <1>7

(* The two nodes of an operator become one.                                *)
LEMMA MakesOfTwo ==
  ASSUME Going, Top.fn \in {"right", "flowright", "assigned"},
         NEW type \in {"BINARY_EXPR", "ASSIGNMENT", "NEXUS_FLOW", "NEXUS_PIPE"}
  PROVE  LET d == Make(cur, type, [op |-> Top.op, left |-> Top.n, right |-> cur.ret])
         IN  Want /\ Has(d, {d.ret})
<1> DEFINE d == Make(cur, type, [op |-> Top.op, left |-> Top.n, right |-> cur.ret])
<1>1. Want /\ Has(cur, {Top.n, cur.ret}) /\ cur.ret # Top.n
  BY WaitTop
<1>2. {"left", "right"} \subseteq Given(type)
  BY NeedsGiven DEF Needs
<1>3. Gains(d, {Top.n, cur.ret} \ {Top.n, cur.ret}, type)
  BY <1>1, <1>2, HasMake2
<1>4. {Top.n, cur.ret} \ {Top.n, cur.ret} = {}
  OBVIOUS
<1> HIDE DEF d
<1> QED  BY <1>1, <1>3, <1>4, GainsOne DEF d

LEMMA RightOperandOwns == ASSUME Going, RightOperand PROVE OwnInv'
<1> DEFINE d == Make(cur, "BINARY_EXPR", [op |-> Top.op, left |-> Top.n, right |-> cur.ret])
           g == List("left", NULL, Top.m)
<1>1. Top.fn = "right" /\ (Then(d, <<g>>) \/ Then(d, <<>>))
  BY CurIs DEF RightOperand, At, Top, Joined
<1>2. Want /\ Has(d, {d.ret})
  BY <1>1, MakesOfTwo
<1>3. g.fn \in Users
  BY NodeIs DEF Users
<1> HIDE DEF d, g
<1> QED  BY <1>1, <1>2, <1>3, Returns1, User1

LEMMA NexusFlowOwns == ASSUME Going, NexusFlow PROVE OwnInv'
<1>1. Top.fn \in Idle /\ Then(cur, <<F("range"), F("flowop")>>)
  BY DEF NexusFlow, At, Top, Idle
<1>2. F("range").fn \in Idle /\ F("flowop").fn \in Users
  BY FIs DEF Idle, Users
<1> QED  BY <1>1, <1>2, CurIs, IdleCalls2

LEMMA AssignmentOwns == ASSUME Going, Assignment PROVE OwnInv'
<1>1. Top.fn \in Idle /\ Then(cur, <<F("flow"), F("assign")>>)
  BY DEF Assignment, At, Top, Idle
<1>2. F("flow").fn \in Idle /\ F("assign").fn \in Users
  BY FIs DEF Idle, Users
<1> QED  BY <1>1, <1>2, CurIs, IdleCalls2

LEMMA FlowOpOwns == ASSUME Going, FlowOp PROVE OwnInv'
<1> DEFINE r == cur.ret
           f == F("range")
           g == FNodeOp("flowright", r, Tok(cur))
           h == FNodeOp("flowright", r, "->")
           d == Match(Consume(Match(Adv(Ahead), "num"), COMMA), "num")
           c == Lose(Consume(Consume(d, ")"), "->"), "retry")
<1>1. /\ Top.fn = "flowop"
      /\ \/ Then(Ahead, <<f, g>>) \/ Then(Fails(Ahead), <<>>)
         \/ Then(c, <<f, h>>) \/ Then(cur, <<F("flowend")>>)
  BY CurIs DEF FlowOp, At, Top
<1>2. Want /\ Has(cur, {r})
  BY <1>1, UserTop DEF Users
<1>3. f.fn \in Idle /\ F("flowend").fn \in Users
  BY FIs DEF Idle, Users
<1>4. /\ g.n = r /\ g.fn \in {"right", "flowright", "assigned"}
      /\ h.n = r /\ h.fn \in {"right", "flowright", "assigned"}
  BY NodeIs
<1>5. Stirs(cur, Ahead) /\ Stirs(cur, c)
  <2>1. Stirs(cur, d)
    BY AheadIs, StirsBy
  <2> HIDE DEF d
  <2>2. Stirs(cur, Consume(Consume(d, ")"), "->"))
    BY <2>1, StirsBy
  <2> QED  BY <2>2, AheadIs, StirsBy
<1> HIDE DEF f, g, h, c, r
<1>6. Has(Ahead, {r}) /\ Has(c, {r})
  BY <1>2, <1>5, MoveRet
<1>7. CASE Then(Ahead, <<f, g>>)
  <2>1. Has(Ahead, {g.n})
    BY <1>4, <1>6
  <2> QED  BY <1>2, <1>3, <1>4, <1>7, <2>1, IdleWait
<1>8. CASE Then(c, <<f, h>>)
  <2>1. Has(c, {h.n})
    BY <1>4, <1>6
  <2> QED  BY <1>2, <1>3, <1>4, <1>8, <2>1, IdleWait
<1>9. CASE Then(Fails(Ahead), <<>>)
  <2>1. Fails(Ahead).bad
    BY <1>5 DEF Fails, Stirs, CurFields
  <2> QED  BY <1>9, <2>1, BadOwns
<1>10. CASE Then(cur, <<F("flowend")>>)
  BY <1>2, <1>3, <1>10, User1 DEF r
<1> QED  BY <1>1, <1>7, <1>8, <1>9, <1>10

LEMMA FlowRightOwns == ASSUME Going, FlowRight PROVE OwnInv'
<1> DEFINE type == IF Top.op \in Pipes THEN "NEXUS_PIPE" ELSE "NEXUS_FLOW"
           d == Make(cur, type, [op |-> Top.op, left |-> Top.n, right |-> cur.ret])
           f == F("flowend")
<1>1. Top.fn = "flowright" /\ Then(d, <<f>>)
  BY CurIs DEF FlowRight, At, Top
<1>2. type \in {"BINARY_EXPR", "ASSIGNMENT", "NEXUS_FLOW", "NEXUS_PIPE"}
  OBVIOUS
<1>3. Top.fn \in {"right", "flowright", "assigned"}
  BY <1>1
<1> HIDE DEF type
<1>4. Want /\ Has(d, {d.ret})
  BY <1>2, <1>3, MakesOfTwo
<1>5. f.fn \in Users
  BY FIs DEF Users
<1> HIDE DEF d, f
<1> QED  BY <1>1, <1>4, <1>5, User1

LEMMA AssignedOwns == ASSUME Going, Assigned PROVE OwnInv'
<1> DEFINE d == Make(cur, "ASSIGNMENT", [op |-> Top.op, left |-> Top.n, right |-> cur.ret])
<1>1. Top.fn = "assigned" /\ Then(d, <<>>)
  BY CurIs DEF Assigned, At, Top
<1>2. Want /\ Has(d, {d.ret})
  BY <1>1, MakesOfTwo
<1> HIDE DEF d
<1> QED  BY <1>1, <1>2, Returns1

LEMMA FlowEndOwns == ASSUME Going, FlowEnd PROVE OwnInv'
<1> DEFINE r == cur.ret
           c == Lose(Ahead, "unpack")
           m == "catch_block"
           f == F("flow")
           g == F("block")
<1>1. /\ Top.fn \in Users
      /\ \/ Then(c, <<f>>) \/ Then(Ahead, <<g, FSet(r, m)>>) \/ Then(Fails(Ahead), <<>>)
         \/ Then(cur, <<>>)
  BY DEF FlowEnd, At, Top, Users
<1>2. Want /\ Has(cur, {r}) /\ IsNode(cur, r)
  BY <1>1, UserTop, CurIs
<1>3. Stirs(cur, Ahead) /\ Stirs(cur, c) /\ c.lost # {}
  <2>1. Stirs(cur, Ahead)
    BY AheadIs
  <2>2. c.lost # {}
    BY <2>1 DEF Lose, Stirs, CurFields
  <2> QED  BY <2>1, <2>2, StirsBy
<1>4. f.fn \in Idle /\ g.fn \in Idle /\ m \in Pointers
  BY FIs DEF Idle, Pointers
<1> HIDE DEF c, r, m, f, g
<1>5. Has(Ahead, {r}) /\ Has(c, {r})
  BY <1>2, <1>3, MoveRet
<1>6. CASE Then(c, <<f>>)
  <2>1. {} \subseteq {r}
    OBVIOUS
  <2>2. Has(c, {})
    BY <1>3, <1>5, <2>1, HasLess
  <2> QED  BY <1>2, <1>4, <1>6, <2>2, Idle1
<1>7. CASE Then(Ahead, <<g, FSet(r, m)>>)
  <2>1. Mine(Want, r) = {r}
    BY <1>2, MineIs
  <2>2. Has(Ahead, Mine(Want, r)) /\ IsNode(Ahead, r)
    <3>1. IsNode(Ahead, r)
      BY <1>2, <1>5, HasShape
    <3> QED  BY <1>5, <2>1, <3>1
  <2> QED  BY <1>4, <1>7, <2>2, IdleSet
<1>8. CASE Then(Fails(Ahead), <<>>)
  <2>1. Fails(Ahead).bad
    BY <1>3 DEF Fails, Stirs, CurFields
  <2> QED  BY <1>8, <2>1, BadOwns
<1>9. CASE Then(cur, <<>>)
  BY <1>2, <1>9, Returns1 DEF r
<1> QED  BY <1>1, <1>6, <1>7, <1>8, <1>9

LEMMA AssignOwns == ASSUME Going, Assign PROVE OwnInv'
<1> DEFINE r == cur.ret
           members == [handler_name |-> cur.nodes[r].at["name"]]
           d == Make(Ahead, "NEXUS_CAPTURE", members)
           m == "expr"
           f == F("expression")
           g == FNodeOp("assigned", r, Tok(cur))
<1>1. /\ Top.fn \in Users
      /\ \/ cur.nodes[r].type = "IDENTIFIER" /\ Then(d, <<f, FSet(d.ret, m)>>)
         \/ Then(Ahead, <<f, g>>) \/ Then(Fails(Ahead), <<>>) \/ Then(cur, <<>>)
  BY DEF Assign, At, Top, Users, TypeOf
<1>2. Want /\ Has(cur, {r}) /\ IsNode(cur, r)
  BY <1>1, UserTop, CurIs
<1>3. Stirs(cur, Ahead)
  BY AheadIs
<1>4. f.fn \in Idle /\ m \in Pointers
  BY FIs DEF Idle, Pointers
<1>5. g.n = r /\ g.fn \in {"right", "flowright", "assigned"}
  BY NodeIs
<1>6. DOMAIN members \intersect Pointers = {}
  BY DEF Pointers
<1> HIDE DEF r, m, f, g, members
<1>7. Has(Ahead, {r})
  BY <1>2, <1>3, MoveRet
<1>8. CASE Then(Ahead, <<f, g>>)
  <2>1. Has(Ahead, {g.n})
    BY <1>5, <1>7
  <2> QED  BY <1>2, <1>4, <1>5, <1>8, <2>1, IdleWait
<1>9. CASE cur.nodes[r].type = "IDENTIFIER" /\ Then(d, <<f, FSet(d.ret, m)>>)
  <2> DEFINE n == d.ret
             P == {r} \union {n}
             Q == {n}
  <2>1. Gains(d, {r}, "NEXUS_CAPTURE")
    BY <1>6, <1>7, HasMake0
  <2> HIDE DEF d
  <2>2. Has(d, P) /\ IsNode(d, n)
    BY <2>1 DEF Gains
  <2>3. Excused(d, r)
    <3>1. d.nodes[r].type = cur.nodes[r].type
      BY <1>2, <2>2, HasShape
    <3> QED  BY <1>9, <3>1 DEF Excused
  <2>4. Q \subseteq P /\ \A x \in P \ Q : Excused(d, x)
    BY <2>3
  <2> HIDE DEF P, Q
  <2>5. Has(d, Q)
    BY <2>2, <2>4, HasLess
  <2>6. Mine(Want, n) = Q
    BY <1>2, MineIs DEF Q
  <2>7. Has(d, Mine(Want, n)) /\ IsNode(d, n) /\ Then(d, <<f, FSet(n, m)>>)
    BY <1>9, <2>2, <2>5, <2>6
  <2> HIDE DEF n
  <2> QED  BY <1>4, <2>7, IdleSet
<1>10. CASE Then(Fails(Ahead), <<>>)
  <2>1. Fails(Ahead).bad
    BY <1>3 DEF Fails, Stirs, CurFields
  <2> QED  BY <1>10, <2>1, BadOwns
<1>11. CASE Then(cur, <<>>)
  BY <1>2, <1>11, Returns1 DEF r
<1> QED  BY <1>1, <1>8, <1>9, <1>10, <1>11

-------------------------------------------------------------------------------
(* Declarations, blocks and lists.                                         *)

(* The node made goes to a function that keeps it, or begins a list.       *)
LEMMA KeepsGive ==
  ASSUME Going, Want, NEW c, NEW f, f.fn \in Givers, f.head = NULL, Has(c, {f.n}), Then(c, <<f>>)
  PROVE  OwnInv'
<1> DEFINE X == {f.n}
<1>1. f.n \in X /\ Has(c, X)
  OBVIOUS
<1>2. Mine(TRUE, f.n) = X /\ Want = TRUE
  BY WantIs, MineIs
<1> HIDE DEF X
<1>3. IsNode(c, f.n)
  BY <1>1, HasShape
<1>4. Rung(c, f, TRUE, Mine(TRUE, f.n), FALSE)
  BY <1>3, GiveRung
<1>5. Rung(c, f, Want, X, FALSE)
  BY <1>2, <1>4
<1> QED  BY <1>1, <1>5, Keeps1

LEMMA KeepsRow ==
  ASSUME Going, Want, NEW c, NEW f, f.fn \in Rows, f.head = NULL, Has(c, {f.n}), Then(c, <<f>>)
  PROVE  OwnInv'
<1> DEFINE X == {f.n}
<1>1. f.n \in X /\ Has(c, X)
  OBVIOUS
<1>2. Mine(TRUE, f.n) = X /\ Want = TRUE /\ Some(f.head) = {}
  BY WantIs, MineIs DEF Some
<1> HIDE DEF X
<1>3. IsNode(c, f.n) /\ f.n # f.head /\ Lists1(c, f)
  BY <1>1, HasShape DEF Lists1, IsNode, NULL
<1>4. Rung(c, f, TRUE, Mine(TRUE, f.n) \union Some(f.head), FALSE)
  BY <1>3, RowRung
<1>5. Rung(c, f, Want, X, FALSE)
  BY <1>2, <1>4
<1> QED  BY <1>1, <1>5, Keeps1

LEMMA BlockOwns == ASSUME Going, Block PROVE OwnInv'
<1> DEFINE c == Bare(cur, "BLOCK")
           f == List("statements", c.ret, NoName)
<1>1. Top.fn \in Idle /\ Then(c, <<f>>)
  BY DEF Block, At, Top, Idle
<1>2. DOMAIN <<>> \intersect Pointers = {}
  OBVIOUS
<1>3. Want /\ Gains(c, {}, "BLOCK")
  BY <1>1, <1>2, CurIs, MakesOne DEF Bare
<1>4. f.fn \in Rows /\ f.head = NULL /\ f.n = c.ret
  BY NodeIs DEF Rows
<1> HIDE DEF c, f
<1>5. Has(c, {f.n})
  BY <1>3, <1>4, GainsOne
<1> QED  BY <1>1, <1>3, <1>4, <1>5, KeepsRow

LEMMA TypeDeclOwns == ASSUME Going, TypeDecl PROVE OwnInv'
<1> DEFINE given == Top.m # NoName \/ toks[cur.prev].type \in {"struct:", "union:", "enum:"}
           colon == Match(cur, ":")
           name == IF Top.m # NoName THEN Top.m ELSE IF given THEN Word(cur.prev)
                   ELSE IF Tok(colon) = "id" THEN Word(colon.at) ELSE Zero
           c == IF given THEN cur
                ELSE IF Tok(colon) # "id" /\ Top.op = "STRUCT_DECL" THEN Fails(colon)
                ELSE Match(colon, "id")
           fn == IF Top.op = "ENUM_DECL" THEN "variants" ELSE "fields"
           members == [name |-> name]
           d == Make(c, Top.op, members)
           e == Consume(d, LBRACE)
           f == List(fn, d.ret, NoName)
<1>1. fn \in {"variants", "fields"}
  OBVIOUS
<1>2. Then(e, <<f>>) /\ Top.fn \in Idle
  BY DEF TypeDecl, At, Top, Idle
<1> HIDE DEF given, name, fn
<1>3. Stirs(cur, c)
  <2>1. Stirs(cur, colon)
    BY CurIs, StirsBy
  <2> HIDE DEF colon
  <2>2. Stirs(cur, Fails(colon)) /\ Stirs(cur, Match(colon, "id"))
    BY <2>1, StirsBy
  <2> QED  BY <2>2, CurIs
<1>4. DOMAIN members \intersect Pointers = {}
  BY DEF Pointers
<1> HIDE DEF members, c
<1>5. Want /\ Gains(d, {}, Top.op)
  BY <1>2, <1>3, <1>4, MakesOne
<1>6. f.fn \in Rows /\ f.head = NULL /\ f.n = d.ret
  BY <1>1, NodeIs DEF Rows
<1> HIDE DEF d, f
<1>7. Has(d, {f.n}) /\ DOMAIN d = CurFields
  BY <1>5, <1>6, GainsOne
<1>8. Stirs(d, e)
  BY <1>7, HasShape, StirsBy
<1> HIDE DEF e
<1>9. Has(e, {f.n})
  BY <1>7, <1>8, HasMove
<1> QED  BY <1>2, <1>5, <1>6, <1>9, KeepsRow

LEMMA GroupOwns == ASSUME Going, Group PROVE OwnInv'
<1> DEFINE m == Match(cur, "id")
           members == [name |-> IF Sees({"id"}) THEN Word(cur.at) ELSE Zero]
           d == Make(m, "GROUP_DECL", members)
           e == Consume(d, LBRACE)
           f == List("members", d.ret, NoName)
<1>1. Then(e, <<f>>) /\ Top.fn \in Idle
  BY DEF Group, At, Top, Idle
<1>2. Stirs(cur, m)
  BY CurIs, StirsBy
<1>3. DOMAIN members \intersect Pointers = {}
  BY DEF Pointers
<1> HIDE DEF members, m
<1>4. Want /\ Gains(d, {}, "GROUP_DECL")
  BY <1>1, <1>2, <1>3, MakesOne
<1>5. f.fn \in Rows /\ f.head = NULL /\ f.n = d.ret
  BY NodeIs DEF Rows
<1> HIDE DEF d, f
<1>6. Has(d, {f.n})
  BY <1>4, <1>5, GainsOne
<1>7. Stirs(d, e)
  BY <1>6, HasShape, StirsBy
<1> HIDE DEF e
<1>8. Has(e, {f.n})
  BY <1>6, <1>7, HasMove
<1> QED  BY <1>1, <1>4, <1>5, <1>8, KeepsRow

LEMMA VarInitOwns == ASSUME Going, VarInit PROVE OwnInv'
<1> DEFINE n == Top.n
           m == "initializer"
           f == F("expression")
           d == [cur EXCEPT !.ret = n]
<1>1. Top.fn \in Givers /\ (Then(Ahead, <<f, FSet(n, m)>>) \/ Then(d, <<>>))
  BY DEF VarInit, At, Top, Givers
<1>2. Has(cur, Mine(Want, n)) /\ IsNode(cur, n)
  BY <1>1, GiveTop
<1>3. f.fn \in Idle /\ m \in Pointers
  BY FIs DEF Idle, Pointers
<1>4. DOMAIN d = CurFields /\ d.nodes = cur.nodes /\ d.lost = cur.lost /\ d.ret = n
  BY CurIs DEF CurFields
<1> HIDE DEF n, m, f, d
<1>5. CASE Then(Ahead, <<f, FSet(n, m)>>)
  <2>1. Has(Ahead, Mine(Want, n))
    BY <1>2, AheadIs, MoveRet
  <2>2. IsNode(Ahead, n)
    BY <1>2, <2>1, HasShape
  <2> QED  BY <1>3, <1>5, <2>1, <2>2, IdleSet
<1>6. CASE Then(d, <<>>)
  BY <1>2, <1>4, <1>6, StopsWith
<1> QED  BY <1>1, <1>5, <1>6

LEMMA VarDeclOwns == ASSUME Going, VarDecl PROVE OwnInv'
<1> DEFINE id == IF Len(Spelled(cur.prev)) > 2 \/ Sees({"id"}) THEN cur ELSE Fails(cur)
           b == IF Len(Spelled(cur.prev)) > 2 THEN id ELSE Match(id, "id")
           members == [name |-> IF Len(Spelled(cur.prev)) > 2 THEN Word(cur.prev)
                                ELSE IF Sees({"id"}) THEN Word(cur.at) ELSE Zero]
           c == Make(b, "VAR_DECL", members)
           a == Adv(c)
           n == c.ret
           typed == Put(a, n, "type_name", Word(a.at))
           kind == KindOf(Tok(a))
           e == Adv(typed)
           body == Bare(Adv(e), kind)
           g == FNode("init", n)
           h == FSet(n, "inline_type")
           f == List("fields", body.ret, NoName)
<1>1. /\ Top.fn \in Idle
      /\ \/ Then(c, <<g>>) \/ Then(e, <<g>>) \/ Then(body, <<f, h, g>>) \/ Then(Fails(a), <<g>>)
  BY DEF VarDecl, At, Top, Idle
<1>2. Stirs(cur, b)
  <2>1. Stirs(cur, id)
    BY CurIs, StirsBy
  <2> HIDE DEF id
  <2> QED  BY <2>1, StirsBy
<1>3. DOMAIN members \intersect Pointers = {} /\ "type_name" \notin Pointers
  BY DEF Pointers
<1> HIDE DEF b, members
<1>4. Want /\ Gains(c, {}, "VAR_DECL")
  BY <1>1, <1>2, <1>3, MakesOne
<1> HIDE DEF c
<1>5. Has(c, {n}) /\ IsNode(c, n)
  BY <1>4, GainsOne
<1> DEFINE X == {n}
<1>6. n \in X /\ Has(c, X)
  BY <1>5
<1> HIDE DEF X
<1>7. Stirs(c, a)
  BY <1>6, HasShape, StirsBy
<1>8. Has(a, X) /\ IsNode(a, n)
  <2>1. Has(a, X)
    BY <1>6, <1>7, HasMove
  <2> QED  BY <1>6, <2>1, HasShape
<1> HIDE DEF a, n
<1>9. Has(typed, X)
  BY <1>3, <1>8, HasWord
<1>10. Has(e, X) /\ Has(Adv(e), X)
  <2> HIDE DEF typed
  <2>1. Stirs(typed, e) /\ Stirs(typed, Adv(e))
    BY <1>9, HasShape, StirsBy
  <2> QED  BY <1>9, <2>1, HasMove
<1>11. g.fn \in Givers /\ g.head = NULL /\ g.n = n
  BY NodeIs DEF Givers
<1>12. DOMAIN <<>> \intersect Pointers = {}
  OBVIOUS
<1> HIDE DEF e, g, kind
<1>13. CASE Then(c, <<g>>)
  <2>1. Has(c, {g.n})
    BY <1>6, <1>11 DEF X
  <2> QED  BY <1>4, <1>11, <1>13, <2>1, KeepsGive
<1>14. CASE Then(e, <<g>>)
  <2>1. Has(e, {g.n})
    BY <1>10, <1>11 DEF X
  <2> QED  BY <1>4, <1>11, <1>14, <2>1, KeepsGive
<1>15. CASE Then(Fails(a), <<g>>)
  <2>1. Fails(a).bad
    BY <1>7 DEF Fails, Stirs, CurFields
  <2> QED  BY <1>15, <2>1, BadOwns
<1>16. CASE Then(body, <<f, h, g>>)
  <2>1. Gains(body, X, kind)
    BY <1>10, HasBare
  <2> HIDE DEF body
  <2> DEFINE Z == {body.ret}
             Y == Mine(FALSE, n)
  <2>2. Has(body, X \union Z) /\ body.ret \notin X /\ IsNode(body, body.ret)
    BY <2>1 DEF Gains
  <2>3. IsNode(body, n)
    <3>1. n \in X \union Z
      BY <1>6
    <3> HIDE DEF Z
    <3> QED  BY <2>2, <3>1, HasShape
  <2>4. Rung(body, g, Want, X, FALSE)
    <3>1. Rung(body, g, TRUE, Mine(TRUE, n), FALSE)
      BY <1>11, <2>3, GiveRung
    <3>2. Mine(TRUE, n) = X /\ Want = TRUE
      BY <1>4, WantIs, MineIs DEF X
    <3> QED  BY <3>1, <3>2
  <2>5. h.fn \in Setters /\ h.n = n /\ h.head = NULL /\ h.m \in Pointers
    BY NodeIs DEF Setters, Pointers
  <2>6. f.fn \in Rows /\ f.n = body.ret /\ f.head = NULL
    BY NodeIs DEF Rows
  <2> HIDE DEF h, f
  <2>7. Rung(body, h, FALSE, Y, TRUE)
    BY <2>3, <2>5, SetRung
  <2>8. Rung(body, f, TRUE, Z, FALSE)
    <3>1. f.n # f.head /\ Lists1(body, f) /\ Some(f.head) = {}
      BY <2>2, <2>6 DEF IsNode, NULL, Lists1, Some
    <3>2. Rung(body, f, TRUE, Mine(TRUE, f.n) \union Some(f.head), FALSE)
      BY <2>2, <2>6, <3>1, RowRung
    <3>3. Mine(TRUE, f.n) \union Some(f.head) = Z
      BY <2>6, <3>1, MineIs
    <3> QED  BY <3>2, <3>3
  <2>9. /\ Y = {} /\ X \intersect Y = {} /\ Z \intersect (X \union Y) = {}
        /\ X \union Y \union Z \union Returned(body, FALSE) = X \union Z
    BY <2>2, MineIs DEF Returned
  <2>10. Has(body, X \union Y \union Z \union Returned(body, FALSE))
    BY <2>2, <2>9
  <2> HIDE DEF X, Y, Z
  <2> QED  BY <1>16, <2>4, <2>7, <2>8, <2>9, <2>10, Calling3
<1> QED  BY <1>1, <1>13, <1>14, <1>15, <1>16

(* A new node n is linked to the list of the frame, or will be.            *)
RowKeeps == Mine(Want, Top.n) \union Some(Top.head)
Grown(c, n) ==
  /\ Has(c, RowKeeps \union {n}) /\ n \notin RowKeeps /\ IsNode(c, n) /\ c.ret = n
  /\ Rung(c, FLink(Top), Want, RowKeeps, TRUE)

LEMMA RowHas ==
  ASSUME Going, Top.fn \in Rows
  PROVE  /\ Has(cur, RowKeeps)
         /\ \A c : Has(c, RowKeeps) => Rung(c, FLink(Top), Want, RowKeeps, TRUE)
<1>1. /\ Has(cur, RowKeeps) /\ IsNode(cur, Top.n) /\ Lists1(cur, Top)
      /\ (Want => Top.n # Top.head)
  BY RowTop DEF RowKeeps
<1> SUFFICES ASSUME NEW c, Has(c, RowKeeps) PROVE Rung(c, FLink(Top), Want, RowKeeps, TRUE)
  BY <1>1
<1>2. \A n : IsNode(cur, n) => IsNode(c, n)
  BY HasShape
<1>3. IsNode(c, Top.n) /\ Lists1(c, Top)
  BY <1>1, <1>2 DEF Lists1
<1> QED  BY <1>1, <1>3, CurIs, WantIs, LinkRung DEF RowKeeps

LEMMA SameRung ==
  ASSUME NEW c, NEW d, Stirs(c, d), NEW f, NEW l, NEW X, NEW g, Rung(c, f, l, X, g)
  PROVE  Rung(d, f, l, X, g)
  BY DEF Rung, Sits, Stirs, IsNode

LEMMA RowNew ==
  ASSUME Going, Top.fn \in Rows, NEW c, Stirs(cur, c), NEW type, NEW members,
         DOMAIN members \intersect Pointers = {}
  PROVE  LET d == Make(c, type, members) IN Grown(d, d.ret) /\ DOMAIN d = CurFields
<1> DEFINE d == Make(c, type, members)
<1>1. Has(cur, RowKeeps)
  BY RowHas
<1>2. Has(c, RowKeeps)
  BY <1>1, MoveRet
<1>3. Gains(d, RowKeeps, type)
  BY <1>2, HasMake0
<1>4. \A n : IsNode(cur, n) => IsNode(d, n)
  BY <1>3, HasShape DEF Gains
<1> HIDE DEF d
<1>5. IsNode(cur, Top.n) /\ Lists1(cur, Top) /\ (Want => Top.n # Top.head)
  BY RowTop
<1>6. IsNode(d, Top.n) /\ Lists1(d, Top)
  BY <1>4, <1>5 DEF Lists1
<1>7. Rung(d, FLink(Top), Want, RowKeeps, TRUE)
  BY <1>5, <1>6, CurIs, WantIs, LinkRung DEF RowKeeps
<1> QED  BY <1>3, <1>7 DEF Gains, Grown, d

LEMMA GrownMove ==
  ASSUME NEW c, NEW n, Grown(c, n), NEW d, Stirs(c, d) PROVE Grown(d, n)
<1> DEFINE P == RowKeeps \union {n}
<1>1. Has(c, P) /\ Rung(c, FLink(Top), Want, RowKeeps, TRUE)
  BY DEF Grown
<1> HIDE DEF P
<1>2. Has(d, P) /\ Rung(d, FLink(Top), Want, RowKeeps, TRUE)
  BY <1>1, HasMove, SameRung
<1>3. IsNode(d, n) /\ d.ret = n
  BY DEF Grown, Stirs, IsNode
<1> QED  BY <1>2, <1>3 DEF Grown, P

LEMMA GrownLinks ==
  ASSUME Going, NEW c, NEW n, Grown(c, n), Then(c, <<FLink(Top)>>) PROVE OwnInv'
<1> DEFINE X == RowKeeps
           g == FLink(Top)
<1>1. /\ Rung(c, g, Want, X, TRUE) /\ c.ret \notin X
      /\ Has(c, X \union Returned(c, TRUE))
  BY DEF Grown, Returned
<1> HIDE DEF X, g
<1> QED  BY <1>1, Calling1 DEF g

LEMMA FieldsOwns == ASSUME Going, Fields PROVE OwnInv'
<1> DEFINE b == Put(cur, Top.n, "fields", Top.head)
           c == Consume(b, RBRACE)
           s == Skip(cur, "field")
           f == F("vardecl")
<1>1. Top.fn \in Rows
  BY DEF Fields, At, Top, Rows
<1>2. Then(c, <<FGive(Top.n)>>) \/ Then(Ahead, <<f, FLink(Top)>>) \/ Then(s, <<Top>>)
  BY DEF Fields
<1>3. CASE Then(c, <<FGive(Top.n)>>)
  <2>1. "fields" \in Pointers /\ Stirs(cur, cur)
    BY CurIs DEF Pointers
  <2>2. Stirs(b, c)
    BY <1>1, RowPut, <2>1, StirsBy
  <2> QED  BY <1>1, <1>3, <2>1, <2>2, RowEnds
<1>4. CASE Then(Ahead, <<f, FLink(Top)>>)
  <2>1. f.fn \in Idle
    BY FIs DEF Idle
  <2> QED  BY <1>1, <1>4, <2>1, AheadIs, RowCalls
<1>5. CASE Then(s, <<Top>>)
  <2>1. Stirs(cur, s)
    BY CurIs, StirsBy
  <2> QED  BY <1>1, <1>5, <2>1, RowAgain
<1> QED  BY <1>2, <1>3, <1>4, <1>5

LEMMA StatementsOwns == ASSUME Going, Statements PROVE OwnInv'
<1> DEFINE b == Consume(cur, RBRACE)
           c == Put(b, Top.n, "statements", Top.head)
           f == F("statement")
<1>1. Top.fn \in Rows
  BY DEF Statements, At, Top, Rows
<1>2. Then(c, <<FGive(Top.n)>>) \/ Then(cur, <<f, FLink(Top)>>)
  BY DEF Statements
<1>3. CASE Then(c, <<FGive(Top.n)>>)
  <2>1. "statements" \in Pointers /\ Stirs(cur, b)
    BY CurIs, StirsBy DEF Pointers
  <2> HIDE DEF b
  <2>2. Stirs(c, c)
    BY <1>1, RowPut, <2>1
  <2> QED  BY <1>1, <1>3, <2>1, <2>2, RowEnds
<1>4. CASE Then(cur, <<f, FLink(Top)>>)
  <2>1. f.fn \in Idle
    BY FIs DEF Idle
  <2> QED  BY <1>1, <1>4, <2>1, CurIs, RowCalls
<1> QED  BY <1>2, <1>3, <1>4

(* The ways on that enum variants have in common.                          *)
LEMMA VariantsEnd ==
  ASSUME Going, Top.fn \in Rows,
         \/ Then(Consume(Put(cur, Top.n, "variants", Top.head), RBRACE), <<FGive(Top.n)>>)
         \/ Then(Skip(cur, "variant"), <<Top>>)
  PROVE  OwnInv'
<1> DEFINE b == Put(cur, Top.n, "variants", Top.head)
           c == Consume(b, RBRACE)
           s == Skip(cur, "variant")
<1>1. CASE Then(c, <<FGive(Top.n)>>)
  <2>1. "variants" \in Pointers /\ Stirs(cur, cur)
    BY CurIs DEF Pointers
  <2>2. Stirs(b, c)
    BY RowPut, <2>1, StirsBy
  <2> QED  BY <1>1, <2>1, <2>2, RowEnds
<1>2. CASE Then(s, <<Top>>)
  <2>1. Stirs(cur, s)
    BY CurIs, StirsBy
  <2> QED  BY <1>2, <2>1, RowAgain
<1> QED  BY <1>1, <1>2

LEMMA VariantIs ==
  ASSUME Going, Top.fn \in Rows
  PROVE  LET v == Make(Ahead, "ENUM_VARIANT", [name |-> Word(cur.at)])
         IN  Grown(v, v.ret) /\ Grown(Adv(v), v.ret)
<1> DEFINE members == [name |-> Word(cur.at)]
           v == Make(Ahead, "ENUM_VARIANT", members)
<1>1. DOMAIN members \intersect Pointers = {}
  BY DEF Pointers
<1> HIDE DEF members
<1>2. Grown(v, v.ret) /\ DOMAIN v = CurFields
  BY <1>1, AheadIs, RowNew
<1> HIDE DEF v
<1>3. Stirs(v, v)
  BY <1>2 DEF Stirs
<1>4. Stirs(v, Adv(v))
  BY <1>3, StirsBy
<1>5. Grown(Adv(v), v.ret)
  BY <1>2, <1>4, GrownMove
<1> QED  BY <1>2, <1>5 DEF v, members

LEMMA VariantsOwns == ASSUME Going, Variants PROVE OwnInv'
<1> DEFINE v == Make(Ahead, "ENUM_VARIANT", [name |-> Word(cur.at)])
           n == v.ret
           c == Adv(v)
           p == List("params", n, "data")
           x == FExpect(")")
           g == FGive(n)
           h == FLink(Top)
<1>1. Top.fn \in Rows
  BY DEF Variants, At, Top, Rows
<1>2. \/ Then(Consume(Put(cur, Top.n, "variants", Top.head), RBRACE), <<FGive(Top.n)>>)
      \/ Then(Skip(cur, "variant"), <<Top>>)
      \/ Then(v, <<h>>)
      \/ Then(c, <<>> \o <<x, g, h>>) \/ Then(c, <<p>> \o <<x, g, h>>)
  BY DEF Variants
<1>3. Grown(v, n) /\ Grown(c, n)
  BY <1>1, VariantIs
<1> HIDE DEF v
<1>4. CASE Then(v, <<h>>)
  BY <1>3, <1>4, GrownLinks
<1>5. CASE \/ Then(Consume(Put(cur, Top.n, "variants", Top.head), RBRACE), <<FGive(Top.n)>>)
           \/ Then(Skip(cur, "variant"), <<Top>>)
  BY <1>1, <1>5, VariantsEnd
<1> HIDE DEF c, n
<1>6. CASE Then(c, <<>> \o <<x, g, h>>) \/ Then(c, <<p>> \o <<x, g, h>>)
  <2> DEFINE X == RowKeeps
             Y == {n}
             Z == {}
  <2>1. IsNode(c, n) /\ Rung(c, h, Want, X, TRUE) /\ Has(c, X \union Y) /\ n \notin X
    BY <1>3 DEF Grown
  <2>2. Rung(c, g, TRUE, Y, FALSE)
    <3>1. g.fn \in Givers /\ g.n = n /\ g.head = NULL
      BY NodeIs DEF Givers
    <3> HIDE DEF g
    <3>2. Rung(c, g, TRUE, Mine(TRUE, n), FALSE)
      BY <2>1, <3>1, GiveRung
    <3> QED  BY <3>2, MineIs
  <2>3. Rung(c, x, FALSE, Z, FALSE)
    <3>1. x.fn \in Passing
      BY NodeIs DEF Passing
    <3> HIDE DEF x
    <3> QED  BY <3>1, PassRung
  <2>4. Rung(c, p, FALSE, Z, FALSE)
    <3>1. p.fn = "params" /\ p.n = n /\ p.head = NULL
      BY NodeIs
    <3> HIDE DEF p
    <3>2. Rung(c, p, FALSE, Some(p.head), FALSE)
      BY <2>1, <3>1, ParamsRung DEF Lists1
    <3>3. Some(p.head) = Z
      BY <3>1 DEF Some
    <3> QED  BY <3>2, <3>3
  <2>5. /\ X \intersect Y = {} /\ Z \intersect (X \union Y) = {}
        /\ Z \intersect (X \union Y \union Z) = {}
        /\ X \union Y \union Z \union Returned(c, FALSE) = X \union Y
        /\ X \union Y \union Z \union Z \union Returned(c, FALSE) = X \union Y
    BY <2>1 DEF Returned
  <2>6. /\ Has(c, X \union Y \union Z \union Returned(c, FALSE))
        /\ Has(c, X \union Y \union Z \union Z \union Returned(c, FALSE))
    BY <2>1, <2>5
  <2> HIDE DEF p, x, g, h, X, Y, Z
  <2>7. CASE Then(c, <<>> \o <<x, g, h>>)
    <3>1. IsSeq(<<x, g, h>>)
      BY DEF IsSeq
    <3>2. <<>> \o <<x, g, h>> = <<x, g, h>>
      BY <3>1, EmptyIsSeq
    <3>3. Then(c, <<x, g, h>>)
      BY <2>7, <3>2
    <3> QED  BY <2>1, <2>2, <2>3, <2>5, <2>6, <3>3, Calling3
  <2>8. CASE Then(c, <<p>> \o <<x, g, h>>)
    <3>1. Then(c, <<p, x, g, h>>)
      BY <2>8, Concat13
    <3> QED  BY <2>1, <2>2, <2>3, <2>4, <2>5, <2>6, <3>1, Calling4
  <2> QED  BY <1>6, <2>7, <2>8
<1> QED  BY <1>2, <1>4, <1>5, <1>6

LEMMA PlainVariantsOwns == ASSUME Going, PlainVariants PROVE OwnInv'
<1> DEFINE v == Make(Ahead, "ENUM_VARIANT", [name |-> Word(cur.at)])
           n == v.ret
           c == Adv(v)
           x == F("skipdata")
           h == FLink(Top)
<1>1. Top.fn \in Rows
  BY DEF PlainVariants, At, Top, Rows
<1>2. \/ Then(Consume(Put(cur, Top.n, "variants", Top.head), RBRACE), <<FGive(Top.n)>>)
      \/ Then(Skip(cur, "variant"), <<Top>>)
      \/ Then(v, <<h>>) \/ Then(c, <<x, h>>)
  BY DEF PlainVariants
<1>3. Grown(v, n) /\ Grown(c, n)
  BY <1>1, VariantIs
<1> HIDE DEF v
<1>4. CASE Then(v, <<h>>)
  BY <1>3, <1>4, GrownLinks
<1>5. CASE \/ Then(Consume(Put(cur, Top.n, "variants", Top.head), RBRACE), <<FGive(Top.n)>>)
           \/ Then(Skip(cur, "variant"), <<Top>>)
  BY <1>1, <1>5, VariantsEnd
<1> HIDE DEF c, n
<1>6. CASE Then(c, <<x, h>>)
  <2> DEFINE X == RowKeeps
             Y == {}
  <2>1. /\ Rung(c, h, Want, X, TRUE) /\ Has(c, X \union Y \union Returned(c, TRUE))
        /\ c.ret \notin X \union Y /\ X \intersect Y = {}
    BY <1>3 DEF Grown, Returned
  <2>2. Rung(c, x, TRUE, Y, TRUE)
    <3>1. x.fn \in Passing
      BY FIs DEF Passing
    <3> HIDE DEF x
    <3> QED  BY <3>1, PassRung
  <2> HIDE DEF x, h, X, Y
  <2> QED  BY <1>6, <2>1, <2>2, Calling2
<1> QED  BY <1>2, <1>4, <1>5, <1>6

LEMMA ParamsOwns == ASSUME Going, Params PROVE OwnInv'
<1> DEFINE members == [name |-> Word(cur.at)]
           p == Make(Ahead, "VAR_DECL", members)
           n == p.ret
           data == Top.m = "data"
           t == IF data THEN Consume(p, "!") ELSE Match(p, "!")
           put == Put(t, n, "type_name", Word(t.at))
           typed == CASE Tok(t) \in TypeTokens -> Adv(put)
                      [] Tok(t) \notin TypeTokens /\ data -> Fails(t)
                      [] OTHER -> t
           c == IF Sees({"id"}) THEN LinkNode(typed, Top, n) ELSE Fails(cur)
           f == IF Sees({"id"}) THEN Linked(Top, n) ELSE Top
           d == Put(c, f.n, f.m, f.head)
           P == Some(Top.head)
<1>1. Top.fn = "params"
  BY DEF Params, At, Top
<1>2. Then(Adv(c), <<f>>) \/ Then(d, <<>>)
  BY DEF Params
<1>3. ~Want /\ Has(cur, P) /\ IsNode(cur, Top.n) /\ Lists1(cur, Top) /\ Top.m \in Pointers
  <2>1. Top.m \in {"params", "data"}
    BY <1>1 DEF Going, Calling, FrameOk
  <2> QED  BY <1>1, <2>1, ParamsTop DEF Pointers
<1>4. DOMAIN members \intersect Pointers = {} /\ "type_name" \notin Pointers
  BY DEF Pointers
<1> HIDE DEF members, P
<1>5. Gains(p, P, "VAR_DECL")
  <2>1. Has(Ahead, P)
    BY <1>3, AheadIs, MoveRet
  <2> QED  BY <1>4, <2>1, HasMake0
<1> HIDE DEF p
<1> DEFINE N == {n}
           X == P \union N
<1>6. Has(p, X) /\ n \in X /\ n \notin P /\ p.ret = n
  BY <1>5 DEF Gains
<1> HIDE DEF N, X, n
<1>7. Stirs(p, t)
  <2>1. Stirs(p, p)
    BY <1>6, HasShape
  <2> QED  BY <2>1, StirsBy
<1>8. Has(t, X) /\ t.ret = n
  BY <1>6, <1>7, HasMove
<1> HIDE DEF t
<1>9. Has(put, X) /\ put.ret = n
  <2>1. IsNode(t, n)
    BY <1>6, <1>8, HasShape
  <2> QED  BY <1>4, <1>8, <2>1, HasWord DEF Remains
<1> HIDE DEF put, data
<1>10. Has(typed, X)
  <2>1. Stirs(put, Adv(put)) /\ Stirs(t, Fails(t))
    BY <1>8, <1>9, HasShape, StirsBy
  <2>2. Has(Adv(put), X) /\ Has(Fails(t), X)
    BY <1>8, <1>9, <2>1, HasMove
  <2> QED  BY <1>8, <2>2
<1> HIDE DEF typed
<1>11. Lists1(typed, Top)
  <2>1. \A i : IsNode(cur, i) => IsNode(typed, i)
    BY <1>10, HasShape
  <2> QED  BY <1>3, <2>1 DEF Lists1
<1>12. /\ Has(c, {} \union Some(f.head)) /\ Lists1(c, f)
       /\ f.n = Top.n /\ f.m = Top.m /\ f.fn = "params"
  <2>1. CASE Sees({"id"})
    <3> DEFINE e == LinkNode(typed, Top, n)
               g == Linked(Top, n)
    <3>1. Has(typed, {} \union Some(Top.head) \union {n}) /\ n \notin {} \union Some(Top.head)
      <4>1. {} \union Some(Top.head) \union {n} = X /\ {} \union Some(Top.head) = P
        BY DEF X, N, P
      <4> QED  BY <1>6, <1>10, <4>1
    <3>2. Links(typed, e, Top, g, n, {})
      BY <1>11, <3>1, CurIs, HasLink
    <3>3. c = e /\ f = g
      BY <2>1
    <3> HIDE DEF e, g, c, f
    <3>4. Links(typed, c, Top, f, n, {})
      BY <3>2, <3>3
    <3> QED  BY <1>1, <3>4 DEF Links
  <2>2. CASE ~Sees({"id"})
    <3>1. c = Fails(cur) /\ f = Top
      BY <2>2
    <3>2. Stirs(cur, c)
      BY <3>1, CurIs, StirsBy
    <3> HIDE DEF c, f
    <3>3. Has(c, P)
      BY <1>3, <3>2, MoveRet
    <3>4. {} \union Some(f.head) = P
      BY <3>1 DEF P
    <3>5. Lists1(c, f)
      BY <1>3, <3>1, <3>2 DEF Lists1, Stirs, IsNode
    <3> QED  BY <1>1, <3>1, <3>3, <3>4, <3>5
  <2> QED  BY <2>1, <2>2
<1> HIDE DEF c, f
<1>13. IsNode(c, f.n)
  BY <1>3, <1>12, HasShape
<1>14. CASE Then(Adv(c), <<f>>)
  <2> DEFINE e == Adv(c)
             Y == Some(f.head)
  <2>1. Stirs(c, e)
    BY <1>12, HasShape, StirsBy
  <2> HIDE DEF e
  <2>2. Has(e, Y)
    <3>1. {} \union Some(f.head) = Y
      OBVIOUS
    <3> QED  BY <1>12, <2>1, <3>1, HasMove
  <2>3. IsNode(e, f.n) /\ Lists1(e, f)
    BY <1>12, <1>13, <2>1 DEF Stirs, IsNode, Lists1
  <2>4. Rung(e, f, FALSE, Y, FALSE)
    BY <1>12, <2>3, ParamsRung
  <2>5. Want = FALSE
    BY <1>3, WantIs
  <2>6. Rung(e, f, Want, Y, FALSE)
    BY <2>4, <2>5
  <2> HIDE DEF Y
  <2> QED  BY <1>14, <2>2, <2>6, Keeps1 DEF e
<1>15. CASE Then(d, <<>>)
  <2>1. f.m \in Pointers
    BY <1>3, <1>12
  <2>2. Has(d, {})
    BY <1>12, <1>13, <2>1, HasRow
  <2>3. Returned(d, Want) = {}
    BY <1>3 DEF Returned
  <2> QED  BY <1>15, <2>2, <2>3, Stops
<1> QED  BY <1>2, <1>14, <1>15

LEMMA FunctionOwns == ASSUME Going, Function PROVE OwnInv'
<1> DEFINE attached == toks[cur.prev].type = "f:"
           b == IF attached THEN cur ELSE Match(cur, "id")
           members == [name |-> IF attached THEN Word(cur.prev)
                                ELSE IF Sees({"id"}) THEN Word(cur.at) ELSE Zero]
           c == Make(b, "FUNC_DECL", members)
           n == c.ret
           e == Consume(c, "(")
           p == List("params", n, "params")
           x == FExpect(")")
           g == FNode("funcrest", n)
<1>1. /\ Top.fn \in Idle
      /\ Then(e, <<>> \o <<x, g>>) \/ Then(e, <<p>> \o <<x, g>>)
  BY DEF Function, At, Top, Idle
<1>2. Stirs(cur, b) /\ DOMAIN members \intersect Pointers = {}
  BY CurIs, StirsBy DEF Pointers
<1> HIDE DEF attached, members, b
<1>3. Want /\ Gains(c, {}, "FUNC_DECL")
  BY <1>1, <1>2, MakesOne
<1> HIDE DEF c
<1> DEFINE X == {n}
           Z == {}
<1>4. Has(c, X) /\ n \in X
  BY <1>3, GainsOne
<1> HIDE DEF n, X
<1>5. Stirs(c, e)
  BY <1>4, HasShape, StirsBy
<1> HIDE DEF e
<1>6. Has(e, X)
  BY <1>4, <1>5, HasMove
<1>7. IsNode(e, n)
  BY <1>4, <1>6, HasShape
<1>8. Rung(e, g, Want, X, FALSE)
  <2>1. g.fn \in Givers /\ g.n = n /\ g.head = NULL
    BY NodeIs DEF Givers
  <2> HIDE DEF g
  <2>2. Rung(e, g, TRUE, Mine(TRUE, n), FALSE)
    BY <1>7, <2>1, GiveRung
  <2>3. Mine(TRUE, n) = X /\ Want = TRUE
    BY <1>3, WantIs, MineIs DEF X
  <2> QED  BY <2>2, <2>3
<1>9. Rung(e, x, FALSE, Z, FALSE)
  <2>1. x.fn \in Passing
    BY NodeIs DEF Passing
  <2> HIDE DEF x
  <2> QED  BY <2>1, PassRung
<1>10. Rung(e, p, FALSE, Z, FALSE)
  <2>1. p.fn = "params" /\ p.n = n /\ p.head = NULL
    BY NodeIs
  <2> HIDE DEF p
  <2>2. Rung(e, p, FALSE, Some(p.head), FALSE)
    BY <1>7, <2>1, ParamsRung DEF Lists1
  <2>3. Some(p.head) = Z
    BY <2>1 DEF Some
  <2> QED  BY <2>2, <2>3
<1>11. /\ X \intersect Z = {} /\ Z \intersect (X \union Z) = {}
       /\ X \union Z \union Returned(e, FALSE) = X
       /\ X \union Z \union Z \union Returned(e, FALSE) = X
  BY DEF Returned
<1>12. Has(e, X \union Z \union Returned(e, FALSE)) /\ Has(e, X \union Z \union Z \union Returned(e, FALSE))
  BY <1>6, <1>11
<1> HIDE DEF p, x, g, Z
<1>13. CASE Then(e, <<>> \o <<x, g>>)
  <2>1. IsSeq(<<x, g>>)
    BY DEF IsSeq
  <2>2. <<>> \o <<x, g>> = <<x, g>>
    BY <2>1, EmptyIsSeq
  <2>3. Then(e, <<x, g>>)
    BY <1>13, <2>2
  <2> QED  BY <1>8, <1>9, <1>11, <1>12, <2>3, Calling2
<1>14. CASE Then(e, <<p>> \o <<x, g>>)
  <2>1. Then(e, <<p, x, g>>)
    BY <1>14, Concat12
  <2> QED  BY <1>8, <1>9, <1>10, <1>11, <1>12, <2>1, Calling3
<1> QED  BY <1>1, <1>13, <1>14

LEMMA FunctionRestOwns == ASSUME Going, FunctionRest PROVE OwnInv'
<1> DEFINE n == Top.n
           M == Mine(Want, n)
           bang == Match(cur, "!")
           put == Put(bang, n, "return_type", Word(bang.at))
           t == IF Tok(bang) \in TypeTokens THEN Adv(put)
                ELSE IF Sees({"!"}) THEN Fails(bang) ELSE bang
           c == Consume(t, LBRACE)
           m == "body"
           f == F("expression")
           g == F("block")
           h == FNode("lambda", n)
<1>1. Top.fn \in Givers /\ (Then(Ahead, <<f, h>>) \/ Then(c, <<g, FSet(n, m)>>))
  BY DEF FunctionRest, At, Top, Givers
<1>2. Has(cur, M) /\ IsNode(cur, n)
  BY <1>1, GiveTop
<1>3. f.fn \in Idle /\ g.fn \in Idle /\ m \in Pointers /\ "return_type" \notin Pointers
  BY FIs DEF Idle, Pointers
<1> HIDE DEF m, f, g
<1>4. CASE Then(Ahead, <<f, h>>)
  <2>1. Has(Ahead, M)
    <3> HIDE DEF M
    <3> QED  BY <1>2, AheadIs, MoveRet
  <2>2. IsNode(Ahead, n)
    BY <1>2, <2>1, HasShape
  <2>3. h.fn \in Setters /\ h.n = n /\ h.head = NULL /\ h.fn # "set"
    BY NodeIs DEF Setters
  <2> HIDE DEF h, n
  <2>4. Rung(Ahead, h, Want, Mine(Want, n), TRUE)
    BY <2>2, <2>3, WantIs, SetRung
  <2> HIDE DEF M
  <2> QED  BY <1>3, <1>4, <2>1, <2>4, Idle2 DEF M
<1>5. CASE Then(c, <<g, FSet(n, m)>>)
  <2> HIDE DEF n, M
  <2>1. Stirs(cur, bang)
    BY CurIs, StirsBy
  <2> HIDE DEF bang
  <2>2. Has(bang, M)
    BY <1>2, <2>1, MoveRet
  <2>3. IsNode(bang, n)
    BY <1>2, <2>2, HasShape
  <2>4. Has(put, M)
    BY <1>3, <2>2, <2>3, HasWord
  <2> HIDE DEF put
  <2>5. Stirs(put, Adv(put)) /\ Stirs(bang, Fails(bang))
    BY <2>2, <2>4, HasShape, StirsBy
  <2>6. Has(t, M)
    BY <2>2, <2>4, <2>5, HasMove
  <2> HIDE DEF t
  <2>7. Stirs(t, c)
    BY <2>6, HasShape, StirsBy
  <2> HIDE DEF c
  <2>8. Has(c, M)
    BY <2>6, <2>7, HasMove
  <2>9. IsNode(c, n)
    BY <1>2, <2>8, HasShape
  <2> QED  BY <1>3, <1>5, <2>8, <2>9, IdleSet DEF M
<1> QED  BY <1>1, <1>4, <1>5

LEMMA LambdaOwns == ASSUME Going, Lambda PROVE OwnInv'
<1> DEFINE n == Top.n
           x == cur.ret
           M == Mine(Want, n)
           ms == [op |-> "ret", operand |-> x]
           r == Make(cur, "RETURN", ms)
           ks == [statements |-> r.ret]
           b == Make(r, "BLOCK", ks)
           e == Put(b, n, "body", b.ret)
           d == [e EXCEPT !.ret = n]
<1>1. Top.fn \in Setters /\ Then(d, <<>>)
  BY CurIs DEF Lambda, At, Top, Setters
<1>2. Has(cur, M \union {x}) /\ IsNode(cur, n) /\ x \notin M
  BY <1>1, SetTop
<1>3. /\ DOMAIN ms \intersect Pointers = {"operand"} /\ ms["operand"] = x
      /\ DOMAIN ks \intersect Pointers = {"statements"} /\ ks["statements"] = r.ret
      /\ "body" \in Pointers
  BY DEF Pointers
<1> HIDE DEF n, x, M, ms
<1>4. Gains(r, M, "RETURN")
  <2>1. ms["operand"] \in M \union {x} /\ (M \union {x}) \ {ms["operand"]} = M
    BY <1>2, <1>3
  <2> DEFINE K == M \union {x}
  <2> HIDE DEF K
  <2>2. Has(cur, K) /\ ms["operand"] \in K /\ K \ {ms["operand"]} = M
    BY <1>2, <2>1 DEF K
  <2>3. Gains(r, K \ {ms["operand"]}, "RETURN")
    BY <1>3, <2>2, ReturnsStruct, HasMake1
  <2> QED  BY <2>2, <2>3
<1> HIDE DEF r, ks
<1>5. Gains(b, M, "BLOCK")
  <2> DEFINE K == M \union {r.ret}
  <2>1. Has(r, K) /\ ks["statements"] \in K /\ K \ {ks["statements"]} = M
    BY <1>3, <1>4 DEF Gains
  <2> HIDE DEF K
  <2>2. Gains(b, K \ {ks["statements"]}, "BLOCK")
    BY <1>3, <2>1, ReturnsStruct, HasMake1
  <2> QED  BY <2>1, <2>2
<1> HIDE DEF b
<1>6. Has(e, M)
  <2> DEFINE K == M \union {b.ret}
  <2>1. Has(b, K) /\ b.ret \in K /\ K \ {b.ret} = M
    BY <1>5 DEF Gains
  <2> HIDE DEF K
  <2>2. IsNode(b, n)
    BY <1>2, <2>1, HasShape
  <2>3. Has(e, K \ {b.ret})
    BY <1>3, <2>1, <2>2, HasPut
  <2> QED  BY <2>1, <2>3
<1> HIDE DEF e
<1>7. DOMAIN d = CurFields /\ d.nodes = e.nodes /\ d.lost = e.lost /\ d.ret = n
  <2>1. DOMAIN e = CurFields
    BY <1>6, HasShape
  <2> QED  BY <2>1 DEF CurFields
<1> HIDE DEF d
<1> QED  BY <1>1, <1>6, <1>7, StopsWith DEF M

LEMMA MethodOwns == ASSUME Going, Method PROVE OwnInv'
<1> DEFINE members == [public_name |-> Word(cur.at)]
           c == Make(Adv(Ahead), "METHOD", members)
           n == c.ret
           e == Adv(c)
           f == F("function")
           m == "implementation"
           g == FSet(n, m)
           x == F("optsemi")
           h == FLink(Top)
<1>1. /\ Top.fn \in Rows
      /\ Then(e, <<f, g>> \o <<x, h>>) \/ Then(Fails(c), <<x, h>>)
  BY DEF Method, At, Top, Rows
<1>2. Stirs(cur, Adv(Ahead)) /\ DOMAIN members \intersect Pointers = {}
  BY AheadIs, StirsBy DEF Pointers
<1> HIDE DEF members
<1>3. Grown(c, n) /\ DOMAIN c = CurFields
  BY <1>1, <1>2, RowNew
<1> HIDE DEF c
<1>4. Grown(e, n)
  <2>1. Stirs(c, c)
    BY <1>3 DEF Stirs
  <2>2. Stirs(c, e)
    BY <2>1, StirsBy
  <2> HIDE DEF n, e
  <2> QED  BY <1>3, <2>2, GrownMove
<1>5. CASE Then(Fails(c), <<x, h>>)
  <2>1. Fails(c).bad
    BY <1>3 DEF Fails, CurFields
  <2> QED  BY <1>5, <2>1, BadOwns
<1> HIDE DEF n, e
<1>6. CASE Then(e, <<f, g>> \o <<x, h>>)
  <2> DEFINE X == RowKeeps
             Y == {}
             Z == {n}
  <2>1. /\ IsNode(e, n) /\ Rung(e, h, Want, X, TRUE) /\ Has(e, X \union Z) /\ n \notin X
    BY <1>4 DEF Grown
  <2>2. Rung(e, x, TRUE, Y, TRUE)
    <3>1. x.fn \in Passing
      BY FIs DEF Passing
    <3> HIDE DEF x
    <3> QED  BY <3>1, PassRung
  <2>3. Rung(e, g, TRUE, Z, TRUE)
    <3>1. g.fn \in Setters /\ g.n = n /\ g.head = NULL /\ g.m \in Pointers
      BY NodeIs DEF Setters, Pointers
    <3> HIDE DEF g
    <3>2. Rung(e, g, TRUE, Mine(TRUE, n), TRUE)
      BY <2>1, <3>1, SetRung
    <3> QED  BY <3>2, MineIs
  <2>4. Rung(e, f, TRUE, Y, FALSE)
    <3>1. f.fn \in Idle
      BY FIs DEF Idle
    <3> HIDE DEF f
    <3> QED  BY <3>1, IdleRung
  <2>5. /\ X \intersect Y = {} /\ Z \intersect (X \union Y) = {}
        /\ Y \intersect (X \union Y \union Z) = {}
        /\ X \union Y \union Z \union Y \union Returned(e, FALSE) = X \union Z
    BY <2>1 DEF Returned
  <2>6. Has(e, X \union Y \union Z \union Y \union Returned(e, FALSE))
    BY <2>1, <2>5
  <2>7. Then(e, <<f, g, x, h>>)
    BY <1>6, Concat22
  <2> HIDE DEF f, g, x, h, X, Y, Z
  <2> QED  BY <2>1, <2>2, <2>3, <2>4, <2>5, <2>6, <2>7, Calling4
<1> QED  BY <1>1, <1>5, <1>6

LEMMA GroupMemberOwns == ASSUME Going, GroupMember PROVE OwnInv'
<1> DEFINE b == Consume(cur, RBRACE)
           c == Put(b, Top.n, "members", Top.head)
           s == Skip(cur, "member")
           k == FType(KindOf(Tok(cur)), NoName)
           p == FType("STRUCT_DECL", NoName)
           v == F("vardecl")
           x == FExpect(SEMICOLON)
           h == FLink(Top)
<1>1. Top.fn \in Rows
  BY DEF GroupMember, At, Top, Rows
<1>2. \/ Then(c, <<FGive(Top.n)>>) \/ Then(Ahead, <<k, h>>) \/ Then(Adv(Ahead), <<p, h>>)
      \/ Then(Ahead, <<v, x, h>>) \/ Then(Ahead, <<F("function"), h>>) \/ Then(s, <<Top>>)
  BY DEF GroupMember
<1>3. Stirs(cur, Ahead) /\ Stirs(cur, Adv(Ahead)) /\ Stirs(cur, s) /\ Stirs(cur, b)
  BY CurIs, AheadIs, StirsBy
<1>4. k.fn \in Idle /\ p.fn \in Idle /\ v.fn \in Idle /\ F("function").fn \in Idle
  BY NodeIs, FIs DEF Idle
<1> HIDE DEF s, k, p, v, b
<1>5. CASE Then(c, <<FGive(Top.n)>>)
  <2>1. "members" \in Pointers
    BY DEF Pointers
  <2>2. Stirs(c, c)
    BY <1>1, <1>3, <2>1, RowPut
  <2> QED  BY <1>1, <1>3, <1>5, <2>1, <2>2, RowEnds
<1>6. CASE Then(Ahead, <<k, h>>)
  BY <1>1, <1>3, <1>4, <1>6, RowCalls
<1>7. CASE Then(Adv(Ahead), <<p, h>>)
  BY <1>1, <1>3, <1>4, <1>7, RowCalls
<1>8. CASE Then(Ahead, <<F("function"), h>>)
  BY <1>1, <1>3, <1>4, <1>8, RowCalls
<1>9. CASE Then(s, <<Top>>)
  BY <1>1, <1>3, <1>9, RowAgain
<1>10. CASE Then(Ahead, <<v, x, h>>)
  <2> DEFINE X == RowKeeps
             Y == {}
  <2>1. Has(Ahead, X) /\ Rung(Ahead, h, Want, X, TRUE)
    <3>1. Has(cur, X)
      BY <1>1, RowHas
    <3> HIDE DEF X
    <3>2. Has(Ahead, X)
      BY <1>3, <3>1, MoveRet
    <3> QED  BY <1>1, <3>2, RowHas DEF X
  <2>2. Rung(Ahead, x, TRUE, Y, TRUE)
    <3>1. x.fn \in Passing
      BY NodeIs DEF Passing
    <3> HIDE DEF x
    <3> QED  BY <3>1, PassRung
  <2>3. Rung(Ahead, v, TRUE, Y, FALSE)
    BY <1>4, IdleRung
  <2>4. /\ X \intersect Y = {} /\ Y \intersect (X \union Y) = {}
        /\ X \union Y \union Y \union Returned(Ahead, FALSE) = X
    BY DEF Returned
  <2>5. Has(Ahead, X \union Y \union Y \union Returned(Ahead, FALSE))
    BY <2>1, <2>4
  <2> HIDE DEF x, h, X, Y
  <2> QED  BY <1>10, <2>1, <2>2, <2>3, <2>4, <2>5, Calling3
<1> QED  BY <1>2, <1>5, <1>6, <1>7, <1>8, <1>9, <1>10

-------------------------------------------------------------------------------
(* Statements.                                                             *)

(* A new node, and what it is used for.                                    *)
LEMMA NewIs ==
  ASSUME Going, Top.fn \in Idle, NEW c, Stirs(cur, c), NEW type, NEW members,
         DOMAIN members \intersect Pointers = {}
  PROVE  Stirs(Make(c, type, members), Make(c, type, members))
<1> DEFINE d == Make(c, type, members)
<1>1. DOMAIN d = CurFields
  BY MakesOne, GainsOne
<1> HIDE DEF d
<1> QED  BY <1>1 DEF Stirs, d

LEMMA NewOf ==
  ASSUME Going, Top.fn \in Idle, NEW c, Stirs(cur, c), NEW type, NEW members,
         DOMAIN members \intersect Pointers = {}, NEW d, Stirs(Make(c, type, members), d)
  PROVE  /\ Want /\ Has(d, {d.ret}) /\ IsNode(d, d.ret)
         /\ d.ret = Make(c, type, members).ret
<1> DEFINE b == Make(c, type, members)
           n == b.ret
           X == {n}
<1>1. Want /\ Has(b, X) /\ IsNode(b, n)
  BY MakesOne, GainsOne
<1> HIDE DEF b, X
<1>2. Has(d, X) /\ d.ret = n
  BY <1>1, HasMove DEF b
<1>3. IsNode(d, n)
  BY <1>1 DEF Stirs, IsNode, b
<1> QED  BY <1>1, <1>2, <1>3 DEF X, b

LEMMA NewEnds ==
  ASSUME Going, Top.fn \in Idle, NEW c, Stirs(cur, c), NEW type, NEW members,
         DOMAIN members \intersect Pointers = {}, NEW d, Stirs(Make(c, type, members), d),
         Then(d, <<>>)
  PROVE  OwnInv'
<1>1. Want /\ Has(d, {d.ret})
  BY NewOf
<1> QED  BY <1>1, Returns1

LEMMA NewSet ==
  ASSUME Going, Top.fn \in Idle, NEW c, Stirs(cur, c), NEW type, NEW members,
         DOMAIN members \intersect Pointers = {}, NEW d, Stirs(Make(c, type, members), d),
         NEW n, n = Make(c, type, members).ret,
         NEW f, f.fn \in Idle, NEW m \in Pointers, Then(d, <<f, FSet(n, m)>>)
  PROVE  OwnInv'
<1>1. Want /\ Has(d, {d.ret}) /\ IsNode(d, d.ret) /\ d.ret = n
  BY NewOf
<1>2. Has(d, Mine(Want, n)) /\ IsNode(d, n)
  BY <1>1, MineIs
<1> QED  BY <1>2, IdleSet

(* A frame that passes on what is returned.                                *)
LEMMA IdlePass ==
  ASSUME Going, Want, NEW c, Has(c, {}), NEW f, f.fn \in Idle, NEW g, g.fn \in Passing,
         Then(c, <<f, g>>)
  PROVE  OwnInv'
<1>1. Rung(c, g, TRUE, {}, TRUE)
  BY PassRung
<1>2. Want = TRUE
  BY WantIs
<1>3. Rung(c, g, Want, {}, TRUE)
  BY <1>1, <1>2
<1> QED  BY <1>3, Idle2

LEMMA SetPass ==
  ASSUME Going, Want, NEW c, Has(c, {c.ret}), IsNode(c, c.ret), NEW n, n = c.ret,
         NEW f, f.fn \in Idle, NEW m \in Pointers, NEW x, x.fn \in Passing,
         NEW y, y.fn \in Passing,
         Then(c, <<f, FSet(n, m), x>>) \/ Then(c, <<f, FSet(n, m), x, y>>)
  PROVE  OwnInv'
<1> DEFINE g == FSet(n, m)
           X == {}
           Y == {n}
<1>1. Then(c, <<f, g, x>>) \/ Then(c, <<f, g, x, y>>)
  OBVIOUS
<1>2. Rung(c, g, TRUE, Y, TRUE)
  <2>1. g.fn \in Setters /\ g.n = n /\ g.head = NULL /\ g.m \in Pointers
    BY NodeIs DEF Setters
  <2> HIDE DEF g
  <2>2. Rung(c, g, TRUE, Mine(TRUE, n), TRUE)
    BY <2>1, SetRung
  <2> QED  BY <2>2, MineIs
<1>3. Rung(c, x, TRUE, X, TRUE) /\ Rung(c, y, TRUE, X, TRUE) /\ Rung(c, f, TRUE, X, FALSE)
  BY PassRung, IdleRung
<1>4. Want = TRUE
  BY WantIs
<1>5. Rung(c, x, Want, X, TRUE) /\ Rung(c, y, Want, X, TRUE)
  BY <1>3, <1>4
<1>6. /\ X \intersect Y = {} /\ X \intersect (X \union Y) = {} /\ X \intersect X = {}
      /\ Y \intersect (X \union X) = {} /\ X \intersect (X \union X \union Y) = {}
      /\ X \union Y \union X \union Returned(c, FALSE) = Y
      /\ X \union X \union Y \union X \union Returned(c, FALSE) = Y
  BY DEF Returned
<1>7. /\ Has(c, X \union Y \union X \union Returned(c, FALSE))
      /\ Has(c, X \union X \union Y \union X \union Returned(c, FALSE))
  BY <1>6
<1> HIDE DEF g, X, Y
<1>8. CASE Then(c, <<f, g, x>>)
  BY <1>2, <1>3, <1>5, <1>6, <1>7, <1>8, Calling3
<1>9. CASE Then(c, <<f, g, x, y>>)
  BY <1>2, <1>3, <1>5, <1>6, <1>7, <1>9, Calling4
<1> QED  BY <1>1, <1>8, <1>9

LEMMA NewSetPass ==
  ASSUME Going, Top.fn \in Idle, NEW c, Stirs(cur, c), NEW type, NEW members,
         DOMAIN members \intersect Pointers = {}, NEW d, Stirs(Make(c, type, members), d),
         NEW n, n = Make(c, type, members).ret,
         NEW f, f.fn \in Idle, NEW m \in Pointers, NEW x, x.fn \in Passing,
         NEW y, y.fn \in Passing,
         Then(d, <<f, FSet(n, m), x>>) \/ Then(d, <<f, FSet(n, m), x, y>>)
  PROVE  OwnInv'
<1>1. Want /\ Has(d, {d.ret}) /\ IsNode(d, d.ret) /\ n = d.ret
  BY NewOf
<1> QED  BY <1>1, SetPass

LEMMA StatementOwns == ASSUME Going, Statement PROVE OwnInv'
<1> DEFINE e == Match(cur, "exp")
           d == Match(e, "pup")
<1>1. /\ Top.fn \in Idle
      /\ Then(Bare(Ahead, "BLOCK"), <<>>) \/ Then(d, <<F("declaration")>>)
  BY DEF Statement, At, Top, Idle
<1>2. CASE Then(Bare(Ahead, "BLOCK"), <<>>)
  <2>1. DOMAIN <<>> \intersect Pointers = {}
    OBVIOUS
  <2> QED  BY <1>1, <1>2, <2>1, AheadIs, EndsWithNew DEF Bare
<1>3. CASE Then(d, <<F("declaration")>>)
  <2>1. Stirs(cur, e)
    BY CurIs, StirsBy
  <2> HIDE DEF e
  <2>2. Stirs(cur, d) /\ F("declaration").fn \in Idle
    BY <2>1, StirsBy, FIs DEF Idle
  <2> HIDE DEF d
  <2> QED  BY <1>1, <1>3, <2>2, IdleCalls1
<1> QED  BY <1>1, <1>2, <1>3

LEMMA DeclarationOwns == ASSUME Going, Declaration PROVE OwnInv'
<1> DEFINE t == FType("STRUCT_DECL", NoName)
           x == FExpect(SEMICOLON)
           y == F("flags")
<1>1. Top.fn = "declaration"
  BY DEF Declaration, At, Top
<1>2. \/ \E f \in {F("use"), F("defer"), F("return"), F("group"), t} : Then(Ahead, <<f>>)
      \/ Then(Ahead, <<F("vardecl"), x>>) \/ Then(Ahead, <<F("function"), y>>)
  BY DEF Declaration, Declares, Sees
<1>3. /\ F("defer").fn \in Idle /\ F("return").fn \in Idle /\ F("group").fn \in Idle
      /\ t.fn \in Idle /\ F("vardecl").fn \in Idle /\ F("function").fn \in Idle
      /\ x.fn \in Passing /\ y.fn \in Passing /\ Top.fn \in Idle
  BY <1>1, FIs, NodeIs DEF Idle, Passing
<1>4. Want /\ Has(cur, {})
  BY <1>3, IdleTop
<1>5. Has(Ahead, {})
  BY <1>4, AheadIs, MoveRet
<1> HIDE DEF t, x, y
<1>6. ASSUME NEW f \in {F("defer"), F("return"), F("group"), t}, Then(Ahead, <<f>>) PROVE OwnInv'
  <2>1. f.fn \in Idle
    BY <1>3
  <2> QED  BY <1>3, <1>6, <2>1, AheadIs, IdleCalls1
<1>7. CASE Then(Ahead, <<F("use")>>)
  <2> DEFINE f == F("use")
             X == {}
  <2>1. f.fn = "use" /\ f.head = NULL
    BY FIs
  <2>2. Rung(Ahead, f, TRUE, Some(f.head), FALSE)
    BY <2>1, UseRung DEF Lists1
  <2>3. Some(f.head) = X /\ Want = TRUE
    BY <1>4, <2>1, WantIs DEF Some
  <2>4. Rung(Ahead, f, Want, X, FALSE)
    BY <2>2, <2>3
  <2> HIDE DEF f
  <2> QED  BY <1>5, <1>7, <2>4, Keeps1 DEF f
<1>8. CASE Then(Ahead, <<F("vardecl"), x>>)
  BY <1>3, <1>4, <1>5, <1>8, IdlePass
<1>9. CASE Then(Ahead, <<F("function"), y>>)
  BY <1>3, <1>4, <1>5, <1>9, IdlePass
<1> QED  BY <1>2, <1>6, <1>7, <1>8, <1>9

LEMMA UseOwns == ASSUME Going, Use PROVE OwnInv'
<1> DEFINE c == Consume(cur, "id")
           members == [module_name |-> Word(c.prev)]
           u == Make(c, "USE", members)
           n == u.ret
           as == Consume(Adv(u), "id")
           put == Put(as, n, "alias", Word(as.prev))
           d == IF Tok(u) = "as" THEN put ELSE u
           e == LinkNode(d, Top, n)
           f == Linked(Top, n)
           s == Consume(e, SEMICOLON)
           z == [s EXCEPT !.ret = f.head]
           P == Some(Top.head)
<1>1. Top.fn = "use"
  BY DEF Use, At, Top
<1>2. Then(Adv(e), <<f>>) \/ Then(z, <<>>)
  BY DEF Use
<1>3. Want /\ Has(cur, P) /\ Lists1(cur, Top)
  BY <1>1, UseTop
<1>4. DOMAIN members \intersect Pointers = {} /\ "alias" \notin Pointers
  BY DEF Pointers
<1>5. Stirs(cur, c)
  BY CurIs, StirsBy
<1> HIDE DEF c, members, P
<1>6. Gains(u, P, "USE")
  <2>1. Has(c, P)
    BY <1>3, <1>5, MoveRet
  <2> QED  BY <1>4, <2>1, HasMake0
<1> HIDE DEF u
<1> DEFINE N == {n}
           X == P \union N
<1>7. Has(u, X) /\ n \in X /\ n \notin P /\ u.ret = n
  BY <1>6 DEF Gains
<1> HIDE DEF N, X, n
<1>8. Stirs(u, as)
  <2>1. Stirs(u, u)
    BY <1>7, HasShape
  <2>2. Stirs(u, Adv(u))
    BY <2>1, StirsBy
  <2> QED  BY <2>2, StirsBy
<1>9. Has(as, X)
  BY <1>7, <1>8, HasMove
<1> HIDE DEF as
<1>10. Has(put, X)
  <2>1. IsNode(as, n)
    BY <1>7, <1>9, HasShape
  <2> QED  BY <1>4, <1>9, <2>1, HasWord
<1> HIDE DEF put
<1>11. Has(d, X)
  BY <1>7, <1>10
<1> HIDE DEF d
<1>12. Lists1(d, Top)
  <2>1. \A i : IsNode(cur, i) => IsNode(d, i)
    BY <1>11, HasShape
  <2> QED  BY <1>3, <2>1 DEF Lists1
<1>13. Has(d, {} \union Some(Top.head) \union {n}) /\ n \notin {} \union Some(Top.head)
  <2>1. {} \union Some(Top.head) \union {n} = X /\ {} \union Some(Top.head) = P
    BY DEF X, N, P
  <2> QED  BY <1>7, <1>11, <2>1
<1>14. Links(d, e, Top, f, n, {})
  BY <1>12, <1>13, CurIs, HasLink
<1>15. Has(e, {} \union Some(f.head)) /\ Lists1(e, f) /\ f.fn = "use" /\ f.head # NULL
  BY <1>1, <1>14 DEF Links
<1> HIDE DEF e, f
<1> DEFINE Y == Some(f.head)
<1>16. Has(e, Y) /\ Y = Mine(Want, f.head)
  <2>1. {} \union Some(f.head) = Y
    OBVIOUS
  <2>2. Y = {f.head}
    BY <1>15 DEF Some
  <2> QED  BY <1>3, <1>15, <2>1, <2>2, MineIs
<1>17. CASE Then(Adv(e), <<f>>)
  <2> DEFINE g == Adv(e)
  <2>1. Stirs(e, g)
    BY <1>15, HasShape, StirsBy
  <2> HIDE DEF g, Y
  <2>2. Has(g, Y)
    BY <1>16, <2>1, HasMove
  <2>3. Lists1(g, f)
    BY <1>15, <2>1 DEF Stirs, IsNode, Lists1
  <2>4. Rung(g, f, TRUE, Y, FALSE)
    BY <1>15, <2>3, UseRung DEF Y
  <2>5. Want = TRUE
    BY <1>3, WantIs
  <2>6. Rung(g, f, Want, Y, FALSE)
    BY <2>4, <2>5
  <2> QED  BY <1>17, <2>2, <2>6, Keeps1 DEF g
<1>18. CASE Then(z, <<>>)
  <2>1. Stirs(e, s)
    BY <1>15, HasShape, StirsBy
  <2> HIDE DEF s, Y
  <2>2. Has(s, Y)
    BY <1>16, <2>1, HasMove
  <2>3. DOMAIN z = CurFields /\ z.nodes = s.nodes /\ z.lost = s.lost /\ z.ret = f.head
    BY <2>1 DEF Stirs, CurFields
  <2> HIDE DEF z
  <2>4. Has(s, Mine(Want, f.head))
    BY <1>16, <2>2
  <2> QED  BY <1>18, <2>3, <2>4, StopsWith
<1> QED  BY <1>2, <1>17, <1>18

LEMMA DeferOwns == ASSUME Going, Defer PROVE OwnInv'
<1> DEFINE d == Make(cur, "DEFER", <<>>)
           n == d.ret
           m == "body"
           f == F("block")
           g == F("statement")
<1>1. Top.fn \in Idle /\ (Then(Adv(d), <<f, FSet(n, m)>>) \/ Then(d, <<g, FSet(n, m)>>))
  BY DEF Defer, At, Top, Idle, Bare
<1>2. DOMAIN <<>> \intersect Pointers = {} /\ m \in Pointers /\ Stirs(cur, cur)
  BY CurIs DEF Pointers
<1>3. f.fn \in Idle /\ g.fn \in Idle
  BY FIs DEF Idle
<1>4. Stirs(d, d)
  BY <1>1, <1>2, NewIs
<1>5. Stirs(d, Adv(d))
  BY <1>4, StirsBy
<1> HIDE DEF f, g, m
<1>6. CASE Then(Adv(d), <<f, FSet(n, m)>>)
  BY <1>1, <1>2, <1>3, <1>5, <1>6, NewSet
<1>7. CASE Then(d, <<g, FSet(n, m)>>)
  BY <1>1, <1>2, <1>3, <1>4, <1>7, NewSet
<1> QED  BY <1>1, <1>6, <1>7

LEMMA ReturnOwns == ASSUME Going, Return PROVE OwnInv'
<1> DEFINE members == [op |-> "ret"]
           d == Make(cur, "RETURN", members)
           n == d.ret
           m == "operand"
           f == F("expression")
           x == FExpect(SEMICOLON)
<1>1. Top.fn \in Idle /\ (Then(Adv(d), <<>>) \/ Then(d, <<f, FSet(n, m), x>>))
  BY DEF Return, At, Top, Idle
<1>2. DOMAIN members \intersect Pointers = {} /\ m \in Pointers /\ Stirs(cur, cur)
  BY CurIs DEF Pointers
<1>3. f.fn \in Idle /\ x.fn \in Passing
  BY FIs, NodeIs DEF Idle, Passing
<1> HIDE DEF members, f, x, m
<1>4. Stirs(d, d)
  BY <1>1, <1>2, NewIs
<1>5. Stirs(d, Adv(d))
  BY <1>4, StirsBy
<1>6. CASE Then(Adv(d), <<>>)
  BY <1>1, <1>2, <1>5, <1>6, NewEnds
<1>7. CASE Then(d, <<f, FSet(n, m), x>>)
  BY <1>1, <1>2, <1>3, <1>4, <1>7, NewSetPass
<1> QED  BY <1>1, <1>6, <1>7

LEMMA ThreadBlockOwns == ASSUME Going, ThreadBlock PROVE OwnInv'
<1> DEFINE members == [name |-> Word(Ahead.at)]
           c == Adv(Adv(Adv(Ahead)))
           d == Make(c, "THREAD_BLOCK", members)
           n == d.ret
           m == "body"
           f == F("block")
<1>1. Top.fn \in Idle /\ Then(d, <<f, FSet(n, m)>>)
  BY DEF ThreadBlock, At, Top, Idle
<1>2. DOMAIN members \intersect Pointers = {} /\ m \in Pointers /\ Stirs(cur, c)
  BY AheadIs, StirsBy DEF Pointers
<1>3. f.fn \in Idle
  BY FIs DEF Idle
<1> HIDE DEF members, f, m, c
<1>4. Stirs(d, d)
  BY <1>1, <1>2, NewIs
<1> QED  BY <1>1, <1>2, <1>3, <1>4, NewSet

LEMMA ListenOwns == ASSUME Going, Listen PROVE OwnInv'
<1> DEFINE members == [handler_name |-> "global_listener"]
           b == Consume(Consume(Adv(Adv(Ahead)), ")"), ":")
           c == Lose(b, "listener")
           d == Make(c, "LISTEN", members)
           n == d.ret
           m == "expr"
           f == F("block")
           g == F("statement")
<1>1. Top.fn \in Idle /\ (Then(Adv(d), <<f, FSet(n, m)>>) \/ Then(d, <<g, FSet(n, m)>>))
  BY DEF Listen, At, Top, Idle
<1>2. DOMAIN members \intersect Pointers = {} /\ m \in Pointers
  BY DEF Pointers
<1>3. Stirs(cur, c)
  <2>1. Stirs(cur, Adv(Adv(Ahead)))
    BY AheadIs, StirsBy
  <2>2. Stirs(cur, Consume(Adv(Adv(Ahead)), ")"))
    BY <2>1, StirsBy
  <2>3. Stirs(cur, b)
    BY <2>2, StirsBy
  <2> HIDE DEF b
  <2> QED  BY <2>3, StirsBy
<1>4. f.fn \in Idle /\ g.fn \in Idle
  BY FIs DEF Idle
<1> HIDE DEF members, c, f, g, m
<1>5. Stirs(d, d)
  BY <1>1, <1>2, <1>3, NewIs
<1>6. Stirs(d, Adv(d))
  BY <1>5, StirsBy
<1>7. CASE Then(Adv(d), <<f, FSet(n, m)>>)
  BY <1>1, <1>2, <1>3, <1>4, <1>6, <1>7, NewSet
<1>8. CASE Then(d, <<g, FSet(n, m)>>)
  BY <1>1, <1>2, <1>3, <1>4, <1>5, <1>8, NewSet
<1> QED  BY <1>1, <1>7, <1>8

(* The commands that only call one function.                               *)
LEMMA CallOwns ==
  ASSUME Going, Packed \/ Command \/ TypeCommand \/ NewType \/ LateGroup \/ BareBlock \/ NoCommand
  PROVE  OwnInv'
<1> DEFINE k == FType(KindOf(Tok(cur)), NoName)
           t == FType("STRUCT_DECL", NoName)
           Calls == {k, t, F("command"), F("newtype"), F("group"), F("block"), F("control")}
<1>1. /\ Top.fn \in Idle
      /\ \E f \in Calls : \/ Then(Ahead, <<f>>) \/ Then(Adv(Ahead), <<f>>) \/ Then(cur, <<f>>)
                          \/ Then(Lose(Ahead, "not"), <<f>>)
  BY DEF Packed, Command, TypeCommand, NewType, LateGroup, BareBlock, NoCommand, At, Top, Idle
<1>2. PICK f \in Calls : \/ Then(Ahead, <<f>>) \/ Then(Adv(Ahead), <<f>>) \/ Then(cur, <<f>>)
                         \/ Then(Lose(Ahead, "not"), <<f>>)
  BY <1>1
<1>3. f.fn \in Idle
  BY NodeIs, FIs DEF Idle
<1>4. /\ Stirs(cur, Ahead) /\ Stirs(cur, Adv(Ahead)) /\ Stirs(cur, cur)
      /\ Stirs(cur, Lose(Ahead, "not"))
  BY CurIs, AheadIs, StirsBy
<1> HIDE DEF Calls
<1> QED  BY <1>1, <1>2, <1>3, <1>4, IdleCalls1

LEMMA JumpOwns == ASSUME Going, Jump PROVE OwnInv'
<1> DEFINE p == Consume(Ahead, "(")
           members == [label_name |-> Word(p.at)]
           c == Adv(p)
           j == Make(c, "NEXUS_JUMP", members)
           e == Consume(j, ")")
           d == Consume(e, SEMICOLON)
           f == F("control")
<1>1. Top.fn \in Idle /\ (Then(d, <<>>) \/ Then(Fails(p), <<f>>))
  BY DEF Jump, At, Top, Idle
<1>2. Stirs(cur, p)
  BY AheadIs, StirsBy
<1>3. DOMAIN members \intersect Pointers = {} /\ f.fn \in Idle
  BY FIs DEF Pointers, Idle
<1> HIDE DEF p, members, f
<1>4. Stirs(cur, c) /\ Stirs(cur, Fails(p))
  BY <1>2, StirsBy
<1> HIDE DEF c
<1>5. Stirs(j, j)
  BY <1>1, <1>3, <1>4, NewIs
<1> DEFINE i == j
<1>6. Stirs(i, d)
  <2> HIDE DEF j
  <2>1. Stirs(j, e)
    BY <1>5, StirsBy
  <2> HIDE DEF e
  <2> QED  BY <2>1, StirsBy
<1>7. CASE Then(d, <<>>)
  <2> HIDE DEF d
  <2> QED  BY <1>1, <1>3, <1>4, <1>6, <1>7, NewEnds
<1>8. CASE Then(Fails(p), <<f>>)
  BY <1>1, <1>3, <1>4, <1>8, IdleCalls1
<1> QED  BY <1>1, <1>7, <1>8

LEMMA HaltOwns == ASSUME Going, Halt PROVE OwnInv'
<1> DEFINE d == Make(Ahead, "NEXUS_HALT", <<>>)
           n == d.ret
           m == "expr"
           f == F("expression")
           x == FExpect(SEMICOLON)
<1>1. Top.fn \in Idle /\ (Then(Adv(d), <<>>) \/ Then(d, <<f, FSet(n, m), x>>))
  BY DEF Halt, At, Top, Idle, Bare
<1>2. DOMAIN <<>> \intersect Pointers = {} /\ m \in Pointers /\ Stirs(cur, Ahead)
  BY AheadIs DEF Pointers
<1>3. f.fn \in Idle /\ x.fn \in Passing
  BY FIs, NodeIs DEF Idle, Passing
<1> HIDE DEF f, x, m
<1>4. Stirs(d, d)
  BY <1>1, <1>2, NewIs
<1>5. Stirs(d, Adv(d))
  BY <1>4, StirsBy
<1>6. CASE Then(Adv(d), <<>>)
  BY <1>1, <1>2, <1>5, <1>6, NewEnds
<1>7. CASE Then(d, <<f, FSet(n, m), x>>)
  BY <1>1, <1>2, <1>3, <1>4, <1>7, NewSetPass
<1> QED  BY <1>1, <1>6, <1>7

LEMMA IntentOwns == ASSUME Going, Intent PROVE OwnInv'
<1> DEFINE c == Match(Ahead, "id")
           members == [intent_name |-> IF Tok(Ahead) = "id" THEN Word(Ahead.at) ELSE Zero]
           d == Make(c, "NEXUS_INTENT", members)
           n == d.ret
           m == "target"
           f == F("expression")
           x == FExpect(")")
           y == F("optsemi")
<1>1. Top.fn \in Idle /\ (Then(d, <<y>>) \/ Then(Adv(d), <<f, FSet(n, m), x, y>>))
  BY DEF Intent, At, Top, Idle
<1>2. DOMAIN members \intersect Pointers = {} /\ m \in Pointers /\ Stirs(cur, c)
  BY AheadIs, StirsBy DEF Pointers
<1>3. f.fn \in Idle /\ x.fn \in Passing /\ y.fn \in Passing
  BY FIs, NodeIs DEF Idle, Passing
<1> HIDE DEF members, f, x, y, m, c
<1>4. Stirs(d, d)
  BY <1>1, <1>2, NewIs
<1>5. Stirs(d, Adv(d))
  BY <1>4, StirsBy
<1>6. CASE Then(Adv(d), <<f, FSet(n, m), x, y>>)
  BY <1>1, <1>2, <1>3, <1>5, <1>6, NewSetPass
<1>7. CASE Then(d, <<y>>)
  <2> DEFINE X == {}
  <2>1. Want /\ Has(d, {d.ret})
    BY <1>1, <1>2, <1>4, NewOf
  <2> HIDE DEF d
  <2>2. Rung(d, y, TRUE, X, TRUE)
    BY <1>3, PassRung
  <2>3. Want = TRUE
    BY <2>1, WantIs
  <2>4. Rung(d, y, Want, X, TRUE) /\ d.ret \notin X
    BY <2>2, <2>3
  <2>5. Has(d, X \union Returned(d, TRUE))
    <3>1. X \union Returned(d, TRUE) = {d.ret}
      BY DEF Returned
    <3> QED  BY <2>1, <3>1
  <2> HIDE DEF X
  <2> QED  BY <1>7, <2>4, <2>5, Calling1
<1> QED  BY <1>1, <1>6, <1>7

LEMMA PanicNowOwns == ASSUME Going, PanicNow PROVE OwnInv'
<1> DEFINE members == [message |-> IF Tok(Ahead) = "str" THEN Word(Ahead.at) ELSE "Critical Panic"]
           b == Match(Ahead, "str")
           c == Consume(b, SEMICOLON)
<1>1. Top.fn \in Idle /\ Then(Make(c, "PANIC", members), <<>>)
  BY DEF PanicNow, At, Top, Idle
<1>2. Stirs(cur, b) /\ DOMAIN members \intersect Pointers = {}
  BY AheadIs, StirsBy DEF Pointers
<1> HIDE DEF members, b
<1>3. Stirs(cur, c)
  BY <1>2, StirsBy
<1> HIDE DEF c
<1> QED  BY <1>1, <1>2, <1>3, EndsWithNew

LEMMA ExpressionStatementOwns == ASSUME Going, ExpressionStatement PROVE OwnInv'
<1>1. Top.fn \in Idle /\ Then(cur, <<F("expression"), F("exprrest")>>)
  BY DEF ExpressionStatement, At, Top, Idle
<1>2. F("expression").fn \in Idle /\ F("exprrest").fn \in Users
  BY FIs DEF Idle, Users
<1> QED  BY <1>1, <1>2, CurIs, IdleCalls2

(* The head of a label is unwrapped.                                       *)
LEMMA KeepsUnwrap ==
  ASSUME Going, Want, NEW c, NEW f, f.fn = "unwrap", Has(c, {f.n}),
         f.head = f.n \/ c.nodes[f.n].type = "TUPLE", Then(c, <<f>>)
  PROVE  OwnInv'
<1> DEFINE X == {f.n}
<1>1. f.n \in X /\ Has(c, X)
  OBVIOUS
<1> HIDE DEF X
<1>2. IsNode(c, f.n) /\ f.n # NULL
  BY <1>1, HasShape DEF IsNode, NULL
<1>3. Rung(c, f, TRUE, X, FALSE)
  BY <1>2 DEF X, Rung, Sits, Own, Goes, Kind, Passing, Using, Returning, Waiting, Listing, Barren
<1>4. Want = TRUE
  BY WantIs
<1>5. Rung(c, f, Want, X, FALSE)
  BY <1>3, <1>4
<1> QED  BY <1>1, <1>5, Keeps1

LEMMA ExpressionRestOwns == ASSUME Going, ExpressionRest PROVE OwnInv'
<1> DEFINE r == cur.ret
           f == [FNode("unwrap", r) EXCEPT !.head = r]
           c == Consume(cur, SEMICOLON)
<1>1. Top.fn \in Users /\ (Then(Ahead, <<f>>) \/ Then(cur, <<>>) \/ Then(c, <<>>))
  BY CurIs DEF ExpressionRest, At, Top, Users
<1>2. Want /\ Has(cur, {r})
  BY <1>1, UserTop
<1>3. Stirs(cur, Ahead) /\ Stirs(cur, c)
  BY CurIs, AheadIs, StirsBy
<1>4. f.fn = "unwrap" /\ f.n = r /\ f.head = r
  BY FIs DEF FNode, FrameFields
<1> HIDE DEF c, f
<1>5. Has(Ahead, {r}) /\ Has(c, {r}) /\ c.ret = r
  BY <1>2, <1>3, MoveRet
<1> HIDE DEF r
<1>6. CASE Then(Ahead, <<f>>)
  <2>1. Has(Ahead, {f.n})
    BY <1>4, <1>5
  <2> QED  BY <1>2, <1>4, <1>6, <2>1, KeepsUnwrap
<1>7. CASE Then(cur, <<>>)
  BY <1>2, <1>7, Returns1 DEF r
<1>8. CASE Then(c, <<>>)
  <2>1. Has(c, {c.ret})
    BY <1>5
  <2> QED  BY <1>2, <1>8, <2>1, Returns1
<1> QED  BY <1>1, <1>6, <1>7, <1>8

LEMMA UnwrapOwns == ASSUME Going, Unwrap PROVE OwnInv'
<1> DEFINE f == IF Unwraps(Top.head) THEN [Top EXCEPT !.head = cur.nodes[@].at["elements"]]
                ELSE Top
<1>1. Top.fn = "unwrap" /\ Then(cur, <<f>>) /\ cur.nodes[Top.head].type = "TUPLE"
  BY DEF Unwrap, At, Top, TypeOf
<1>2. Want /\ Has(cur, {Top.n}) /\ (Top.head = Top.n \/ cur.nodes[Top.n].type = "TUPLE")
  BY <1>1, UnwrapTop
<1>3. f.fn = "unwrap" /\ f.n = Top.n
  BY <1>1, CurIs DEF FrameFields
<1> HIDE DEF f
<1>4. Has(cur, {f.n}) /\ (f.head = f.n \/ cur.nodes[f.n].type = "TUPLE")
  BY <1>1, <1>2, <1>3
<1> QED  BY <1>1, <1>2, <1>3, <1>4, KeepsUnwrap

LEMMA LabelOwns == ASSUME Going, Label PROVE OwnInv'
<1> DEFINE n == Top.n
           t == cur.nodes[Top.head].type
           names == [IDENTIFIER |-> "name", LITERAL |-> "string_value"]
           members == [label_name |-> cur.nodes[Top.head].at[names[t]]]
           l == Make(cur, "NEXUS_LABEL", members)
           x == l.ret
           z == [Fails(cur) EXCEPT !.ret = n]
           m == "statement"
           f == F("block")
           g == F("statement")
<1>1. /\ Top.fn = "unwrap"
      /\ \/ Then(z, <<>>)
         \/ /\ t \in {"IDENTIFIER", "LITERAL"}
            /\ \/ Then(Adv(l), <<f, FSet(x, m)>>) \/ Then(l, <<>>) \/ Then(l, <<g, FSet(x, m)>>)
  BY DEF Label, At, Top, TypeOf
<1>2. /\ Want /\ Has(cur, {n}) /\ IsNode(cur, n)
      /\ (Top.head = n \/ cur.nodes[n].type = "TUPLE")
  BY <1>1, UnwrapTop
<1>3. DOMAIN members \intersect Pointers = {} /\ m \in Pointers /\ f.fn \in Idle /\ g.fn \in Idle
  BY FIs DEF Pointers, Idle
<1>4. CASE Then(z, <<>>)
  <2>1. z.bad
    BY CurIs DEF Fails, CurFields
  <2> QED  BY <1>4, <2>1, BadOwns
<1> HIDE DEF members, f, g, m, names
<1>5. CASE /\ t \in {"IDENTIFIER", "LITERAL"}
           /\ \/ Then(Adv(l), <<f, FSet(x, m)>>) \/ Then(l, <<>>) \/ Then(l, <<g, FSet(x, m)>>)
  <2> DEFINE N == {n}
             P == N \union {x}
             X == {x}
  <2>1. Has(cur, N)
    BY <1>2
  <2> HIDE DEF N
  <2>2. Gains(l, N, "NEXUS_LABEL")
    BY <1>3, <2>1, HasMake0
  <2>3. Has(l, P) /\ IsNode(l, x) /\ DOMAIN l = CurFields
    BY <2>2 DEF Gains
  <2>4. cur.nodes[n].type \in {"IDENTIFIER", "LITERAL", "TUPLE"}
    BY <1>2, <1>5
  <2> HIDE DEF l, x, P
  <2>5. l.nodes[n].type = cur.nodes[n].type
    BY <1>2, <2>3, HasShape
  <2>6. X \subseteq P /\ \A i \in P \ X : Excused(l, i)
    <3>1. \A i \in P \ X : i = n
      BY DEF P, N
    <3> QED  BY <2>4, <2>5, <3>1 DEF Excused, P
  <2> HIDE DEF n, X
  <2>7. Has(l, X)
    BY <2>3, <2>6, HasLess
  <2>8. Stirs(l, Adv(l))
    BY <2>3, HasShape, StirsBy
  <2>9. Has(Adv(l), X)
    BY <2>7, <2>8, HasMove
  <2>10. IsNode(Adv(l), x) /\ l.ret = x
    BY <2>3, <2>8 DEF Stirs, IsNode, x
  <2>11. X = Mine(Want, x)
    BY <1>2, MineIs DEF X
  <2>12. CASE Then(Adv(l), <<f, FSet(x, m)>>)
    BY <1>3, <2>9, <2>10, <2>11, <2>12, IdleSet
  <2>13. CASE Then(l, <<g, FSet(x, m)>>)
    BY <1>3, <2>3, <2>7, <2>11, <2>13, IdleSet
  <2>14. CASE Then(l, <<>>)
    <3>1. Has(l, {l.ret})
      BY <2>7, <2>10 DEF X
    <3> QED  BY <1>2, <2>14, <3>1, Returns1
  <2> QED  BY <1>5, <2>12, <2>13, <2>14
<1> QED  BY <1>1, <1>4, <1>5

LEMMA NewTypeNamedOwns == ASSUME Going, NewTypeNamed PROVE OwnInv'
<1> DEFINE f == FType(NewKind, Word(cur.prev))
<1>1. Top.fn \in Idle /\ Then(cur, <<f>>)
  BY DEF NewTypeNamed, At, Top, Idle
<1>2. f.fn \in Idle
  BY NodeIs DEF Idle
<1> HIDE DEF f
<1> QED  BY <1>1, <1>2, CurIs, IdleCalls1

LEMMA NewTypeOfKindOwns == ASSUME Going, NewTypeOfKind PROVE OwnInv'
<1> DEFINE c == IF Bareword THEN Ahead ELSE cur
           colon == Match(c, ":")
           e == Match(colon, "id")
           a == Adv(c)
           d == Make(a, NewKind, <<>>)
           n == d.ret
           fn == IF NewKind = "ENUM_DECL" THEN "plainvariants" ELSE "fields"
           f == List(fn, n, NoName)
           g == FNode("cname", n)
           s == FType(NewKind, Word(cur.at))
           t == FType(NewKind, IF Tok(colon) = "id" THEN Word(colon.at) ELSE NoName)
<1>1. /\ Top.fn \in Idle
      /\ \/ Then(c, <<s>>) \/ Then(d, <<f, g>>) \/ Then(e, <<t>>)
  BY DEF NewTypeOfKind, At, Top, Idle, Bare
<1>2. Stirs(cur, c) /\ fn \in {"plainvariants", "fields"}
  BY CurIs, AheadIs
<1> HIDE DEF c, fn
<1>3. Stirs(cur, colon) /\ Stirs(cur, a)
  BY <1>2, StirsBy
<1>4. s.fn \in Idle /\ t.fn \in Idle
  BY NodeIs DEF Idle
<1> HIDE DEF colon, s, t, a
<1>5. Stirs(cur, e)
  BY <1>3, StirsBy
<1> HIDE DEF e
<1>6. CASE Then(c, <<s>>)
  BY <1>1, <1>2, <1>4, <1>6, IdleCalls1
<1>7. CASE Then(e, <<t>>)
  BY <1>1, <1>4, <1>5, <1>7, IdleCalls1
<1>8. CASE Then(d, <<f, g>>)
  <2> DEFINE X == {n}
             Z == {}
  <2>1. DOMAIN <<>> \intersect Pointers = {}
    OBVIOUS
  <2>2. Want /\ Gains(d, Z, NewKind)
    BY <1>1, <1>3, <2>1, MakesOne
  <2> HIDE DEF d
  <2>3. Has(d, X) /\ IsNode(d, n)
    BY <2>2, GainsOne
  <2>4. /\ f.fn \in Rows /\ f.n = n /\ f.head = NULL
        /\ g.fn \in Givers /\ g.n = n /\ g.head = NULL
    BY <1>2, NodeIs DEF Rows, Givers
  <2> HIDE DEF f, g
  <2>5. Rung(d, g, Want, X, FALSE)
    <3>1. Rung(d, g, TRUE, Mine(TRUE, n), FALSE)
      BY <2>3, <2>4, GiveRung
    <3>2. Mine(TRUE, n) = X /\ Want = TRUE
      BY <2>2, WantIs, MineIs
    <3> QED  BY <3>1, <3>2
  <2>6. Rung(d, f, FALSE, Z, FALSE)
    <3>1. Lists1(d, f) /\ Some(f.head) = {}
      BY <2>4 DEF Lists1, Some
    <3>2. Rung(d, f, FALSE, Mine(FALSE, f.n) \union Some(f.head), FALSE)
      BY <2>3, <2>4, <3>1, RowRung
    <3>3. Mine(FALSE, f.n) \union Some(f.head) = Z
      BY <3>1, MineIs
    <3> QED  BY <3>2, <3>3
  <2> HIDE DEF X
  <2> QED  BY <1>8, <2>3, <2>5, <2>6, Keeps2
<1> QED  BY <1>1, <1>6, <1>7, <1>8

LEMMA NameBehindOwns == ASSUME Going, NameBehind PROVE OwnInv'
<1> DEFINE n == Top.n
           M == Mine(Want, n)
           put == Put(Ahead, n, "name", Word(cur.at))
           c == IF Sees({"id"}) THEN put ELSE Fails(cur)
           s == Lose(c, "place")
           e == Consume(s, SEMICOLON)
           d == [e EXCEPT !.ret = n]
<1>1. Top.fn \in Givers /\ Then(d, <<>>)
  BY DEF NameBehind, At, Top, Givers
<1>2. Has(cur, M) /\ IsNode(cur, n) /\ "name" \notin Pointers
  BY <1>1, GiveTop DEF Pointers
<1>3. Stirs(cur, Ahead) /\ Stirs(cur, Fails(cur))
  BY CurIs, AheadIs, StirsBy
<1> HIDE DEF n, M
<1>4. Has(Ahead, M) /\ Has(Fails(cur), M)
  BY <1>2, <1>3, MoveRet
<1>5. IsNode(Ahead, n)
  BY <1>2, <1>4, HasShape
<1>6. Has(put, M)
  BY <1>2, <1>4, <1>5, HasWord
<1> HIDE DEF put
<1>7. Has(c, M)
  BY <1>4, <1>6
<1> HIDE DEF c
<1>8. Stirs(c, s)
  BY <1>7, HasShape, StirsBy
<1> HIDE DEF s
<1>9. Stirs(c, e)
  BY <1>8, StirsBy
<1> HIDE DEF e
<1>10. Has(e, M)
  BY <1>7, <1>9, HasMove
<1>11. DOMAIN d = CurFields /\ d.nodes = e.nodes /\ d.lost = e.lost /\ d.ret = n
  BY <1>9 DEF Stirs, CurFields
<1> HIDE DEF d
<1> QED  BY <1>1, <1>10, <1>11, StopsWith DEF M

LEMMA NewTypeAliasOwns == ASSUME Going, NewTypeAlias PROVE OwnInv'
<1> DEFINE c == Consume(cur, "=")
           t == IF Tok(c) \in TypeTokens THEN Adv(c) ELSE c
           members == [name |-> Word(cur.prev), target_type |-> Word(t.prev)]
           n == Make(t, "NEWTYPE_DECL", members)
           d == Consume(n, SEMICOLON)
<1>1. Top.fn \in Idle /\ Then(d, <<>>)
  BY DEF NewTypeAlias, At, Top, Idle
<1>2. Stirs(cur, c)
  BY CurIs, StirsBy
<1>3. DOMAIN members \intersect Pointers = {}
  BY DEF Pointers
<1> HIDE DEF c, members
<1>4. Stirs(cur, t)
  BY <1>2, StirsBy
<1> HIDE DEF t
<1>5. Stirs(n, n)
  BY <1>1, <1>3, <1>4, NewIs
<1>6. Stirs(n, d)
  <2> HIDE DEF n
  <2> QED  BY <1>5, StirsBy
<1> HIDE DEF d
<1> QED  BY <1>1, <1>3, <1>4, <1>6, NewEnds

LEMMA NewTypeFreedOwns == ASSUME Going, NewTypeFreed PROVE OwnInv'
<1>1. Crash("freed") /\ "freed" # "no"
  BY DEF NewTypeFreed
<1> QED  BY <1>1, CrashOwns

-------------------------------------------------------------------------------
(* The program, and what main does with it.                                *)
LEMMA ProgramOwns == ASSUME Going, Program PROVE OwnInv'
<1> DEFINE f == F("statement")
           h == FLink(Top)
           d == Put(cur, Top.n, "statements", Top.head)
           x == F("compile")
           y == F("destroy")
           X == Some(Top.head)
           Z == {}
<1>1. /\ Top.fn = "program"
      /\ Then(cur, <<f, h>>) \/ Then(d, <<y>>) \/ Then(d, <<x, y>>)
  BY DEF Program, At, Top
<1>2. ~Want /\ Has(cur, X) /\ IsNode(cur, Top.n) /\ Lists1(cur, Top)
  BY <1>1, ProgramTop
<1>3. Want = FALSE
  BY <1>2, WantIs
<1>4. CASE Then(cur, <<f, h>>)
  <2>1. Rung(cur, h, FALSE, X, TRUE)
    BY <1>1, <1>2, CurIs, ProgramRungs
  <2>2. Rung(cur, h, Want, X, TRUE)
    BY <1>3, <2>1
  <2>3. f.fn \in Idle
    BY FIs DEF Idle
  <2> HIDE DEF X, f, h
  <2> QED  BY <1>2, <1>4, <2>2, <2>3, Idle2
<1>5. CASE Then(d, <<y>>) \/ Then(d, <<x, y>>)
  <2>1. "statements" \in Pointers /\ {} \union X = X /\ {} \intersect X = {}
    BY DEF Pointers
  <2>2. Has(cur, {} \union Some(Top.head)) /\ {} \intersect Some(Top.head) = {}
    BY <1>2, <2>1
  <2>3. Has(d, Z)
    BY <1>2, <2>1, <2>2, HasRow
  <2> HIDE DEF d
  <2>4. y.fn \in {"compile", "destroy"} /\ x.fn \in {"compile", "destroy"}
    BY FIs
  <2> HIDE DEF x, y
  <2>5. Rung(d, y, FALSE, {}, FALSE) /\ Rung(d, x, FALSE, {}, FALSE)
    BY <2>4 DEF Rung, Sits, Own, Goes, Kind, Passing, Using, Returning, Waiting, Listing, Barren
  <2>6. Rung(d, y, Want, Z, FALSE) /\ Rung(d, x, FALSE, {}, FALSE)
    BY <1>3, <2>5
  <2>7. CASE Then(d, <<y>>)
    BY <2>3, <2>6, <2>7, Keeps1
  <2>8. CASE Then(d, <<x, y>>)
    BY <2>3, <2>6, <2>8, Keeps2
  <2> QED  BY <1>5, <2>7, <2>8
<1> QED  BY <1>1, <1>4, <1>5

LEMMA EndOwns == ASSUME Going, SemanticErrors \/ Compile \/ DestroyTree PROVE OwnInv'
<1> DEFINE c == [cur EXCEPT !.asm = Code(cur.nodes, 1)]
<1>1. Top.fn \in {"compile", "destroy"} /\ (Then(cur, <<>>) \/ Then(c, <<>>))
  BY DEF SemanticErrors, Compile, DestroyTree, At, Top
<1>2. ~Want /\ Has(cur, {})
  BY <1>1, LastTop
<1>3. DOMAIN c = CurFields /\ c.nodes = cur.nodes /\ c.lost = cur.lost
  BY CurIs DEF CurFields
<1> HIDE DEF c
<1>4. Has(c, {})
  BY <1>2, <1>3, HasLike
<1>5. Returned(cur, Want) = {} /\ Returned(c, Want) = {}
  BY <1>2 DEF Returned
<1> QED  BY <1>1, <1>2, <1>4, <1>5, Stops

LEMMA DestroyJunkOwns == ASSUME Going, DestroyJunk PROVE OwnInv'
  BY DEF DestroyJunk, Going

(* The first frame: main makes the program, whose statements are its list. *)
LEMMA RunOwns ==
  ASSUME Heap(cur), cur.nodes = <<>>, stack = <<F("run")>>, Run
  PROVE  OwnInv'
<1> DEFINE a == Adv(cur)
           p == Bare(a, "PROGRAM")
           f == List("program", p.ret, NoName)
           st == <<f>>
           e == <<>>
<1>1. Then(p, st)
  BY DEF Run
<1>2. Shaped(cur) /\ IsSeq(cur.nodes) /\ Len(cur.nodes) = 0
  <2>1. Len(cur.nodes) = 0
    OBVIOUS
  <2> QED  BY <2>1, HeapShaped DEF Shaped
<1>3. Tidy(cur, {})
  BY <1>2 DEF Tidy, Points
<1>4. DOMAIN a = CurFields /\ a.nodes = cur.nodes /\ a.lost = cur.lost
  BY <1>2 DEF Shaped, Adv, CurFields
<1> HIDE DEF a
<1>5. Tidy(a, {}) /\ Len(a.nodes) = 0
  BY <1>2, <1>3, <1>4, TidyMove
<1>6. Tidy(p, {p.ret}) /\ p.ret = 1 /\ Len(p.nodes) = 1
  <2>1. Feeds("PROGRAM", e, {})
    BY DEF Feeds
  <2>2. Tidy(p, ({} \ {}) \union {p.ret}) /\ Adds(a, p, "PROGRAM")
    BY <1>5, <2>1, TidyMake DEF Bare
  <2> QED  BY <1>5, <2>2 DEF Adds
<1> HIDE DEF p
<1>7. Tidy(p, {})
  BY <1>6 DEF Tidy
<1>8. f.fn = "program" /\ f.n = 1 /\ f.head = NULL
  BY <1>6 DEF List, F
<1> HIDE DEF f
<1>9. Sits(p, f, FALSE) /\ Own(f, FALSE) = {} /\ ~Goes(f, FALSE)
  BY <1>6, <1>8 DEF Sits, Own, Goes, Kind, Passing, Using, Returning, Waiting, Listing, Barren, IsNode
<1>10. Tail(stack) = e
  <2> DEFINE g == F("run")
  <2>1. stack = <<g>>
    OBVIOUS
  <2> HIDE DEF g
  <2> QED  BY <2>1
<1>11. Pushed(st, f, e) /\ st \o e = st
  BY DEF Pushed, IsSeq
<1>12. Needed(e) = FALSE /\ KeptBy(e) = {} /\ Fair(p, e)
  BY DEF Needed, LiveAt, KeptBy, Fair
<1> HIDE DEF st, e
<1>13. Fair(p, st) /\ KeptBy(st) = {} /\ ~Needed(st)
  <2>1. Pushed(st, f, e)
    BY <1>11
  <2>2. Needed(st) <=> Goes(f, Needed(e))
    BY <2>1, NeededShift
  <2>3. KeptBy(st) = KeptBy(e) \union Own(f, Needed(e))
    BY <2>1, OwnShift
  <2>4. Fair(p, st) <=> /\ Fair(p, e) /\ Sits(p, f, Needed(e))
                        /\ Own(f, Needed(e)) \intersect KeptBy(e) = {}
    BY <2>1, FairShift
  <2> QED  BY <1>9, <1>12, <2>2, <2>3, <2>4
<1>14. Live(p, st) = {} /\ KeptBy(st) \union Live(p, st) = {}
  BY <1>13 DEF Live
<1>15. Owned(p, st)
  BY <1>7, <1>11, <1>13, <1>14 DEF Owned, Pushed
<1>16. cur' = p /\ stack' = st
  BY <1>1, <1>10, <1>11 DEF Then
<1> QED  BY <1>15, <1>16 DEF OwnInv

-------------------------------------------------------------------------------
(* The invariant.                                                          *)

LEMMA CallsOwn == ASSUME Going, Parse PROVE OwnInv'
<1>1. CASE Expect \/ OptSemi \/ Give \/ SetChild \/ Link \/ Argument \/ LiteralExpr \/ IdentifierExpr
  BY <1>1, ExpectOwns, OptSemiOwns, GiveOwns, SetChildOwns, LinkOwns, ArgumentOwns, LiteralExprOwns, IdentifierExprOwns
<1>2. CASE LambdaExpr \/ LoopExpr \/ LoopKind \/ LoopBody \/ InfiniteLoop \/ Parenthesis \/ Paren \/ BraceTuple
  BY <1>2, LambdaExprOwns, LoopExprOwns, LoopKindOwns, LoopBodyOwns, InfiniteLoopOwns, ParenthesisOwns, ParenOwns, BraceTupleOwns
<1>3. CASE Brace \/ TupleRest \/ IntrinsicCall \/ AiLogic \/ NotPrimary \/ Postfix \/ PostfixRest \/ Unary
  BY <1>3, BraceOwns, TupleRestOwns, IntrinsicCallOwns, AiLogicOwns, NotPrimaryOwns, PostfixOwns, PostfixRestOwns, UnaryOwns
<1>4. CASE UnaryRest \/ BinaryExpr \/ LeftOperand \/ RightOperand \/ NexusFlow \/ FlowOp \/ FlowRight \/ FlowEnd
  BY <1>4, UnaryRestOwns, BinaryExprOwns, LeftOperandOwns, RightOperandOwns, NexusFlowOwns, FlowOpOwns, FlowRightOwns, FlowEndOwns
<1>5. CASE Assignment \/ Assign \/ Assigned \/ VarDecl \/ VarInit \/ Fields \/ Variants \/ Params
  BY <1>5, AssignmentOwns, AssignOwns, AssignedOwns, VarDeclOwns, VarInitOwns, FieldsOwns, VariantsOwns, ParamsOwns
<1>6. CASE Function \/ FunctionRest \/ Lambda \/ Block \/ Statements \/ TypeDecl \/ NewTypeNamed \/ NewTypeOfKind
  BY <1>6, FunctionOwns, FunctionRestOwns, LambdaOwns, BlockOwns, StatementsOwns, TypeDeclOwns, NewTypeNamedOwns, NewTypeOfKindOwns
<1>7. CASE PlainVariants \/ SkipData \/ NameBehind \/ NewTypeAlias \/ NewTypeFreed \/ Group \/ Method \/ GroupMember
  BY <1>7, PlainVariantsOwns, SkipDataOwns, NameBehindOwns, NewTypeAliasOwns, NewTypeFreedOwns, GroupOwns, MethodOwns, GroupMemberOwns
<1>8. CASE Statement \/ Declaration \/ Flags \/ Use \/ Defer \/ Return \/ ThreadBlock \/ Listen
  BY <1>8, StatementOwns, DeclarationOwns, FlagsOwns, UseOwns, DeferOwns, ReturnOwns, ThreadBlockOwns, ListenOwns
<1>9. CASE Packed \/ Command \/ TypeCommand \/ NewType \/ LateGroup \/ BareBlock \/ NoCommand
  BY <1>9, CallOwns
<1>10. CASE Jump \/ Halt \/ Intent \/ PanicNow \/ ExpressionStatement \/ ExpressionRest \/ Unwrap \/ Label
  BY <1>10, JumpOwns, HaltOwns, IntentOwns, PanicNowOwns, ExpressionStatementOwns, ExpressionRestOwns, UnwrapOwns, LabelOwns
<1>11. CASE Run
  <2>1. Top.fn = "run"
    BY <1>11, OnTop DEF Run
  <2> QED  BY <2>1, GoingIs DEF Sits
<1>12. CASE Program \/ SemanticErrors \/ Compile \/ DestroyTree \/ DestroyJunk
  BY <1>12, ProgramOwns, EndOwns, DestroyJunkOwns
<1> QED  BY <1>1, <1>2, <1>3, <1>4, <1>5, <1>6, <1>7, <1>8, <1>9, <1>10, <1>11, <1>12 DEF Parse

LEMMA OwnStarts == Init => OwnInv
<1> SUFFICES ASSUME Init PROVE OwnInv
  OBVIOUS
<1>1. cur.nodes = <<>> /\ stack = <<F("run")>>
  BY DEF Init
<1> QED  BY <1>1 DEF OwnInv

LEMMA OwnSteps == Inv /\ OwnInv /\ [Next]_vars => OwnInv'
<1> SUFFICES ASSUME Inv, OwnInv, [Next]_vars PROVE OwnInv'
  OBVIOUS
<1>1. CASE UNCHANGED <<cur, stack>>
  <2>1. cur' = cur /\ stack' = stack
    BY <1>1
  <2> QED  BY <2>1 DEF OwnInv
<1>2. CASE Parse
  <2>1. stack # <<>> /\ (Run \/ Top.fn # "run")
    BY <1>2, ParseOnTop
  <2>2. CASE cur.bad
    <3>1. Meek(cur)
      BY DEF Inv, Meek
    <3>2. Meek(cur')
      BY <1>2, <3>1, MeekSteps
    <3> QED  BY <2>2, <3>2 DEF Meek, OwnInv
  <2>3. CASE ~cur.bad
    <3>1. Good(cur, stack)
      BY <2>1, <2>3 DEF Inv, Sound
    <3>2. Heap(cur) /\ cur.crash = "no"
      BY <3>1 DEF Good
    <3>3. CASE cur.nodes = <<>> /\ stack = <<F("run")>>
      <4>1. Top = F("run")
        BY <3>3 DEF Top
      <4>2. Run
        BY <2>1, <4>1, FIs
      <4> QED  BY <3>2, <3>3, <4>2, RunOwns
    <3>4. CASE ~(cur.nodes = <<>> /\ stack = <<F("run")>>)
      <4>1. Owned(cur, stack)
        BY <2>3, <3>2, <3>4 DEF OwnInv
      <4>2. Going
        BY <2>1, <2>3, <3>1, <3>4, <4>1, CallingIs DEF Going
      <4> QED  BY <1>2, <4>2, CallsOwn
    <3> QED  BY <3>3, <3>4
  <2> QED  BY <2>2, <2>3
<1> QED  BY <1>1, <1>2 DEF Next, vars

(* What the account says of a program that is accepted: nothing is kept.   *)
LEMMA OwnMeans == Inv /\ OwnInv => OneOwner
<1> SUFFICES ASSUME Inv, OwnInv, Accepted, NEW n \in DOMAIN cur.nodes \ {1}
             PROVE  \/ Cardinality(Owners(n)) = 1
                    \/ Owners(n) = {} /\ (cur.lost # {} \/ TypeOf(n) \in {"IDENTIFIER", "LITERAL", "TUPLE"})
  BY DEF OneOwner
<1>1. stack = <<>> /\ cur.crash = "no" /\ ~cur.bad
  BY DEF Accepted, Done
<1>2. DOMAIN cur.nodes = 1..Len(cur.nodes)
  BY AcceptedGood
<1>3. Owned(cur, stack)
  <2> DEFINE f == F("run")
  <2>1. <<f>> # <<>>
    OBVIOUS
  <2> QED  BY <1>1, <2>1 DEF OwnInv
<1>4. KeptBy(stack) = {} /\ Live(cur, stack) = {}
  BY <1>1 DEF KeptBy, Live, Needed, LiveAt
<1>5. Tidy(cur, {})
  <2>1. KeptBy(stack) \union Live(cur, stack) = {}
    BY <1>4
  <2> QED  BY <1>3, <2>1 DEF Owned
<1>6. n \in 1..Len(cur.nodes) /\ n # 1 /\ n # NULL
  BY <1>2 DEF NULL
<1>7. \A i, m : <<i, m>> \in Owners(n) <=> Points(cur, i, m, n)
  BY <1>2, <1>6 DEF Owners, Points
<1>8. \A p \in Owners(n) : p = <<p[1], p[2]>>
  BY DEF Owners
<1>9. CASE \E i, m : Points(cur, i, m, n)
  <2>1. PICK i, m : Points(cur, i, m, n)
    BY <1>9
  <2>2. \A p \in Owners(n) : p[1] = i /\ p[2] = m
    BY <1>5, <1>7, <1>8, <2>1 DEF Tidy
  <2>3. Owners(n) = {<<i, m>>}
    BY <1>7, <1>8, <2>1, <2>2
  <2> QED  BY <2>3, FS_Singleton
<1>10. CASE ~\E i, m : Points(cur, i, m, n)
  <2>1. Owners(n) = {}
    BY <1>7, <1>8, <1>10
  <2>2. Excused(cur, n)
    BY <1>5, <1>6, <1>10 DEF Tidy
  <2> QED  BY <2>1, <2>2 DEF Excused, TypeOf
<1> QED  BY <1>9, <1>10

(* When a program is accepted, ast_destroy frees each node once: no node of*)
(* the tree is led to by two pointers, and only what the parser is known to*)
(* lose, or copies into a label or a capture, is led to by none.           *)
THEOREM EveryNodeOwned == Spec => []OneOwner
<1>1. Init => Inv /\ OwnInv
  BY InvStarts, OwnStarts
<1>2. Inv /\ OwnInv /\ [Next]_vars => (Inv /\ OwnInv)'
  BY InvSteps, OwnSteps
<1>3. Inv /\ OwnInv => OneOwner
  BY OwnMeans
<1> QED  BY <1>1, <1>2, <1>3, PTL DEF Spec
================================================================================
