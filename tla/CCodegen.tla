------------------------------- MODULE CCodegen -------------------------------
(***************************************************************************)
(* The code generator of the C compiler (codegen.c): the instructions      *)
(* codegen_node writes for a tree, and where the registers have their      *)
(* contents from when they are executed.                                   *)
(*                                                                         *)
(* A tree is a sequence of nodes, a pointer an index of it.  An instruction*)
(* is written as what it is for, with the node it was written for: enter   *)
(* is a function's section, label and prologue, leave the three            *)
(* instructions that give up its frame and return, todo a comment.  The    *)
(* target only changes the header of the file.                             *)
(***************************************************************************)
EXTENDS AstNodes

Ins(op, n) == <<[op |-> op, n |-> n]>>

Arithmetic == [o \in {"+", "-", "*", "/"} |->
  CASE o = "+" -> "add" [] o = "-" -> "sub" [] o = "*" -> "imul" [] o = "/" -> "idiv"]

(* codegen_binary, between and after its operands; no other operator has   *)
(* an instruction.                                                         *)
Combine_OperandsSwapped(tree, n, left, right) ==
  LET op == tree[n].at["op"]
  IN  right \o Ins("push rax", n) \o left \o Ins("mov rbx, rax", n) \o Ins("pop rax", n)
        \o IF op \in DOMAIN Arithmetic THEN Ins(Arithmetic[op], n) ELSE <<>>

Combine(tree, n, left, right) ==
  LET op == tree[n].at["op"]
  IN  left \o Ins("push rax", n) \o right \o Ins("mov rbx, rax", n) \o Ins("pop rax", n)
        \o IF op \in DOMAIN Arithmetic THEN Ins(Arithmetic[op], n) ELSE <<>>

(* codegen_node of n or, if list, of n and the nodes that follow it.  The  *)
(* parser sets the text of a literal only: lit_type is 0, which stands for *)
(* an integer, and int_value is 0, so that every literal loads 0.          *)
Code(tree, root) ==
  LET code[n \in 0..Len(tree), list \in BOOLEAN] ==
        LET at == tree[n].at
            type == tree[n].type
        IN  CASE n = NULL -> <<>>
              [] list -> code[n, FALSE] \o code[at["next"], TRUE]
              [] type \in {"PROGRAM", "BLOCK"} -> code[at["statements"], TRUE]
              [] type = "FUNC_DECL" -> Ins("enter", n) \o code[at["body"], FALSE] \o Ins("leave", n)
              [] type = "LITERAL" -> Ins("mov rax, 0", n)
              [] type = "BINARY_EXPR" ->
                   Combine(tree, n, code[at["left"], FALSE], code[at["right"], FALSE])
              [] type = "RETURN" -> code[at["operand"], FALSE] \o Ins("leave", n)
              [] OTHER -> Ins("todo", n)
  IN  code[root, FALSE]

-------------------------------------------------------------------------------
(* The machine: for rax, rbx and everything pushed above rbp, the node     *)
(* whose code computed what is there, or NULL for what was there before.   *)
(* The numbers are left out, and with them rdx, the upper half of what idiv*)
(* divides: no instruction prepares it, so a quotient may be any number.   *)
Entered == [rax |-> NULL, rbx |-> NULL, pushed |-> <<>>]

Step(m, ins) ==
  CASE ins.op \in {"mov rax, 0", "add", "sub", "imul", "idiv"} -> [m EXCEPT !.rax = ins.n]
    [] ins.op = "push rax"     -> [m EXCEPT !.pushed = <<m.rax>> \o @]
    [] ins.op = "mov rbx, rax" -> [m EXCEPT !.rbx = m.rax]
    [] ins.op = "pop rax"      -> [m EXCEPT !.rax = Head(m.pushed), !.pushed = Tail(@)]
    [] OTHER -> m

(* The machine before each instruction of a function that is entered at i, *)
(* up to its first return.  A function inside another one is assembled in a*)
(* section of its own, and what follows it does not run with what precedes.*)
Runs(code, i) ==
  LET ends == {j \in i..Len(code) : j > i /\ code[j].op \in {"enter", "leave"}}
      end  == CHOOSE j \in ends : \A k \in ends : j <= k
      m[j \in (i + 1)..end] == IF j = i + 1 THEN Entered ELSE Step(m[j - 1], code[j - 1])
  IN  m

(* A tree of literals and arithmetic: the code has a value for every node. *)
Computable(tree, n) ==
  LET ok[k \in 1..Len(tree)] ==
        \/ tree[k].type = "LITERAL"
        \/ /\ tree[k].type = "BINARY_EXPR" /\ tree[k].at["op"] \in DOMAIN Arithmetic
           /\ ok[tree[k].at["left"]] /\ ok[tree[k].at["right"]]
  IN  n # NULL /\ ok[n]

===============================================================================
