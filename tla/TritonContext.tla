--------------------------- MODULE TritonContext ---------------------------
(***************************************************************************)
(* The part of Triton's TritonContext that attack_vmp.py and               *)
(* looking_jmp.py rely on.  Triton itself is not in the repository; every  *)
(* definition here is external and says only what the two scripts use.     *)
(*                                                                         *)
(* A location is one byte of a register, one flag or one byte of memory.   *)
(* Triton keeps two views of it: a concrete value and an AST.  An AST is   *)
(* abstracted to what it denotes, a function from the values of the        *)
(* function's arguments to a byte, together with the symbolic variables    *)
(* that occur in it.                                                       *)
(***************************************************************************)
EXTENDS Naturals, Sequences, FiniteSets

CONSTANTS
  Loc,       \* byte locations: registers, flags and memory
  Val,       \* the values of a byte
  Rdi, Rsi   \* the bytes of the two argument registers, least significant first

DataBytes == {Rdi[k] : k \in DOMAIN Rdi} \cup {Rsi[k] : k \in DOMAIN Rsi}

ASSUME LocAssumption ==
  /\ 0 \in Val
  /\ Rdi \in Seq(Loc)
  /\ Rsi \in Seq(Loc)

\* The contents of the two argument registers when the region is entered.
Inputs == [DataBytes -> Val]

\* The two symbolic variables, SymVar_0 and SymVar_1.
Var == {"x", "y"}

Expr == [val : [Inputs -> Val], vars : SUBSET Var]

\* The function of an arithmetic or logical instruction on two bytes.
BinOp == [Val \X Val -> Val]

\* The AST of a concretized byte.
Const(v) == [val |-> [i \in Inputs |-> v], vars |-> {}]

\* The AST of byte b of symbolic variable x.
SymByte(b, x) == [val |-> [i \in Inputs |-> i[b]], vars |-> {x}]

\* The AST built for an instruction that computes op from two bytes.
Combine(op, a, b) ==
  [val  |-> [i \in Inputs |-> op[<<a.val[i], b.val[i]>>]],
   vars |-> a.vars \cup b.vars]

\* node.evaluate() when the symbolic variables hold the values in w.
Evaluate(a, w) == a.val[w]

\* symbolizeRegister on the view of `size` bytes of rdi and of rsi.
SymBytes(size) ==
  {Rdi[k] : k \in {k \in DOMAIN Rdi : k <= size}} \cup
  {Rsi[k] : k \in {k \in DOMAIN Rsi : k <= size}}

VarOf(b) == IF b \in {Rdi[k] : k \in DOMAIN Rdi} THEN "x" ELSE "y"

=============================================================================
