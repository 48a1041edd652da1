----------------------------- MODULE BitVectors -----------------------------
(***************************************************************************)
(* Machine words, as the LLVM IR in src/devirt computes with them.  A word *)
(* of w bits is the set of the positions of its ones, so that `and`, `or`  *)
(* and `zext` are intersection, union and identity, and a width of 32 or   *)
(* 64 bits costs no more than the ones it holds.                           *)
(***************************************************************************)
EXTENDS Integers, FiniteSetsExt

Bits(w) == 0..(w - 1)
Word(w) == SUBSET Bits(w)

Not(w, a)   == Bits(w) \ a
Xor(a, b)   == (a \ b) \cup (b \ a)
Trunc(w, a) == a \cap Bits(w)
Shl(w, a, n) == {k \in Bits(w) : k - n \in a}
Lshr(a, n)   == {k - n : k \in {k \in a : k >= n}}
Sext(from, w, a) == IF from - 1 \in a THEN a \cup (from..(w - 1)) ELSE a

\* The carry into bit i of a + b + c: made below i, or brought in, and
\* propagated by every bit in between.
CarryInto(i, a, b, c) ==
  \/ \E j \in a \cap b : j < i /\ \A k \in (j + 1)..(i - 1) : k \in a \cup b
  \/ c /\ \A k \in 0..(i - 1) : k \in a \cup b

AddCarry(w, a, b, c) == {i \in Bits(w) : (i \in Xor(a, b)) # CarryInto(i, a, b, c)}

Add(w, a, b) == AddCarry(w, a, b, FALSE)
Sub(w, a, b) == AddCarry(w, a, Not(w, b), TRUE)

\* `icmp ult` and `icmp slt`: the highest bit that differs decides, and the
\* sign bit counts the other way when the words are signed.
Ult(a, b) == \E k \in b \ a : \A j \in Xor(a, b) : j <= k
Slt(w, a, b) == IF w - 1 \in Xor(a, b) THEN w - 1 \in a ELSE Ult(a, b)

Num(a)  == MapThenSumSet(LAMBDA k : 2^k, a)
Byte(n) == {k \in 0..7 : ((n % 256) \div 2^k) % 2 = 1}

=============================================================================
