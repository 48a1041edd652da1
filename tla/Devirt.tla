------------------------------- MODULE Devirt -------------------------------
(***************************************************************************)
(* The end of the chain: the protected functions, secret() of              *)
(* vmp_binaries/samples-source/sampleN.c, and the functions recovered from *)
(* their traces, devirt/sampleN.ll and devirt/sampleN.O3.ll.               *)
(*                                                                         *)
(* The recovered code of the samples with a branch still shows what the    *)
(* virtual machine does: it has no comparison, and rebuilds the flags of   *)
(* one from an addition and logical instructions, under masks.  Constants  *)
(* are written as the set of their bits.                                   *)
(***************************************************************************)
EXTENDS BitVectors

CONSTANTS
  W,          \* the width of an int
  Operands    \* per sample that is run, the words given as arguments

Samples == DOMAIN Operands

\* The IR truncates to bytes; sample 3 extends bytes and shifts them by 8.
ASSUME DevirtAssumption ==
  /\ W \in Nat \ (0..7)
  /\ Samples \subseteq 1..5
  /\ \A n \in Samples : Operands[n] \subseteq Word(W)
  /\ 3 \in Samples => W > 9 /\ Operands[3] \subseteq Word(8)

VARIABLES
  sample, x, y,          \* the command line: a sample and its arguments
  returned,              \* secret has returned
  r,                     \* what it returned
  recovered, optimized   \* what the recovered function and its O3 form return

vars == <<sample, x, y, returned, r, recovered, optimized>>

-----------------------------------------------------------------------------
(* The samples.  An int that overflows wraps, as it does in the build.     *)

OneThousandOne == Trunc(W, {0, 3, 5, 6, 7, 8, 9})

Sample1(a, b) == Add(W, a, b)
Sample2(a, b) == Xor(a, b)
Sample4(a, b) == IF Slt(W, a, b) THEN b ELSE a
Sample5(a, b) == IF Add(W, a, b) = OneThousandOne THEN Add(W, a, {0}) ELSE Sub(W, b, {0})

\* n & m and n | m, in the low byte.
And(n, m) == Num(Byte(n) \cap Byte(m))
Or(n, m)  == Num(Byte(n) \cup Byte(m))

\* The mixed arithmetic of sample 3, of which only the low byte is kept.
Mba(n) ==
  LET a == (229 * n + 247) % 256
      b == (237 * a + 214 + And(38 * a + 85, 254)) % 256
      c == ((b + And(-(2 * b) + 255, 254)) * 3 + 77) % 256
      d == (And(86 * c + 36, 70) * 75 + 231 * c + 118) % 256
      e == (And(58 * d + 175, 244) + 99 * d + 46) % 256
      f == And(e, 148)
      g == ((f - And(e, 255) + f) * 103 + 13) % 256
  IN  And(237 * (45 * g + Or(174 * g, 34) * 229 + 194 - 247), 255)

\* The second argument is a signed char that is promoted to int.  The result is
\* r itself, which is what eax holds.
Sample3(a, b) == Add(W, Byte(Mba(Num(a))), Sext(8, W, b))

\* What the recovered function says of it.  No constant occurs here, so TLC
\* decides it, byte by byte.
ASSUME MbaAssumption == \A a \in Word(8) : Byte(Mba(Num(a))) = Xor(a, {2, 3, 4, 6})

-----------------------------------------------------------------------------
(* Flags, as sets of positions in EFLAGS.                                  *)

CF == 0
PF == 2
AF == 4
ZF == 6
SF == 7
OF == 11

Flag(f, set) == IF set THEN {f} ELSE {}

\* Bits 1 (reserved) and 9 (IF) are set, and three flags come from the result.
ResultFlags(w, s) ==
  {1, 9} \cup Flag(PF, Cardinality(Trunc(8, s)) % 2 = 0)
         \cup Flag(ZF, s = {})
         \cup Flag(SF, w - 1 \in s)

\* The carry and the overflow of a + b, read off the sign bits.
Carry(w, a, b) ==
  w - 1 \in Xor(a \cap b, Xor(a, b) \cap Xor(Xor(a, b), Add(w, a, b)))

\* Mutation: the overflow of a subtraction.
OverflowOfSub(w, a, b) == w - 1 \in Xor(a, Add(w, a, b)) \cap Xor(a, b)

Overflow(w, a, b) == w - 1 \in Xor(a, Add(w, a, b)) \cap Not(w, Xor(a, b))

AddFlags(w, a, b) ==
  ResultFlags(w, Add(w, a, b)) \cup Flag(CF, Carry(w, a, b))
                               \cup Flag(AF, 4 \in Xor(Add(w, a, b), Xor(a, b)))
                               \cup Flag(OF, Overflow(w, a, b))

\* 2069, the flags kept from the addition; the others come from the result.
Kept == {CF, PF, AF, OF}

Merge(first, second) == Add(64, second \ Kept, first \cap Kept)

\* The flags the processor leaves after cmp a, b.
CmpFlags(w, a, b) ==
  LET d == Sub(w, a, b)
  IN  ResultFlags(w, d) \cup Flag(CF, Ult(a, b))
                        \cup Flag(AF, Ult(Trunc(4, a), Trunc(4, b)))
                        \cup Flag(OF, Slt(w, a, b) # (w - 1 \in d))

-----------------------------------------------------------------------------
(* The recovered functions.                                                *)

Recovered1(a, b) == Add(W, b, a)
Recovered2(a, b) == Xor(a, b)

Recovered3(a, b) ==
  Add(W, Add(W, Shl(W, Add(W, {0}, Not(W, Lshr(b, 7))), 8), b), Xor(a, {2, 3, 4, 6}))

\* x and y are compared by adding y to the complement of x.
Flags4(a, b) == Merge(AddFlags(W, Not(W, a), b), ResultFlags(W, Sub(W, a, b)))

\* Mutation: the two traces merged under another flag of the comparison.
Recovered4Sign(a, b) == IF SF \in Flags4(a, b) THEN b ELSE a

Recovered4(a, b) == IF CF \in Flags4(a, b) THEN b ELSE a

\* x + y is compared with 1001 by adding 1001 to the complement of the sum.
Flags5(a, b) ==
  LET n == Not(W, Add(W, b, a))
  IN  Merge(AddFlags(W, n, OneThousandOne),
            ResultFlags(W, Not(W, Add(W, n, OneThousandOne))))

\* Mutation: the handler is picked by ZF instead of its complement.
HandlerZF(flags) == Add(8, Lshr({ZF} \cap flags, 3), {4, 7})

\* The low byte of the address of the next handler, 0x7fffffffe090 or 8 more.
Handler(flags) == Add(8, Lshr({ZF} \ flags, 3), {4, 7})

\* The auxiliary carry of 80 - h.
AuxCarry(h) == 4 \in Xor(Sub(8, {4, 6}, h), Xor({4, 6}, h))

Recovered5(a, b) ==
  IF AuxCarry(Handler(Flags5(a, b))) THEN Add(W, b, Bits(W)) ELSE Add(W, a, {0})

\* What opt -O3 makes of them.
Optimized3(a, b) == Sub(W, Add(W, Xor(a, {2, 3, 4, 6}), b), Shl(W, b, 1) \cap {8})

\* Mutation: the sign of the difference instead of its borrow.
Optimized4Sign(a, b) == IF W - 1 \in Sub(W, a, b) THEN b ELSE a

Optimized4(a, b) ==
  IF W - 1 \in Xor(Sub(W, a, b) \cap Not(W, Xor(a, b)), Not(W, a) \cap b) THEN b ELSE a

Optimized5(a, b) ==
  IF Add(W, b, a) = OneThousandOne THEN Add(W, a, {0}) ELSE Add(W, b, Bits(W))

-----------------------------------------------------------------------------

Init ==
  /\ sample \in Samples
  /\ x \in Operands[sample] /\ y \in Operands[sample]
  /\ returned = FALSE
  /\ r = {} /\ recovered = {} /\ optimized = {}

\* Sample n and its recovered function are called with the same arguments.
Secret(n, native, ir, o3) ==
  /\ sample = n /\ ~returned
  /\ returned' = TRUE
  /\ r' = native /\ recovered' = ir /\ optimized' = o3
  /\ UNCHANGED <<sample, x, y>>

Done == returned /\ UNCHANGED vars

\* Samples 1 and 2 have no O3 form.
Next ==
  \/ Secret(1, Sample1(x, y), Recovered1(x, y), Recovered1(x, y))
  \/ Secret(2, Sample2(x, y), Recovered2(x, y), Recovered2(x, y))
  \/ Secret(3, Sample3(x, y), Recovered3(x, y), Optimized3(x, y))
  \/ Secret(4, Sample4(x, y), Recovered4(x, y), Optimized4(x, y))
  \/ Secret(5, Sample5(x, y), Recovered5(x, y), Optimized5(x, y))
  \/ Done

Spec == Init /\ [][Next]_vars

-----------------------------------------------------------------------------
(* Properties.                                                             *)

\* What is recovered from the traces of samples 1, 2, 3 and 5 is the function
\* that was protected, on every argument: the sum, the exclusive or, the mixed
\* arithmetic of sample 3 with its promotions, both arms of sample 5.
Recovers == returned /\ sample # 4 => recovered = r

\* "int r; if (x >= y) r = x; else r = y;" is what was protected, and what is
\* recovered from its traces.
Sample4Recovers == returned /\ sample = 4 => recovered = r

\* The function recovered from sample 4 is the protected one exactly for
\* arguments of the same sign: it compares them unsigned, the carry flag being
\* the one the two traces were merged under.
SignsDecide ==
  returned /\ sample = 4 => (recovered = r <=> (W - 1 \in x) = (W - 1 \in y))

\* Merging the flags of an addition and of its result under the mask 2069, with
\* a 64-bit addition, leaves all the flags of the comparison the source makes:
\* x with y in sample 4, x + y with 1001 in sample 5.
FlagsOfCmp ==
  /\ sample = 4 => Flags4(x, y) = CmpFlags(W, x, y)
  /\ sample = 5 => Flags5(x, y) = CmpFlags(W, Add(W, x, y), OneThousandOne)

\* The O3 form of a recovered function is the same function: a shift and a
\* subtraction for the promotion of sample 3, a borrow for the carry of
\* sample 4, an equality for the dispatch of sample 5.
SameOptimized == returned => optimized = recovered

=============================================================================
