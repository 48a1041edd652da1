---------------------------- MODULE DevirtProofs ----------------------------
(***************************************************************************)
(* The recovered functions against the protected ones, for ints of every   *)
(* width and every pair of arguments.                                      *)
(***************************************************************************)
EXTENDS Devirt, BitVectorsProofs, FiniteSetTheorems

LEMMA Width == W \in Nat /\ W \in Nat \ {0} /\ W > 7 /\ W - 1 \in Bits(W) /\ 4 \in Bits(W) /\ W - 1 \in Nat
  BY DevirtAssumption DEF Bits

-----------------------------------------------------------------------------
(* The flags of an addition to a complement.                               *)

LEMMA CarryIsBorrow ==
  ASSUME NEW a \in Word(W), NEW b \in Word(W)
  PROVE  Carry(W, Not(W, a), b) <=> Ult(a, b)
<1> DEFINE t == W - 1
           n == Not(W, a)
           s == Add(W, n, b)
<1>1. /\ t \in n <=> t \notin a
      /\ t \in Xor(n, b) <=> t \notin Xor(a, b)
  BY Width DEF Not, Xor
<1>2. t \in s <=> (t \in Xor(a, b) <=> Ult(Trunc(t, a), Trunc(t, b)))
  BY Width, ComplementBit, Zenon
<1>3. Ult(a, b) <=> t \in b \ a \/ (t \notin Xor(a, b) /\ Ult(Trunc(t, a), Trunc(t, b)))
  BY Width, TopBit, Zenon
<1>4. Carry(W, n, b) <=> t \in Xor(n \cap b, Xor(n, b) \cap Xor(Xor(n, b), s))
  BY Zenon DEF Carry
<1> HIDE DEF n, s, t
<1>5. Carry(W, n, b) <=> ~((t \in n /\ t \in b) <=> t \in Xor(n, b) /\ (t \in Xor(n, b) <=> t \notin s))
  BY <1>4 DEF Xor
<1>6. t \in Xor(a, b) <=> (t \in a <=> t \notin b)
  BY DEF Xor
<1> QED BY <1>1, <1>2, <1>3, <1>5, <1>6 DEF n, t

LEMMA AuxIsBorrow ==
  ASSUME NEW w \in Nat, NEW a \in Word(w), NEW b \in Word(w), 4 \in Bits(w)
  PROVE  4 \in Xor(Add(w, Not(w, a), b), Xor(Not(w, a), b)) <=> Ult(Trunc(4, a), Trunc(4, b))
<1>1. 4 \in Add(w, Not(w, a), b) <=> (4 \in Xor(a, b) <=> Ult(Trunc(4, a), Trunc(4, b)))
  BY ComplementBit, Zenon
<1>2. 4 \in Xor(Not(w, a), b) <=> 4 \notin Xor(a, b)
  BY DEF Xor, Not
<1> QED BY <1>1, <1>2 DEF Xor

LEMMA OverflowIsSigned ==
  ASSUME NEW a \in Word(W), NEW b \in Word(W)
  PROVE  Overflow(W, Not(W, a), b) <=> Slt(W, a, b) # (W - 1 \in Sub(W, a, b))
<1> DEFINE t == W - 1
           n == Not(W, a)
           s == Add(W, n, b)
           d == Sub(W, a, b)
           u == Ult(Trunc(t, a), Trunc(t, b))
<1>1. /\ t \in n <=> t \notin a
      /\ t \in Xor(n, b) <=> t \notin Xor(a, b)
      /\ t \in Not(W, Xor(n, b)) <=> t \in Xor(a, b)
  BY Width DEF Not, Xor
<1>2. t \in s <=> (t \in Xor(a, b) <=> u)
  BY Width, ComplementBit, Zenon
<1>3. t \in d <=> (t \in Xor(a, b) <=> ~u)
  BY Width, DifferenceBit, Zenon
<1>4. Ult(a, b) <=> t \in b \ a \/ (t \notin Xor(a, b) /\ u)
  BY Width, TopBit, Zenon
<1>5. Overflow(W, n, b) <=> t \in Xor(n, s) \cap Not(W, Xor(n, b))
  BY Zenon DEF Overflow
<1>6. u \in BOOLEAN /\ Ult(a, b) \in BOOLEAN
  BY DEF Ult
<1>7. Slt(W, a, b) = IF t \in Xor(a, b) THEN t \in a ELSE Ult(a, b)
  BY DEF Slt
<1> HIDE DEF n, s, t, d, u
<1>8. t \in Xor(a, b) <=> (t \in a <=> t \notin b)
  BY DEF Xor
<1>9. t \in Xor(n, s) <=> (t \in n <=> t \notin s)
  BY DEF Xor
<1>10. CASE t \in Xor(a, b)
  BY <1>1, <1>2, <1>3, <1>5, <1>7, <1>8, <1>9, <1>10 DEF t, d, n
<1>11. CASE t \notin Xor(a, b)
  <2>1. Slt(W, a, b) = Ult(a, b)
    BY <1>7, <1>11
  <2>2. ~Overflow(W, n, b)
    BY <1>1, <1>5, <1>11
  <2>3. Ult(a, b) <=> t \in d
    BY <1>3, <1>4, <1>8, <1>11
  <2>4. Ult(a, b) = (t \in d)
    BY <1>6, <2>3
  <2> QED BY <2>1, <2>2, <2>4 DEF t, d, n
<1> QED BY <1>10, <1>11

\* Half of eight bits is even exactly when the other half is.
LEMMA ParityOfComplement ==
  ASSUME NEW a \in Word(W)
  PROVE  Cardinality(Trunc(8, a)) % 2 = 0 <=> Cardinality(Trunc(8, Not(W, a))) % 2 = 0
<1> DEFINE low == Trunc(8, a)
           high == Trunc(8, Not(W, a))
<1>1. high = Bits(8) \ low
  BY Width DEF Trunc, Not, Bits, Word
<1>2. IsFiniteSet(Bits(8)) /\ Cardinality(Bits(8)) = 8
  <2>1. 0 \in Int /\ 7 \in Int
    OBVIOUS
  <2>2. IsFiniteSet(0..7) /\ Cardinality(0..7) = IF 0 > 7 THEN 0 ELSE 7 - 0 + 1
    BY <2>1, FS_Interval, Zenon
  <2> QED BY <2>2 DEF Bits
<1>3. low \in SUBSET Bits(8)
  BY DEF Trunc
<1>4. IsFiniteSet(low) /\ Cardinality(low) \in Nat /\ Cardinality(low) <= 8
  BY <1>2, <1>3, FS_Subset, FS_CardinalityType
<1>5. Cardinality(high) = Cardinality(Bits(8)) - Cardinality(Bits(8) \cap low)
  BY <1>1, <1>2, FS_Difference
<1>6. Bits(8) \cap low = low
  BY <1>3
<1>7. Cardinality(high) = 8 - Cardinality(low)
  BY <1>2, <1>5, <1>6
<1> HIDE DEF low, high
<1>8. Cardinality(low) % 2 = 0 <=> (8 - Cardinality(low)) % 2 = 0
  BY <1>4
<1> QED BY <1>7, <1>8 DEF low, high

-----------------------------------------------------------------------------
(* The flags of the comparison.                                            *)

\* The carry and the zero flag of a comparison.
LEMMA CmpFlag ==
  ASSUME NEW a, NEW b
  PROVE  /\ CF \in CmpFlags(W, a, b) <=> Ult(a, b)
         /\ ZF \in CmpFlags(W, a, b) <=> Sub(W, a, b) = {}
<1> DEFINE d == Sub(W, a, b)
           even == Flag(PF, Cardinality(Trunc(8, d)) % 2 = 0)
           sign == Flag(SF, W - 1 \in d)
           af == Flag(AF, Ult(Trunc(4, a), Trunc(4, b)))
           of == Flag(OF, Slt(W, a, b) # (W - 1 \in d))
<1>1. CmpFlags(W, a, b) = ({1, 9} \cup even \cup Flag(ZF, d = {}) \cup sign)
                            \cup Flag(CF, Ult(a, b)) \cup af \cup of
  BY Zenon DEF CmpFlags, ResultFlags
<1>2. /\ even \subseteq {2} /\ sign \subseteq {7} /\ af \subseteq {4} /\ of \subseteq {11}
  BY DEF Flag, PF, SF, AF, OF
<1>3. CF = 0 /\ ZF = 6
  BY DEF CF, ZF
<1>4. /\ Flag(ZF, d = {}) = IF d = {} THEN {6} ELSE {}
      /\ Flag(CF, Ult(a, b)) = IF Ult(a, b) THEN {0} ELSE {}
  BY Zenon DEF Flag, CF, ZF
<1> HIDE DEF even, sign, af, of, d
<1>5. (CF \in CmpFlags(W, a, b) <=> Ult(a, b)) /\ (ZF \in CmpFlags(W, a, b) <=> d = {})
  BY <1>1, <1>2, <1>3, <1>4
<1> QED BY <1>5 DEF d

LEMMA UltBoolean ==
  ASSUME NEW a, NEW b
  PROVE  Ult(a, b) \in BOOLEAN
  BY DEF Ult

\* The addition of the two masked words puts them side by side.
LEMMA MergeIsUnion ==
  ASSUME NEW first \in Word(64), NEW second \in Word(64)
  PROVE  Merge(first, second) = (second \ Kept) \cup (first \cap Kept)
<1> DEFINE rest == second \ Kept
           kept == first \cap Kept
<1>1. rest \in Word(64) /\ kept \in Word(64) /\ rest \cap kept = {}
  BY DEF Word
<1> HIDE DEF rest, kept
<1>2. Add(64, rest, kept) = rest \cup kept
  BY <1>1, AddDisjoint
<1> QED BY <1>2, Zenon DEF Merge, rest, kept

\* The addition to the complement and its result, merged, are the flags of cmp.
LEMMA MergedFlags ==
  ASSUME NEW a \in Word(W), NEW b \in Word(W)
  PROVE  Merge(AddFlags(W, Not(W, a), b), ResultFlags(W, Sub(W, a, b))) = CmpFlags(W, a, b)
<1> DEFINE n == Not(W, a)
           s == Add(W, n, b)
           d == Sub(W, a, b)
           cf == Carry(W, n, b)
           af == 4 \in Xor(s, Xor(n, b))
           p == Flag(PF, Cardinality(Trunc(8, s)) % 2 = 0)
           c == Flag(CF, cf) \cup Flag(AF, af) \cup Flag(OF, Overflow(W, n, b))
           z0 == Flag(ZF, s = {}) \cup Flag(SF, W - 1 \in s)
           z == Flag(ZF, d = {}) \cup Flag(SF, W - 1 \in d)
<1>1. s \in Word(W) /\ d = Not(W, s)
  BY Width, Inside, SubByComplement, Zenon
<1>2. Cardinality(Trunc(8, s)) % 2 = 0 <=> Cardinality(Trunc(8, d)) % 2 = 0
  BY <1>1, ParityOfComplement
<1>3. (cf <=> Ult(a, b)) /\ (af <=> Ult(Trunc(4, a), Trunc(4, b)))
  BY Width, CarryIsBorrow, AuxIsBorrow, Zenon
<1>4. Overflow(W, n, b) <=> Slt(W, a, b) # (W - 1 \in d)
  BY OverflowIsSigned, Zenon
<1>5. /\ p = Flag(PF, Cardinality(Trunc(8, d)) % 2 = 0)
      /\ Flag(CF, cf) = Flag(CF, Ult(a, b))
      /\ Flag(AF, af) = Flag(AF, Ult(Trunc(4, a), Trunc(4, b)))
      /\ Flag(OF, Overflow(W, n, b)) = Flag(OF, Slt(W, a, b) # (W - 1 \in d))
  <2> HIDE DEF s, d, cf, af
  <2> QED BY <1>2, <1>3, <1>4 DEF Flag, p
<1>6. /\ p \in SUBSET {PF} /\ c \in SUBSET {CF, AF, OF}
      /\ z0 \in SUBSET {ZF, SF} /\ z \in SUBSET {ZF, SF}
  BY Zenon DEF Flag
<1>7. AddFlags(W, n, b) = ({1, 9} \cup p \cup z0) \cup c
  <2>1. AddFlags(W, n, b) = ({1, 9} \cup p \cup Flag(ZF, s = {}) \cup Flag(SF, W - 1 \in s))
          \cup Flag(CF, cf) \cup Flag(AF, af) \cup Flag(OF, Overflow(W, n, b))
    BY Zenon DEF AddFlags, ResultFlags
  <2> HIDE DEF s, d, cf, af, p, n
  <2> QED BY <2>1
<1>8. ResultFlags(W, d) = {1, 9} \cup p \cup z
  <2>1. ResultFlags(W, d) = {1, 9} \cup Flag(PF, Cardinality(Trunc(8, d)) % 2 = 0)
          \cup Flag(ZF, d = {}) \cup Flag(SF, W - 1 \in d)
    BY Zenon DEF ResultFlags
  <2> HIDE DEF s, d, p
  <2> QED BY <1>5, <2>1
<1>9. CmpFlags(W, a, b) = ResultFlags(W, d) \cup c
  <2>1. CmpFlags(W, a, b) = ResultFlags(W, d) \cup Flag(CF, Ult(a, b))
          \cup Flag(AF, Ult(Trunc(4, a), Trunc(4, b))) \cup Flag(OF, Slt(W, a, b) # (W - 1 \in d))
    BY Zenon DEF CmpFlags
  <2> HIDE DEF s, d, p, n, cf, af
  <2> QED BY <1>5, <2>1
<1> HIDE DEF n, s, d, p, c, z0, z
<1>10. /\ \A k \in p : k = 2
       /\ \A k \in c : k \in {0, 4, 11}
       /\ \A k \in z0 \cup z : k \in {6, 7}
       /\ Kept = {0, 2, 4, 11}
  BY <1>6 DEF Kept, CF, PF, AF, ZF, SF, OF
<1> DEFINE first == AddFlags(W, n, b)
           second == ResultFlags(W, d)
<1>11. first \in Word(64) /\ second \in Word(64)
  BY <1>7, <1>8, <1>10 DEF Word, Bits
<1>12. \A k : k \in (second \ Kept) \cup (first \cap Kept) <=> k \in second \cup c
  BY <1>7, <1>8, <1>10
<1>13. Merge(first, second) = (second \ Kept) \cup (first \cap Kept)
  BY <1>11, MergeIsUnion, Zenon
<1> HIDE DEF first, second
<1>14. Merge(first, second) = second \cup c
  BY <1>12, <1>13
<1> QED BY <1>9, <1>14 DEF n, d, first, second

-----------------------------------------------------------------------------
(* The functions of the samples.                                           *)

LEMMA Constants == OneThousandOne \in Word(W) /\ {0} \in Word(W) /\ {4, 6} \in Word(8)
  BY Width, Inside DEF OneThousandOne, Word, Bits

\* Sample 4 is merged under the unsigned comparison of its arguments.
LEMMA FlagsOfSample4 ==
  ASSUME NEW a \in Word(W), NEW b \in Word(W)
  PROVE  /\ Flags4(a, b) = CmpFlags(W, a, b)
         /\ CF \in Flags4(a, b) <=> Ult(a, b)
<1>1. Flags4(a, b) = CmpFlags(W, a, b)
  BY MergedFlags, Zenon DEF Flags4
<1>2. CF \in CmpFlags(W, a, b) <=> Ult(a, b)
  BY CmpFlag
<1> QED BY <1>1, <1>2

\* Sample 5 compares the sum of its arguments with 1001.
LEMMA FlagsOfSample5 ==
  ASSUME NEW a \in Word(W), NEW b \in Word(W)
  PROVE  /\ Flags5(a, b) = CmpFlags(W, Add(W, a, b), OneThousandOne)
         /\ ZF \in Flags5(a, b) <=> Add(W, a, b) = OneThousandOne
<1> DEFINE s == Add(W, a, b)
           m == OneThousandOne
<1>1. s = Add(W, b, a) /\ s \in Word(W) /\ m \in Word(W)
  BY Width, AddCommutes, Inside, Constants, Zenon
<1> HIDE DEF s, m
<1>2. Not(W, Add(W, Not(W, s), m)) = Sub(W, s, m)
  BY Width, <1>1, SubByComplement
<1>3. Merge(AddFlags(W, Not(W, s), m), ResultFlags(W, Sub(W, s, m))) = CmpFlags(W, s, m)
  BY <1>1, MergedFlags
<1>4. Flags5(a, b) = Merge(AddFlags(W, Not(W, s), m), ResultFlags(W, Not(W, Add(W, Not(W, s), m))))
  BY <1>1, Zenon DEF Flags5, m
<1>5. Flags5(a, b) = CmpFlags(W, s, m)
  BY <1>2, <1>3, <1>4
<1>6. ZF \in CmpFlags(W, s, m) <=> Sub(W, s, m) = {}
  BY CmpFlag, Zenon
<1>7. Sub(W, s, m) = {} <=> s = m
  BY Width, <1>1, DifferenceZero, Zenon
<1> QED BY <1>5, <1>6, <1>7 DEF s, m

\* The handler that is called has bit 3 in its address unless ZF is set, and its
\* auxiliary carry says so again.
LEMMA Dispatch ==
  ASSUME NEW f
  PROVE  AuxCarry(Handler(f)) <=> ZF \notin f
<1> DEFINE h == Handler(f)
           c == Lshr({ZF} \ f, 3)
           u == Ult(Trunc(4, {4, 6}), Trunc(4, h))
<1>1. c = IF ZF \in f THEN {} ELSE {3}
  BY DEF Lshr, ZF
<1>2. h = c \cup {4, 7}
  <2>1. c \in Word(8) /\ {4, 7} \in Word(8) /\ c \cap {4, 7} = {} /\ 8 \in Nat
    BY <1>1 DEF Word, Bits
  <2> HIDE DEF c
  <2>2. Add(8, c, {4, 7}) = c \cup {4, 7}
    BY <2>1, AddDisjoint
  <2> QED BY <2>2, Zenon DEF Handler, c
<1>3. h \in Word(8)
  <2> HIDE DEF c, h
  <2> QED BY <1>1, <1>2 DEF Word, Bits
<1>4. 4 \in Sub(8, {4, 6}, h) <=> (4 \in Xor({4, 6}, h) <=> ~u)
  <2>1. 8 \in Nat /\ 4 \in Bits(8) /\ {4, 6} \in Word(8)
    BY Constants DEF Bits
  <2> QED BY <1>3, <2>1, DifferenceBit, Zenon
<1>5. AuxCarry(h) <=> u
  <2> HIDE DEF h, u
  <2> QED BY <1>4 DEF AuxCarry, Xor
<1>6. Trunc(4, {4, 6}) = {} /\ Trunc(4, h) = c
  <2> HIDE DEF c, h
  <2> QED BY <1>1, <1>2 DEF Trunc, Bits
<1>7. Ult({}, c) <=> ZF \notin f
  <2> HIDE DEF c
  <2> QED BY <1>1 DEF Ult, Xor
<1> HIDE DEF h, c, u
<1>8. u <=> ZF \notin f
  BY <1>6, <1>7 DEF u
<1> QED BY <1>5, <1>8 DEF h

LEMMA Sample5IsRecovered ==
  ASSUME NEW a \in Word(W), NEW b \in Word(W)
  PROVE  Recovered5(a, b) = Sample5(a, b) /\ Optimized5(a, b) = Recovered5(a, b)
<1>1. AuxCarry(Handler(Flags5(a, b))) <=> Add(W, a, b) # OneThousandOne
  BY Dispatch, FlagsOfSample5, Zenon
<1>2. Add(W, b, Bits(W)) = Sub(W, b, {0})
  BY Width, AddOnes
<1>3. Add(W, b, a) = Add(W, a, b)
  BY AddCommutes
<1> QED BY <1>1, <1>2, <1>3 DEF Recovered5, Sample5, Optimized5

\* The sign bit of the borrow, as the O3 form computes it, is the comparison.
LEMMA Sample4IsOptimized ==
  ASSUME NEW a \in Word(W), NEW b \in Word(W)
  PROVE  Optimized4(a, b) = Recovered4(a, b)
<1> DEFINE t == W - 1
           d == Sub(W, a, b)
           u == Ult(Trunc(t, a), Trunc(t, b))
<1>1. t \in d <=> (t \in Xor(a, b) <=> ~u)
  BY Width, DifferenceBit, Zenon
<1>2. Ult(a, b) <=> t \in b \ a \/ (t \notin Xor(a, b) /\ u)
  BY Width, TopBit, Zenon
<1>3. /\ t \in Not(W, Xor(a, b)) <=> t \notin Xor(a, b)
      /\ t \in Not(W, a) <=> t \notin a
      /\ t \in Xor(a, b) <=> (t \in a <=> t \notin b)
  BY Width DEF Not, Xor
<1>4. CF \in Flags4(a, b) <=> Ult(a, b)
  BY FlagsOfSample4
<1>5. Optimized4(a, b) = IF t \in Xor(d \cap Not(W, Xor(a, b)), Not(W, a) \cap b) THEN b ELSE a
  BY Zenon DEF Optimized4
<1> HIDE DEF t, d, u
<1>6. t \in Xor(d \cap Not(W, Xor(a, b)), Not(W, a) \cap b) <=> Ult(a, b)
  <2>1. t \in Xor(d \cap Not(W, Xor(a, b)), Not(W, a) \cap b)
          <=> (t \in d \cap Not(W, Xor(a, b)) <=> t \notin Not(W, a) \cap b)
    BY DEF Xor
  <2> QED BY <1>1, <1>2, <1>3, <2>1
<1> QED BY <1>4, <1>5, <1>6 DEF Recovered4

\* Signed and unsigned comparison choose the same argument when the signs agree.
LEMMA Sample4BySigns ==
  ASSUME NEW a \in Word(W), NEW b \in Word(W)
  PROVE  Recovered4(a, b) = Sample4(a, b) <=> (W - 1 \in a) = (W - 1 \in b)
<1> DEFINE t == W - 1
<1>1. CF \in Flags4(a, b) <=> Ult(a, b)
  BY FlagsOfSample4
<1>2. t \in Xor(a, b) <=> (t \in a <=> t \notin b)
  BY DEF Xor
<1>3. CASE t \in Xor(a, b)
  <2>1. Slt(W, a, b) <=> t \in a
    BY <1>3, Zenon DEF Slt
  <2>2. Ult(a, b) <=> t \in b \ a
    BY <1>3, Width, TopBit, Zenon
  <2>3. a # b
    BY <1>2, <1>3
  <2> QED BY <1>1, <1>2, <1>3, <2>1, <2>2, <2>3 DEF Recovered4, Sample4
<1>4. CASE t \notin Xor(a, b)
  <2>1. Slt(W, a, b) <=> Ult(a, b)
    BY <1>4, Zenon DEF Slt
  <2> QED BY <1>1, <1>2, <1>4, <2>1 DEF Recovered4, Sample4
<1> QED BY <1>3, <1>4

-----------------------------------------------------------------------------
(* Sample 3: the promotion of a char.                                      *)

\* Bit 7 of the char, negated and shifted, fills the bits above it.
LEMMA Promotion ==
  ASSUME NEW b \in Word(8)
  PROVE  /\ Add(W, Shl(W, Add(W, {0}, Not(W, Lshr(b, 7))), 8), b) = Sext(8, W, b)
         /\ Sext(8, W, b) \in Word(W) /\ b \in Word(W)
<1> DEFINE s == Lshr(b, 7)
           ext == Sext(8, W, b)
<1>1. b \in Word(W) /\ Bits(W) \in Word(W) /\ {} \in Word(W) /\ {0} \in Word(W)
  BY Width DEF Word, Bits
<1>2. ext = (IF 7 \in b THEN b \cup (8..(W - 1)) ELSE b) /\ ext \in Word(W)
  BY Width DEF Sext, Word, Bits
<1>3. s = IF 7 \in b THEN {0} ELSE {}
  <2>1. \A k \in b : k >= 7 <=> k = 7
    BY DEF Word, Bits
  <2> QED BY <2>1 DEF Lshr
<1> HIDE DEF s, ext
<1>4. CASE 7 \in b
  <2>1. {0} \cap Not(W, {0}) = {} /\ {0} \cup Not(W, {0}) = Bits(W)
    BY Width DEF Not, Bits
  <2>2. Add(W, {0}, Not(W, {0})) = Bits(W)
    BY <1>1, <2>1, Width, Inside, AddDisjoint
  <2>3. Shl(W, Bits(W), 8) = 8..(W - 1)
    BY Width DEF Shl, Bits
  <2>4. 8..(W - 1) \in Word(W) /\ (8..(W - 1)) \cap b = {}
    BY Width DEF Word, Bits
  <2>5. Add(W, 8..(W - 1), b) = (8..(W - 1)) \cup b
    BY <1>1, <2>4, Width, AddDisjoint
  <2> QED BY <1>1, <1>2, <1>3, <1>4, <2>2, <2>3, <2>5 DEF s, ext
<1>5. CASE 7 \notin b
  <2>1. Not(W, {}) = Bits(W)
    BY DEF Not
  <2>2. Add(W, {0}, Bits(W)) = Sub(W, {0}, {0})
    BY <1>1, Width, AddOnes
  <2>3. Sub(W, {0}, {0}) = {}
    BY <1>1, Width, DifferenceZero
  <2>4. Shl(W, {}, 8) = {}
    BY DEF Shl
  <2>5. Add(W, {}, b) = {} \cup b
    BY <1>1, Width, AddDisjoint
  <2> QED BY <1>1, <1>2, <1>3, <1>5, <2>1, <2>2, <2>3, <2>4, <2>5 DEF s, ext
<1> QED BY <1>4, <1>5

\* The carries of p + b, of two bytes, and of p + ext, where ext has the lower
\* bits of b and all the others.
LEMMA CarriesOfPromotion ==
  ASSUME W > 8, NEW p \in Word(8), NEW b \in Word(8), NEW ext \in Word(W),
         ext = b \cup (8..(W - 1))
  PROVE  /\ \A i \in 0..8 : CarryInto(i, p, ext, FALSE) <=> CarryInto(i, p, b, FALSE)
         /\ \A i \in 8..W : CarryInto(i, p, ext, FALSE) <=> CarryInto(8, p, b, FALSE)
         /\ \A i \in 9..W : ~CarryInto(i, p, b, FALSE)
<1> DEFINE C(i) == CarryInto(i, p, b, FALSE)
           D(i) == CarryInto(i, p, ext, FALSE)
           T == {i \in 0..W : i >= 8 => (D(i) <=> C(8))}
<1>0. /\ p \in SUBSET Nat /\ b \in SUBSET Nat /\ ext \in SUBSET Nat /\ FALSE \in BOOLEAN
      /\ \A i \in p \cup b : i < 8
      /\ \A i \in 8..(W - 1) : i \in ext
  <2>1. p \subseteq 0..7 /\ b \subseteq 0..7
    BY DEF Word, Bits
  <2>2. ext \in SUBSET Nat
    BY DEF Word, Bits
  <2> QED BY <2>1, <2>2
<1>1. ASSUME NEW i \in 0..8 PROVE D(i) <=> C(i)
  <2>1. Trunc(i, ext) = Trunc(i, b) /\ i \in Nat
    BY <1>0 DEF Trunc, Bits
  <2> QED BY <1>0, <2>1, CarryIsLocal, Zenon
<1>2. ASSUME NEW i \in 0..(W - 1), i \in T PROVE i + 1 \in T
  <2>0. i \in Nat /\ i + 1 \in 0..W
    BY Width
  <2>1. D(i + 1) <=> i \in p \cap ext \/ (i \in p \cup ext /\ D(i))
    <3>1. i \in Nat /\ p \in SUBSET Nat /\ ext \in SUBSET Nat /\ FALSE \in BOOLEAN
      BY <1>0, <2>0
    <3> QED BY ONLY <3>1, CarryStep, Zenon DEF D
  <2>2. CASE i + 1 < 8
    <3>1. ~ (i + 1 >= 8)
      BY <2>0, <2>2
    <3> HIDE DEF C, D
    <3> QED BY <2>0, <3>1
  <2>3. CASE i + 1 = 8
    <3>1. 8 \in 0..8
      OBVIOUS
    <3>2. D(8) <=> C(8)
      BY <1>1, <3>1
    <3> HIDE DEF C, D
    <3> QED BY <2>0, <2>3, <3>2
  <2>4. CASE i >= 8
    <3>1. D(i) <=> C(8)
      BY <1>2, <2>4
    <3>2. i \notin p /\ i \in ext
      BY <1>0, <2>4
    <3> HIDE DEF C, D
    <3> QED BY <2>0, <2>1, <3>1, <3>2
  <2> HIDE DEF C, D, T
  <2> QED BY <2>0, <2>2, <2>3, <2>4
<1>3. 0..W \subseteq T
  <2>1. 0 \in T
    BY Width
  <2> HIDE DEF T
  <2> QED BY <1>2, <2>1, Width, BitInduction
<1>4. ASSUME NEW i \in 8..W PROVE D(i) <=> C(8)
  <2> HIDE DEF C, D
  <2>1. i \in 0..W /\ i >= 8
    OBVIOUS
  <2> QED BY <1>3, <2>1
<1>5. ASSUME NEW i \in 9..W PROVE ~C(i)
  <2>0. i - 1 \in Nat /\ (i - 1) + 1 = i /\ ~ (i - 1 < 8)
    BY Width
  <2>1. C((i - 1) + 1) <=> i - 1 \in p \cap b \/ (i - 1 \in p \cup b /\ C(i - 1))
    BY <1>0, <2>0, CarryStep, Zenon
  <2>2. i - 1 \notin p \cup b
    BY <1>0, <2>0
  <2>3. ~C((i - 1) + 1)
    BY <2>1, <2>2, Zenon
  <2> QED BY <2>0, <2>3
<1> QED BY <1>1, <1>4, <1>5

\* Adding the promoted char is adding its bits and taking off what bit 7 is worth
\* twice over.
LEMMA PromotedByBorrow ==
  ASSUME W > 8, NEW p \in Word(8), NEW b \in Word(8)
  PROVE  Add(W, Sext(8, W, b), p) = Sub(W, Add(W, p, b), Shl(W, b, 1) \cap {8})
<1> DEFINE s == Add(W, p, b)
           ext == Sext(8, W, b)
           off == Shl(W, b, 1) \cap {8}
<1>1. p \in Word(W) /\ b \in Word(W) /\ {} \in Word(W) /\ {8} \in Word(W) /\ 8 \in Bits(W)
  BY Width DEF Word, Bits
<1>2. s \in Word(W) /\ Add(W, ext, p) = Add(W, p, ext)
  BY Width, Inside, AddCommutes, Zenon
<1>3. off = IF 7 \in b THEN {8} ELSE {}
  BY <1>1 DEF Shl
<1>4. ext = (IF 7 \in b THEN b \cup (8..(W - 1)) ELSE b) /\ ext \in Word(W)
  BY Width, <1>1 DEF Sext, Word, Bits
<1> HIDE DEF ext, off
<1>5. CASE 7 \notin b
  <2>1. ASSUME NEW i \in Bits(W) PROVE i \in Sub(W, s, {}) <=> i \in s
    <3>1. Trunc(i, {}) = {}
      BY DEF Trunc
    <3>2. i \in Sub(W, s, {}) <=> (i \in Xor(s, {}) <=> ~Ult(Trunc(i, s), Trunc(i, {})))
      BY <1>1, <1>2, Width, DifferenceBit, Zenon
    <3>3. ~Ult(Trunc(i, s), {}) /\ Xor(s, {}) = s
      BY NothingIsSmaller DEF Xor
    <3> QED BY <3>1, <3>2, <3>3
  <2>2. Sub(W, s, {}) \in Word(W)
    BY Width, Inside
  <2>3. Sub(W, s, {}) = s
    BY <1>2, <2>1, <2>2 DEF Word
  <2> QED BY <1>2, <1>3, <1>4, <1>5, <2>3 DEF ext, off
<1>6. CASE 7 \in b
  <2> DEFINE C(i) == CarryInto(i, p, b, FALSE)
             D(i) == CarryInto(i, p, ext, FALSE)
             l == Add(W, p, ext)
             m == Sub(W, s, {8})
  <2>0. ext = b \cup (8..(W - 1))
    BY <1>4, <1>6
  <2>1. /\ \A i \in 0..8 : D(i) <=> C(i)
        /\ \A i \in 8..W : D(i) <=> C(8)
        /\ \A i \in 9..W : ~C(i)
    BY <1>4, <2>0, CarriesOfPromotion, Zenon
  <2>2. ASSUME NEW i \in Bits(W) PROVE i \in l <=> (i \in Xor(p, ext) <=> ~D(i))
    BY Width, SumBit, Zenon DEF Add
  <2>3. ASSUME NEW i \in Bits(W) PROVE i \in s <=> (i \in Xor(p, b) <=> ~C(i))
    BY Width, SumBit, Zenon DEF Add
  <2>4. ASSUME NEW i \in Bits(W)
        PROVE  i \in m <=> (i \in Xor(s, {8}) <=> ~Ult(Trunc(i, s), Trunc(i, {8})))
    BY <1>1, <1>2, Width, DifferenceBit, Zenon
  <2>5. \A i \in p \cup b : i \in 0..7
    <3>1. p \subseteq 0..7 /\ b \subseteq 0..7
      BY DEF Word, Bits
    <3> QED BY <3>1
  <2> HIDE DEF C, D, s, l, m
  <2>6. 8 \in s <=> C(8)
    <3>1. 8 \notin Xor(p, b)
      BY <2>5 DEF Xor
    <3> QED BY <1>1, <2>3, <3>1
  <2>7. ASSUME NEW i \in Bits(W), i > 8 PROVE i \notin s
    <3>1. i \notin Xor(p, b) /\ i \in 9..W
      BY <2>5, <2>7, Width DEF Xor, Bits
    <3> QED BY <2>1, <2>3, <3>1
  <2>8. ASSUME NEW i \in Bits(W) PROVE i \in l <=> i \in m
    <3>1. CASE i < 8
      <4>1. Trunc(i, {8}) = {} /\ i \in 0..8 /\ i # 8
        BY <3>1 DEF Trunc, Bits
      <4>2. ~Ult(Trunc(i, s), Trunc(i, {8}))
        BY <4>1, NothingIsSmaller
      <4>3. i \in Xor(p, ext) <=> i \in Xor(p, b)
        BY <2>0, <3>1 DEF Xor
      <4>4. i \in Xor(s, {8}) <=> i \in s
        BY <4>1 DEF Xor
      <4> QED BY <2>1, <2>2, <2>3, <2>4, <4>1, <4>2, <4>3, <4>4
    <3>2. CASE i = 8
      <4>1. Trunc(i, {8}) = {} /\ i \in 0..8
        BY <3>2 DEF Trunc, Bits
      <4>2. ~Ult(Trunc(i, s), Trunc(i, {8}))
        BY <4>1, NothingIsSmaller
      <4>3. i \in Xor(p, ext)
        BY <2>0, <2>5, <3>2, Width DEF Xor, Bits
      <4>4. i \in Xor(s, {8}) <=> i \notin s
        BY <3>2 DEF Xor
      <4> QED BY <2>1, <2>2, <2>4, <2>6, <3>2, <4>1, <4>2, <4>3, <4>4
    <3>3. CASE i > 8
      <4>1. i \in 8..W /\ i \notin s /\ Trunc(i, {8}) = {8}
        BY <2>7, <3>3, Width DEF Trunc, Bits
      <4>2. i \in Xor(p, ext) /\ i \notin Xor(s, {8})
        BY <2>0, <2>5, <3>3, <4>1, Width DEF Xor, Bits
      <4>3. Ult(Trunc(i, s), {8}) <=> 8 \notin s
        <5>1. ASSUME 8 \in s PROVE ~Ult(Trunc(i, s), {8})
          BY <3>3, <5>1 DEF Ult, Trunc, Bits
        <5>2. ASSUME 8 \notin s PROVE Ult(Trunc(i, s), {8})
          <6>1. \A j \in Xor(Trunc(i, s), {8}) : j <= 8
            BY <1>2, <2>7 DEF Xor, Trunc, Word, Bits
          <6>2. 8 \in {8} \ Trunc(i, s)
            BY <5>2 DEF Trunc
          <6> QED BY <6>1, <6>2 DEF Ult
        <5> QED BY <5>1, <5>2
      <4>4. i \in l <=> ~C(8)
        BY <2>1, <2>2, <4>1, <4>2
      <4>5. i \in m <=> 8 \notin s
        BY <2>4, <4>1, <4>2, <4>3
      <4> QED BY <2>6, <4>4, <4>5
    <3> QED BY <3>1, <3>2, <3>3 DEF Bits
  <2>9. l \in Word(W) /\ m \in Word(W)
    BY Width, Inside DEF l, m
  <2>10. l = m
    BY <2>8, <2>9 DEF Word
  <2> QED BY <1>2, <1>3, <1>6, <2>10 DEF l, m, s, ext, off
<1> QED BY <1>5, <1>6

LEMMA Sample3IsRecovered ==
  ASSUME W > 8, NEW a \in Word(8), NEW b \in Word(8)
  PROVE  Recovered3(a, b) = Sample3(a, b) /\ Optimized3(a, b) = Recovered3(a, b)
<1> DEFINE p == Xor(a, {2, 3, 4, 6})
           ext == Sext(8, W, b)
<1>1. p \in Word(8)
  <2>1. {2, 3, 4, 6} \subseteq Bits(8)
    BY DEF Bits
  <2> QED BY <2>1 DEF Xor, Word
<1>2. Byte(Mba(Num(a))) = p
  BY MbaAssumption
<1>3. Sample3(a, b) = Add(W, p, ext)
  BY <1>2, Zenon DEF Sample3
<1>4. Recovered3(a, b) = Add(W, ext, p)
  BY Promotion, Zenon DEF Recovered3
<1>5. Add(W, ext, p) = Add(W, p, ext)
  BY AddCommutes
<1> HIDE DEF p, ext
<1>6. Add(W, Sext(8, W, b), p) = Sub(W, Add(W, p, b), Shl(W, b, 1) \cap {8})
  BY <1>1, PromotedByBorrow
<1>7. Optimized3(a, b) = Add(W, Sext(8, W, b), p)
  BY <1>6, Zenon DEF Optimized3, p
<1> QED BY <1>3, <1>4, <1>5, <1>7 DEF ext

-----------------------------------------------------------------------------
(* The calls.                                                              *)

\* What the five calls leave.
Returns(n, native, ir, o3) == sample = n => r = native /\ recovered = ir /\ optimized = o3

CallInv ==
  /\ sample \in Samples /\ x \in Operands[sample] /\ y \in Operands[sample]
  /\ returned \in BOOLEAN
  /\ returned => /\ Returns(1, Sample1(x, y), Recovered1(x, y), Recovered1(x, y))
                 /\ Returns(2, Sample2(x, y), Recovered2(x, y), Recovered2(x, y))
                 /\ Returns(3, Sample3(x, y), Recovered3(x, y), Optimized3(x, y))
                 /\ Returns(4, Sample4(x, y), Recovered4(x, y), Optimized4(x, y))
                 /\ Returns(5, Sample5(x, y), Recovered5(x, y), Optimized5(x, y))

LEMMA InitCall == Init => CallInv
  BY Zenon DEF Init, CallInv

LEMMA NextCall == CallInv /\ [Next]_vars => CallInv'
<1> SUFFICES ASSUME CallInv, [Next]_vars PROVE CallInv'
  OBVIOUS
<1>2. CASE Secret(1, Sample1(x, y), Recovered1(x, y), Recovered1(x, y))
  BY <1>2 DEF Secret, CallInv, Returns
<1>3. CASE Secret(2, Sample2(x, y), Recovered2(x, y), Recovered2(x, y))
  BY <1>3 DEF Secret, CallInv, Returns
<1>4. CASE Secret(3, Sample3(x, y), Recovered3(x, y), Optimized3(x, y))
  BY <1>4 DEF Secret, CallInv, Returns
<1>5. CASE Secret(4, Sample4(x, y), Recovered4(x, y), Optimized4(x, y))
  BY <1>5 DEF Secret, CallInv, Returns
<1>6. CASE Secret(5, Sample5(x, y), Recovered5(x, y), Optimized5(x, y))
  BY <1>6 DEF Secret, CallInv, Returns
<1>7. CASE UNCHANGED vars
  BY <1>7 DEF CallInv, Returns, vars
<1> QED BY <1>2, <1>3, <1>4, <1>5, <1>6, <1>7, Zenon DEF Next, Done

LEMMA Calls == Spec => []CallInv
  BY InitCall, NextCall, PTL DEF Spec

LEMMA Arguments ==
  ASSUME CallInv
  PROVE  /\ sample \in 1..5 /\ x \in Word(W) /\ y \in Word(W)
         /\ sample = 3 => W > 8 /\ x \in Word(8) /\ y \in Word(8)
<1>1. /\ W \in Nat /\ sample \in 1..5 /\ Operands[sample] \subseteq Word(W)
      /\ sample = 3 => W > 9 /\ Operands[sample] \subseteq Word(8)
  BY DevirtAssumption DEF CallInv
<1>2. x \in Operands[sample] /\ y \in Operands[sample]
  BY DEF CallInv
<1> QED BY <1>1, <1>2

\* For ints of every width and all arguments, what is recovered from samples 1,
\* 2, 3 and 5 is what was protected.
THEOREM ProtectedIsRecovered == Spec => []Recovers
<1>1. ASSUME CallInv PROVE Recovers
  <2> SUFFICES ASSUME returned, sample # 4 PROVE recovered = r
    BY DEF Recovers
  <2>1. CASE sample = 1
    BY <1>1, <2>1, AddCommutes DEF CallInv, Returns, Sample1, Recovered1
  <2>2. CASE sample = 2
    BY <1>1, <2>2 DEF CallInv, Returns, Sample2, Recovered2
  <2>3. CASE sample = 3
    BY <1>1, <2>3, Arguments, Sample3IsRecovered DEF CallInv, Returns
  <2>5. CASE sample = 5
    BY <1>1, <2>5, Arguments, Sample5IsRecovered DEF CallInv, Returns
  <2> QED BY <1>1, <2>1, <2>2, <2>3, <2>5, Arguments
<1> QED BY <1>1, Calls, PTL

\* For ints of every width, what is recovered from sample 4 is what was protected
\* exactly on arguments of the same sign.
THEOREM SignedOrUnsigned == Spec => []SignsDecide
<1>1. ASSUME CallInv PROVE SignsDecide
  BY <1>1, Arguments, Sample4BySigns DEF SignsDecide, CallInv, Returns
<1> QED BY <1>1, Calls, PTL

\* For ints of every width and all arguments, the handlers of the virtual machine
\* compute the flags of the comparison.
THEOREM HandlersCompare == Spec => []FlagsOfCmp
<1>1. ASSUME CallInv PROVE FlagsOfCmp
  BY <1>1, Arguments, FlagsOfSample4, FlagsOfSample5 DEF FlagsOfCmp
<1> QED BY <1>1, Calls, PTL

\* For ints of every width and all arguments, -O3 keeps the recovered functions.
THEOREM OptimizedIsSame == Spec => []SameOptimized
<1>1. ASSUME CallInv PROVE SameOptimized
  <2> SUFFICES ASSUME returned PROVE optimized = recovered
    BY DEF SameOptimized
  <2>1. CASE sample \in {1, 2}
    BY <1>1, <2>1 DEF CallInv, Returns
  <2>3. CASE sample = 3
    BY <1>1, <2>3, Arguments, Sample3IsRecovered DEF CallInv, Returns
  <2>4. CASE sample = 4
    BY <1>1, <2>4, Arguments, Sample4IsOptimized DEF CallInv, Returns
  <2>5. CASE sample = 5
    BY <1>1, <2>5, Arguments, Sample5IsRecovered DEF CallInv, Returns
  <2> QED BY <1>1, <2>1, <2>3, <2>4, <2>5, Arguments
<1> QED BY <1>1, Calls, PTL

=============================================================================
