-------------------------- MODULE BitVectorsProofs --------------------------
(***************************************************************************)
(* The arithmetic of machine words of any width, proved bit by bit.        *)
(***************************************************************************)
EXTENDS BitVectors, WellFoundedInduction, TLAPS

-----------------------------------------------------------------------------
(* The first and the last position in a set.                               *)

LEMMA FirstBit ==
  ASSUME NEW S \in SUBSET Nat, S # {}
  PROVE  \E m \in S : \A k \in S : m <= k
<1>1. PICK m \in S : \A k \in S : <<k, m>> \notin OpToRel(<, Nat)
  BY NatLessThanWellFounded, WFMin, Zenon
<1>2. ASSUME NEW k \in S PROVE ~ (k < m)
  <2>1. <<k, m>> \notin OpToRel(<, Nat)
    BY <1>1
  <2>2. k \in Nat /\ m \in Nat
    OBVIOUS
  <2> QED BY <2>1, <2>2, Zenon DEF OpToRel
<1>3. \A k \in S : m <= k
  BY <1>2
<1> QED BY <1>3

\* Induction over the positions of a word: a set that has position 0, and each
\* position after one it has, has them all.
LEMMA BitInduction ==
  ASSUME NEW w \in Nat, NEW T, 0 \in T, \A i \in 0..(w - 1) : i \in T => i + 1 \in T
  PROVE  0..w \subseteq T
<1> DEFINE S == (0..w) \ T
<1> SUFFICES ASSUME S # {} PROVE FALSE
  OBVIOUS
<1>1. S \in SUBSET Nat
  OBVIOUS
<1>2. PICK m \in S : \A k \in S : m <= k
  BY <1>1, FirstBit
<1>3. m # 0 /\ m \in 0..w
  OBVIOUS
<1>4. m - 1 \in 0..(w - 1) /\ ~ (m <= m - 1) /\ m = (m - 1) + 1
  BY <1>3
<1>5. m - 1 \in T
  BY <1>2, <1>4
<1> QED BY <1>4, <1>5

LEMMA LastBit ==
  ASSUME NEW w \in Nat, NEW S \in SUBSET Bits(w), S # {}
  PROVE  \E m \in S : \A k \in S : k <= m
<1> DEFINE T == {w - k : k \in S}
<1>1. T \in SUBSET Nat
  BY DEF Bits
<1>2. T # {}
  OBVIOUS
<1>3. PICK t \in T : \A k \in T : t <= k
  BY <1>1, <1>2, FirstBit
<1>4. PICK m \in S : t = w - m
  OBVIOUS
<1>5. ASSUME NEW k \in S PROVE k <= m
  <2>1. w - k \in T
    OBVIOUS
  <2>2. w - m <= w - k
    BY <1>3, <1>4, <2>1
  <2>3. k \in Int /\ m \in Int
    BY DEF Bits
  <2> HIDE DEF T
  <2> QED BY <2>2, <2>3
<1> QED BY <1>5

-----------------------------------------------------------------------------
(* Carries.                                                                *)

\* A carry is a truth value, also when it is compared with another.
LEMMA CarryBoolean ==
  ASSUME NEW i, NEW a, NEW b, NEW c \in BOOLEAN
  PROVE  CarryInto(i, a, b, c) \in BOOLEAN
  BY DEF CarryInto

LEMMA Unequal ==
  ASSUME NEW p \in BOOLEAN, NEW q \in BOOLEAN
  PROVE  p # q <=> (p <=> ~q)
  OBVIOUS

\* Bit i of a sum.
LEMMA SumBit ==
  ASSUME NEW w \in Nat, NEW a, NEW b, NEW c \in BOOLEAN, NEW i \in Bits(w)
  PROVE  i \in AddCarry(w, a, b, c) <=> (i \in Xor(a, b) <=> ~CarryInto(i, a, b, c))
<1>1. (i \in Xor(a, b)) \in BOOLEAN
  OBVIOUS
<1>2. CarryInto(i, a, b, c) \in BOOLEAN
  BY CarryBoolean
<1>3. i \in AddCarry(w, a, b, c) <=> (i \in Xor(a, b)) # CarryInto(i, a, b, c)
  BY Zenon DEF AddCarry
<1>4. (i \in Xor(a, b)) # CarryInto(i, a, b, c) <=> (i \in Xor(a, b) <=> ~CarryInto(i, a, b, c))
  BY <1>1, <1>2, Unequal, Zenon
<1> QED BY <1>3, <1>4, Zenon

\* The carry into a bit comes from the bit below, or through it.
LEMMA CarryStep ==
  ASSUME NEW i \in Nat, NEW a \in SUBSET Nat, NEW b \in SUBSET Nat, NEW c \in BOOLEAN
  PROVE  CarryInto(i + 1, a, b, c) <=>
           i \in a \cap b \/ (i \in a \cup b /\ CarryInto(i, a, b, c))
<1>1. ASSUME i \in a \cap b PROVE CarryInto(i + 1, a, b, c)
  <2>1. i \in a \cap b /\ i < i + 1 /\ \A k \in (i + 1)..(i + 1 - 1) : k \in a \cup b
    BY <1>1
  <2> QED BY <2>1 DEF CarryInto
<1>2. ASSUME i \in a \cup b, CarryInto(i, a, b, c) PROVE CarryInto(i + 1, a, b, c)
  <2>1. CASE c /\ \A k \in 0..(i - 1) : k \in a \cup b
    <3>1. \A k \in 0..(i + 1 - 1) : k \in a \cup b
      BY <1>2, <2>1
    <3> QED BY <2>1, <3>1 DEF CarryInto
  <2>2. CASE \E j \in a \cap b : j < i /\ \A k \in (j + 1)..(i - 1) : k \in a \cup b
    <3>1. PICK j \in a \cap b : j < i /\ \A k \in (j + 1)..(i - 1) : k \in a \cup b
      BY <2>2
    <3>2. j < i + 1 /\ \A k \in (j + 1)..(i + 1 - 1) : k \in a \cup b
      BY <1>2, <3>1
    <3> QED BY <3>2 DEF CarryInto
  <2> QED BY <1>2, <2>1, <2>2 DEF CarryInto
<1>3. ASSUME CarryInto(i + 1, a, b, c), i \notin a \cap b
      PROVE  i \in a \cup b /\ CarryInto(i, a, b, c)
  <2>1. CASE c /\ \A k \in 0..(i + 1 - 1) : k \in a \cup b
    <3>1. i \in a \cup b /\ \A k \in 0..(i - 1) : k \in a \cup b
      BY <2>1
    <3> QED BY <2>1, <3>1 DEF CarryInto
  <2>2. CASE \E j \in a \cap b : j < i + 1 /\ \A k \in (j + 1)..(i + 1 - 1) : k \in a \cup b
    <3>1. PICK j \in a \cap b : j < i + 1 /\ \A k \in (j + 1)..(i + 1 - 1) : k \in a \cup b
      BY <2>2
    <3>2. j < i
      BY <1>3, <3>1
    <3>3. i \in a \cup b /\ \A k \in (j + 1)..(i - 1) : k \in a \cup b
      BY <3>1, <3>2
    <3> QED BY <3>2, <3>3 DEF CarryInto
  <2> QED BY <1>3, <2>1, <2>2 DEF CarryInto
<1> QED BY <1>1, <1>2, <1>3, Zenon

LEMMA NoCarryYet ==
  ASSUME NEW a \in SUBSET Nat, NEW b \in SUBSET Nat, NEW c \in BOOLEAN
  PROVE  CarryInto(0, a, b, c) <=> c
  BY DEF CarryInto

\* The operands of a sum can be exchanged.
LEMMA AddCommutes ==
  ASSUME NEW w, NEW a, NEW b
  PROVE  Add(w, a, b) = Add(w, b, a)
<1>1. Xor(a, b) = Xor(b, a) /\ a \cap b = b \cap a /\ a \cup b = b \cup a
  BY DEF Xor
<1>2. ASSUME NEW i PROVE CarryInto(i, a, b, FALSE) = CarryInto(i, b, a, FALSE)
  BY <1>1, Zenon DEF CarryInto
<1> QED BY <1>1, <1>2, Zenon DEF Add, AddCarry

\* What is added to a word that has no bit of it is put beside it.
LEMMA AddDisjoint ==
  ASSUME NEW w \in Nat, NEW a \in Word(w), NEW b \in Word(w), a \cap b = {}
  PROVE  Add(w, a, b) = a \cup b
<1>1. ASSUME NEW i \in Bits(w) PROVE i \in Add(w, a, b) <=> i \in a \cup b
  <2>1. ~CarryInto(i, a, b, FALSE)
    BY DEF CarryInto
  <2>2. i \in Add(w, a, b) <=> i \in Xor(a, b)
    BY <2>1, SumBit, Zenon DEF Add
  <2> QED BY <2>2 DEF Xor
<1>2. Add(w, a, b) \subseteq Bits(w) /\ a \cup b \subseteq Bits(w)
  BY DEF Add, AddCarry, Word
<1> QED BY <1>1, <1>2

-----------------------------------------------------------------------------
(* Comparisons are carries.                                                *)

\* The carry out of the lowest i bits of ~a + b says which is smaller there.
LEMMA CarryCompares ==
  ASSUME NEW w \in Nat, NEW a \in Word(w), NEW b \in Word(w), NEW i \in 0..w
  PROVE  CarryInto(i, Not(w, a), b, FALSE) <=> Ult(Trunc(i, a), Trunc(i, b))
<1> DEFINE s == Trunc(i, a)
           t == Trunc(i, b)
<1>1. /\ \A k \in Bits(i) : k \in Bits(w)
      /\ \A k \in Bits(i) : (k \in s <=> k \in a) /\ (k \in t <=> k \in b)
      /\ s \in SUBSET Bits(i) /\ t \in SUBSET Bits(i)
      /\ Xor(s, t) \in SUBSET Bits(i)
  BY DEF Bits, Trunc, Xor
<1>2. ASSUME CarryInto(i, Not(w, a), b, FALSE) PROVE Ult(s, t)
  <2>1. PICK j \in Not(w, a) \cap b : j < i /\ \A k \in (j + 1)..(i - 1) : k \in Not(w, a) \cup b
    BY <1>2 DEF CarryInto
  <2>2. j \in Bits(i) /\ j \in Xor(s, t)
    BY <1>1, <2>1 DEF Not, Bits, Word, Xor
  <2>3. PICK m \in Xor(s, t) : \A k \in Xor(s, t) : k <= m
    BY <1>1, <2>2, LastBit
  <2>4. m \in t \ s
    <3>1. CASE m = j
      BY <1>1, <2>1, <2>2, <3>1 DEF Not
    <3>2. CASE m # j
      <4>1. m \in Bits(i) /\ j <= m
        BY <1>1, <2>2, <2>3
      <4>2. m \in (j + 1)..(i - 1)
        BY <2>2, <3>2, <4>1 DEF Bits
      <4>3. m \in Not(w, a) \cup b
        BY <2>1, <4>2
      <4> QED BY <1>1, <4>1, <4>3 DEF Not, Xor
    <3> QED BY <3>1, <3>2
  <2> QED BY <2>3, <2>4 DEF Ult
<1>3. ASSUME Ult(s, t) PROVE CarryInto(i, Not(w, a), b, FALSE)
  <2>1. PICK k \in t \ s : \A j \in Xor(s, t) : j <= k
    BY <1>3 DEF Ult
  <2>2. k \in Bits(i) /\ k \in Not(w, a) \cap b /\ k < i
    BY <1>1, <2>1 DEF Not, Bits
  <2>3. ASSUME NEW j \in (k + 1)..(i - 1) PROVE j \in Not(w, a) \cup b
    <3>1. j \in Bits(i) /\ ~ (j <= k)
      BY <2>2 DEF Bits
    <3>2. j \notin Xor(s, t)
      BY <2>1, <3>1
    <3> QED BY <1>1, <3>1, <3>2 DEF Xor, Not
  <2> QED BY <2>2, <2>3 DEF CarryInto
<1> QED BY <1>2, <1>3

\* Subtraction borrows where the complement does not carry.
LEMMA BorrowIsNoCarry ==
  ASSUME NEW w \in Nat, NEW a \in Word(w), NEW b \in Word(w)
  PROVE  \A i \in 0..w : CarryInto(i, a, Not(w, b), TRUE) <=> ~CarryInto(i, Not(w, a), b, FALSE)
<1> DEFINE C(i) == CarryInto(i, a, Not(w, b), TRUE)
           D(i) == CarryInto(i, Not(w, a), b, FALSE)
           T == {i \in 0..w : C(i) <=> ~D(i)}
<1>0. a \in SUBSET Nat /\ b \in SUBSET Nat /\ Not(w, a) \in SUBSET Nat /\ Not(w, b) \in SUBSET Nat
  BY DEF Word, Bits, Not
<1>1. 0 \in T
  <2>1. TRUE \in BOOLEAN /\ FALSE \in BOOLEAN
    OBVIOUS
  <2>2. C(0)
    BY <1>0, <2>1, NoCarryYet, Zenon
  <2>3. ~D(0)
    BY <1>0, <2>1, NoCarryYet, Zenon
  <2> HIDE DEF C, D
  <2> QED BY <2>2, <2>3
<1>2. ASSUME NEW i \in 0..(w - 1), i \in T PROVE i + 1 \in T
  <2>0. i \in Nat /\ i + 1 \in 0..w /\ TRUE \in BOOLEAN /\ FALSE \in BOOLEAN
    OBVIOUS
  <2>1. C(i + 1) <=> i \in a \cap Not(w, b) \/ (i \in a \cup Not(w, b) /\ C(i))
    BY <1>0, <2>0, CarryStep, Zenon
  <2>2. D(i + 1) <=> i \in Not(w, a) \cap b \/ (i \in Not(w, a) \cup b /\ D(i))
    BY <1>0, <2>0, CarryStep, Zenon
  <2>3. (i \in Not(w, a) <=> i \notin a) /\ (i \in Not(w, b) <=> i \notin b)
    BY DEF Not, Bits
  <2>4. C(i) <=> ~D(i)
    BY <1>2
  <2> HIDE DEF C, D
  <2> QED BY <2>0, <2>1, <2>2, <2>3, <2>4
<1> HIDE DEF T
<1>3. 0..w \subseteq T
  BY <1>1, <1>2, BitInduction
<1> QED BY <1>3 DEF T

\* The carry of a complement is a borrow at every bit.
LEMMA BorrowCompares ==
  ASSUME NEW w \in Nat, NEW a \in Word(w), NEW b \in Word(w), NEW i \in 0..w
  PROVE  CarryInto(i, a, Not(w, b), TRUE) <=> ~Ult(Trunc(i, a), Trunc(i, b))
<1>1. CarryInto(i, a, Not(w, b), TRUE) <=> ~CarryInto(i, Not(w, a), b, FALSE)
  BY BorrowIsNoCarry, Zenon
<1>2. CarryInto(i, Not(w, a), b, FALSE) <=> Ult(Trunc(i, a), Trunc(i, b))
  BY CarryCompares, Zenon
<1> QED BY <1>1, <1>2, Zenon

\* Bit i of a difference.
LEMMA DifferenceBit ==
  ASSUME NEW w \in Nat, NEW a \in Word(w), NEW b \in Word(w), NEW i \in Bits(w)
  PROVE  i \in Sub(w, a, b) <=> (i \in Xor(a, b) <=> ~Ult(Trunc(i, a), Trunc(i, b)))
<1>1. i \in Sub(w, a, b) <=> (i \in Xor(a, Not(w, b)) <=> ~CarryInto(i, a, Not(w, b), TRUE))
  BY SumBit, Zenon DEF Sub
<1>2. i \in Xor(a, Not(w, b)) <=> i \notin Xor(a, b)
  BY DEF Xor, Not
<1>3. i \in 0..w
  BY DEF Bits
<1>4. CarryInto(i, a, Not(w, b), TRUE) <=> ~Ult(Trunc(i, a), Trunc(i, b))
  BY <1>3, BorrowCompares, Zenon
<1> QED BY <1>1, <1>2, <1>4, Zenon

\* Bit i of a complement plus a word.
LEMMA ComplementBit ==
  ASSUME NEW w \in Nat, NEW a \in Word(w), NEW b \in Word(w), NEW i \in Bits(w)
  PROVE  i \in Add(w, Not(w, a), b) <=> (i \in Xor(a, b) <=> Ult(Trunc(i, a), Trunc(i, b)))
<1>1. i \in Add(w, Not(w, a), b) <=> (i \in Xor(Not(w, a), b) <=> ~CarryInto(i, Not(w, a), b, FALSE))
  BY SumBit, Zenon DEF Add
<1>2. i \in Xor(Not(w, a), b) <=> i \notin Xor(a, b)
  BY DEF Xor, Not
<1>3. i \in 0..w
  BY DEF Bits
<1>4. CarryInto(i, Not(w, a), b, FALSE) <=> Ult(Trunc(i, a), Trunc(i, b))
  BY <1>3, CarryCompares, Zenon
<1> QED BY <1>1, <1>2, <1>4, Zenon

\* a - b is the complement of ~a + b.
LEMMA SubByComplement ==
  ASSUME NEW w \in Nat, NEW a \in Word(w), NEW b \in Word(w)
  PROVE  Sub(w, a, b) = Not(w, Add(w, Not(w, a), b))
<1>1. ASSUME NEW i \in Bits(w) PROVE i \in Sub(w, a, b) <=> i \notin Add(w, Not(w, a), b)
  BY DifferenceBit, ComplementBit, Zenon
<1>2. Sub(w, a, b) \subseteq Bits(w)
  BY DEF Sub, AddCarry
<1> QED BY <1>1, <1>2 DEF Not

LEMMA Inside ==
  ASSUME NEW w \in Nat, NEW a, NEW b
  PROVE  /\ Add(w, a, b) \in Word(w) /\ Sub(w, a, b) \in Word(w)
         /\ Not(w, a) \in Word(w) /\ Trunc(w, a) \in Word(w)
  BY DEF Add, Sub, AddCarry, Word, Not, Trunc

LEMMA TruncWord ==
  ASSUME NEW w \in Nat, NEW a \in Word(w)
  PROVE  Trunc(w, a) = a
  BY DEF Trunc, Word

LEMMA NothingIsSmaller ==
  ASSUME NEW a
  PROVE  ~Ult(a, a) /\ ~Ult(a, {})
  BY DEF Ult

\* Words are equal when their difference is zero.
LEMMA DifferenceZero ==
  ASSUME NEW w \in Nat, NEW a \in Word(w), NEW b \in Word(w)
  PROVE  Sub(w, a, b) = {} <=> a = b
<1>1. ASSUME a = b PROVE Sub(w, a, b) = {}
  <2>1. ASSUME NEW i \in Bits(w) PROVE i \notin Sub(w, a, b)
    <3>1. i \notin Xor(a, b)
      BY <1>1 DEF Xor
    <3>2. Trunc(i, a) = Trunc(i, b)
      BY <1>1
    <3>3. ~Ult(Trunc(i, a), Trunc(i, b))
      BY <3>2, NothingIsSmaller
    <3> QED BY <3>1, <3>3, DifferenceBit
  <2>2. Sub(w, a, b) \subseteq Bits(w)
    BY DEF Sub, AddCarry
  <2> QED BY <2>1, <2>2
<1>2. ASSUME a # b PROVE Sub(w, a, b) # {}
  <2>1. Xor(a, b) # {} /\ Xor(a, b) \in SUBSET Nat /\ Xor(a, b) \subseteq Bits(w)
    BY <1>2 DEF Xor, Word, Bits
  <2>2. PICK m \in Xor(a, b) : \A k \in Xor(a, b) : m <= k
    BY <2>1, FirstBit
  <2>3. Trunc(m, a) = Trunc(m, b)
    <3>1. ASSUME NEW k \in Bits(m) PROVE k \in a <=> k \in b
      <4>1. ~ (m <= k)
        BY <2>1, <2>2 DEF Bits
      <4>2. k \notin Xor(a, b)
        BY <2>2, <4>1
      <4> QED BY <4>2 DEF Xor
    <3> QED BY <3>1 DEF Trunc
  <2>4. ~Ult(Trunc(m, a), Trunc(m, b))
    BY <2>3, NothingIsSmaller
  <2>5. m \in Bits(w)
    BY <2>1, <2>2
  <2>6. m \in Sub(w, a, b)
    BY <2>2, <2>4, <2>5, DifferenceBit
  <2> QED BY <2>6
<1> QED BY <1>1, <1>2

\* The highest bit decides, or the rest does.
LEMMA TopBit ==
  ASSUME NEW w \in Nat \ {0}, NEW a \in Word(w), NEW b \in Word(w)
  PROVE  Ult(a, b) <=> \/ w - 1 \in b \ a
                       \/ w - 1 \notin Xor(a, b) /\ Ult(Trunc(w - 1, a), Trunc(w - 1, b))
<1> DEFINE t == w - 1
           D(i) == CarryInto(i, Not(w, a), b, FALSE)
<1>1. t \in Nat /\ t + 1 = w /\ t \in 0..w /\ w \in 0..w /\ t \in Bits(w) /\ w \in Nat
  BY DEF Bits
<1>2. Not(w, a) \in SUBSET Nat /\ b \in SUBSET Nat /\ FALSE \in BOOLEAN
  BY DEF Word, Bits, Not
<1>3. D(t + 1) <=> t \in Not(w, a) \cap b \/ (t \in Not(w, a) \cup b /\ D(t))
  BY <1>1, <1>2, CarryStep, Zenon
<1>4. D(w) <=> Ult(Trunc(w, a), Trunc(w, b))
  BY <1>1, CarryCompares, Zenon
<1>5. D(t) <=> Ult(Trunc(t, a), Trunc(t, b))
  BY <1>1, CarryCompares, Zenon
<1>6. Trunc(w, a) = a /\ Trunc(w, b) = b
  BY <1>1, TruncWord
<1>7. Ult(a, b) <=> D(t + 1)
  BY <1>1, <1>4, <1>6
<1>8. t \in Not(w, a) <=> t \notin a
  BY <1>1 DEF Not
<1> HIDE DEF t, D
<1>9. Ult(a, b) <=> \/ t \in b \ a
                    \/ t \notin Xor(a, b) /\ Ult(Trunc(t, a), Trunc(t, b))
  BY <1>3, <1>5, <1>7, <1>8 DEF Xor
<1> QED BY <1>9 DEF t

\* Adding the word of all ones subtracts one.
LEMMA AddOnes ==
  ASSUME NEW w \in Nat \ {0}, NEW b \in Word(w)
  PROVE  Add(w, b, Bits(w)) = Sub(w, b, {0})
<1> DEFINE m == Not(w, {0})
           C(i) == CarryInto(i, b, Bits(w), FALSE)
           D(i) == CarryInto(i, b, m, TRUE)
           T == {0} \cup {i \in 1..w : C(i) <=> D(i)}
<1>0. /\ b \in SUBSET Nat /\ Bits(w) \in SUBSET Nat /\ m \in SUBSET Nat
      /\ TRUE \in BOOLEAN /\ FALSE \in BOOLEAN /\ w \in Nat
      /\ \A i : i \in m <=> i \in Bits(w) /\ i # 0
  BY DEF Word, Bits, Not
<1> HIDE DEF m
<1>1. ~C(0) /\ D(0)
  <2>1. ~C(0)
    BY <1>0, NoCarryYet, Zenon
  <2>2. D(0)
    BY <1>0, NoCarryYet, Zenon
  <2> QED BY <2>1, <2>2
<1>2. ASSUME NEW i \in 0..(w - 1), i \in T PROVE i + 1 \in T
  <2>0. i \in Nat /\ i + 1 \in 1..w /\ i \in Bits(w)
    BY DEF Bits
  <2>1. C(i + 1) <=> i \in b \cap Bits(w) \/ (i \in b \cup Bits(w) /\ C(i))
    BY <1>0, <2>0, CarryStep, Zenon
  <2>2. D(i + 1) <=> i \in b \cap m \/ (i \in b \cup m /\ D(i))
    BY <1>0, <2>0, CarryStep, Zenon
  <2>3. i = 0 \/ (C(i) <=> D(i))
    BY <1>2
  <2> HIDE DEF C, D
  <2> QED BY <1>0, <1>1, <2>0, <2>1, <2>2, <2>3
<1>3. 0..w \subseteq T
  <2>1. 0 \in T
    OBVIOUS
  <2> HIDE DEF T
  <2> QED BY <1>0, <1>2, <2>1, BitInduction
<1>4. ASSUME NEW i \in Bits(w) PROVE i \in Add(w, b, Bits(w)) <=> i \in Sub(w, b, {0})
  <2>1. i \in Add(w, b, Bits(w)) <=> (i \in Xor(b, Bits(w)) <=> ~C(i))
    BY <1>0, SumBit, Zenon DEF Add
  <2>2. i \in Sub(w, b, {0}) <=> (i \in Xor(b, m) <=> ~D(i))
    BY <1>0, SumBit, Zenon DEF Sub, m
  <2>3. i = 0 \/ (C(i) <=> D(i))
    <3>1. i \in 0..w
      BY DEF Bits
    <3> HIDE DEF C, D
    <3> QED BY <1>3, <3>1
  <2>4. (i \in Xor(b, Bits(w)) <=> i \notin b) /\ (i \in Xor(b, m) <=> (i \in b <=> i = 0))
    BY <1>0 DEF Xor
  <2> HIDE DEF C, D
  <2> QED BY <1>1, <2>1, <2>2, <2>3, <2>4
<1>5. Add(w, b, Bits(w)) \subseteq Bits(w) /\ Sub(w, b, {0}) \subseteq Bits(w)
  BY DEF Add, Sub, AddCarry
<1> QED BY <1>4, <1>5

\* A carry into a bit depends on the bits below it.
LEMMA CarryIsLocal ==
  ASSUME NEW i \in Nat, NEW a \in SUBSET Nat, NEW b \in SUBSET Nat,
         NEW d \in SUBSET Nat, NEW c \in BOOLEAN, Trunc(i, b) = Trunc(i, d)
  PROVE  CarryInto(i, a, b, c) <=> CarryInto(i, a, d, c)
<1>1. \A k \in 0..(i - 1) : k \in b <=> k \in d
  BY DEF Trunc, Bits
<1>2. \A k \in 0..(i - 1) : k \in a \cup b <=> k \in a \cup d
  BY <1>1
<1>3. \A j \in Nat : j < i => (j \in a \cap b <=> j \in a \cap d)
  BY <1>1
<1>4. \A j \in Nat : j < i => \A k \in (j + 1)..(i - 1) : k \in 0..(i - 1)
  OBVIOUS
<1>5. (\A k \in 0..(i - 1) : k \in a \cup b) <=> (\A k \in 0..(i - 1) : k \in a \cup d)
  BY <1>2
<1>6. (\E j \in a \cap b : j < i /\ \A k \in (j + 1)..(i - 1) : k \in a \cup b)
      <=> (\E j \in a \cap d : j < i /\ \A k \in (j + 1)..(i - 1) : k \in a \cup d)
  BY <1>2, <1>3, <1>4
<1> QED BY <1>5, <1>6, Zenon DEF CarryInto

=============================================================================
