----------------------------- MODULE AluProofs ------------------------------
(***************************************************************************)
(* For words of every width: what the controller takes branches on, and    *)
(* the arithmetic operations against what the bench expects of them.       *)
(*                                                                         *)
(* The bits of a word that comparisons look at are its sign bit and        *)
(* whether it is 0; the sign bit divides the words in halves (SignBitIs).  *)
(* A signed product differs from the unsigned one by multiples of the      *)
(* modulus (SignedProduct).  The operations that go bit by bit, and the    *)
(* shifts, are sums over as many bits as the word has: they are left to    *)
(* the run of the bench.                                                   *)
(***************************************************************************)
EXTENDS AluBench, TLAPS

Half == 2 ^ (Width - 1)

LEMMA Halves ==
    /\ Half \in Nat /\ Half > 0
    /\ Modulus = 2 * Half
    /\ Modulus \in Nat /\ Modulus > 0
<1>1. Width - 1 \in 0 .. Width - 1
  BY WidthAssumption
<1>2. Half \in Nat /\ Half > 0 /\ 2 ^ ((Width - 1) + 1) = 2 * Half
  BY <1>1, PowerAssumption DEF Half
<1>3. (Width - 1) + 1 = Width
  BY WidthAssumption
<1> QED BY <1>2, <1>3 DEF Modulus

LEMMA SignBitIs ==
    ASSUME NEW w \in Word
    PROVE  /\ SignBit(w) = Truth(Half <= w)
           /\ Signed(w) = IF Half <= w THEN w - Modulus ELSE w
<1>1. /\ Half \in Nat /\ Half > 0 /\ Modulus = 2 * Half
      /\ w \in Nat /\ w < 2 * Half
  BY Halves DEF Word
<1>2. SignBit(w) = (w \div Half) % 2
  BY DEF SignBit, BitOf, Half
<1> HIDE DEF Half
<1>3. CASE Half <= w
  <2>1. w \div Half = 1
    <3> DEFINE q == w \div Half
               r == w % Half
    <3>1. q \in Nat /\ r \in 0 .. Half - 1 /\ w = q * Half + r
      BY <1>1
    <3> HIDE DEF q, r
    <3>2. CASE q = 0
      BY <1>1, <1>3, <3>1, <3>2
    <3>3. CASE q >= 2
      <4>1. q * Half >= 2 * Half BY <1>1, <3>1, <3>3
      <4> QED BY <1>1, <3>1, <4>1
    <3> QED BY <3>1, <3>2, <3>3 DEF q
  <2> QED BY <1>1, <1>2, <1>3, <2>1 DEF Truth, Signed
<1>4. CASE ~ (Half <= w)
  <2>1. w \div Half = 0 BY <1>1, <1>4
  <2> QED BY <1>1, <1>2, <1>4, <2>1 DEF Truth, Signed
<1> QED BY <1>3, <1>4

(* What an assumption of the pipeline (AluAssumption in Cpu.tla) asks of   *)
(* the ALU for its branches, and more: a difference is 0 for equal words   *)
(* only, and each "less than" is 0 or 1 and holds one way round for any    *)
(* two different words.                                                    *)
THEOREM Comparisons ==
    ASSUME NEW A \in Word, NEW B \in Word
    PROVE  /\ R(4, A, B) \in Word
           /\ R(4, A, B) = 0 <=> A = B
           /\ \A less \in {12, 13} : /\ R(less, A, B) \in {0, 1}
                                     /\ R(less, A, B) + R(less, B, A) = Truth(A # B)
<1>1. /\ Modulus \in Nat /\ Modulus > 0 /\ Half \in Nat /\ Half > 0 /\ Modulus = 2 * Half
      /\ A \in Nat /\ A < Modulus /\ B \in Nat /\ B < Modulus
  BY Halves DEF Word
<1>2. R(4, A, B) = (A - B) % Modulus
  BY DEF R
<1>3. \A a, b : R(12, a, b) = Truth(Signed(a) < Signed(b)) /\ R(13, a, b) = Truth(a < b)
  BY DEF R, SignedLess
<1>4. (A - B) % Modulus \in Word /\ ((A - B) % Modulus = 0 <=> A = B)
  BY <1>1 DEF Word
<1>5. /\ Signed(A) = IF Half <= A THEN A - Modulus ELSE A
      /\ Signed(B) = IF Half <= B THEN B - Modulus ELSE B
  BY SignBitIs
<1>6. R(13, A, B) \in {0, 1} /\ R(13, A, B) + R(13, B, A) = Truth(A # B)
  BY <1>1, <1>3 DEF Truth
<1>7. R(12, A, B) \in {0, 1} /\ R(12, A, B) + R(12, B, A) = Truth(A # B)
  BY <1>1, <1>3, <1>5 DEF Truth
<1> QED BY <1>2, <1>4, <1>6, <1>7

-----------------------------------------------------------------------------
(* A quotient and a remainder are the only ones. *)
LEMMA DivisionIs ==
    ASSUME NEW m \in Nat, m > 0, NEW q \in Int, NEW r \in Int, 0 <= r, r < m,
           NEW n, n = q * m + r
    PROVE  n \div m = q /\ n % m = r
<1> DEFINE d == n \div m
           e == n % m
<1>1. n \in Int
  OBVIOUS
<1>2. d \in Int /\ e \in Int /\ 0 <= e /\ e < m /\ n = d * m + e
  BY <1>1
<1> HIDE DEF d, e
<1>3. (d - q) * m = r - e
  BY <1>2
<1>4. ~ (d - q >= 1)
  <2> SUFFICES ASSUME d - q >= 1 PROVE FALSE
    OBVIOUS
  <2>1. (d - q) * m >= 1 * m BY <1>2
  <2> QED BY <1>2, <1>3, <2>1
<1>5. ~ (q - d >= 1)
  <2> SUFFICES ASSUME q - d >= 1 PROVE FALSE
    OBVIOUS
  <2>1. (q - d) * m >= 1 * m BY <1>2
  <2>2. (q - d) * m = e - r BY <1>2
  <2> QED BY <1>2, <2>1, <2>2
<1>6. d = q
  BY <1>2, <1>4, <1>5
<1>7. e = r
  BY <1>2, <1>6
<1> QED BY <1>6, <1>7 DEF d, e

(* Multiples of the modulus do not show in a remainder, and come out of a  *)
(* quotient whole.                                                         *)
LEMMA Multiples ==
    ASSUME NEW m \in Nat, m > 0, NEW n \in Int, NEW k \in Int
    PROVE  /\ (n + k * m) \div m = n \div m + k
           /\ (n + k * m) % m = n % m
<1> DEFINE d == n \div m
           e == n % m
<1>1. d \in Int /\ e \in Int /\ 0 <= e /\ e < m /\ n = d * m + e
  OBVIOUS
<1> HIDE DEF d, e
<1>2. n + k * m = (d + k) * m + e
  BY <1>1
<1>3. d + k \in Int
  BY <1>1
<1>4. (n + k * m) \div m = d + k /\ (n + k * m) % m = e
  BY <1>1, <1>2, <1>3, DivisionIs
<1> QED BY <1>4 DEF d, e

LEMMA SignBitsAreBits ==
    ASSUME NEW w \in Word
    PROVE  SignBit(w) \in {0, 1} /\ w \in Nat /\ w < Modulus
BY SignBitIs, Halves DEF Truth, Word

(* The signed product is the unsigned one, but for multiples of the        *)
(* modulus: its lower half is the same, its upper half is lower by the     *)
(* other factor for each negative one.                                     *)
LEMMA SignedProduct ==
    ASSUME NEW A \in Word, NEW B \in Word
    PROVE  /\ (Signed(A) * Signed(B)) % Modulus = (A * B) % Modulus
           /\ UpperHalf(Signed(A) * Signed(B)) = SignedHigh(A, B)
<1> DEFINE m == Modulus
           a == SignBit(A)
           b == SignBit(B)
           p == A * B
           h == p \div m
           k == a * b * m - a * B - b * A
<1>1. m \in Nat /\ m > 0
  BY Halves
<1>2. a \in {0, 1} /\ b \in {0, 1} /\ A \in Nat /\ B \in Nat
  BY SignBitsAreBits
<1>3. Signed(A) = A - a * m /\ Signed(B) = B - b * m
  BY DEF Signed
<1>4. UpperHalf(Signed(A) * Signed(B)) = ((Signed(A) * Signed(B)) \div m) % m
  BY DEF UpperHalf
<1>5. SignedHigh(A, B) = (h - a * B - b * A) % m
  BY DEF SignedHigh
<1> HIDE DEF m, a, b
<1>6. k \in Int /\ p \in Int
  BY <1>1, <1>2
<1>7. (A - a * m) * (B - b * m) = p + k * m
  <2>1. CASE a = 0 /\ b = 0
    BY <1>1, <1>2, <2>1
  <2>2. CASE a = 1 /\ b = 0
    BY <1>1, <1>2, <2>2
  <2>3. CASE a = 0 /\ b = 1
    BY <1>1, <1>2, <2>3
  <2>4. CASE a = 1 /\ b = 1
    BY <1>1, <1>2, <2>4
  <2> QED BY <1>2, <2>1, <2>2, <2>3, <2>4
<1>8. k = (a * b) * m + (- a * B - b * A) /\ a * b \in Int /\ - a * B - b * A \in Int
  BY <1>1, <1>2
<1> DEFINE c == a * b
           s == - a * B - b * A
<1>9. h \in Int
  BY <1>1, <1>6
<1>10. (p + k * m) \div m = h + k /\ (p + k * m) % m = p % m
  BY <1>1, <1>6, Multiples
<1>11. h + k = (h + s) + c * m /\ h - a * B - b * A = h + s
  BY <1>1, <1>2, <1>8, <1>9
<1> HIDE DEF p, h, k
<1>12. c \in Int /\ h + s \in Int
  BY <1>8, <1>9
<1> HIDE DEF c, s
<1>13. (h + k) % m = (h + s) % m
  BY <1>1, <1>11, <1>12, Multiples
<1>14. (Signed(A) * Signed(B)) % m = p % m
  BY <1>3, <1>7, <1>10
<1>15. UpperHalf(Signed(A) * Signed(B)) = (h + s) % m
  BY <1>3, <1>4, <1>7, <1>10, <1>13
<1>16. UpperHalf(Signed(A) * Signed(B)) = SignedHigh(A, B)
  BY <1>5, <1>11, <1>15
<1> QED BY <1>14, <1>16 DEF m, p

(* The operations that are arithmetic.  The others are bit by bit, or      *)
(* shifts.                                                                 *)
Arithmetic == {3, 4, 5, 6, 7} \cup 12 .. 15

(* For words of every width, sums, differences, both halves of signed and  *)
(* unsigned products and both comparisons are what the bench expects,      *)
(* which computes them without signed numbers.                             *)
THEOREM ArithmeticAsExpected ==
    ASSUME NEW v, v.A \in Word, v.B \in Word, v.op \in Arithmetic
    PROVE  R(v.op, v.A, v.B) = Expected(v)
<1> DEFINE A == v.A
           B == v.B
<1>1. /\ Modulus \in Nat /\ Modulus > 0 /\ Half \in Nat /\ Half > 0 /\ Modulus = 2 * Half
      /\ A \in Nat /\ A < Modulus /\ B \in Nat /\ B < Modulus
  BY Halves DEF Word
<1>2. CASE v.op = 3
  <2>1. R(v.op, A, B) = (A + B) % Modulus BY <1>2 DEF R
  <2>2. Expected(v) = (A + B) % Modulus BY <1>2 DEF Expected
  <2> QED BY <2>1, <2>2
<1>3. CASE v.op = 4
  <2>1. R(v.op, A, B) = (A - B) % Modulus BY <1>3 DEF R
  <2>2. Expected(v) = (A + (Modulus - B)) % Modulus BY <1>3 DEF Expected
  <2>3. A - B \in Int /\ A + (Modulus - B) = (A - B) + 1 * Modulus BY <1>1
  <2>4. ((A - B) + 1 * Modulus) % Modulus = (A - B) % Modulus BY <1>1, <2>3, Multiples
  <2> QED BY <2>1, <2>2, <2>3, <2>4
<1>4. CASE v.op = 5
  <2>1. R(v.op, A, B) = (Signed(A) * Signed(B)) % Modulus BY <1>4 DEF R
  <2>2. Expected(v) = (A * B) % Modulus BY <1>4 DEF Expected
  <2> QED BY <2>1, <2>2, SignedProduct
<1>5. CASE v.op = 6
  <2>1. R(v.op, A, B) = UpperHalf(Signed(A) * Signed(B)) BY <1>5 DEF R
  <2>2. Expected(v) = SignedHigh(A, B) BY <1>5 DEF Expected
  <2> QED BY <2>1, <2>2, SignedProduct
<1>6. CASE v.op = 7
  <2>1. R(v.op, A, B) = UpperHalf(A * B) BY <1>6 DEF R
  <2>2. Expected(v) = (A * B) \div Modulus BY <1>6 DEF Expected
  <2>3. UpperHalf(A * B) = ((A * B) \div Modulus) % Modulus BY DEF UpperHalf
  <2>4. (A * B) \div Modulus \in 0 .. Modulus - 1
    <3> DEFINE p == A * B
               d == p \div Modulus
               e == p % Modulus
    <3>1. p \in Nat
      BY <1>1
    <3>2. p <= A * Modulus
      BY <1>1
    <3> HIDE DEF p
    <3>3. d \in Nat /\ e \in Nat /\ p = d * Modulus + e
      BY <1>1, <3>1
    <3> HIDE DEF d, e
    <3>4. ~ (d >= A + 1)
      <4> SUFFICES ASSUME d >= A + 1 PROVE FALSE
        OBVIOUS
      <4>1. d * Modulus >= (A + 1) * Modulus BY <1>1, <3>3
      <4>2. (A + 1) * Modulus = A * Modulus + Modulus BY <1>1
      <4>3. A * Modulus \in Nat /\ d * Modulus \in Nat BY <1>1, <3>3
      <4> QED BY <1>1, <3>1, <3>2, <3>3, <4>1, <4>2, <4>3
    <3>5. d \in 0 .. Modulus - 1
      BY <1>1, <3>3, <3>4
    <3> QED BY <3>5 DEF d, p
  <2> QED BY <1>1, <2>1, <2>2, <2>3, <2>4
<1>7. CASE v.op = 12
  <2>1. R(v.op, A, B) = Truth(Signed(A) < Signed(B)) BY <1>7 DEF R, SignedLess
  <2>2. Expected(v) = IF SignBit(A) # SignBit(B) THEN SignBit(A) ELSE Truth(A < B)
    BY <1>7 DEF Expected
  <2>3. /\ SignBit(A) = Truth(Half <= A) /\ SignBit(B) = Truth(Half <= B)
        /\ Signed(A) = IF Half <= A THEN A - Modulus ELSE A
        /\ Signed(B) = IF Half <= B THEN B - Modulus ELSE B
    BY SignBitIs
  <2> QED BY <1>1, <2>1, <2>2, <2>3 DEF Truth
<1>8. CASE v.op \in 13 .. 15
  <2>1. R(v.op, A, B) = Truth(A < B) BY <1>8 DEF R
  <2>2. Expected(v) = Truth(A < B) BY <1>8 DEF Expected
  <2> QED BY <2>1, <2>2
<1> QED BY <1>2, <1>3, <1>4, <1>5, <1>6, <1>7, <1>8 DEF Arithmetic

(* The operations of the pipeline's assumption that are not bit by bit     *)
(* return words, at every width.                                           *)
THEOREM ResultsAreWords ==
    ASSUME NEW op \in Arithmetic \cup {8, 9}, NEW A \in Word, NEW B \in Word
    PROVE  R(op, A, B) \in Word
<1>1. Modulus \in Nat /\ Modulus >= 2 /\ A \in Nat /\ A < Modulus /\ B \in Nat
  BY Halves DEF Word
<1>2. \A n \in Int : n % Modulus \in Word
  BY <1>1 DEF Word
<1>3. \A condition : Truth(condition) \in Word
  BY <1>1 DEF Truth, Word
<1>4. Signed(A) \in Int /\ Signed(B) \in Int
  BY <1>1, SignBitIs
<1>5. CASE op = 3
  BY <1>1, <1>2, <1>5 DEF R
<1>6. CASE op = 4
  BY <1>1, <1>2, <1>6 DEF R
<1>7. CASE op = 5
  <2>1. Signed(A) * Signed(B) \in Int BY <1>4
  <2>2. R(op, A, B) = (Signed(A) * Signed(B)) % Modulus BY <1>7 DEF R
  <2> QED BY <1>2, <2>1, <2>2
<1>8. \A n \in Int : UpperHalf(n) \in Word
  BY <1>1, <1>2 DEF UpperHalf
<1>9. CASE op = 6
  <2>1. Signed(A) * Signed(B) \in Int BY <1>4
  <2>2. R(op, A, B) = UpperHalf(Signed(A) * Signed(B)) BY <1>9 DEF R
  <2> QED BY <1>8, <2>1, <2>2
<1>10. CASE op = 7
  <2>1. A * B \in Int BY <1>1
  <2>2. R(op, A, B) = UpperHalf(A * B) BY <1>10 DEF R
  <2> QED BY <1>8, <2>1, <2>2
<1>11. CASE op \in 12 .. 15
  BY <1>3, <1>11 DEF R, SignedLess
<1> DEFINE weight == 2 ^ (B % 2 ^ ShiftBits)
<1>12. weight \in Nat /\ weight > 0
  <2>1. B % 2 ^ ShiftBits \in 0 .. Width - 1 BY <1>1, WidthAssumption
  <2> QED BY <2>1, PowerAssumption
<1>13. op = 8 => R(op, A, B) = (A * weight) % Modulus
  BY DEF R
<1>14. op = 9 => R(op, A, B) = A \div weight
  BY DEF R
<1> HIDE DEF weight
<1>15. CASE op = 8
  <2>1. A * weight \in Int BY <1>1, <1>12
  <2> QED BY <1>2, <1>13, <1>15, <2>1
<1>16. CASE op = 9
  <2> DEFINE d == A \div weight
             e == A % weight
  <2>1. d \in Nat /\ e \in Nat /\ A = d * weight + e
    BY <1>1, <1>12
  <2> HIDE DEF d, e
  <2>2. d * weight >= d
    BY <1>12, <2>1
  <2>3. d * weight \in Nat
    BY <1>12, <2>1
  <2>4. d <= A
    BY <1>1, <2>1, <2>2, <2>3
  <2>5. d \in Word
    BY <1>1, <2>1, <2>4 DEF Word
  <2> QED BY <1>14, <1>16, <2>5 DEF d
<1> QED BY <1>5, <1>6, <1>7, <1>9, <1>10, <1>11, <1>15, <1>16 DEF Arithmetic

-----------------------------------------------------------------------------
VectorOK == vecno \in Nat /\ vector.A \in Word /\ vector.B \in Word

LEMMA VectorsAreWords ==
    ASSUME NEW k \in Nat
    PROVE  Vector(k).A \in Word /\ Vector(k).B \in Word
<1>1. Modulus \in Nat /\ Modulus > 0
  BY Halves
<1>2. k \div Modulus \in Nat
  BY <1>1
<1> QED BY <1>1, <1>2 DEF Vector, Word

LEMMA VectorsStayWords == Spec => []VectorOK
<1>1. Init => VectorOK
  BY VectorsAreWords DEF Init, VectorOK
<1>2. VectorOK /\ [Next]_vars => VectorOK'
  BY VectorsAreWords DEF VectorOK, Next, Posedge, Negedge, vars
<1> QED BY <1>1, <1>2, PTL DEF Spec

(* On every vector of the bench, at every width, the controller can take   *)
(* its branches on what the ALU shows.                                     *)
THEOREM BranchesAreDecidable == Spec => []BranchesDecidable
<1>1. VectorOK => BranchesDecidable
  <2> SUFFICES ASSUME VectorOK PROVE BranchesDecidable
    OBVIOUS
  <2>1. vector.A \in Word /\ vector.B \in Word
    BY DEF VectorOK
  <2> QED BY <2>1, Comparisons DEF BranchesDecidable, zero, Truth
<1> QED BY <1>1, VectorsStayWords, PTL DEF Spec

(* No vector of an arithmetic operation ever counts as an error.           *)
THEOREM ArithmeticNeverFails ==
    Spec => [][vector.op \in Arithmetic => errcount' = errcount]_vars
<1>1. VectorOK /\ [Next]_vars =>
        [vector.op \in Arithmetic => errcount' = errcount]_vars
  <2> SUFFICES ASSUME VectorOK, Next, vector.op \in Arithmetic
               PROVE  errcount' = errcount
    BY DEF vars
  <2>1. R(vector.op, vector.A, vector.B) = Expected(vector)
    BY ArithmeticAsExpected DEF VectorOK
  <2> QED BY <2>1 DEF Next, Posedge, Negedge
<1> QED BY <1>1, VectorsStayWords, PTL DEF Spec
=============================================================================
