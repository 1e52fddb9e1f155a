----------------------------- MODULE SqrtProofs -----------------------------
(***************************************************************************)
(* For words, fractions and steps of every size: on the inputs it was made *)
(* for, the square root program of SqrtProgram.tla finds the root.         *)
(*                                                                         *)
(* The argument is that of every bisection, with two additions.  While the *)
(* guess stays below the first step, the five instructions that square it  *)
(* lose nothing and the square is a positive number, so that the signed    *)
(* comparison decides correctly (SquareFits); and a hit, which compares    *)
(* truncated squares, is close enough because the guess is not small.      *)
(***************************************************************************)
EXTENDS SqrtProgram, TLAPS

Largest == FirstStep * One          \* the fixed point number of the first step

(* The root of n lies no further than d from the guess g. *)
Bracket(g, d) ==
    /\ d <= g => (g - d) * (g - d) <= n * One * One
    /\ n * One * One <= (g + d) * (g + d)

(* Where the guess is when the next step to be made is t2. *)
PlaceInLoop ==
    \/ t1 = 0 /\ t2 = Largest
    \/ t1 = Largest /\ 2 * t2 = Largest
    \/ 2 * t2 <= t1 /\ t1 + 2 * t2 <= Largest

PlaceInHalf ==
    \/ t1 = Largest /\ t2 = Largest
    \/ t2 <= t1 /\ t1 + t2 <= Largest

SearchInv(PowersOfTwo) ==
    /\ sw \in Inputs
    /\ pc \in {"start", "loop", "half", "exit", "digit"}
    /\ pc = "loop" => /\ n \in Inputs
                      /\ t0 = n * One
                      /\ t1 \in Nat
                      /\ t2 \in PowersOfTwo
                      /\ PlaceInLoop
                      /\ Bracket(t1, 2 * t2)
                      /\ n = 0 => t1 = 0
    /\ pc = "half" => /\ n \in Inputs \ {0}
                      /\ t0 = n * One
                      /\ t1 \in Nat
                      /\ t2 \in PowersOfTwo
                      /\ PlaceInHalf
                      /\ Bracket(t1, t2)
    /\ pc = "exit" => t1 \in 0 .. Largest /\ RootWithin(t1, n)

-----------------------------------------------------------------------------
(* How the constants fit together. *)
LEMMA Sizes ==
    /\ One \in Nat /\ One > 0 /\ FirstStep \in Nat /\ FirstStep > 0
    /\ Largest \in Nat /\ Largest > 0
    /\ WordMod \in Nat /\ WordMod > 0
    /\ WordMod = 4 * (FirstStep * FirstStep * One)
    /\ WordMod * One = 4 * (Largest * Largest)
    /\ WordMod \div One = 4 * (FirstStep * FirstStep)
    /\ WordMod \div 2 = 2 * (FirstStep * FirstStep * One)
    /\ FirstStep * FirstStep * One \in Nat
    /\ Largest * Largest = (FirstStep * FirstStep * One) * One
<1> DEFINE Q == FirstStep * FirstStep
           P == Q * One
<1>1. One \in Nat /\ One > 0 /\ FirstStep \in Nat /\ FirstStep > 0
  BY SqrtAssumption
<1>2. Q \in Nat /\ Q > 0 /\ P \in Nat /\ P > 0 /\ Largest \in Nat /\ Largest > 0
  BY <1>1 DEF Largest
<1>3. WordMod = 4 * P
  BY <1>1, <1>2 DEF WordMod
<1>4. Largest * Largest = P * One
  BY <1>1 DEF Largest
<1>5. WordMod * One = 4 * (Largest * Largest)
  BY <1>1, <1>2, <1>3, <1>4
<1>6. WordMod = (4 * Q) * One
  BY <1>1, <1>2, <1>3
<1>7. WordMod \div One = 4 * Q
  <2> HIDE DEF Q
  <2> QED BY <1>1, <1>2, <1>6
<1>8. WordMod \div 2 = 2 * P
  <2> HIDE DEF P
  <2> QED BY <1>2, <1>3
<1> QED BY <1>1, <1>2, <1>3, <1>4, <1>5, <1>7, <1>8

(* Truncating division, by its defining inequalities. *)
LEMMA Division ==
    ASSUME NEW a \in Nat, NEW d \in Nat, d > 0
    PROVE  /\ a \div d \in Nat /\ a % d \in 0 .. d - 1
           /\ a = (a \div d) * d + (a % d)
           /\ (a \div d) * d <= a
           /\ a < (a \div d) * d + d
<1> DEFINE q == a \div d
           r == a % d
<1>1. q \in Nat
  OBVIOUS
<1>2. r \in 0 .. d - 1
  OBVIOUS
<1>3. a = q * d + r
  OBVIOUS
<1> HIDE DEF q, r
<1>4. q * d \in Nat
  BY <1>1
<1>5. q * d <= a /\ a < q * d + d
  BY <1>2, <1>3, <1>4
<1> QED BY <1>1, <1>2, <1>3, <1>5, Zenon DEF q, r

LEMMA Monotone ==
    ASSUME NEW a \in Nat, NEW b \in Nat, a <= b, NEW c \in Nat
    PROVE  a * c \in Nat /\ b * c \in Nat /\ a * c <= b * c
OBVIOUS

LEMMA DivisionUnique ==
    ASSUME NEW a \in Nat, NEW d \in Nat, d > 0, NEW q \in Nat, NEW r \in 0 .. d - 1,
           a = q * d + r
    PROVE  a \div d = q /\ a % d = r
<1> DEFINE q1 == a \div d
           r1 == a % d
<1>1. q1 \in Nat /\ r1 \in 0 .. d - 1 /\ a = q1 * d + r1
  BY Division
<1> HIDE DEF q1, r1
<1>2. CASE q1 < q
  <2>1. q1 + 1 <= q BY <1>1, <1>2
  <2>2. (q1 + 1) * d <= q * d BY <1>1, <2>1
  <2>3. (q1 + 1) * d = q1 * d + d BY <1>1
  <2>4. q1 * d \in Nat /\ q * d \in Nat BY <1>1
  <2> QED BY <1>1, <2>2, <2>3, <2>4
<1>3. CASE q < q1
  <2>1. q + 1 <= q1 BY <1>1, <1>3
  <2>2. (q + 1) * d <= q1 * d BY <1>1, <2>1
  <2>3. (q + 1) * d = q * d + d OBVIOUS
  <2>4. q1 * d \in Nat /\ q * d \in Nat BY <1>1
  <2> QED BY <1>1, <2>2, <2>3, <2>4
<1>4. CASE q1 = q
  <2>1. q * d \in Nat OBVIOUS
  <2>2. q1 * d = q * d BY <1>4
  <2>3. r1 = r BY <1>1, <2>1, <2>2
  <2> QED BY <1>4, <2>3 DEF q1, r1
<1> QED BY <1>1, <1>2, <1>3, <1>4

(* The five instructions of a fixed point product lose nothing but the     *)
(* truncated bits, as long as the product fits into a word.                *)
LEMMA FixedMulExact ==
    ASSUME NEW a \in Nat, NEW b \in Nat, a * b < WordMod * One
    PROVE  FixedMul(a, b) = (a * b) \div One
<1> DEFINE s == a * b
           M == WordMod
           T == M \div One
           h == s \div M
           l == s % M
<1>1. /\ One \in Nat /\ One > 0 /\ M \in Nat /\ M > 0
      /\ T \in Nat /\ M = T * One
  BY Sizes
<1>2. s \in Nat /\ s < M * One
  OBVIOUS
<1>3. FixedMul(a, b) = (l \div One) + ((h * T) % M)
  BY DEF FixedMul, mul, mulhu
<1> HIDE DEF s, M, T
<1>4. h \in Nat /\ l \in 0 .. M - 1 /\ s = h * M + l
  BY <1>1, <1>2, Division
<1>5. h < One
  <2>1. SUFFICES ASSUME One <= h PROVE FALSE
    BY <1>1, <1>4
  <2>2. One * M <= h * M BY <1>1, <1>4, <2>1, Monotone
  <2>3. One * M = M * One BY <1>1
  <2>4. M * One \in Nat /\ h * M \in Nat BY <1>1, <1>4
  <2> QED BY <1>1, <1>2, <1>4, <2>2, <2>3, <2>4
<1> HIDE DEF h, l
<1>6. (h * T) % M = h * T
  <2>1. h * T \in Nat BY <1>1, <1>4
  <2>2. T > 0 BY <1>1
  <2>3. h * T < One * T BY <1>1, <1>4, <1>5, <2>2
  <2>4. One * T = M BY <1>1
  <2> QED BY <1>1, <2>1, <2>3, <2>4
<1>7. /\ l \div One \in Nat /\ l % One \in 0 .. One - 1
      /\ l = (l \div One) * One + (l % One)
  <2>1. l \in Nat BY <1>1, <1>4
  <2> QED BY <1>1, <2>1, Division
<1>8. s \div One = (l \div One) + h * T
  <2> DEFINE q == l \div One
             r == l % One
  <2>1. q \in Nat /\ r \in 0 .. One - 1 /\ l = q * One + r BY <1>7 DEF q, r
  <2> HIDE DEF q, r
  <2>2. h * T \in Nat /\ h * M = (h * T) * One BY <1>1, <1>4
  <2>3. s = (q + h * T) * One + r BY <1>1, <1>4, <2>1, <2>2
  <2>4. q + h * T \in Nat BY <2>1, <2>2
  <2>5. s \div One = q + h * T
    BY <1>1, <1>2, <2>1, <2>3, <2>4, DivisionUnique
  <2> QED BY <2>5 DEF q
<1> QED BY <1>3, <1>6, <1>8 DEF s

LEMMA QuotientFits ==
    ASSUME NEW a \in Nat, NEW d \in Nat, d > 0, NEW c \in Nat, a <= c * d
    PROVE  a \div d \in Nat /\ a \div d <= c
<1> DEFINE q == a \div d
<1>1. q \in Nat /\ q * d <= a
  BY Division
<1> HIDE DEF q
<1>2. SUFFICES ASSUME c < q PROVE FALSE
  BY <1>1 DEF q
<1>3. (c + 1) * d <= q * d
  <2>1. c + 1 \in Nat /\ c + 1 <= q BY <1>1, <1>2
  <2> QED BY <1>1, <2>1, Monotone
<1>4. (c + 1) * d = c * d + d /\ c * d \in Nat /\ q * d \in Nat
  BY <1>1
<1> QED BY <1>1, <1>3, <1>4

(* Up to the first step squaring is exact, apart from the truncation, and  *)
(* its result has a clear sign bit.                                        *)
LEMMA SquareFits ==
    ASSUME NEW g \in Nat, g <= Largest
    PROVE  /\ FixedMul(g, g) = (g * g) \div One
           /\ (g * g) \div One \in Nat
           /\ (g * g) \div One <= FirstStep * FirstStep * One
           /\ Signed(FixedMul(g, g)) = FixedMul(g, g)
<1> DEFINE s == g * g
           M == WordMod
           P == FirstStep * FirstStep * One
<1>1. /\ One \in Nat /\ One > 0 /\ M \in Nat /\ M > 0 /\ P \in Nat
      /\ M = 4 * P /\ M \div 2 = 2 * P
      /\ Largest \in Nat /\ Largest * Largest = P * One
  BY Sizes
<1>2. s \in Nat /\ s <= P * One
  <2>1. g * g <= g * Largest BY <1>1
  <2>2. g * Largest <= Largest * Largest BY <1>1
  <2> QED BY <1>1, <2>1, <2>2
<1>3. s \div One \in Nat /\ s \div One <= P
  <2> HIDE DEF s, P
  <2> QED BY <1>1, <1>2, QuotientFits
<1>4. FixedMul(g, g) = s \div One
  <2>1. M * One = 4 * (P * One) /\ P * One \in Nat /\ M * One > 0
    BY <1>1
  <2> HIDE DEF M, P
  <2>2. s < M * One BY <1>2, <2>1
  <2> QED BY <2>2, FixedMulExact DEF M
<1>5. Signed(FixedMul(g, g)) = FixedMul(g, g)
  <2> HIDE DEF M, P, s
  <2>1. ~ (s \div One >= M \div 2)
    <3>1. P > 0 BY <1>1
    <3> QED BY <1>1, <1>3, <3>1
  <2> QED BY <1>4, <2>1 DEF Signed, M
<1> QED BY <1>3, <1>4, <1>5

-----------------------------------------------------------------------------
(* A truncated square that is larger than n tells that the guess is above  *)
(* the root, one that is smaller that it is below, and one that is equal   *)
(* that the two are less than one unit of the square apart.                *)
LEMMA Comparison ==
    ASSUME NEW g \in Nat, NEW m \in Nat
    PROVE  /\ m * One < (g * g) \div One => m * One * One <= g * g
           /\ (g * g) \div One < m * One => g * g <= m * One * One
           /\ m * One = (g * g) \div One => /\ m * One * One <= g * g
                                            /\ g * g < m * One * One + One
<1> DEFINE s == g * g
           q == s \div One
           k == m * One
<1>1. One \in Nat /\ One > 0
  BY Sizes
<1>2. s \in Nat /\ k \in Nat
  BY <1>1
<1> HIDE DEF s, k
<1>3. q \in Nat /\ q * One <= s /\ s < q * One + One
  BY <1>1, <1>2, Division
<1> HIDE DEF q
<1>4. q * One \in Nat /\ k * One \in Nat
  BY <1>1, <1>2, <1>3
<1>5. ASSUME k < q PROVE k * One <= s
  <2>1. k * One <= q * One BY <1>1, <1>2, <1>3, <1>5, Monotone
  <2> QED BY <1>2, <1>3, <1>4, <2>1
<1>6. ASSUME q < k PROVE s <= k * One
  <2>1. (q + 1) * One <= k * One BY <1>1, <1>2, <1>3, <1>6, Monotone
  <2>2. (q + 1) * One = q * One + One BY <1>1, <1>3
  <2> QED BY <1>1, <1>2, <1>3, <1>4, <2>1, <2>2
<1>7. ASSUME k = q PROVE k * One <= s /\ s < k * One + One
  BY <1>3, <1>7
<1> QED BY <1>5, <1>6, <1>7 DEF s, q, k

(* A hit leaves the guess next to the root. *)
LEMMA HitIsAccurate ==
    ASSUME NEW g \in Nat, NEW m \in Nat, m = 0 => g = 0,
           m * One * One <= g * g, g * g < m * One * One + One
    PROVE  RootWithin(g, m)
<1> DEFINE N == m * One * One
<1>1. One \in Nat /\ One > 0 /\ N \in Nat
  BY Sizes
<1>2. N <= (g + 1) * (g + 1)
  <2>1. (g + 1) * (g + 1) = g * g + 2 * g + 1 OBVIOUS
  <2>2. g * g \in Nat OBVIOUS
  <2> HIDE DEF N
  <2>3. N <= g * g BY DEF N
  <2> QED BY <1>1, <2>1, <2>2, <2>3
<1>3. CASE g = 0
  BY <1>2, <1>3 DEF RootWithin
<1>4. CASE g # 0
  <2>1. m >= 1 BY <1>4
  <2>2. One <= g
    <3>1. One * One <= N
      <4>1. 1 * (One * One) <= m * (One * One)
        <5>1. One * One \in Nat BY <1>1
        <5> QED BY <2>1, <5>1, Monotone
      <4>2. m * (One * One) = N BY <1>1
      <4>3. 1 * (One * One) = One * One BY <1>1
      <4> QED BY <4>1, <4>2, <4>3
    <3>2. SUFFICES ASSUME g < One PROVE FALSE
      BY <1>1
    <3>3. g * g <= One * g BY <1>1, <3>2, Monotone
    <3>4. One * g < One * One BY <1>1, <3>2
    <3>5. g * g \in Nat /\ One * g \in Nat /\ One * One \in Nat BY <1>1
    <3>6. N <= g * g OBVIOUS
    <3> HIDE DEF N
    <3> QED BY <1>1, <3>1, <3>3, <3>4, <3>5, <3>6
  <2>3. (g - 1) * (g - 1) = g * g - 2 * g + 1 OBVIOUS
  <2>4. g * g < N + One /\ g * g \in Nat OBVIOUS
  <2> HIDE DEF N
  <2>5. (g - 1) * (g - 1) <= N BY <1>1, <2>2, <2>3, <2>4
  <2> QED BY <1>2, <2>5 DEF RootWithin, N
<1> QED BY <1>3, <1>4

-----------------------------------------------------------------------------
(* The move that a miss leads to, from each place the guess can be in.     *)
LEMMA MoveKeepsBracket ==
    ASSUME t1 \in Nat, t2 \in Nat, t2 > 0, n \in Nat, t0 = n * One,
           n <= FirstStep * FirstStep,
           PlaceInLoop, Bracket(t1, 2 * t2), n = 0 => t1 = 0, Move
    PROVE  /\ n # 0
           /\ t1' \in Nat
           /\ PlaceInHalf'
           /\ Bracket(t1', t2)
<1> DEFINE s == t1 * t1
           N == n * One * One
           P == FirstStep * FirstStep * One
           L == Largest
<1>1. /\ One \in Nat /\ One > 0 /\ L \in Nat /\ L > 0 /\ P \in Nat
      /\ WordMod = 4 * P /\ WordMod \div 2 = 2 * P /\ L * L = P * One
  BY Sizes
<1>2. t1 <= L
  BY <1>1 DEF PlaceInLoop
<1>3. /\ FixedMul(t1, t1) = s \div One
      /\ s \div One \in Nat /\ s \div One <= P
      /\ Signed(FixedMul(t1, t1)) = s \div One
  BY <1>2, SquareFits
<1>4. t0 \in Nat /\ t0 <= P /\ Signed(t0) = t0
  <2>1. t0 \in Nat /\ t0 <= P
    <3>1. FirstStep * FirstStep \in Nat BY Sizes
    <3> QED BY <1>1, <3>1, Monotone
  <2>2. P > 0
    <3>1. P # 0
      <4>1. L * L > 0 BY <1>1
      <4>2. 0 * One = 0 BY <1>1
      <4> QED BY <1>1, <4>1, <4>2
    <3> QED BY <1>1, <3>1
  <2> HIDE DEF P
  <2> QED BY <1>1, <2>1, <2>2 DEF Signed
<1>5. N \in Nat /\ N <= L * L
  <2>1. n * One <= P BY <1>4
  <2>2. n * One * One <= P * One BY <1>1, <1>4, <2>1, Monotone
  <2> QED BY <1>1, <2>2
<1>6. /\ t0 # s \div One
      /\ t1' = IF t0 < s \div One THEN (t1 - t2) % WordMod ELSE (t1 + t2) % WordMod
      /\ t2' = t2
  BY <1>3, <1>4 DEF Move, Found
<1>7. /\ t0 < s \div One => N <= s
      /\ s \div One < t0 => s <= N
  BY Comparison
<1>8. 2 * L < WordMod
  <2>1. L <= P
    <3>1. 1 * (FirstStep * One) <= FirstStep * (FirstStep * One)
      BY Sizes, Monotone
    <3> QED BY Sizes, <3>1 DEF Largest
  <2>2. L > 0 BY <1>1
  <2> HIDE DEF P, L
  <2> QED BY <1>1, <2>1, <2>2
<1>9. n # 0
  <2>1. SUFFICES ASSUME n = 0 PROVE FALSE
    OBVIOUS
  <2>2. t1 = 0 /\ t0 = 0 BY <1>1, <2>1
  <2>3. s \div One = 0 BY <1>1, <2>2
  <2> QED BY <1>6, <2>2, <2>3
<1> HIDE DEF P, N, s, L
<1>10. CASE t1 = 0 /\ t2 = L
  <2>1. s \div One = 0 BY <1>1, <1>10 DEF s
  <2>2. t1' = L BY <1>1, <1>4, <1>6, <1>8, <1>10, <2>1
  <2>3. PlaceInHalf' BY <1>6, <1>10, <2>2 DEF PlaceInHalf, L
  <2>4. Bracket(L, L)
    <3>1. (L - L) * (L - L) = 0 BY <1>1
    <3>2. (L + L) * (L + L) = 4 * (L * L) BY <1>1
    <3>3. L * L \in Nat BY <1>1
    <3> QED BY <1>5, <3>1, <3>2, <3>3 DEF Bracket, N
  <2> QED BY <1>1, <1>9, <1>10, <2>2, <2>3, <2>4
<1>11. CASE t1 = L /\ 2 * t2 = L
  <2>1. s = P * One BY <1>1, <1>11 DEF s
  <2>2. s \div One = P BY <1>1, <2>1
  <2>3. t1' = t2 BY <1>1, <1>4, <1>6, <1>8, <1>11, <2>2
  <2>4. PlaceInHalf' BY <1>6, <1>11, <2>3 DEF PlaceInHalf, L
  <2>5. Bracket(t2, t2)
    <3>1. (t2 - t2) * (t2 - t2) = 0 OBVIOUS
    <3>2. t2 + t2 = L BY <1>11
    <3> QED BY <1>5, <3>1, <3>2 DEF Bracket, N
  <2> QED BY <1>9, <2>3, <2>4, <2>5
<1>12. CASE 2 * t2 <= t1 /\ t1 + 2 * t2 <= L
  <2>1. /\ (t1 - 2 * t2) * (t1 - 2 * t2) <= N
        /\ N <= (t1 + 2 * t2) * (t1 + 2 * t2)
    BY <1>12 DEF Bracket, N
  <2>2. CASE t0 < s \div One
    <3>1. t1' = t1 - t2 BY <1>1, <1>6, <1>8, <1>12, <2>2
    <3>2. PlaceInHalf' BY <1>1, <1>6, <1>12, <3>1 DEF PlaceInHalf, L
    <3>3. (t1 - t2) - t2 = t1 - 2 * t2 /\ (t1 - t2) + t2 = t1 OBVIOUS
    <3>4. Bracket(t1 - t2, t2) BY <1>7, <2>1, <2>2, <3>3 DEF Bracket, N, s
    <3> QED BY <1>9, <1>12, <3>1, <3>2, <3>4
  <2>3. CASE s \div One < t0
    <3>1. t1' = t1 + t2 BY <1>1, <1>3, <1>4, <1>6, <1>8, <1>12, <2>3
    <3>2. PlaceInHalf' BY <1>1, <1>6, <1>12, <3>1 DEF PlaceInHalf, L
    <3>3. (t1 + t2) - t2 = t1 /\ (t1 + t2) + t2 = t1 + 2 * t2 OBVIOUS
    <3>4. Bracket(t1 + t2, t2) BY <1>7, <2>1, <2>3, <3>3 DEF Bracket, N, s
    <3> QED BY <1>9, <3>1, <3>2, <3>4
  <2> QED BY <1>3, <1>4, <1>6, <2>2, <2>3
<1> QED BY <1>10, <1>11, <1>12 DEF PlaceInLoop, L

-----------------------------------------------------------------------------
(* The steps are halved evenly until there is nothing left of them.        *)
ClosedUnderHalving(PowersOfTwo) ==
    /\ PowersOfTwo \subseteq Nat \ {0}
    /\ Largest \in PowersOfTwo
    /\ \A p \in PowersOfTwo : p = 1 \/ \E q \in PowersOfTwo : p = 2 * q

LEMMA InputFits ==
    ASSUME NEW m \in Nat, m <= FirstStep * FirstStep
    PROVE  /\ m * One \in Nat /\ m * One <= FirstStep * FirstStep * One
           /\ m * One * One \in Nat
           /\ m * One * One <= (FirstStep * FirstStep * One) * One
<1>1. FirstStep * FirstStep \in Nat /\ One \in Nat
  BY Sizes
<1>2. m * One \in Nat /\ m * One <= FirstStep * FirstStep * One
  BY <1>1, Monotone
<1>3. FirstStep * FirstStep * One \in Nat
  BY Sizes
<1> QED BY <1>1, <1>2, <1>3, Monotone

(* The invariant of the search.  (SearchAccurate alone is not inductive:   *)
(* it says nothing about the guess before the loop is left.)               *)
LEMMA SearchInvInductive ==
    ASSUME NEW PowersOfTwo, ClosedUnderHalving(PowersOfTwo),
           Inputs \subseteq 0 .. FirstStep * FirstStep
    PROVE  Spec => []SearchInv(PowersOfTwo)
<1> DEFINE Inv == SearchInv(PowersOfTwo)
<1>1. Init => Inv
  BY DEF Init, SearchInv
<1>2. Inv /\ [Next]_vars => Inv'
  <2> SUFFICES ASSUME Inv, [Next]_vars PROVE Inv'
    OBVIOUS
  <2>1. \A m \in Inputs : m \in Nat /\ m <= FirstStep * FirstStep
    BY Sizes
  <2>2. CASE Start
    <3>1. n' \in Inputs /\ t1' = 0 /\ t2' = Largest /\ sw' = sw /\ pc' = "loop"
      BY <2>2 DEF Start, SearchInv, Largest
    <3>2. t0' = n' * One
      <4>1. n' * One \in Nat /\ n' * One <= FirstStep * FirstStep * One
        BY <2>1, <3>1, InputFits
      <4>2. n' * One < WordMod BY <4>1, Sizes
      <4>3. (n' * One) % WordMod = n' * One BY <4>1, <4>2, Sizes
      <4> QED BY <2>2, <4>3 DEF Start
    <3>3. Bracket(t1, 2 * t2)'
      <4> DEFINE N == n' * One * One
      <4>1. N \in Nat /\ N <= (FirstStep * FirstStep * One) * One
        BY <2>1, <3>1, InputFits
      <4>2. N <= Largest * Largest BY <4>1, Sizes
      <4> HIDE DEF N
      <4>3. (0 + 2 * Largest) * (0 + 2 * Largest) = 4 * (Largest * Largest) BY Sizes
      <4>4. N <= (0 + 2 * Largest) * (0 + 2 * Largest) BY <4>1, <4>2, <4>3, Sizes
      <4>5. ~ (2 * Largest <= 0) BY Sizes
      <4> QED BY <3>1, <4>4, <4>5 DEF Bracket, N
    <3>4. PlaceInLoop' BY <3>1 DEF PlaceInLoop, Largest
    <3>5. Largest \in PowersOfTwo BY DEF ClosedUnderHalving
    <3>6. sw' \in Inputs BY <3>1 DEF SearchInv
    <3> QED BY <3>1, <3>2, <3>3, <3>4, <3>5, <3>6 DEF SearchInv
  <2>3. CASE Exact
    <3>1. /\ n \in Nat /\ t1 \in Nat /\ t1 <= Largest /\ t0 = n * One
          /\ n = 0 => t1 = 0
      <4>1. pc = "loop" BY <2>3 DEF Exact
      <4>2. t2 \in Nat BY <4>1 DEF SearchInv, ClosedUnderHalving
      <4>3. t1 \in Nat /\ PlaceInLoop BY <4>1 DEF SearchInv
      <4>4. t1 <= Largest BY <4>2, <4>3, Sizes DEF PlaceInLoop
      <4> QED BY <2>1, <4>1, <4>4 DEF SearchInv
    <3>2. n * One = (t1 * t1) \div One
      BY <2>3, <3>1, SquareFits DEF Exact, Found
    <3>3. RootWithin(t1, n) BY <3>1, <3>2, Comparison, HitIsAccurate
    <3>4. RootWithin(t1, n)' /\ t1' \in 0 .. Largest
      BY <2>3, <3>1, <3>3, Sizes DEF Exact, RootWithin
    <3> QED BY <2>3, <3>4 DEF Exact, SearchInv
  <2>4. CASE Move
    <3>1. /\ n \in Inputs /\ n \in Nat /\ n <= FirstStep * FirstStep
          /\ t1 \in Nat /\ t2 \in PowersOfTwo /\ t0 = n * One
          /\ PlaceInLoop /\ Bracket(t1, 2 * t2) /\ (n = 0 => t1 = 0)
      BY <2>1, <2>4 DEF Move, SearchInv
    <3>2. t2 \in Nat /\ t2 > 0 BY <3>1 DEF ClosedUnderHalving
    <3>3. n # 0 /\ t1' \in Nat /\ PlaceInHalf' /\ Bracket(t1', t2)
      BY <2>4, <3>1, <3>2, MoveKeepsBracket
    <3>4. Bracket(t1, t2)' BY <2>4, <3>3 DEF Move, Bracket
    <3> QED BY <2>4, <3>1, <3>3, <3>4 DEF Move, SearchInv
  <2>5. CASE Halve
    <3>1. /\ n \in Inputs \ {0} /\ n \in Nat /\ t1 \in Nat /\ t2 \in PowersOfTwo
          /\ t0 = n * One /\ PlaceInHalf /\ Bracket(t1, t2)
      BY <2>1, <2>5 DEF Halve, SearchInv
    <3>2. CASE t2 = 1
      <4>1. pc' = "exit" /\ sw' = sw BY <2>5, <3>2 DEF Halve
      <4>2. RootWithin(t1, n) BY <3>1, <3>2 DEF Bracket, RootWithin
      <4>3. RootWithin(t1, n)' BY <2>5, <4>2 DEF Halve, RootWithin
      <4>4. t1' \in 0 .. Largest
        <5>1. t1' = t1 BY <2>5 DEF Halve
        <5> QED BY <3>1, <3>2, <5>1, Sizes DEF PlaceInHalf
      <4> QED BY <4>1, <4>3, <4>4 DEF SearchInv
    <3>3. ASSUME NEW q \in PowersOfTwo, t2 = 2 * q PROVE Inv'
      <4>1. q \in Nat /\ q > 0 BY DEF ClosedUnderHalving
      <4>2. t2' = q /\ pc' = "loop" BY <2>5, <3>3, <4>1 DEF Halve
      <4>3. n' = n /\ t0' = t0 /\ t1' = t1 /\ sw' = sw BY <2>5 DEF Halve
      <4>4. PlaceInLoop' BY <3>1, <3>3, <4>2, <4>3 DEF PlaceInHalf, PlaceInLoop
      <4>5. Bracket(t1, 2 * t2)' BY <3>1, <3>3, <4>2, <4>3 DEF Bracket
      <4> QED BY <3>1, <3>3, <4>2, <4>3, <4>4, <4>5 DEF SearchInv
    <3> QED BY <3>1, <3>2, <3>3 DEF ClosedUnderHalving
  <2>6. CASE Exit
    BY <2>6 DEF Exit, SearchInv
  <2>7. CASE Convert
    BY <2>7 DEF Convert, SearchInv
  <2>8. CASE Show
    BY <2>8 DEF Show, SearchInv
  <2>9. CASE MoveSwitches
    BY <2>9 DEF MoveSwitches, SearchInv, PlaceInLoop, PlaceInHalf, Bracket, RootWithin
  <2>10. CASE UNCHANGED vars
    BY <2>10 DEF vars, SearchInv, PlaceInLoop, PlaceInHalf, Bracket, RootWithin
  <2> QED
    BY <2>2, <2>3, <2>4, <2>5, <2>6, <2>7, <2>8, <2>9, <2>10 DEF Next, Program
<1> QED BY <1>1, <1>2, PTL DEF Spec

(* For words of every size: whenever the search is left, its guess is the  *)
(* root of the number on the switches, to one unit in the last place, if   *)
(* that number was no larger than the square of the first step (65536 of   *)
(* the 262143 in the code) and steps are halved evenly.                    *)
THEOREM SearchIsAccurate ==
    ASSUME NEW PowersOfTwo, ClosedUnderHalving(PowersOfTwo),
           Inputs \subseteq 0 .. FirstStep * FirstStep
    PROVE  Spec => []SearchAccurate
<1>1. SearchInv(PowersOfTwo) => SearchAccurate
  BY DEF SearchInv, SearchAccurate
<1> QED BY <1>1, SearchInvInductive, PTL

-----------------------------------------------------------------------------
(* One step of the conversion is a division by ten with remainder, for     *)
(* every word x that is small enough for the rounding of the constant 1/10 *)
(* not to show: 10 * 429496730 exceeds 2^32 by 4, so x < 2^30.             *)
THEOREM DigitStepDivides ==
    ASSUME NEW x \in Nat, NEW excess \in Nat,
           10 * Tenth = WordMod + excess,
           x * excess < WordMod,
           x < WordMod \div 2, Tenth < WordMod \div 2
    PROVE  /\ mulh(x, Tenth) = x \div 10
           /\ mulhu(mul(x, Tenth), 10) = x % 10
<1> DEFINE M == WordMod
           p == x * Tenth
           q == x \div 10
           r == x % 10
           f == p - q * M
<1>1. M \in Nat /\ M > 0 /\ Tenth \in Nat
  BY Sizes, SqrtAssumption
<1>2. q \in Nat /\ r \in 0 .. 9 /\ x = 10 * q + r
  OBVIOUS
<1>3. 10 * p = x * M + x * excess
  <2>1. 10 * p = x * (10 * Tenth) BY <1>1
  <2>2. x * (M + excess) = x * M + x * excess BY <1>1
  <2> QED BY <2>1, <2>2
<1> HIDE DEF M, p, q, r
<1>4. x * M = 10 * (q * M) + r * M
  BY <1>1, <1>2
<1>5. p \in Nat /\ q * M \in Nat /\ x * excess \in Nat /\ x * excess < M
  BY <1>1, <1>2 DEF p, M
<1>6. r * M \in Nat /\ r * M <= 9 * M
  BY <1>1, <1>2, Monotone
<1>7. f \in 0 .. M - 1 /\ p = q * M + f /\ 10 * f = r * M + x * excess
  <2>1. f \in Int /\ p = q * M + f BY <1>5
  <2> HIDE DEF f
  <2>2. 10 * p = 10 * (q * M) + 10 * f BY <1>5, <2>1
  <2>3. 10 * f = r * M + x * excess
    <3> DEFINE a == q * M
               b == r * M
               c == x * excess
               d == x * M
    <3>1. a \in Nat /\ b \in Nat /\ c \in Nat BY <1>5, <1>6
    <3>2. 10 * p = d + c /\ d = 10 * a + b /\ 10 * p = 10 * a + 10 * f
      BY <1>3, <1>4, <2>2
    <3> HIDE DEF a, b, c, d
    <3>3. 10 * f = b + c BY <2>1, <3>1, <3>2
    <3> QED BY <3>3 DEF b, c
  <2>4. f \in 0 .. M - 1 BY <1>1, <1>5, <1>6, <2>1, <2>3
  <2> QED BY <2>1, <2>3, <2>4
<1> HIDE DEF f
<1>8. p \div M = q /\ p % M = f
  BY <1>1, <1>2, <1>5, <1>7, DivisionUnique
<1>9. (f * 10) \div M = r
  <2>1. f * 10 = r * M + x * excess /\ f * 10 \in Nat BY <1>1, <1>7
  <2>2. x * excess \in 0 .. M - 1 BY <1>1, <1>5
  <2>3. r \in Nat BY <1>2
  <2> QED BY <1>1, <2>1, <2>2, <2>3, DivisionUnique
<1>10. Signed(x) = x /\ Signed(Tenth) = Tenth
  <2>1. M \div 2 \in Nat BY Sizes DEF M
  <2> QED BY <1>1, <2>1 DEF Signed, M
<1>11. q % M = q
  <2>1. q <= x BY <1>2
  <2>2. x < M BY Sizes DEF M
  <2> QED BY <1>1, <1>2, <2>1, <2>2
<1>12. mulh(x, Tenth) = q
  BY <1>8, <1>10, <1>11 DEF mulh, p, M
<1>13. mulhu(mul(x, Tenth), 10) = r
  BY <1>8, <1>9 DEF mulhu, mul, p, M
<1> QED BY <1>12, <1>13 DEF q, r

-----------------------------------------------------------------------------
(* Dividing twice is dividing by the product.                              *)
LEMMA DivideTwice ==
    ASSUME NEW x \in Nat, NEW a \in Nat, a > 0, NEW b \in Nat, b > 0
    PROVE  (x \div a) \div b = x \div (b * a)
<1> DEFINE q == x \div a
           r == x % a
           u == q \div b
           v == q % b
<1>1. q \in Nat /\ r \in 0 .. a - 1 /\ x = q * a + r
  BY Division
<1> HIDE DEF q, r
<1>2. u \in Nat /\ v \in 0 .. b - 1 /\ q = u * b + v
  BY <1>1, Division
<1> HIDE DEF u, v
<1>3. x = u * (b * a) + (v * a + r)
  <2>1. q * a = (u * b) * a + v * a BY <1>2
  <2>2. (u * b) * a = u * (b * a) BY <1>2
  <2>3. u * (b * a) \in Nat /\ v * a \in Nat BY <1>2
  <2> QED BY <1>1, <2>1, <2>2, <2>3
<1>4. v * a + r \in 0 .. b * a - 1
  <2>1. v * a \in Nat /\ v * a <= (b - 1) * a BY <1>2, Monotone
  <2>2. (b - 1) * a = b * a - a /\ b * a \in Nat OBVIOUS
  <2> QED BY <1>1, <2>1, <2>2
<1>5. b * a \in Nat /\ b * a > 0
  OBVIOUS
<1>6. x \div (b * a) = u
  <2> DEFINE c == b * a
             e == v * a + r
  <2>1. c \in Nat /\ c > 0 /\ e \in 0 .. c - 1 /\ x = u * c + e
    BY <1>3, <1>4, <1>5
  <2> HIDE DEF c, e
  <2>2. x \div c = u BY <1>2, <2>1, DivisionUnique
  <2> QED BY <2>2 DEF c
<1> QED BY <1>6 DEF u, q

(* A digit appended below the others pushes them up by one place.          *)
LEMMA AppendDigit ==
    ASSUME NEW t \in Nat, NEW d \in 0 .. 15, NEW p \in Nat, p > 0
    PROVE  /\ (t * 16 + d) \div (16 * p) = t \div p
           /\ (t * 16 + d) % 16 = d
<1> DEFINE w == t * 16 + d
<1>1. w \in Nat /\ w \div 16 = t /\ w % 16 = d
  OBVIOUS
<1> HIDE DEF w
<1>2. (w \div 16) \div p = w \div (p * 16)
  BY <1>1, DivideTwice
<1>3. p * 16 = 16 * p
  OBVIOUS
<1> QED BY <1>1, <1>2, <1>3 DEF w

LEMMA Powers ==
    ASSUME NEW b \in {10, 16}
    PROVE  /\ b ^ 0 = 1
           /\ \A k \in 0 .. Digits : /\ b ^ k \in Nat /\ b ^ k > 0
                                     /\ b ^ (k + 1) = b * b ^ k
<1> DEFINE Power(c) == /\ c ^ 0 = 1
                       /\ \A k \in 0 .. Digits : /\ c ^ k \in Nat \ {0}
                                                 /\ c ^ (k + 1) = c * c ^ k
<1>1. Power(b)
  BY RadixAssumption
<1>2. \A k \in 0 .. Digits : b ^ k \in Nat /\ b ^ k > 0
  BY <1>1
<1> QED BY <1>1, <1>2

(* The number the digits are made of is no larger than the first step with *)
(* all its decimals.                                                       *)
LEMMA ResultFits ==
    ASSUME NEW g \in 0 .. Largest, FirstStep * Scale < WordMod \div 2
    PROVE  /\ FixedMul(g, Scale) \in Nat
           /\ FixedMul(g, Scale) <= FirstStep * Scale
<1> DEFINE c == FirstStep * Scale
<1>1. /\ One \in Nat /\ One > 0 /\ FirstStep \in Nat /\ WordMod \in Nat /\ Scale \in Nat
      /\ Largest \in Nat /\ c \in Nat
  BY Sizes, SqrtAssumption
<1>2. g * Scale \in Nat /\ g * Scale <= c * One
  <2>1. g * Scale \in Nat /\ g * Scale <= Largest * Scale BY <1>1, Monotone
  <2>2. Largest * Scale = c * One BY <1>1 DEF Largest
  <2> QED BY <2>1, <2>2
<1> HIDE DEF c
<1>3. g * Scale < WordMod * One
  <2>1. c < WordMod BY <1>1 DEF c
  <2>2. c * One \in Nat /\ WordMod * One \in Nat /\ c * One < WordMod * One
    <3>1. (c + 1) * One <= WordMod * One BY <1>1, <2>1, Monotone
    <3>2. (c + 1) * One = c * One + One BY <1>1
    <3>3. c * One \in Nat /\ WordMod * One \in Nat BY <1>1
    <3> QED BY <1>1, <3>1, <3>2, <3>3
  <2> QED BY <1>2, <2>2
<1>4. (g * Scale) \div One \in Nat /\ (g * Scale) \div One <= c
  <2> DEFINE x == g * Scale
  <2>1. x \in Nat /\ x <= c * One BY <1>2
  <2> HIDE DEF x
  <2>2. x \div One \in Nat /\ x \div One <= c BY <1>1, <2>1, QuotientFits
  <2> QED BY <2>2 DEF x
<1>5. FixedMul(g, Scale) = (g * Scale) \div One
  BY <1>1, <1>3, FixedMulExact
<1> QED BY <1>4, <1>5 DEF c

(* The invariant of the conversion: DigitsExact, that the digits take up   *)
(* no more than their places, and that the number has not outgrown what    *)
(* one step can divide.                                                    *)
ConversionInv ==
    pc = "digit" => /\ digit \in 0 .. Digits
                    /\ s0 \in Nat /\ s0 <= FirstStep * Scale
                    /\ t0 \in Nat /\ t0 < 16 ^ digit
                    /\ DigitsExact

(* What is left to convert, wherever it is read from.                      *)
LEMMA RestToConvert ==
    ASSUME ConversionInv, pc = "digit"
    PROVE  (IF digit = 0 THEN s0 ELSE t1) = s0 \div 10 ^ digit
<1>1. digit \in Nat /\ s0 \in Nat
  BY SqrtAssumption DEF ConversionInv
<1>2. CASE digit = 0
  <2>1. 10 ^ 0 = 1 BY Powers
  <2>2. s0 \div 1 = s0 BY <1>1
  <2> QED BY <1>2, <2>1, <2>2
<1>3. CASE digit # 0
  BY <1>1, <1>3 DEF ConversionInv, DigitsExact
<1> QED BY <1>2, <1>3

LEMMA ConvertKeepsDigits ==
    ASSUME NEW excess \in Nat, 10 * Tenth = WordMod + excess,
           FirstStep * Scale * excess < WordMod,
           FirstStep * Scale < WordMod \div 2, Tenth < WordMod \div 2,
           ConversionInv, Convert
    PROVE  ConversionInv'
<1> DEFINE x == s0 \div 10 ^ digit
           p == 10 ^ digit
           h == 16 ^ digit
<1>1. /\ pc = "digit" /\ pc' = "digit" /\ digit \in 0 .. Digits - 1
      /\ digit' = digit + 1 /\ s0' = s0
      /\ s0 \in Nat /\ s0 <= FirstStep * Scale /\ t0 \in Nat /\ t0 < h
  BY SqrtAssumption DEF Convert, ConversionInv
<1>2. /\ p \in Nat /\ p > 0 /\ 10 ^ digit' = 10 * p
      /\ h \in Nat /\ h > 0 /\ 16 ^ digit' = 16 * h
  BY <1>1, Powers, SqrtAssumption
<1>3. x \in Nat /\ x <= s0
  <2> HIDE DEF p
  <2>1. s0 \div p \in Nat /\ (s0 \div p) * p <= s0 BY <1>1, <1>2, Division
  <2> DEFINE q == s0 \div p
  <2> HIDE DEF q
  <2>2. q \in Nat /\ q * p <= s0 BY <2>1 DEF q
  <2>3. q * 1 <= q * p BY <1>2, <2>2
  <2>4. q * p \in Nat BY <1>2, <2>2
  <2>5. q <= s0 BY <1>1, <2>2, <2>3, <2>4
  <2> QED BY <2>2, <2>5 DEF q, p
<1>4. /\ t1' = mulh(x, Tenth)
      /\ t2' = mulhu(mul(x, Tenth), 10)
      /\ t0' = ((t0 * 16) % WordMod) + t2'
  <2>1. (IF digit = 0 THEN s0 ELSE t1) = x BY <1>1, RestToConvert
  <2> QED BY <2>1 DEF Convert
<1> HIDE DEF x, p, h
<1>5. t1' = x \div 10 /\ t2' = x % 10
  <2> DEFINE c == FirstStep * Scale
  <2>1. c \in Nat BY SqrtAssumption
  <2>2. x <= c BY <1>1, <1>3, <2>1
  <2>3. c * excess < WordMod /\ c < WordMod \div 2 OBVIOUS
  <2>4. WordMod \in Nat /\ WordMod \div 2 \in Nat BY Sizes
  <2> HIDE DEF c
  <2>5. x * excess \in Nat /\ c * excess \in Nat /\ x * excess <= c * excess
    BY <1>3, <2>1, <2>2, Monotone
  <2>6. x * excess < WordMod /\ x < WordMod \div 2
    BY <1>3, <2>1, <2>2, <2>3, <2>4, <2>5
  <2> QED BY <1>3, <1>4, <2>6, DigitStepDivides
<1>6. t1' = s0 \div (10 * p)
  BY <1>1, <1>2, <1>5, DivideTwice DEF x, p
<1>7. t2' \in 0 .. 9
  BY <1>3, <1>5
<1>8. t0' = t0 * 16 + t2' /\ t0' \in Nat /\ t0' < 16 * h
  <2>1. 16 * h <= WordMod
    BY <1>1, <1>2, SqrtAssumption, RadixAssumption
  <2>2. t0 * 16 \in Nat /\ t0 * 16 + 16 <= 16 * h BY <1>1, <1>2
  <2>3. (t0 * 16) % WordMod = t0 * 16 BY <1>2, <2>1, <2>2, Sizes
  <2> QED BY <1>2, <1>4, <1>7, <2>2, <2>3
<1>9. ASSUME NEW k \in 0 .. digit' - 1
      PROVE  Nibble(t0', digit' - 1 - k) = (s0 \div 10 ^ k) % 10
  <2>1. CASE k = digit
    <3>1. digit' - 1 - k = 0 BY <1>1, <2>1
    <3>2. Nibble(t0', 0) = t0' % 16
      <4>1. 16 ^ 0 = 1 BY Powers
      <4>2. t0' \div 1 = t0' BY <1>8
      <4> QED BY <4>1, <4>2 DEF Nibble
    <3>3. t0' % 16 = t2'
      <4>1. t2' \in 0 .. 15 BY <1>7
      <4> QED BY <1>1, <1>2, <1>8, <4>1, AppendDigit
    <3>4. Nibble(t0', digit' - 1 - k) = x % 10 BY <1>5, <3>1, <3>2, <3>3
    <3> QED BY <2>1, <3>4, Zenon DEF x
  <2>2. CASE k # digit
    <3> DEFINE j == digit - 1 - k
               e == 16 ^ j
    <3>1. k \in 0 .. digit - 1 /\ j \in 0 .. Digits /\ digit' - 1 - k = j + 1
      BY <1>1, <2>2, SqrtAssumption
    <3>2. e \in Nat /\ e > 0 /\ 16 ^ (j + 1) = 16 * e
      BY <3>1, Powers
    <3> HIDE DEF e, j
    <3>3. t0' \div (16 * e) = t0 \div e
      <4>1. t2' \in 0 .. 15 BY <1>7
      <4> QED BY <1>1, <1>8, <3>2, <4>1, AppendDigit
    <3>4. Nibble(t0', j + 1) = Nibble(t0, j)
      <4>1. t0' \div 16 ^ (j + 1) = t0 \div 16 ^ j
        BY <3>2, <3>3, Zenon DEF e
      <4> QED BY <4>1, Zenon DEF Nibble
    <3>5. Nibble(t0, j) = (s0 \div 10 ^ k) % 10
      BY <1>1, <3>1 DEF ConversionInv, DigitsExact, j
    <3> QED BY <3>1, <3>4, <3>5
  <2> QED BY <2>1, <2>2
<1>10. DigitsExact'
  BY <1>1, <1>2, <1>6, <1>9 DEF DigitsExact
<1> QED BY <1>1, <1>2, <1>8, <1>10, SqrtAssumption DEF ConversionInv

(* For words of every size: at every moment of the conversion the digits   *)
(* made so far are the last decimals of the result, in their order, and    *)
(* what is left to convert is the rest of it; for inputs the search was    *)
(* made for, and a constant 1/10 whose rounding does not show in numbers   *)
(* of that size (4 units of the last place in the code, for numbers up to  *)
(* 25600000 in words of 32 bits).                                          *)
THEOREM ConversionIsExact ==
    ASSUME NEW PowersOfTwo, ClosedUnderHalving(PowersOfTwo),
           Inputs \subseteq 0 .. FirstStep * FirstStep,
           NEW excess \in Nat, 10 * Tenth = WordMod + excess,
           FirstStep * Scale * excess < WordMod,
           FirstStep * Scale < WordMod \div 2, Tenth < WordMod \div 2
    PROVE  Spec => []DigitsExact
<1>1. Init => ConversionInv
  BY DEF Init, ConversionInv
<1>2. ASSUME SearchInv(PowersOfTwo), ConversionInv, [Next]_vars
      PROVE  ConversionInv'
  <2>1. CASE Exit
    <3>1. t1 \in 0 .. Largest /\ s0' = FixedMul(t1, Scale)
      <4>1. pc = "exit" /\ s0' = FixedMul(t1, Scale) BY <2>1 DEF Exit
      <4> QED BY <1>2, <4>1 DEF SearchInv
    <3>2. s0' \in Nat /\ s0' <= FirstStep * Scale
      BY <3>1, ResultFits
    <3>3. digit' = 0 /\ t0' = 0 /\ pc' = "digit"
      BY <2>1 DEF Exit
    <3>4. DigitsExact' BY <3>3 DEF DigitsExact
    <3>5. 0 \in 0 .. Digits /\ 16 ^ 0 = 1 BY Powers, SqrtAssumption
    <3> QED BY <3>2, <3>3, <3>4, <3>5 DEF ConversionInv
  <2>2. CASE Convert
    BY <1>2, <2>2, ConvertKeepsDigits
  <2>3. CASE Start \/ Exact \/ Move \/ Halve \/ Show
    <3>1. pc' # "digit"
      BY <2>3 DEF Start, Exact, Move, Halve, Show
    <3> QED BY <3>1 DEF ConversionInv
  <2>4. CASE MoveSwitches \/ UNCHANGED vars
    <3>1. UNCHANGED <<pc, t0, t1, s0, digit>>
      BY <2>4 DEF MoveSwitches, vars
    <3>2. DigitsExact <=> DigitsExact'
      BY <3>1 DEF DigitsExact, Nibble
    <3> QED BY <1>2, <3>1, <3>2 DEF ConversionInv
  <2> QED BY <1>2, <2>1, <2>2, <2>3, <2>4 DEF Next, Program
<1>3. ConversionInv => DigitsExact
  BY DEF ConversionInv, DigitsExact
<1> QED BY <1>1, <1>2, <1>3, SearchInvInductive, PTL DEF Spec
=============================================================================
