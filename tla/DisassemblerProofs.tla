------------------------- MODULE DisassemblerProofs -------------------------
(***************************************************************************)
(* Theorems about the disassembler, for every set of calls: every word of  *)
(* 32 bits, in each of the three instruction sets.                         *)
(*                                                                         *)
(* The chain of the argument: the bits of the word that the disassembler   *)
(* and the processor's decoder slice out are the same; the opcode tree     *)
(* yields an operation of the table; its row gives the codec, the codec    *)
(* the operands; expanding and lifting rename the operation only.  The     *)
(* inductive invariant PassesInv then says what the record is between any  *)
(* two passes, and the properties follow from it state by state.           *)
(***************************************************************************)
EXTENDS ProcessorView, TLAPS

(* width bits of a half-word. *)
Cut(n, low, width) == (n \div 2 ^ low) % 2 ^ width

LEMMA HalvesAre ==
    ASSUME NEW w \in InstructionWord
    PROVE  w.hi \in HalfWord /\ w.lo \in HalfWord
BY DEF InstructionWord

LEMMA QuotientsAreNat ==
    ASSUME NEW n \in Nat
    PROVE  /\ n \div 1 = n
           /\ n \div 4 \in Nat
           /\ n \div 16 \in Nat
           /\ n \div 32 \in Nat
           /\ n \div 128 \in Nat
           /\ n \div 256 \in Nat
           /\ n \div 512 \in Nat
           /\ n \div 1024 \in Nat
           /\ n \div 2048 \in Nat
           /\ n \div 8192 \in Nat
           /\ n \div 4096 \in Nat
           /\ n \div 32768 \in Nat
<1>1. n \div 1 = n
  OBVIOUS
<1>2. n \div 4 \in Nat
  OBVIOUS
<1>3. n \div 16 \in Nat
  OBVIOUS
<1>4. n \div 32 \in Nat
  OBVIOUS
<1>5. n \div 128 \in Nat
  OBVIOUS
<1>6. n \div 256 \in Nat
  OBVIOUS
<1>7. n \div 512 \in Nat
  OBVIOUS
<1>8. n \div 1024 \in Nat
  OBVIOUS
<1>9. n \div 2048 \in Nat
  OBVIOUS
<1>10. n \div 8192 \in Nat
  OBVIOUS
<1>11. n \div 4096 \in Nat
  OBVIOUS
<1>12. n \div 32768 \in Nat
  OBVIOUS
<1> QED BY <1>1, <1>2, <1>3, <1>4, <1>5, <1>6, <1>7, <1>8, <1>9, <1>10, <1>11, <1>12

LEMMA CutRanges ==
    ASSUME NEW n \in Nat
    PROVE  /\ Cut(n, 10, 1) \in 0 .. 1
           /\ Cut(n, 9, 1) \in 0 .. 1
           /\ Cut(n, 8, 4) \in 0 .. 15
           /\ Cut(n, 4, 4) \in 0 .. 15
           /\ Cut(n, 2, 3) \in 0 .. 7
           /\ Cut(n, 7, 3) \in 0 .. 7
           /\ Cut(n, 13, 3) \in 0 .. 7
           /\ Cut(n, 10, 2) \in 0 .. 3
           /\ Cut(n, 12, 1) \in 0 .. 1
           /\ Cut(n, 5, 2) \in 0 .. 3
           /\ Cut(n, 11, 5) \in 0 .. 31
           /\ Cut(n, 9, 2) \in 0 .. 3
           /\ Cut(n, 15, 1) \in 0 .. 1
           /\ Cut(n, 9, 6) \in 0 .. 63
           /\ Cut(n, 4, 11) \in 0 .. 2047
           /\ Cut(n, 4, 5) \in 0 .. 31
           /\ Cut(n, 4, 1) \in 0 .. 1
           /\ Cut(n, 5, 10) \in 0 .. 1023
           /\ Cut(n, 12, 3) \in 0 .. 7
           /\ Cut(n, 7, 1) \in 0 .. 1
           /\ Cut(n, 7, 5) \in 0 .. 31
           /\ Cut(n, 2, 5) \in 0 .. 31
           /\ Cut(n, 0, 2) \in 0 .. 3
           /\ Cut(n, 0, 4) \in 0 .. 15
           /\ Cut(n, 0, 15) \in 0 .. 32767
<1>1. Cut(n, 10, 1) \in 0 .. 1
  <2> DEFINE q == n \div 1024
  <2>1. q \in Nat
    BY QuotientsAreNat
  <2> HIDE DEF q
  <2>2. q % 2 \in 0 .. 1
    BY <2>1
  <2> QED BY <2>2 DEF q, Cut
<1>2. Cut(n, 9, 1) \in 0 .. 1
  <2> DEFINE q == n \div 512
  <2>1. q \in Nat
    BY QuotientsAreNat
  <2> HIDE DEF q
  <2>2. q % 2 \in 0 .. 1
    BY <2>1
  <2> QED BY <2>2 DEF q, Cut
<1>3. Cut(n, 8, 4) \in 0 .. 15
  <2> DEFINE q == n \div 256
  <2>1. q \in Nat
    BY QuotientsAreNat
  <2> HIDE DEF q
  <2>2. q % 16 \in 0 .. 15
    BY <2>1
  <2> QED BY <2>2 DEF q, Cut
<1>4. Cut(n, 4, 4) \in 0 .. 15
  <2> DEFINE q == n \div 16
  <2>1. q \in Nat
    BY QuotientsAreNat
  <2> HIDE DEF q
  <2>2. q % 16 \in 0 .. 15
    BY <2>1
  <2> QED BY <2>2 DEF q, Cut
<1>5. Cut(n, 2, 3) \in 0 .. 7
  <2> DEFINE q == n \div 4
  <2>1. q \in Nat
    BY QuotientsAreNat
  <2> HIDE DEF q
  <2>2. q % 8 \in 0 .. 7
    BY <2>1
  <2> QED BY <2>2 DEF q, Cut
<1>6. Cut(n, 7, 3) \in 0 .. 7
  <2> DEFINE q == n \div 128
  <2>1. q \in Nat
    BY QuotientsAreNat
  <2> HIDE DEF q
  <2>2. q % 8 \in 0 .. 7
    BY <2>1
  <2> QED BY <2>2 DEF q, Cut
<1>7. Cut(n, 13, 3) \in 0 .. 7
  <2> DEFINE q == n \div 8192
  <2>1. q \in Nat
    BY QuotientsAreNat
  <2> HIDE DEF q
  <2>2. q % 8 \in 0 .. 7
    BY <2>1
  <2> QED BY <2>2 DEF q, Cut
<1>8. Cut(n, 10, 2) \in 0 .. 3
  <2> DEFINE q == n \div 1024
  <2>1. q \in Nat
    BY QuotientsAreNat
  <2> HIDE DEF q
  <2>2. q % 4 \in 0 .. 3
    BY <2>1
  <2> QED BY <2>2 DEF q, Cut
<1>9. Cut(n, 12, 1) \in 0 .. 1
  <2> DEFINE q == n \div 4096
  <2>1. q \in Nat
    BY QuotientsAreNat
  <2> HIDE DEF q
  <2>2. q % 2 \in 0 .. 1
    BY <2>1
  <2> QED BY <2>2 DEF q, Cut
<1>10. Cut(n, 5, 2) \in 0 .. 3
  <2> DEFINE q == n \div 32
  <2>1. q \in Nat
    BY QuotientsAreNat
  <2> HIDE DEF q
  <2>2. q % 4 \in 0 .. 3
    BY <2>1
  <2> QED BY <2>2 DEF q, Cut
<1>11. Cut(n, 11, 5) \in 0 .. 31
  <2> DEFINE q == n \div 2048
  <2>1. q \in Nat
    BY QuotientsAreNat
  <2> HIDE DEF q
  <2>2. q % 32 \in 0 .. 31
    BY <2>1
  <2> QED BY <2>2 DEF q, Cut
<1>12. Cut(n, 9, 2) \in 0 .. 3
  <2> DEFINE q == n \div 512
  <2>1. q \in Nat
    BY QuotientsAreNat
  <2> HIDE DEF q
  <2>2. q % 4 \in 0 .. 3
    BY <2>1
  <2> QED BY <2>2 DEF q, Cut
<1>13. Cut(n, 15, 1) \in 0 .. 1
  <2> DEFINE q == n \div 32768
  <2>1. q \in Nat
    BY QuotientsAreNat
  <2> HIDE DEF q
  <2>2. q % 2 \in 0 .. 1
    BY <2>1
  <2> QED BY <2>2 DEF q, Cut
<1>14. Cut(n, 9, 6) \in 0 .. 63
  <2> DEFINE q == n \div 512
  <2>1. q \in Nat
    BY QuotientsAreNat
  <2> HIDE DEF q
  <2>2. q % 64 \in 0 .. 63
    BY <2>1
  <2> QED BY <2>2 DEF q, Cut
<1>15. Cut(n, 4, 11) \in 0 .. 2047
  <2> DEFINE q == n \div 16
  <2>1. q \in Nat
    BY QuotientsAreNat
  <2> HIDE DEF q
  <2>2. q % 2048 \in 0 .. 2047
    BY <2>1
  <2> QED BY <2>2 DEF q, Cut
<1>16. Cut(n, 4, 5) \in 0 .. 31
  <2> DEFINE q == n \div 16
  <2>1. q \in Nat
    BY QuotientsAreNat
  <2> HIDE DEF q
  <2>2. q % 32 \in 0 .. 31
    BY <2>1
  <2> QED BY <2>2 DEF q, Cut
<1>17. Cut(n, 4, 1) \in 0 .. 1
  <2> DEFINE q == n \div 16
  <2>1. q \in Nat
    BY QuotientsAreNat
  <2> HIDE DEF q
  <2>2. q % 2 \in 0 .. 1
    BY <2>1
  <2> QED BY <2>2 DEF q, Cut
<1>18. Cut(n, 5, 10) \in 0 .. 1023
  <2> DEFINE q == n \div 32
  <2>1. q \in Nat
    BY QuotientsAreNat
  <2> HIDE DEF q
  <2>2. q % 1024 \in 0 .. 1023
    BY <2>1
  <2> QED BY <2>2 DEF q, Cut
<1>19. Cut(n, 12, 3) \in 0 .. 7
  <2> DEFINE q == n \div 4096
  <2>1. q \in Nat
    BY QuotientsAreNat
  <2> HIDE DEF q
  <2>2. q % 8 \in 0 .. 7
    BY <2>1
  <2> QED BY <2>2 DEF q, Cut
<1>20. Cut(n, 7, 1) \in 0 .. 1
  <2> DEFINE q == n \div 128
  <2>1. q \in Nat
    BY QuotientsAreNat
  <2> HIDE DEF q
  <2>2. q % 2 \in 0 .. 1
    BY <2>1
  <2> QED BY <2>2 DEF q, Cut
<1>21. Cut(n, 7, 5) \in 0 .. 31
  <2> DEFINE q == n \div 128
  <2>1. q \in Nat
    BY QuotientsAreNat
  <2> HIDE DEF q
  <2>2. q % 32 \in 0 .. 31
    BY <2>1
  <2> QED BY <2>2 DEF q, Cut
<1>22. Cut(n, 2, 5) \in 0 .. 31
  <2> DEFINE q == n \div 4
  <2>1. q \in Nat
    BY QuotientsAreNat
  <2> HIDE DEF q
  <2>2. q % 32 \in 0 .. 31
    BY <2>1
  <2> QED BY <2>2 DEF q, Cut
<1>23. Cut(n, 0, 2) \in 0 .. 3
  <2> DEFINE q == n \div 1
  <2>1. q \in Nat
    BY QuotientsAreNat
  <2> HIDE DEF q
  <2>2. q % 4 \in 0 .. 3
    BY <2>1
  <2> QED BY <2>2 DEF q, Cut
<1>24. Cut(n, 0, 4) \in 0 .. 15
  <2> DEFINE q == n \div 1
  <2>1. q \in Nat
    BY QuotientsAreNat
  <2> HIDE DEF q
  <2>2. q % 16 \in 0 .. 15
    BY <2>1
  <2> QED BY <2>2 DEF q, Cut
<1>25. Cut(n, 0, 15) \in 0 .. 32767
  <2> DEFINE q == n \div 1
  <2>1. q \in Nat
    BY QuotientsAreNat
  <2> HIDE DEF q
  <2>2. q % 32768 \in 0 .. 32767
    BY <2>1
  <2> QED BY <2>2 DEF q, Cut
<1> QED BY <1>1, <1>2, <1>3, <1>4, <1>5, <1>6, <1>7, <1>8, <1>9, <1>10, <1>11, <1>12, <1>13,
           <1>14, <1>15, <1>16, <1>17, <1>18, <1>19, <1>20, <1>21, <1>22, <1>23, <1>24,
           <1>25

(* A field next to another. *)
LEMMA CutsJoin ==
    ASSUME NEW n \in Nat
    PROVE  /\ Cut(n, 0, 7) = Cut(n, 0, 2) + 4 * Cut(n, 2, 5)
           /\ Cut(n, 9, 7) = Cut(n, 9, 6) + 64 * Cut(n, 15, 1)
           /\ Cut(n, 4, 12) = Cut(n, 4, 11) + 2048 * Cut(n, 15, 1)
           /\ Cut(n, 4, 12) = Cut(n, 4, 5) + 32 * Cut(n, 9, 7)
           /\ Cut(n, 0, 16) = Cut(n, 0, 15) + 32768 * Cut(n, 15, 1)
           /\ Cut(n, 9, 7) = Cut(n, 9, 2) + 4 * Cut(n, 11, 5)
           /\ Cut(n, 4, 7) = Cut(n, 4, 5) + 32 * Cut(n, 9, 2)
<1>1. Cut(n, 0, 7) = Cut(n, 0, 2) + 4 * Cut(n, 2, 5)
  <2> DEFINE q == n \div 1
  <2>1. q \in Nat
    BY QuotientsAreNat
  <2>2. q \div 4 = n \div 4
    OBVIOUS
  <2> HIDE DEF q
  <2>3. q % 128 = (q % 4) + 4 * ((q \div 4) % 32)
    BY <2>1
  <2> QED BY <2>2, <2>3, SMT DEF q, Cut
<1>2. Cut(n, 9, 7) = Cut(n, 9, 6) + 64 * Cut(n, 15, 1)
  <2> DEFINE q == n \div 512
  <2>1. q \in Nat
    BY QuotientsAreNat
  <2>2. q \div 64 = n \div 32768
    OBVIOUS
  <2> HIDE DEF q
  <2>3. q % 128 = (q % 64) + 64 * ((q \div 64) % 2)
    BY <2>1
  <2> QED BY <2>2, <2>3, SMT DEF q, Cut
<1>3. Cut(n, 4, 12) = Cut(n, 4, 11) + 2048 * Cut(n, 15, 1)
  <2> DEFINE q == n \div 16
  <2>1. q \in Nat
    BY QuotientsAreNat
  <2>2. q \div 2048 = n \div 32768
    OBVIOUS
  <2> HIDE DEF q
  <2>3. q % 4096 = (q % 2048) + 2048 * ((q \div 2048) % 2)
    BY <2>1
  <2> QED BY <2>2, <2>3, SMT DEF q, Cut
<1>4. Cut(n, 4, 12) = Cut(n, 4, 5) + 32 * Cut(n, 9, 7)
  <2> DEFINE q == n \div 16
  <2>1. q \in Nat
    BY QuotientsAreNat
  <2>2. q \div 32 = n \div 512
    OBVIOUS
  <2> HIDE DEF q
  <2>3. q % 4096 = (q % 32) + 32 * ((q \div 32) % 128)
    BY <2>1
  <2> QED BY <2>2, <2>3, SMT DEF q, Cut
<1>5. Cut(n, 0, 16) = Cut(n, 0, 15) + 32768 * Cut(n, 15, 1)
  <2> DEFINE q == n \div 1
  <2>1. q \in Nat
    BY QuotientsAreNat
  <2>2. q \div 32768 = n \div 32768
    OBVIOUS
  <2> HIDE DEF q
  <2>3. q % 65536 = (q % 32768) + 32768 * ((q \div 32768) % 2)
    BY <2>1
  <2> QED BY <2>2, <2>3, SMT DEF q, Cut
<1>6. Cut(n, 9, 7) = Cut(n, 9, 2) + 4 * Cut(n, 11, 5)
  <2> DEFINE q == n \div 512
  <2>1. q \in Nat
    BY QuotientsAreNat
  <2>2. q \div 4 = n \div 2048
    OBVIOUS
  <2> HIDE DEF q
  <2>3. q % 128 = (q % 4) + 4 * ((q \div 4) % 32)
    BY <2>1
  <2> QED BY <2>2, <2>3, SMT DEF q, Cut
<1>7. Cut(n, 4, 7) = Cut(n, 4, 5) + 32 * Cut(n, 9, 2)
  <2> DEFINE q == n \div 16
  <2>1. q \in Nat
    BY QuotientsAreNat
  <2>2. q \div 32 = n \div 512
    OBVIOUS
  <2> HIDE DEF q
  <2>3. q % 128 = (q % 32) + 32 * ((q \div 32) % 4)
    BY <2>1
  <2> QED BY <2>2, <2>3, SMT DEF q, Cut
<1> QED BY <1>1, <1>2, <1>3, <1>4, <1>5, <1>6, <1>7

(* The fields of a word that the processor and the disassembler look at:   *)
(* their ranges, and how they are made of each other.                      *)
LEMMA HighFieldsAre ==
    ASSUME NEW w \in InstructionWord
    PROVE  /\ Field(w, 31, 31) \in 0 .. 1
           /\ Field(w, 30, 25) \in 0 .. 63
           /\ Field(w, 30, 20) \in 0 .. 2047
           /\ Field(w, 24, 20) \in 0 .. 31
           /\ Field(w, 31, 27) \in 0 .. 31
           /\ Field(w, 26, 25) \in 0 .. 3
           /\ Field(w, 27, 24) \in 0 .. 15
           /\ Field(w, 26, 26) \in 0 .. 1
           /\ Field(w, 25, 25) \in 0 .. 1
           /\ Field(w, 23, 20) \in 0 .. 15
           /\ Field(w, 30, 21) \in 0 .. 1023
           /\ Field(w, 20, 20) \in 0 .. 1
           /\ Field(w, 31, 25) = Field(w, 30, 25) + 64 * Field(w, 31, 31)
           /\ Field(w, 31, 20) = Field(w, 30, 20) + 2048 * Field(w, 31, 31)
           /\ Field(w, 31, 20) = Field(w, 24, 20) + 32 * Field(w, 31, 25)
           /\ Field(w, 31, 25) = Field(w, 26, 25) + 4 * Field(w, 31, 27)
           /\ Field(w, 26, 20) = Field(w, 24, 20) + 32 * Field(w, 26, 25)
<1> DEFINE n == w.hi
<1>1. /\ Field(w, 31, 31) = Cut(n, 15, 1)
      /\ Field(w, 30, 25) = Cut(n, 9, 6)
      /\ Field(w, 31, 25) = Cut(n, 9, 7)
      /\ Field(w, 30, 20) = Cut(n, 4, 11)
      /\ Field(w, 31, 20) = Cut(n, 4, 12)
      /\ Field(w, 24, 20) = Cut(n, 4, 5)
      /\ Field(w, 31, 27) = Cut(n, 11, 5)
      /\ Field(w, 26, 25) = Cut(n, 9, 2)
      /\ Field(w, 26, 20) = Cut(n, 4, 7)
      /\ Field(w, 27, 24) = Cut(n, 8, 4)
      /\ Field(w, 26, 26) = Cut(n, 10, 1)
      /\ Field(w, 25, 25) = Cut(n, 9, 1)
      /\ Field(w, 23, 20) = Cut(n, 4, 4)
      /\ Field(w, 30, 21) = Cut(n, 5, 10)
      /\ Field(w, 20, 20) = Cut(n, 4, 1)
  BY SMT DEF Field, Cut
<1>2. n \in HalfWord
  BY HalvesAre
<1> HIDE DEF n
<1>3. n \in Nat
  BY <1>2 DEF HalfWord
<1> QED BY <1>1, <1>3, CutRanges, CutsJoin, SMT

LEMMA LowFieldsAre ==
    ASSUME NEW w \in InstructionWord
    PROVE  /\ Field(w, 15, 13) \in 0 .. 7
           /\ Field(w, 12, 12) \in 0 .. 1
           /\ Field(w, 11, 10) \in 0 .. 3
           /\ Field(w, 6, 5) \in 0 .. 3
           /\ Field(w, 9, 7) \in 0 .. 7
           /\ Field(w, 4, 2) \in 0 .. 7
           /\ Field(w, 14, 12) \in 0 .. 7
           /\ Field(w, 11, 8) \in 0 .. 15
           /\ Field(w, 7, 7) \in 0 .. 1
           /\ Field(w, 11, 7) \in 0 .. 31
           /\ Field(w, 6, 2) \in 0 .. 31
           /\ Field(w, 1, 0) \in 0 .. 3
           /\ Field(w, 6, 0) = Field(w, 1, 0) + 4 * Field(w, 6, 2)
<1> DEFINE n == w.lo
<1>1. /\ Field(w, 15, 13) = Cut(n, 13, 3)
      /\ Field(w, 12, 12) = Cut(n, 12, 1)
      /\ Field(w, 11, 10) = Cut(n, 10, 2)
      /\ Field(w, 6, 5) = Cut(n, 5, 2)
      /\ Field(w, 9, 7) = Cut(n, 7, 3)
      /\ Field(w, 4, 2) = Cut(n, 2, 3)
      /\ Field(w, 14, 12) = Cut(n, 12, 3)
      /\ Field(w, 11, 8) = Cut(n, 8, 4)
      /\ Field(w, 7, 7) = Cut(n, 7, 1)
      /\ Field(w, 11, 7) = Cut(n, 7, 5)
      /\ Field(w, 6, 2) = Cut(n, 2, 5)
      /\ Field(w, 1, 0) = Cut(n, 0, 2)
      /\ Field(w, 6, 0) = Cut(n, 0, 7)
  BY SMT DEF Field, Cut
<1>2. n \in HalfWord
  BY HalvesAre
<1> HIDE DEF n
<1>3. n \in Nat
  BY <1>2 DEF HalfWord
<1> QED BY <1>1, <1>3, CutRanges, CutsJoin, SMT

(* The fields that have bits of both halves.                               *)
LEMMA MiddleFieldsAre ==
    ASSUME NEW w \in InstructionWord
    PROVE  /\ Field(w, 30, 12) \in 0 .. 2 ^ 19 - 1
           /\ Field(w, 31, 12) = Field(w, 30, 12) + 524288 * Field(w, 31, 31)
           /\ Field(w, 19, 12) \in 0 .. 255
           /\ Field(w, 19, 15) \in 0 .. 31
<1> DEFINE n == w.hi
           m == w.lo
           u == m \div 4096
           v == m \div 32768
           a == n % 32768
           b == n % 16
           s == Field(w, 31, 31)
<1>1. /\ Field(w, 30, 12) = u + 16 * a
      /\ Field(w, 31, 12) = u + 16 * (n % 65536)
      /\ Field(w, 19, 12) = u + 16 * b
      /\ Field(w, 19, 15) = v + 2 * b
  BY SMT DEF Field
<1>2. s = Cut(n, 15, 1)
  BY SMT DEF Field, Cut
<1>3. n \in HalfWord /\ m \in HalfWord
  BY HalvesAre
<1> HIDE DEF n, m
<1>4. n \in Nat
  BY <1>3 DEF HalfWord
<1>5. m \in Nat
  BY <1>3 DEF HalfWord
<1>6. u <= 15
  BY <1>3, SMT DEF HalfWord
<1>7. v <= 1
  BY <1>3, SMT DEF HalfWord
<1>8. u \in Nat /\ v \in Nat
  BY <1>5, QuotientsAreNat, SMT
<1>9. n \div 1 = n
  BY <1>4
<1>10. b = Cut(n, 0, 4) /\ a = Cut(n, 0, 15) /\ n % 65536 = Cut(n, 0, 16)
  BY <1>9, SMT DEF Cut
<1> HIDE DEF a, b, s, u, v
<1>11. b \in 0 .. 15 /\ a \in 0 .. 32767 /\ s \in 0 .. 1
  <2>1. Cut(n, 0, 4) \in 0 .. 15 /\ Cut(n, 0, 15) \in 0 .. 32767 /\ Cut(n, 15, 1) \in 0 .. 1
    BY <1>4, CutRanges, SMT
  <2> QED BY <2>1, <1>2, <1>10, SMT
<1>12. n % 65536 = a + 32768 * s
  BY <1>2, <1>4, <1>10, CutsJoin, SMT
<1>13. u + 16 * (a + 32768 * s) = (u + 16 * a) + 524288 * s
  BY <1>8, <1>11, SMT
<1>14. Field(w, 30, 12) \in 0 .. 2 ^ 19 - 1
  <2>1. a \in Nat /\ a <= 32767
    BY <1>11, SMT
  <2>2. u + 16 * a \in Nat /\ u + 16 * a <= 2 ^ 19 - 1
    BY <1>6, <1>8, <2>1, SMT
  <2> QED BY <1>1, <2>2, SMT
<1>15. Field(w, 31, 12) = Field(w, 30, 12) + 524288 * Field(w, 31, 31)
  BY <1>1, <1>12, <1>13, SMT DEF s
<1>16. Field(w, 19, 12) \in 0 .. 255
  BY <1>1, <1>6, <1>8, <1>11, SMT
<1>17. Field(w, 19, 15) \in 0 .. 31
  BY <1>1, <1>7, <1>8, <1>11, SMT
<1>18. Field(w, 31, 31) \in 0 .. 1
  BY <1>11 DEF s
<1> QED BY <1>14, <1>15, <1>16, <1>17, <1>18, SMT

-----------------------------------------------------------------------------
(* The decoder's slices. *)
LEMMA SameField ==
    ASSUME NEW w, NEW a, NEW b
    PROVE  Decode!Field(w, a, b) = Field(w, a, b)
BY DEF Decode!Field, Field

(* A bit that becomes a sign stands for 0 or -1.                           *)
LEMMA SignBit ==
    ASSUME NEW a \in 0 .. 1
    PROVE  Decode!Vector(1, a) = [width |-> 1, value |-> - a]
<1>1. CASE a = 0
  BY <1>1 DEF Decode!Vector
<1>2. CASE a = 1
  BY <1>2 DEF Decode!Vector
<1> QED BY <1>1, <1>2

(* The other fields are read without a sign.                               *)
LEMMA UnsignedFields ==
    /\ \A a \in 0 .. 1 : Decode!Unsigned(Decode!Vector(1, a)) = a
    /\ \A a \in 0 .. 7 : Decode!Unsigned(Decode!Vector(3, a)) = a
    /\ \A a \in 0 .. 15 : Decode!Unsigned(Decode!Vector(4, a)) = a
    /\ \A a \in 0 .. 31 : Decode!Unsigned(Decode!Vector(5, a)) = a
    /\ \A a \in 0 .. 63 : Decode!Unsigned(Decode!Vector(6, a)) = a
    /\ \A a \in 0 .. 127 : Decode!Unsigned(Decode!Vector(7, a)) = a
    /\ \A a \in 0 .. 255 : Decode!Unsigned(Decode!Vector(8, a)) = a
    /\ \A a \in 0 .. 1023 : Decode!Unsigned(Decode!Vector(10, a)) = a
    /\ \A a \in 0 .. 4095 : Decode!Unsigned(Decode!Vector(12, a)) = a
<1>1. ASSUME NEW a \in 0 .. 1 PROVE Decode!Unsigned(Decode!Vector(1, a)) = a
  BY DEF Decode!Unsigned, Decode!Vector
<1>2. ASSUME NEW a \in 0 .. 7 PROVE Decode!Unsigned(Decode!Vector(3, a)) = a
  BY DEF Decode!Unsigned, Decode!Vector
<1>3. ASSUME NEW a \in 0 .. 15 PROVE Decode!Unsigned(Decode!Vector(4, a)) = a
  BY DEF Decode!Unsigned, Decode!Vector
<1>4. ASSUME NEW a \in 0 .. 31 PROVE Decode!Unsigned(Decode!Vector(5, a)) = a
  BY DEF Decode!Unsigned, Decode!Vector
<1>5. ASSUME NEW a \in 0 .. 63 PROVE Decode!Unsigned(Decode!Vector(6, a)) = a
  BY DEF Decode!Unsigned, Decode!Vector
<1>6. ASSUME NEW a \in 0 .. 127 PROVE Decode!Unsigned(Decode!Vector(7, a)) = a
  BY DEF Decode!Unsigned, Decode!Vector
<1>7. ASSUME NEW a \in 0 .. 255 PROVE Decode!Unsigned(Decode!Vector(8, a)) = a
  BY DEF Decode!Unsigned, Decode!Vector
<1>8. ASSUME NEW a \in 0 .. 1023 PROVE Decode!Unsigned(Decode!Vector(10, a)) = a
  BY DEF Decode!Unsigned, Decode!Vector
<1>9. ASSUME NEW a \in 0 .. 4095 PROVE Decode!Unsigned(Decode!Vector(12, a)) = a
  BY DEF Decode!Unsigned, Decode!Vector
<1> QED BY <1>1, <1>2, <1>3, <1>4, <1>5, <1>6, <1>7, <1>8, <1>9

LEMMA BranchOffset ==
    ASSUME inst \in InstructionWord
    PROVE  Decode!branch_offset = [width |-> 13, value |-> Decode!BOffset]
<1> DEFINE s == Field(inst, 31, 31)
           a == Field(inst, 7, 7)
           b == Field(inst, 30, 25)
           c == Field(inst, 11, 8)
<1>1. s \in 0 .. 1 /\ b \in 0 .. 63
  BY HighFieldsAre
<1>2. a \in 0 .. 1 /\ c \in 0 .. 15
  BY LowFieldsAre
<1>3. /\ Decode!Bits(31, 31) = Decode!Vector(1, s)
      /\ Decode!Bits(7, 7) = Decode!Vector(1, a)
      /\ Decode!Bits(30, 25) = Decode!Vector(6, b)
      /\ Decode!Bits(11, 8) = Decode!Vector(4, c)
  BY SameField DEF Decode!Bits
<1>4. Decode!BOffset = 2 * c + 32 * b + 2048 * a - 4096 * s
  BY SameField DEF Decode!BOffset, Decode!Part
<1> HIDE DEF s, a, b, c
<1>5. Decode!Vector(1, s) = [width |-> 1, value |-> - s]
  BY <1>1, SignBit
<1>6. /\ Decode!Unsigned(Decode!Vector(1, a)) = a
      /\ Decode!Unsigned(Decode!Vector(6, b)) = b
      /\ Decode!Unsigned(Decode!Vector(4, c)) = c
  BY <1>1, <1>2, UnsignedFields
<1>7. Decode!++([width |-> 1, value |-> - s], Decode!Vector(1, a))
        = [width |-> 2, value |-> (- s) * 2 + a]
  BY <1>6 DEF Decode!++, Decode!Vector
<1>8. Decode!++([width |-> 2, value |-> (- s) * 2 + a], Decode!Vector(6, b))
        = [width |-> 8, value |-> ((- s) * 2 + a) * 64 + b]
  BY <1>6 DEF Decode!++, Decode!Vector
<1>9. Decode!++([width |-> 8, value |-> ((- s) * 2 + a) * 64 + b], Decode!Vector(4, c))
        = [width |-> 12, value |-> (((- s) * 2 + a) * 64 + b) * 16 + c]
  BY <1>6 DEF Decode!++, Decode!Vector
<1>10. Decode!++([width |-> 12, value |-> (((- s) * 2 + a) * 64 + b) * 16 + c],
                 Decode!Zeros(1))
        = [width |-> 13, value |-> ((((- s) * 2 + a) * 64 + b) * 16 + c) * 2 + 0]
  BY DEF Decode!++, Decode!Unsigned, Decode!Zeros
<1>11. Decode!branch_offset
        = [width |-> 13, value |-> ((((- s) * 2 + a) * 64 + b) * 16 + c) * 2 + 0]
  BY <1>3, <1>5, <1>7, <1>8, <1>9, <1>10 DEF Decode!branch_offset
<1> QED BY <1>1, <1>2, <1>4, <1>11

LEMMA JalOffset ==
    ASSUME inst \in InstructionWord
    PROVE  Decode!jal_offset = [width |-> 21, value |-> Decode!JOffset]
<1> DEFINE s == Field(inst, 31, 31)
           a == Field(inst, 19, 12)
           b == Field(inst, 20, 20)
           c == Field(inst, 30, 21)
<1>1. s \in 0 .. 1 /\ b \in 0 .. 1 /\ c \in 0 .. 1023
  BY HighFieldsAre
<1>2. a \in 0 .. 255
  BY MiddleFieldsAre
<1>3. /\ Decode!Bits(31, 31) = Decode!Vector(1, s)
      /\ Decode!Bits(19, 12) = Decode!Vector(8, a)
      /\ Decode!Bits(20, 20) = Decode!Vector(1, b)
      /\ Decode!Bits(30, 21) = Decode!Vector(10, c)
  BY SameField DEF Decode!Bits
<1>4. Decode!JOffset = 2 * c + 2048 * b + 4096 * a - 1048576 * s
  BY SameField DEF Decode!JOffset, Decode!Part
<1> HIDE DEF s, a, b, c
<1>5. Decode!Vector(1, s) = [width |-> 1, value |-> - s]
  BY <1>1, SignBit
<1>6. /\ Decode!Unsigned(Decode!Vector(8, a)) = a
      /\ Decode!Unsigned(Decode!Vector(1, b)) = b
      /\ Decode!Unsigned(Decode!Vector(10, c)) = c
  BY <1>1, <1>2, UnsignedFields
<1>7. Decode!++([width |-> 1, value |-> - s], Decode!Vector(8, a))
        = [width |-> 9, value |-> (- s) * 256 + a]
  BY <1>6 DEF Decode!++, Decode!Vector
<1>8. Decode!++([width |-> 9, value |-> (- s) * 256 + a], Decode!Vector(1, b))
        = [width |-> 10, value |-> ((- s) * 256 + a) * 2 + b]
  BY <1>6 DEF Decode!++, Decode!Vector
<1>9. Decode!++([width |-> 10, value |-> ((- s) * 256 + a) * 2 + b], Decode!Vector(10, c))
        = [width |-> 20, value |-> (((- s) * 256 + a) * 2 + b) * 1024 + c]
  BY <1>6 DEF Decode!++, Decode!Vector
<1>10. Decode!++([width |-> 20, value |-> (((- s) * 256 + a) * 2 + b) * 1024 + c],
                 Decode!Zeros(1))
        = [width |-> 21, value |-> ((((- s) * 256 + a) * 2 + b) * 1024 + c) * 2 + 0]
  BY DEF Decode!++, Decode!Unsigned, Decode!Zeros
<1>11. Decode!jal_offset
        = [width |-> 21, value |-> ((((- s) * 256 + a) * 2 + b) * 1024 + c) * 2 + 0]
  BY <1>3, <1>5, <1>7, <1>8, <1>9, <1>10 DEF Decode!jal_offset
<1> QED BY <1>1, <1>2, <1>4, <1>11

(* A signed immediate: its value, and the sign in front of it.             *)
LEMMA IImmediateIs ==
    ASSUME inst \in InstructionWord
    PROVE  /\ Decode!Bits(31, 20) = [width |-> 12, value |-> Decode!IImmediate]
           /\ Decode!IImmediate \in -2048 .. 2047
           /\ Decode!IImmediate \div 2048 = - Field(inst, 31, 31)
           /\ Decode!Unsigned(Decode!Bits(31, 20)) = Field(inst, 31, 20)
<1> DEFINE s == Field(inst, 31, 31)
           p == Field(inst, 30, 20)
           f == Field(inst, 31, 20)
<1>1. s \in 0 .. 1 /\ p \in 0 .. 2047 /\ f = p + 2048 * s
  BY HighFieldsAre
<1>2. Decode!Bits(31, 20) = Decode!Vector(12, f)
  BY SameField DEF Decode!Bits
<1>3. Decode!IImmediate = p - 2048 * s
  BY SameField DEF Decode!IImmediate, Decode!Part
<1> HIDE DEF s, p, f
<1>4. f \in 0 .. 4095
  BY <1>1
<1>5. Decode!Unsigned(Decode!Vector(12, f)) = f
  BY <1>4, UnsignedFields
<1>6. Decode!Vector(12, f) = [width |-> 12, value |-> p - 2048 * s]
  <2>1. CASE s = 0
    BY <1>1, <2>1 DEF Decode!Vector
  <2>2. CASE s = 1
    BY <1>1, <2>2 DEF Decode!Vector
  <2> QED BY <1>1, <2>1, <2>2
<1>7. (p - 2048 * s) \div 2048 = - s
  BY <1>1
<1>8. p - 2048 * s \in -2048 .. 2047
  BY <1>1
<1> QED BY <1>2, <1>3, <1>5, <1>6, <1>7, <1>8 DEF s, f

(* What the low bits of a number are, read without a sign.                 *)
LEMMA LowBits10 ==
    ASSUME NEW c \in Int
    PROVE  Decode!Unsigned(Decode!Vector(10, c)) = c % 1024
<1> DEFINE l == c % 1024
<1>1. l \in 0 .. 1023
  OBVIOUS
<1> HIDE DEF l
<1>2. Decode!Unsigned([width |-> 10, value |-> IF l < 512 THEN l ELSE l - 1024]) = l
  <2>1. CASE l < 512
    BY <1>1, <2>1 DEF Decode!Unsigned
  <2>2. CASE ~ l < 512
    BY <1>1, <2>2 DEF Decode!Unsigned
  <2> QED BY <2>1, <2>2
<1> QED BY <1>2 DEF Decode!Vector, l

LEMMA LowBits11 ==
    ASSUME NEW c \in Int
    PROVE  Decode!Unsigned(Decode!Vector(11, c)) = c % 2048
<1> DEFINE l == c % 2048
<1>1. l \in 0 .. 2047
  OBVIOUS
<1> HIDE DEF l
<1>2. Decode!Unsigned([width |-> 11, value |-> IF l < 1024 THEN l ELSE l - 2048]) = l
  <2>1. CASE l < 1024
    BY <1>1, <2>1 DEF Decode!Unsigned
  <2>2. CASE ~ l < 1024
    BY <1>1, <2>2 DEF Decode!Unsigned
  <2> QED BY <2>1, <2>2
<1> QED BY <1>2 DEF Decode!Vector, l

LEMMA LowBits12 ==
    ASSUME NEW c \in Int
    PROVE  Decode!Unsigned(Decode!Vector(12, c)) = c % 4096
<1> DEFINE l == c % 4096
<1>1. l \in 0 .. 4095
  OBVIOUS
<1> HIDE DEF l
<1>2. Decode!Unsigned([width |-> 12, value |-> IF l < 2048 THEN l ELSE l - 4096]) = l
  <2>1. CASE l < 2048
    BY <1>1, <2>1 DEF Decode!Unsigned
  <2>2. CASE ~ l < 2048
    BY <1>1, <2>2 DEF Decode!Unsigned
  <2> QED BY <2>1, <2>2
<1> QED BY <1>2 DEF Decode!Vector, l

LEMMA BranchWords ==
    ASSUME inst \in InstructionWord
    PROVE  Decode!Unsigned(Decode!branch_words) = (Decode!BOffset \div 4) % 4096
<1> DEFINE s == Field(inst, 31, 31)
           v == Decode!BOffset
           c == v \div 4
<1>1. s \in 0 .. 1
  BY HighFieldsAre
<1>2. /\ v \in Int
      /\ v \div 4096 = - s
      /\ c \in -1024 .. 1023
      /\ c < 0 <=> s = 1
  <2> DEFINE a == Field(inst, 7, 7)
             b == Field(inst, 30, 25)
             d == Field(inst, 11, 8)
  <2>1. b \in 0 .. 63
    BY HighFieldsAre
  <2>2. a \in 0 .. 1 /\ d \in 0 .. 15
    BY LowFieldsAre
  <2>3. v = 2 * d + 32 * b + 2048 * a - 4096 * s
    BY SameField DEF Decode!BOffset, Decode!Part
  <2> HIDE DEF a, b, d, s, v
  <2>4. v \in -4096 .. 4095 /\ (v < 0 <=> s = 1)
    BY <1>1, <2>1, <2>2, <2>3
  <2>5. v \div 4096 = - s
    BY <1>1, <2>4
  <2>6. c \in -1024 .. 1023
    BY <2>4
  <2>7. c < 0 <=> v < 0
    BY <2>4
  <2> QED BY <2>4, <2>5, <2>6, <2>7
<1> HIDE DEF s, v, c
<1>3. /\ Decode!Slice(Decode!branch_offset, 12, 12) = Decode!Vector(1, v \div 4096)
      /\ Decode!Slice(Decode!branch_offset, 12, 2) = Decode!Vector(11, c)
  BY BranchOffset DEF Decode!Slice, v, c
<1>4. Decode!Vector(1, v \div 4096) = [width |-> 1, value |-> - s]
  <2>1. CASE s = 0
    BY <1>2, <2>1 DEF Decode!Vector
  <2>2. CASE s = 1
    BY <1>2, <2>2 DEF Decode!Vector
  <2> QED BY <1>1, <2>1, <2>2
<1>5. Decode!Unsigned(Decode!Vector(11, c)) = c % 2048
  BY <1>2, LowBits11
<1>6. (- s) * 2048 + (c % 2048) = c
  BY <1>1, <1>2
<1>7. Decode!++([width |-> 1, value |-> - s], Decode!Vector(11, c))
        = [width |-> 12, value |-> (- s) * 2048 + (c % 2048)]
  BY <1>5 DEF Decode!++, Decode!Vector
<1>8. Decode!branch_words = [width |-> 12, value |-> c]
  BY <1>3, <1>4, <1>6, <1>7 DEF Decode!branch_words
<1> QED BY <1>8 DEF Decode!Unsigned, c, v

LEMMA JalWords ==
    ASSUME inst \in InstructionWord
    PROVE  Decode!Unsigned(Decode!jal_words) = (Decode!JOffset \div 4) % 4096
<1> DEFINE v == Decode!JOffset
           c == v \div 4
<1>1. v \in Int
  <2> DEFINE s == Field(inst, 31, 31)
             a == Field(inst, 19, 12)
             b == Field(inst, 20, 20)
             d == Field(inst, 30, 21)
  <2>1. s \in 0 .. 1 /\ b \in 0 .. 1 /\ d \in 0 .. 1023
    BY HighFieldsAre
  <2>2. a \in 0 .. 255
    BY MiddleFieldsAre
  <2>3. v = 2 * d + 2048 * b + 4096 * a - 1048576 * s
    BY SameField DEF Decode!JOffset, Decode!Part
  <2> HIDE DEF s, a, b, d, v
  <2> QED BY <2>1, <2>2, <2>3
<1> HIDE DEF v, c
<1>2. Decode!jal_words = Decode!Vector(12, c)
  BY JalOffset DEF Decode!jal_words, Decode!Slice, v, c
<1>3. c \in Int
  BY <1>1 DEF c
<1>4. Decode!Unsigned(Decode!Vector(12, c)) = c % 4096
  BY <1>3, LowBits12
<1> QED BY <1>2, <1>4 DEF c, v

LEMMA JalrWords ==
    ASSUME inst \in InstructionWord
    PROVE  Decode!Unsigned(Decode!jalr_words) = (Decode!IImmediate \div 4) % 4096
<1> DEFINE s == Field(inst, 31, 31)
           v == Decode!IImmediate
           c == v \div 4
<1>1. s \in 0 .. 1
  BY HighFieldsAre
<1>2. v \in -2048 .. 2047 /\ v \div 2048 = - s
  BY IImmediateIs
<1>3. Decode!jalr_offset = [width |-> 12, value |-> v]
  BY IImmediateIs DEF Decode!jalr_offset
<1> HIDE DEF s, v
<1>4. c \in -512 .. 511 /\ (c < 0 <=> s = 1)
  BY <1>1, <1>2
<1> HIDE DEF c
<1>5. /\ Decode!Slice(Decode!jalr_offset, 11, 11) = Decode!Vector(1, v \div 2048)
      /\ Decode!Slice(Decode!jalr_offset, 11, 2) = Decode!Vector(10, c)
  BY <1>3 DEF Decode!Slice, c
<1>6. Decode!Vector(1, v \div 2048) = [width |-> 1, value |-> - s]
  <2>1. CASE s = 0
    BY <1>2, <2>1 DEF Decode!Vector
  <2>2. CASE s = 1
    BY <1>2, <2>2 DEF Decode!Vector
  <2> QED BY <1>1, <2>1, <2>2
<1>7. Decode!Unsigned(Decode!Vector(10, c)) = c % 1024
  BY <1>4, LowBits10
<1>8. (- s) * 1024 + (c % 1024) = c
  BY <1>1, <1>4
<1>9. Decode!++([width |-> 2, value |-> - s], Decode!Vector(10, c))
        = [width |-> 12, value |-> (- s) * 1024 + (c % 1024)]
  BY <1>7 DEF Decode!++, Decode!Vector
<1>10. Decode!jalr_words = [width |-> 12, value |-> c]
  BY <1>5, <1>6, <1>8, <1>9 DEF Decode!jalr_words, Decode!Replicate
<1> QED BY <1>10 DEF Decode!Unsigned, c, v

LEMMA WidenedImmediates ==
    ASSUME inst \in InstructionWord
    PROVE  Decode!ImmediatesWidened
<1>1. Decode!imm12_32 = [width |-> 32, value |-> Decode!IImmediate]
  <2> DEFINE s == Field(inst, 31, 31)
             v == Decode!IImmediate
             f == Field(inst, 31, 20)
  <2>1. s \in 0 .. 1 /\ f = Field(inst, 30,
                                  20) + 2048 * s /\ Field(inst, 30, 20) \in 0 .. 2047
    BY HighFieldsAre
  <2>2. v \in -2048 .. 2047 /\ v \div 2048 = - s
    BY IImmediateIs
  <2>3. /\ Decode!imm12 = [width |-> 12, value |-> v]
        /\ Decode!Unsigned([width |-> 12, value |-> v]) = f
    BY IImmediateIs DEF Decode!imm12
  <2>4. v = Field(inst, 30, 20) - 2048 * s
    BY SameField DEF Decode!IImmediate, Decode!Part
  <2> HIDE DEF s, v, f
  <2>5. (- s) * 4096 + f = v
    BY <2>1, <2>4
  <2>6. Decode!Slice(Decode!imm12, 11, 11) = Decode!Vector(1, v \div 2048)
    BY <2>3 DEF Decode!Slice
  <2>7. Decode!Vector(1, v \div 2048) = [width |-> 1, value |-> - s]
    <3>1. CASE s = 0
      BY <2>2, <3>1 DEF Decode!Vector
    <3>2. CASE s = 1
      BY <2>2, <3>2 DEF Decode!Vector
    <3> QED BY <2>1, <3>1, <3>2
  <2>8. Decode!++([width |-> 20, value |-> - s], [width |-> 12, value |-> v])
          = [width |-> 32, value |-> (- s) * 4096 + f]
    BY <2>3 DEF Decode!++
  <2> QED BY <2>3, <2>5, <2>6, <2>7, <2>8 DEF Decode!imm12_32, Decode!Replicate, v
<1>2. Decode!imm20_SL = [width |-> 32, value |-> Decode!UImmediate]
  <2> DEFINE s == Field(inst, 31, 31)
             p == Field(inst, 30, 12)
             f == Field(inst, 31, 12)
  <2>1. s \in 0 .. 1
    BY HighFieldsAre
  <2>2. p \in 0 .. 2 ^ 19 - 1 /\ f = p + 524288 * s
    BY MiddleFieldsAre
  <2>3. Decode!imm20 = Decode!Vector(20, f)
    BY SameField DEF Decode!imm20, Decode!Bits
  <2>4. Decode!UImmediate = (p - 524288 * s) * 4096
    BY SameField DEF Decode!UImmediate, Decode!Part
  <2> HIDE DEF s, p, f
  <2>5. Decode!Vector(20, f) = [width |-> 20, value |-> p - 524288 * s]
    <3>1. CASE s = 0
      BY <2>1, <2>2, <3>1 DEF Decode!Vector
    <3>2. CASE s = 1
      BY <2>1, <2>2, <3>2 DEF Decode!Vector
    <3> QED BY <2>1, <3>1, <3>2
  <2>6. Decode!++([width |-> 20, value |-> p - 524288 * s], Decode!Zeros(12))
          = [width |-> 32, value |-> (p - 524288 * s) * 4096 + 0]
    BY DEF Decode!++, Decode!Unsigned, Decode!Zeros
  <2>7. (p - 524288 * s) * 4096 + 0 = (p - 524288 * s) * 4096
    BY <2>1, <2>2
  <2> QED BY <2>3, <2>4, <2>5, <2>6, <2>7 DEF Decode!imm20_SL
<1> QED BY <1>1, <1>2 DEF Decode!ImmediatesWidened

LEMMA OffsetsOfJumps ==
    ASSUME inst \in InstructionWord
    PROVE  Decode!OffsetsInWords
BY BranchWords, JalWords, JalrWords DEF Decode!OffsetsInWords

-----------------------------------------------------------------------------
(* The table of operations. *)
LEMMA RowOf ==
    ASSUME NEW r \in Rows, NEW op \in r.ops
    PROVE  op \in Ops /\ opcode_data[op] = r
<1>1. op \in Ops
  BY DEF Ops
<1>2. \A s \in Rows : op \in s.ops => s = r
  BY OneRowAssumption
<1>3. (CHOOSE s \in Rows : op \in s.ops) = r
  BY <1>2
<1> QED BY <1>1, <1>3 DEF opcode_data

(* The operands an instruction has: the codecs of the 32-bit instructions, *)
(* and those of the compressed ones.                                       *)
WholeCodecs ==
    {"illegal", "none", "u", "uj", "i", "i_sh5", "i_sh6", "i_sh7", "i_csr", "s", "sb",
     "r", "r_m", "r4_m", "r_a", "r_l", "r_f"}

(* The formats of atomic and floating-point instructions.                  *)
FloatFormats ==
    {"aqrl_rd_rs1", "aqrl_rd_rs2_rs1", "frd_offset_rs1", "frs2_offset_rs1",
     "rm_frd_frs1_frs2_frs3", "rm_frd_frs1_frs2", "frd_frs1_frs2", "rm_frd_frs1",
     "rd_frs1_frs2", "rm_rd_frs1", "rm_frd_rs1", "rd_frs1", "frd_rs1"}

LEMMA IntegerRowsAre ==
    ASSUME NEW r \in IntegerRows \union SystemRows
    PROVE  r \in Rows /\ r.codec \in WholeCodecs /\ r.format \notin FloatFormats
<1>1. r \in Rows
  BY DEF Rows
<1>2. r.codec \in WholeCodecs
  BY DEF IntegerRows, SystemRows, Row, WholeCodecs
<1>3. r.format \notin FloatFormats
  BY DEF IntegerRows, SystemRows, Row, FloatFormats
<1> QED BY <1>1, <1>2, <1>3

LEMMA FloatRowsAre ==
    ASSUME NEW r \in AtomicRows \union FloatRows
    PROVE  r \in Rows /\ r.codec \in WholeCodecs /\ r.format \in FloatFormats
<1>1. r \in Rows
  BY DEF Rows
<1>2. r.codec \in WholeCodecs
  BY DEF AtomicRows, FloatRows, Row, WholeCodecs
<1>3. r.format \in FloatFormats
  BY DEF AtomicRows, FloatRows, Row, FloatFormats
<1> QED BY <1>1, <1>2, <1>3

LEMMA CompressedRowsAre ==
    ASSUME NEW r \in CompressedRows
    PROVE  r \in Rows /\ r.codec \notin WholeCodecs
<1>1. r \in Rows
  BY DEF Rows
<1>2. r.codec \notin WholeCodecs
  BY DEF CompressedRows, Row, WholeCodecs
<1> QED BY <1>1, <1>2

(* No 32-bit operation is a compressed one; no atomic or floating-point    *)
(* operation is an integer or system one.                                  *)
LEMMA Apart ==
    ASSUME NEW op
    PROVE  /\ op \in UNION {r.ops : r \in IntegerRows \union SystemRows
                                         \union AtomicRows \union FloatRows}
                 => op \notin Compressed
           /\ op \in UNION {r.ops : r \in AtomicRows \union FloatRows}
                 => op \notin UNION {r.ops : r \in IntegerRows \union SystemRows}
<1>1. ASSUME NEW r \in IntegerRows \union SystemRows \union AtomicRows \union FloatRows,
             NEW s \in CompressedRows, op \in r.ops, op \in s.ops
      PROVE  FALSE
  BY <1>1, IntegerRowsAre, FloatRowsAre, CompressedRowsAre, RowOf
<1>2. ASSUME NEW r \in AtomicRows \union FloatRows,
             NEW s \in IntegerRows \union SystemRows, op \in r.ops, op \in s.ops
      PROVE  FALSE
  BY <1>2, IntegerRowsAre, FloatRowsAre, RowOf
<1> QED BY <1>1, <1>2 DEF Compressed

(* The operations of the integer and system rows, with their codecs.       *)
IntegerOps == UNION {r.ops : r \in IntegerRows \union SystemRows}
FloatOps == UNION {r.ops : r \in AtomicRows \union FloatRows}

LEMMA CodecOf ==
    /\ \A op \in {"illegal"} :
            op \in IntegerOps /\ opcode_data[op].codec = "illegal"
    /\ \A op \in {"lui"} :
            op \in IntegerOps /\ opcode_data[op].codec = "u"
    /\ \A op \in {"auipc"} :
            op \in IntegerOps /\ opcode_data[op].codec = "u"
    /\ \A op \in {"jal"} :
            op \in IntegerOps /\ opcode_data[op].codec = "uj"
    /\ \A op \in {"jalr"} :
            op \in IntegerOps /\ opcode_data[op].codec = "i"
    /\ \A op \in {"beq", "bne", "blt", "bge", "bltu", "bgeu"} :
            op \in IntegerOps /\ opcode_data[op].codec = "sb"
    /\ \A op \in {"lb", "lh", "lw", "lbu", "lhu", "lwu", "ld", "ldu", "lq"} :
            op \in IntegerOps /\ opcode_data[op].codec = "i"
    /\ \A op \in {"sb", "sh", "sw", "sd", "sq"} :
            op \in IntegerOps /\ opcode_data[op].codec = "s"
    /\ \A op \in {"addi", "slti", "sltiu", "xori", "ori", "andi", "addiw",
                   "addid"} :
            op \in IntegerOps /\ opcode_data[op].codec = "i"
    /\ \A op \in {"slli", "srli", "srai"} :
            op \in IntegerOps /\ opcode_data[op].codec = "i_sh7"
    /\ \A op \in {"slliw", "srliw", "sraiw"} :
            op \in IntegerOps /\ opcode_data[op].codec = "i_sh5"
    /\ \A op \in {"sllid", "srlid", "sraid"} :
            op \in IntegerOps /\ opcode_data[op].codec = "i_sh6"
    /\ \A op \in {"add", "sub", "sll", "slt", "sltu", "xor", "srl", "sra",
                   "or", "and", "mul", "mulh", "mulhsu", "mulhu", "div", "divu",
                   "rem", "remu", "addw", "subw", "sllw", "srlw", "sraw", "mulw",
                   "divw", "divuw", "remw", "remuw", "addd", "subd", "slld",
                   "srld", "srad", "muld", "divd", "divud", "remd", "remud"} :
            op \in IntegerOps /\ opcode_data[op].codec = "r"
    /\ \A op \in {"fence"} :
            op \in IntegerOps /\ opcode_data[op].codec = "r_f"
    /\ \A op \in {"fence_i"} :
            op \in IntegerOps /\ opcode_data[op].codec = "none"
    /\ \A op \in {"ecall", "ebreak", "uret", "sret", "hret", "mret", "dret",
                   "wfi"} :
            op \in IntegerOps /\ opcode_data[op].codec = "none"
    /\ \A op \in {"sfence_vm"} :
            op \in IntegerOps /\ opcode_data[op].codec = "r"
    /\ \A op \in {"sfence_vma"} :
            op \in IntegerOps /\ opcode_data[op].codec = "r"
    /\ \A op \in {"csrrw", "csrrs", "csrrc"} :
            op \in IntegerOps /\ opcode_data[op].codec = "i_csr"
    /\ \A op \in {"csrrwi", "csrrsi", "csrrci"} :
            op \in IntegerOps /\ opcode_data[op].codec = "i_csr"
<1>1. \A op \in {"illegal"} :
        op \in IntegerOps /\ opcode_data[op].codec = "illegal"
  <2> DEFINE S == {"illegal"}
  <2> DEFINE r == Row("illegal", "none", S)
  <2>1. r \in IntegerRows
    BY DEF IntegerRows
  <2>2. r.ops = S /\ r.codec = "illegal"
    BY DEF Row
  <2> HIDE DEF S, r
  <2>3. \A op \in S : op \in IntegerOps /\ opcode_data[op] = r
    BY <2>1, <2>2, IntegerRowsAre, RowOf DEF IntegerOps
  <2> QED BY <2>2, <2>3 DEF S
<1>2. \A op \in {"lui"} :
        op \in IntegerOps /\ opcode_data[op].codec = "u"
  <2> DEFINE S == {"lui"}
  <2> DEFINE r == Row("u", "rd_imm", S)
  <2>1. r \in IntegerRows
    BY DEF IntegerRows
  <2>2. r.ops = S /\ r.codec = "u"
    BY DEF Row
  <2> HIDE DEF S, r
  <2>3. \A op \in S : op \in IntegerOps /\ opcode_data[op] = r
    BY <2>1, <2>2, IntegerRowsAre, RowOf DEF IntegerOps
  <2> QED BY <2>2, <2>3 DEF S
<1>3. \A op \in {"auipc"} :
        op \in IntegerOps /\ opcode_data[op].codec = "u"
  <2> DEFINE S == {"auipc"}
  <2> DEFINE r == Row("u", "rd_offset", S)
  <2>1. r \in IntegerRows
    BY DEF IntegerRows
  <2>2. r.ops = S /\ r.codec = "u"
    BY DEF Row
  <2> HIDE DEF S, r
  <2>3. \A op \in S : op \in IntegerOps /\ opcode_data[op] = r
    BY <2>1, <2>2, IntegerRowsAre, RowOf DEF IntegerOps
  <2> QED BY <2>2, <2>3 DEF S
<1>4. \A op \in {"jal"} :
        op \in IntegerOps /\ opcode_data[op].codec = "uj"
  <2> DEFINE S == {"jal"}
  <2> DEFINE r == Row("uj", "rd_offset", S)
  <2>1. r \in IntegerRows
    BY DEF IntegerRows
  <2>2. r.ops = S /\ r.codec = "uj"
    BY DEF Row
  <2> HIDE DEF S, r
  <2>3. \A op \in S : op \in IntegerOps /\ opcode_data[op] = r
    BY <2>1, <2>2, IntegerRowsAre, RowOf DEF IntegerOps
  <2> QED BY <2>2, <2>3 DEF S
<1>5. \A op \in {"jalr"} :
        op \in IntegerOps /\ opcode_data[op].codec = "i"
  <2> DEFINE S == {"jalr"}
  <2> DEFINE r == Row("i", "rd_rs1_offset", S)
  <2>1. r \in IntegerRows
    BY DEF IntegerRows
  <2>2. r.ops = S /\ r.codec = "i"
    BY DEF Row
  <2> HIDE DEF S, r
  <2>3. \A op \in S : op \in IntegerOps /\ opcode_data[op] = r
    BY <2>1, <2>2, IntegerRowsAre, RowOf DEF IntegerOps
  <2> QED BY <2>2, <2>3 DEF S
<1>6. \A op \in {"beq", "bne", "blt", "bge", "bltu", "bgeu"} :
        op \in IntegerOps /\ opcode_data[op].codec = "sb"
  <2> DEFINE S == {"beq", "bne", "blt", "bge", "bltu", "bgeu"}
  <2> DEFINE r == Row("sb", "rs1_rs2_offset", S)
  <2>1. r \in IntegerRows
    BY DEF IntegerRows
  <2>2. r.ops = S /\ r.codec = "sb"
    BY DEF Row
  <2> HIDE DEF S, r
  <2>3. \A op \in S : op \in IntegerOps /\ opcode_data[op] = r
    BY <2>1, <2>2, IntegerRowsAre, RowOf DEF IntegerOps
  <2> QED BY <2>2, <2>3 DEF S
<1>7. \A op \in {"lb", "lh", "lw", "lbu", "lhu", "lwu", "ld", "ldu", "lq"} :
        op \in IntegerOps /\ opcode_data[op].codec = "i"
  <2> DEFINE S == {"lb", "lh", "lw", "lbu", "lhu", "lwu", "ld", "ldu", "lq"}
  <2> DEFINE r == Row("i", "rd_offset_rs1", S)
  <2>1. r \in IntegerRows
    BY DEF IntegerRows
  <2>2. r.ops = S /\ r.codec = "i"
    BY DEF Row
  <2> HIDE DEF S, r
  <2>3. \A op \in S : op \in IntegerOps /\ opcode_data[op] = r
    BY <2>1, <2>2, IntegerRowsAre, RowOf DEF IntegerOps
  <2> QED BY <2>2, <2>3 DEF S
<1>8. \A op \in {"sb", "sh", "sw", "sd", "sq"} :
        op \in IntegerOps /\ opcode_data[op].codec = "s"
  <2> DEFINE S == {"sb", "sh", "sw", "sd", "sq"}
  <2> DEFINE r == Row("s", "rs2_offset_rs1", S)
  <2>1. r \in IntegerRows
    BY DEF IntegerRows
  <2>2. r.ops = S /\ r.codec = "s"
    BY DEF Row
  <2> HIDE DEF S, r
  <2>3. \A op \in S : op \in IntegerOps /\ opcode_data[op] = r
    BY <2>1, <2>2, IntegerRowsAre, RowOf DEF IntegerOps
  <2> QED BY <2>2, <2>3 DEF S
<1>9. \A op \in {"addi", "slti", "sltiu", "xori", "ori", "andi", "addiw",
                "addid"} :
        op \in IntegerOps /\ opcode_data[op].codec = "i"
  <2> DEFINE S == {"addi", "slti", "sltiu", "xori", "ori", "andi", "addiw",
                   "addid"}
  <2> DEFINE r == Row("i", "rd_rs1_imm", S)
  <2>1. r \in IntegerRows
    BY DEF IntegerRows
  <2>2. r.ops = S /\ r.codec = "i"
    BY DEF Row
  <2> HIDE DEF S, r
  <2>3. \A op \in S : op \in IntegerOps /\ opcode_data[op] = r
    BY <2>1, <2>2, IntegerRowsAre, RowOf DEF IntegerOps
  <2> QED BY <2>2, <2>3 DEF S
<1>10. \A op \in {"slli", "srli", "srai"} :
        op \in IntegerOps /\ opcode_data[op].codec = "i_sh7"
  <2> DEFINE S == {"slli", "srli", "srai"}
  <2> DEFINE r == Row("i_sh7", "rd_rs1_imm", S)
  <2>1. r \in IntegerRows
    BY DEF IntegerRows
  <2>2. r.ops = S /\ r.codec = "i_sh7"
    BY DEF Row
  <2> HIDE DEF S, r
  <2>3. \A op \in S : op \in IntegerOps /\ opcode_data[op] = r
    BY <2>1, <2>2, IntegerRowsAre, RowOf DEF IntegerOps
  <2> QED BY <2>2, <2>3 DEF S
<1>11. \A op \in {"slliw", "srliw", "sraiw"} :
        op \in IntegerOps /\ opcode_data[op].codec = "i_sh5"
  <2> DEFINE S == {"slliw", "srliw", "sraiw"}
  <2> DEFINE r == Row("i_sh5", "rd_rs1_imm", S)
  <2>1. r \in IntegerRows
    BY DEF IntegerRows
  <2>2. r.ops = S /\ r.codec = "i_sh5"
    BY DEF Row
  <2> HIDE DEF S, r
  <2>3. \A op \in S : op \in IntegerOps /\ opcode_data[op] = r
    BY <2>1, <2>2, IntegerRowsAre, RowOf DEF IntegerOps
  <2> QED BY <2>2, <2>3 DEF S
<1>12. \A op \in {"sllid", "srlid", "sraid"} :
        op \in IntegerOps /\ opcode_data[op].codec = "i_sh6"
  <2> DEFINE S == {"sllid", "srlid", "sraid"}
  <2> DEFINE r == Row("i_sh6", "rd_rs1_imm", S)
  <2>1. r \in IntegerRows
    BY DEF IntegerRows
  <2>2. r.ops = S /\ r.codec = "i_sh6"
    BY DEF Row
  <2> HIDE DEF S, r
  <2>3. \A op \in S : op \in IntegerOps /\ opcode_data[op] = r
    BY <2>1, <2>2, IntegerRowsAre, RowOf DEF IntegerOps
  <2> QED BY <2>2, <2>3 DEF S
<1>13. \A op \in {"add", "sub", "sll", "slt", "sltu", "xor", "srl", "sra",
                "or", "and", "mul", "mulh", "mulhsu", "mulhu", "div", "divu",
                "rem", "remu", "addw", "subw", "sllw", "srlw", "sraw", "mulw",
                "divw", "divuw", "remw", "remuw", "addd", "subd", "slld",
                "srld", "srad", "muld", "divd", "divud", "remd", "remud"} :
        op \in IntegerOps /\ opcode_data[op].codec = "r"
  <2> DEFINE S == {"add", "sub", "sll", "slt", "sltu", "xor", "srl", "sra",
                   "or", "and", "mul", "mulh", "mulhsu", "mulhu", "div", "divu",
                   "rem", "remu", "addw", "subw", "sllw", "srlw", "sraw", "mulw",
                   "divw", "divuw", "remw", "remuw", "addd", "subd", "slld",
                   "srld", "srad", "muld", "divd", "divud", "remd", "remud"}
  <2> DEFINE r == Row("r", "rd_rs1_rs2", S)
  <2>1. r \in IntegerRows
    BY DEF IntegerRows
  <2>2. r.ops = S /\ r.codec = "r"
    BY DEF Row
  <2> HIDE DEF S, r
  <2>3. \A op \in S : op \in IntegerOps /\ opcode_data[op] = r
    BY <2>1, <2>2, IntegerRowsAre, RowOf DEF IntegerOps
  <2> QED BY <2>2, <2>3 DEF S
<1>14. \A op \in {"fence"} :
        op \in IntegerOps /\ opcode_data[op].codec = "r_f"
  <2> DEFINE S == {"fence"}
  <2> DEFINE r == Row("r_f", "pred_succ", S)
  <2>1. r \in IntegerRows
    BY DEF IntegerRows
  <2>2. r.ops = S /\ r.codec = "r_f"
    BY DEF Row
  <2> HIDE DEF S, r
  <2>3. \A op \in S : op \in IntegerOps /\ opcode_data[op] = r
    BY <2>1, <2>2, IntegerRowsAre, RowOf DEF IntegerOps
  <2> QED BY <2>2, <2>3 DEF S
<1>15. \A op \in {"fence_i"} :
        op \in IntegerOps /\ opcode_data[op].codec = "none"
  <2> DEFINE S == {"fence_i"}
  <2> DEFINE r == Row("none", "none", S)
  <2>1. r \in IntegerRows
    BY DEF IntegerRows
  <2>2. r.ops = S /\ r.codec = "none"
    BY DEF Row
  <2> HIDE DEF S, r
  <2>3. \A op \in S : op \in IntegerOps /\ opcode_data[op] = r
    BY <2>1, <2>2, IntegerRowsAre, RowOf DEF IntegerOps
  <2> QED BY <2>2, <2>3 DEF S
<1>16. \A op \in {"ecall", "ebreak", "uret", "sret", "hret", "mret", "dret",
                "wfi"} :
        op \in IntegerOps /\ opcode_data[op].codec = "none"
  <2> DEFINE S == {"ecall", "ebreak", "uret", "sret", "hret", "mret", "dret",
                   "wfi"}
  <2> DEFINE r == Row("none", "none", S)
  <2>1. r \in SystemRows
    BY DEF SystemRows
  <2>2. r.ops = S /\ r.codec = "none"
    BY DEF Row
  <2> HIDE DEF S, r
  <2>3. \A op \in S : op \in IntegerOps /\ opcode_data[op] = r
    BY <2>1, <2>2, IntegerRowsAre, RowOf DEF IntegerOps
  <2> QED BY <2>2, <2>3 DEF S
<1>17. \A op \in {"sfence_vm"} :
        op \in IntegerOps /\ opcode_data[op].codec = "r"
  <2> DEFINE S == {"sfence_vm"}
  <2> DEFINE r == Row("r", "rs1", S)
  <2>1. r \in SystemRows
    BY DEF SystemRows
  <2>2. r.ops = S /\ r.codec = "r"
    BY DEF Row
  <2> HIDE DEF S, r
  <2>3. \A op \in S : op \in IntegerOps /\ opcode_data[op] = r
    BY <2>1, <2>2, IntegerRowsAre, RowOf DEF IntegerOps
  <2> QED BY <2>2, <2>3 DEF S
<1>18. \A op \in {"sfence_vma"} :
        op \in IntegerOps /\ opcode_data[op].codec = "r"
  <2> DEFINE S == {"sfence_vma"}
  <2> DEFINE r == Row("r", "rs1_rs2", S)
  <2>1. r \in SystemRows
    BY DEF SystemRows
  <2>2. r.ops = S /\ r.codec = "r"
    BY DEF Row
  <2> HIDE DEF S, r
  <2>3. \A op \in S : op \in IntegerOps /\ opcode_data[op] = r
    BY <2>1, <2>2, IntegerRowsAre, RowOf DEF IntegerOps
  <2> QED BY <2>2, <2>3 DEF S
<1>19. \A op \in {"csrrw", "csrrs", "csrrc"} :
        op \in IntegerOps /\ opcode_data[op].codec = "i_csr"
  <2> DEFINE S == {"csrrw", "csrrs", "csrrc"}
  <2> DEFINE r == Row("i_csr", "rd_csr_rs1", S)
  <2>1. r \in SystemRows
    BY DEF SystemRows
  <2>2. r.ops = S /\ r.codec = "i_csr"
    BY DEF Row
  <2> HIDE DEF S, r
  <2>3. \A op \in S : op \in IntegerOps /\ opcode_data[op] = r
    BY <2>1, <2>2, IntegerRowsAre, RowOf DEF IntegerOps
  <2> QED BY <2>2, <2>3 DEF S
<1>20. \A op \in {"csrrwi", "csrrsi", "csrrci"} :
        op \in IntegerOps /\ opcode_data[op].codec = "i_csr"
  <2> DEFINE S == {"csrrwi", "csrrsi", "csrrci"}
  <2> DEFINE r == Row("i_csr", "rd_csr_zimm", S)
  <2>1. r \in SystemRows
    BY DEF SystemRows
  <2>2. r.ops = S /\ r.codec = "i_csr"
    BY DEF Row
  <2> HIDE DEF S, r
  <2>3. \A op \in S : op \in IntegerOps /\ opcode_data[op] = r
    BY <2>1, <2>2, IntegerRowsAre, RowOf DEF IntegerOps
  <2> QED BY <2>2, <2>3 DEF S
<1> QED BY <1>1, <1>2, <1>3, <1>4, <1>5, <1>6, <1>7, <1>8, <1>9, <1>10, <1>11, <1>12, <1>13,
           <1>14, <1>15, <1>16, <1>17, <1>18, <1>19, <1>20

LEMMA IllegalIsInteger == "illegal" \in IntegerOps
BY CodecOf

LEMMA MoreFields ==
    ASSUME NEW w \in InstructionWord
    PROVE  /\ Field(w, 31, 25) \in 0 .. 127
           /\ Field(w, 31, 20) \in 0 .. 4095
           /\ funct3(w) \in 0 .. 7 /\ funct7(w) \in 0 .. 127
           /\ funct10(w) = 8 * funct7(w) + funct3(w)
<1>1. Field(w, 31, 25) \in 0 .. 127 /\ Field(w, 31, 20) \in 0 .. 4095
  BY HighFieldsAre
<1>2. Field(w, 14, 12) \in 0 .. 7
  BY LowFieldsAre
<1> QED BY <1>1, <1>2 DEF funct3, funct7, funct10

LEMMA LoadIs ==
    ASSUME NEW w \in InstructionWord
    PROVE  /\ Load(w) \in {"lb", "lh", "lw", "ld", "lbu", "lhu", "lwu", "ldu", "illegal"}
           /\ LoadFp(w) \in {"flw", "fld", "flq", "illegal"}
           /\ MiscMem(w) \in {"fence", "fence_i", "lq", "illegal"}
           /\ Store(w) \in {"sb", "sh", "sw", "sd", "sq", "illegal"}
           /\ StoreFp(w) \in {"fsw", "fsd", "fsq", "illegal"}
<1>1. funct3(w) \in 0 .. 7
  BY MoreFields
<1>2. Load(w) \in {"lb", "lh", "lw", "ld", "lbu", "lhu", "lwu", "ldu", "illegal"}
  BY <1>1 DEF Load, At
<1>3. LoadFp(w) \in {"flw", "fld", "flq", "illegal"}
  BY <1>1 DEF LoadFp, At
<1>4. MiscMem(w) \in {"fence", "fence_i", "lq", "illegal"}
  BY <1>1 DEF MiscMem, At
<1>5. Store(w) \in {"sb", "sh", "sw", "sd", "sq", "illegal"}
  BY <1>1 DEF Store, At
<1>6. StoreFp(w) \in {"fsw", "fsd", "fsq", "illegal"}
  BY <1>1 DEF StoreFp, At
<1> QED BY <1>2, <1>3, <1>4, <1>5, <1>6

LEMMA EachHas ==
    ASSUME NEW N, NEW S, NEW a \in N, NEW b \in S
    PROVE  a \o b \in Each(N, S)
BY DEF Each

(* The operations of the atomic and floating-point rows: a name and a      *)
(* suffix, or a name.                                                      *)
LEMMA FloatNames ==
    /\ \A name \in {"lr_"}, suffix \in {"w", "d", "q"} :
            name \o suffix \in FloatOps
    /\ \A name \in {"sc_", "amoswap_", "amoadd_", "amoxor_", "amoor_",
                    "amoand_", "amomin_", "amomax_", "amominu_", "amomaxu_"},
            suffix \in {"w", "d", "q"} :
            name \o suffix \in FloatOps
    /\ \A name \in {"fmadd_", "fmsub_", "fnmsub_", "fnmadd_"}, suffix \in FP :
            name \o suffix \in FloatOps
    /\ \A name \in {"fadd_", "fsub_", "fmul_", "fdiv_"}, suffix \in FP :
            name \o suffix \in FloatOps
    /\ \A name \in {"fsgnj_", "fsgnjn_", "fsgnjx_", "fmin_", "fmax_"}, suffix \in FP :
            name \o suffix \in FloatOps
    /\ \A name \in {"fle_", "flt_", "feq_"}, suffix \in FP :
            name \o suffix \in FloatOps
    /\ \A name \in {"fcvt_w_", "fcvt_wu_", "fcvt_l_", "fcvt_lu_"}, suffix \in FP :
            name \o suffix \in FloatOps
    /\ \A name \in {"fcvt_s_", "fcvt_d_", "fcvt_q_"}, suffix \in {"w", "wu", "l", "lu"} :
            name \o suffix \in FloatOps
    /\ \A name \in {"fmv_x_", "fclass_"}, suffix \in FP :
            name \o suffix \in FloatOps
    /\ {"flw", "fld", "flq"} \subseteq FloatOps
    /\ {"fsw", "fsd", "fsq"} \subseteq FloatOps
    /\ {"fmv_s_x", "fmv_d_x", "fmv_q_x"} \subseteq FloatOps
    /\ \A suffix \in FP : "fsqrt_" \o suffix \in FloatOps
    /\ {"fcvt_s_d", "fcvt_s_q", "fcvt_d_s", "fcvt_d_q", "fcvt_q_s",
        "fcvt_q_d"} \subseteq FloatOps
<1>1. \A name \in {"lr_"}, suffix \in {"w", "d", "q"} :
        name \o suffix \in FloatOps
  <2> DEFINE S == {"lr_"}
             r == Row("r_l", "aqrl_rd_rs1", Each(S, {"w", "d", "q"}))
  <2>1. r \in AtomicRows
    BY DEF AtomicRows
  <2>2. r.ops = Each(S, {"w", "d", "q"})
    BY DEF Row
  <2> HIDE DEF S, r
  <2>3. \A name \in S, suffix \in {"w", "d",
                                   "q"} : name \o suffix \in Each(S, {"w", "d", "q"})
    BY EachHas
  <2> QED BY <2>1, <2>2, <2>3 DEF FloatOps, S
<1>2. \A name \in {"sc_", "amoswap_", "amoadd_", "amoxor_", "amoor_", "amoand_",
                 "amomin_", "amomax_", "amominu_", "amomaxu_"},
            suffix \in {"w", "d", "q"} :
        name \o suffix \in FloatOps
  <2> DEFINE S == {"sc_", "amoswap_", "amoadd_", "amoxor_", "amoor_", "amoand_",
                 "amomin_", "amomax_", "amominu_", "amomaxu_"}
             r == Row("r_a", "aqrl_rd_rs2_rs1", Each(S, {"w", "d", "q"}))
  <2>1. r \in AtomicRows
    BY DEF AtomicRows
  <2>2. r.ops = Each(S, {"w", "d", "q"})
    BY DEF Row
  <2> HIDE DEF S, r
  <2>3. \A name \in S, suffix \in {"w", "d",
                                   "q"} : name \o suffix \in Each(S, {"w", "d", "q"})
    BY EachHas
  <2> QED BY <2>1, <2>2, <2>3 DEF FloatOps, S
<1>3. \A name \in {"fmadd_", "fmsub_", "fnmsub_", "fnmadd_"}, suffix \in FP :
        name \o suffix \in FloatOps
  <2> DEFINE S == {"fmadd_", "fmsub_", "fnmsub_", "fnmadd_"}
             r == Row("r4_m", "rm_frd_frs1_frs2_frs3", Each(S, FP))
  <2>1. r \in FloatRows
    BY DEF FloatRows
  <2>2. r.ops = Each(S, FP)
    BY DEF Row
  <2> HIDE DEF S, r
  <2>3. \A name \in S, suffix \in FP : name \o suffix \in Each(S, FP)
    BY EachHas
  <2> QED BY <2>1, <2>2, <2>3 DEF FloatOps, S
<1>4. \A name \in {"fadd_", "fsub_", "fmul_", "fdiv_"}, suffix \in FP :
        name \o suffix \in FloatOps
  <2> DEFINE S == {"fadd_", "fsub_", "fmul_", "fdiv_"}
             r == Row("r_m", "rm_frd_frs1_frs2", Each(S, FP))
  <2>1. r \in FloatRows
    BY DEF FloatRows
  <2>2. r.ops = Each(S, FP)
    BY DEF Row
  <2> HIDE DEF S, r
  <2>3. \A name \in S, suffix \in FP : name \o suffix \in Each(S, FP)
    BY EachHas
  <2> QED BY <2>1, <2>2, <2>3 DEF FloatOps, S
<1>5. \A name \in {"fsgnj_", "fsgnjn_", "fsgnjx_", "fmin_", "fmax_"}, suffix \in FP :
        name \o suffix \in FloatOps
  <2> DEFINE S == {"fsgnj_", "fsgnjn_", "fsgnjx_", "fmin_", "fmax_"}
             r == Row("r", "frd_frs1_frs2", Each(S, FP))
  <2>1. r \in FloatRows
    BY DEF FloatRows
  <2>2. r.ops = Each(S, FP)
    BY DEF Row
  <2> HIDE DEF S, r
  <2>3. \A name \in S, suffix \in FP : name \o suffix \in Each(S, FP)
    BY EachHas
  <2> QED BY <2>1, <2>2, <2>3 DEF FloatOps, S
<1>6. \A name \in {"fle_", "flt_", "feq_"}, suffix \in FP :
        name \o suffix \in FloatOps
  <2> DEFINE S == {"fle_", "flt_", "feq_"}
             r == Row("r", "rd_frs1_frs2", Each(S, FP))
  <2>1. r \in FloatRows
    BY DEF FloatRows
  <2>2. r.ops = Each(S, FP)
    BY DEF Row
  <2> HIDE DEF S, r
  <2>3. \A name \in S, suffix \in FP : name \o suffix \in Each(S, FP)
    BY EachHas
  <2> QED BY <2>1, <2>2, <2>3 DEF FloatOps, S
<1>7. \A name \in {"fcvt_w_", "fcvt_wu_", "fcvt_l_", "fcvt_lu_"}, suffix \in FP :
        name \o suffix \in FloatOps
  <2> DEFINE S == {"fcvt_w_", "fcvt_wu_", "fcvt_l_", "fcvt_lu_"}
             r == Row("r_m", "rm_rd_frs1", Each(S, FP))
  <2>1. r \in FloatRows
    BY DEF FloatRows
  <2>2. r.ops = Each(S, FP)
    BY DEF Row
  <2> HIDE DEF S, r
  <2>3. \A name \in S, suffix \in FP : name \o suffix \in Each(S, FP)
    BY EachHas
  <2> QED BY <2>1, <2>2, <2>3 DEF FloatOps, S
<1>8. \A name \in {"fcvt_s_", "fcvt_d_", "fcvt_q_"}, suffix \in {"w", "wu", "l", "lu"} :
        name \o suffix \in FloatOps
  <2> DEFINE S == {"fcvt_s_", "fcvt_d_", "fcvt_q_"}
             r == Row("r_m", "rm_frd_rs1", Each(S, {"w", "wu", "l", "lu"}))
  <2>1. r \in FloatRows
    BY DEF FloatRows
  <2>2. r.ops = Each(S, {"w", "wu", "l", "lu"})
    BY DEF Row
  <2> HIDE DEF S, r
  <2>3. \A name \in S, suffix \in {"w", "wu", "l", "lu"} :
            name \o suffix \in Each(S, {"w", "wu", "l", "lu"})
    BY EachHas
  <2> QED BY <2>1, <2>2, <2>3 DEF FloatOps, S
<1>9. \A name \in {"fmv_x_", "fclass_"}, suffix \in FP :
        name \o suffix \in FloatOps
  <2> DEFINE S == {"fmv_x_", "fclass_"}
             r == Row("r", "rd_frs1", Each(S, FP))
  <2>1. r \in FloatRows
    BY DEF FloatRows
  <2>2. r.ops = Each(S, FP)
    BY DEF Row
  <2> HIDE DEF S, r
  <2>3. \A name \in S, suffix \in FP : name \o suffix \in Each(S, FP)
    BY EachHas
  <2> QED BY <2>1, <2>2, <2>3 DEF FloatOps, S
<1>10. {"flw", "fld", "flq"} \subseteq FloatOps
  <2> DEFINE r == Row("i", "frd_offset_rs1", {"flw", "fld", "flq"})
  <2>1. r \in FloatRows
    BY DEF FloatRows
  <2>2. r.ops = {"flw", "fld", "flq"}
    BY DEF Row
  <2> HIDE DEF r
  <2> QED BY <2>1, <2>2 DEF FloatOps
<1>11. {"fsw", "fsd", "fsq"} \subseteq FloatOps
  <2> DEFINE r == Row("s", "frs2_offset_rs1", {"fsw", "fsd", "fsq"})
  <2>1. r \in FloatRows
    BY DEF FloatRows
  <2>2. r.ops = {"fsw", "fsd", "fsq"}
    BY DEF Row
  <2> HIDE DEF r
  <2> QED BY <2>1, <2>2 DEF FloatOps
<1>12. {"fmv_s_x", "fmv_d_x", "fmv_q_x"} \subseteq FloatOps
  <2> DEFINE r == Row("r", "frd_rs1", {"fmv_s_x", "fmv_d_x", "fmv_q_x"})
  <2>1. r \in FloatRows
    BY DEF FloatRows
  <2>2. r.ops = {"fmv_s_x", "fmv_d_x", "fmv_q_x"}
    BY DEF Row
  <2> HIDE DEF r
  <2> QED BY <2>1, <2>2 DEF FloatOps
<1>13. /\ \A suffix \in FP : "fsqrt_" \o suffix \in FloatOps
       /\ {"fcvt_s_d", "fcvt_s_q", "fcvt_d_s", "fcvt_d_q", "fcvt_q_s",
           "fcvt_q_d"} \subseteq FloatOps
  <2> DEFINE S == Each({"fsqrt_"}, FP)
             T == {"fcvt_s_d", "fcvt_s_q", "fcvt_d_s", "fcvt_d_q", "fcvt_q_s", "fcvt_q_d"}
             r == Row("r_m", "rm_frd_frs1", S \union T)
  <2>1. r \in FloatRows
    BY DEF FloatRows
  <2>2. r.ops = S \union T
    BY DEF Row
  <2>3. \A suffix \in FP : "fsqrt_" \o suffix \in S
    BY EachHas
  <2> HIDE DEF S, T, r
  <2>4. \A op \in S \union T : op \in FloatOps
    BY <2>1, <2>2 DEF FloatOps
  <2> QED BY <2>3, <2>4 DEF T
<1> QED BY <1>1, <1>2, <1>3, <1>4, <1>5, <1>6, <1>7, <1>8, <1>9, <1>10, <1>11, <1>12, <1>13

-----------------------------------------------------------------------------
(* What the opcode tree yields for a 32-bit instruction. *)
LEMMA IntegerLeaves ==
    ASSUME NEW w \in InstructionWord
    PROVE  /\ OpImmediate(w) \in {"addi", "slli", "slti", "sltiu", "xori", "srli", "srai",
                                  "ori", "andi", "illegal"}
           /\ OpImmediate32(w) \in {"addiw", "slliw", "srliw", "sraiw", "illegal"}
           /\ OpImmediate64(w) \in {"addid", "sllid", "srlid", "sraid", "illegal"}
           /\ BranchOp(w) \in {"beq", "bne", "blt", "bge", "bltu", "bgeu", "illegal"}
           /\ OpRegister(w) \in {"add", "sll", "slt", "sltu", "xor", "srl", "or", "and",
                                 "mul", "mulh", "mulhsu", "mulhu", "div", "divu", "rem",
                                 "remu", "sub", "sra", "illegal"}
<1>1. /\ funct3(w) \in 0 .. 7 /\ funct7(w) \in 0 .. 127
      /\ funct10(w) = 8 * funct7(w) + funct3(w)
  BY MoreFields
<1>2. OpImmediate(w) \in {"addi", "slli", "slti", "sltiu", "xori", "srli", "srai",
                          "ori", "andi", "illegal"}
  BY <1>1 DEF OpImmediate, At, When, ShiftRight
<1>3. OpImmediate32(w) \in {"addiw", "slliw", "srliw", "sraiw", "illegal"}
  BY DEF OpImmediate32, When, ShiftRight
<1>4. OpImmediate64(w) \in {"addid", "sllid", "srlid", "sraid", "illegal"}
  BY DEF OpImmediate64, When, ShiftRight
<1>5. BranchOp(w) \in {"beq", "bne", "blt", "bge", "bltu", "bgeu", "illegal"}
  BY <1>1 DEF BranchOp, At
<1>6. OpRegister(w) \in {"add", "sll", "slt", "sltu", "xor", "srl", "or", "and",
                         "mul", "mulh", "mulhsu", "mulhu", "div", "divu", "rem",
                         "remu", "sub", "sra", "illegal"}
  <2>1. CASE funct7(w) < 2
    <3>1. funct10(w) + 1 \in 1 .. 16
      BY <1>1, <2>1
    <3> QED BY <2>1, <3>1 DEF OpRegister
  <2>2. CASE ~ funct7(w) < 2
    BY <2>2 DEF OpRegister
  <2> QED BY <2>1, <2>2
<1> QED BY <1>2, <1>3, <1>4, <1>5, <1>6

LEMMA WideLeaves ==
    ASSUME NEW w \in InstructionWord
    PROVE  /\ OpRegisterWide(w, Words32) \in {"addw", "sllw", "srlw", "mulw", "divw",
                                              "divuw",
                                              "remw", "remuw", "subw", "sraw", "illegal"}
           /\ OpRegisterWide(w, Words64) \in {"addd", "slld", "srld", "muld", "divd",
                                              "divud",
                                              "remd", "remud", "subd", "srad", "illegal"}
<1>1. funct10(w) \in Int
  BY MoreFields
<1>2. OpRegisterWide(w, Words32) \in {"addw", "sllw", "srlw", "mulw", "divw", "divuw",
                                      "remw", "remuw", "subw", "sraw", "illegal"}
  BY <1>1 DEF OpRegisterWide, Words32
<1>3. OpRegisterWide(w, Words64) \in {"addd", "slld", "srld", "muld", "divd", "divud",
                                      "remd", "remud", "subd", "srad", "illegal"}
  BY <1>1 DEF OpRegisterWide, Words64
<1> QED BY <1>2, <1>3

LEMMA SystemLeaves ==
    ASSUME NEW w \in InstructionWord
    PROVE  /\ Privileged(w) \in {"ecall", "ebreak", "uret", "sret", "hret", "mret", "dret",
                                 "wfi", "sfence_vm", "sfence_vma", "illegal"}
           /\ SystemOp(w) \in {"ecall", "ebreak", "uret", "sret", "hret", "mret", "dret",
                               "wfi",
                               "sfence_vm", "sfence_vma", "csrrw", "csrrs", "csrrc", "csrrwi",
                               "csrrsi", "csrrci", "illegal"}
<1>1. funct3(w) \in 0 .. 7
  BY MoreFields
<1>2. rs2_field(w) \in 0 .. 31
  BY HighFieldsAre DEF rs2_field
<1>3. Privileged(w) \in {"ecall", "ebreak", "uret", "sret", "hret", "mret", "dret", "wfi",
                         "sfence_vm", "sfence_vma", "illegal"}
  <2>1. At(<<"ecall", "ebreak", "uret">>, rs2_field(w)) \in {"ecall", "ebreak", "uret",
                                                             "illegal"}
    BY <1>2 DEF At
  <2> QED BY <2>1 DEF Privileged, When
<1> QED BY <1>1, <1>3 DEF SystemOp, At

LEMMA FloatLeaves ==
    ASSUME NEW w \in InstructionWord
    PROVE  /\ Amo(w) \in FloatOps \union {"illegal"}
           /\ OpFp(w) \in FloatOps \union {"illegal"}
           /\ \A name \in {"fmadd_", "fmsub_", "fnmsub_", "fnmadd_"} :
                 FusedMultiply(w, name) \in FloatOps \union {"illegal"}
<1>1. funct3(w) \in 0 .. 7
  BY MoreFields
<1>2. rs2_field(w) \in 0 .. 31
  BY HighFieldsAre DEF rs2_field
<1>3. /\ Field(w, 31, 27) \in 0 .. 31
      /\ Field(w, 26, 25) \in 0 .. 3
  BY HighFieldsAre
<1>4. /\ FormatSuffix(w) \in FP \union {"illegal"}
      /\ (FormatSuffix(w) # "illegal" => Field(w, 26, 25) # 2)
  BY <1>3 DEF FormatSuffix, FP
<1>5. Amo(w) \in FloatOps \union {"illegal"}
  <2> DEFINE name == AmoOp(shamt_top(w))
             suffix == <<"w", "d", "q">>[funct3(w) - 1]
  <2>1. name \in {"lr_", "sc_", "amoswap_", "amoadd_", "amoxor_", "amoor_", "amoand_",
                  "amomin_", "amomax_", "amominu_", "amomaxu_", "illegal"}
    BY <1>3 DEF AmoOp, shamt_top
  <2>2. funct3(w) \in 2 .. 4 => suffix \in {"w", "d", "q"}
    OBVIOUS
  <2>3. Amo(w) = IF \/ name = "illegal" \/ funct3(w) \notin 2 .. 4
                    \/ shamt_top(w) = 2 /\ rs2_field(w) # 0
                   THEN "illegal" ELSE name \o suffix
    BY DEF Amo
  <2> HIDE DEF name, suffix
  <2> QED BY <2>1, <2>2, <2>3, FloatNames
<1>6. ASSUME NEW name \in {"fmadd_", "fmsub_", "fnmsub_", "fnmadd_"}
      PROVE  FusedMultiply(w, name) \in FloatOps \union {"illegal"}
  BY <1>4, FloatNames DEF FusedMultiply, When
<1>7. OpFp(w) \in FloatOps \union {"illegal"}
  <2> DEFINE fp == FormatSuffix(w)
             format == Field(w, 26, 25)
             group == Field(w, 31, 27)
             f3 == funct3(w)
             rs2 == rs2_field(w)
  <2>1. fp # "illegal" => fp \in FP /\ format \in {0, 1, 3}
    BY <1>3, <1>4
  <2>2. group < 4 => <<"fadd_", "fsub_", "fmul_",
                       "fdiv_">>[group + 1] \in {"fadd_", "fsub_", "fmul_", "fdiv_"}
    BY <1>3
  <2>3. f3 < 3 => <<"fsgnj_", "fsgnjn_", "fsgnjx_">>[f3 + 1] \in {"fsgnj_", "fsgnjn_",
                                                                  "fsgnjx_"}
    BY <1>1
  <2>4. f3 < 2 => <<"fmin_", "fmax_">>[f3 + 1] \in {"fmin_", "fmax_"}
    BY <1>1
  <2>5. BetweenFormats(fp, rs2) \in FloatOps \union {"illegal"} \/ fp \notin FP
    <3>1. fp \in FP => BetweenFormats(fp, rs2) \in {"fcvt_s_d", "fcvt_s_q", "fcvt_d_s",
                               "fcvt_d_q", "fcvt_q_s", "fcvt_q_d", "illegal"}
      BY <1>2 DEF BetweenFormats, At, FP
    <3> QED BY <3>1, FloatNames
  <2>6. f3 < 3 => <<"fle_", "flt_", "feq_">>[f3 + 1] \in {"fle_", "flt_", "feq_"}
    BY <1>1
  <2>7. rs2 < 4 => <<"fcvt_w_", "fcvt_wu_", "fcvt_l_", "fcvt_lu_">>[rs2 + 1]
                     \in {"fcvt_w_", "fcvt_wu_", "fcvt_l_", "fcvt_lu_"}
    BY <1>2
  <2>8. format \in {0, 1, 3} => <<"fcvt_s_", "fcvt_d_", "illegal", "fcvt_q_">>[format + 1]
                     \in {"fcvt_s_", "fcvt_d_", "fcvt_q_"}
    OBVIOUS
  <2>9. rs2 < 4 => <<"w", "wu", "l", "lu">>[rs2 + 1] \in {"w", "wu", "l", "lu"}
    BY <1>2
  <2>10. f3 < 2 => <<"fmv_x_", "fclass_">>[f3 + 1] \in {"fmv_x_", "fclass_"}
    BY <1>1
  <2>11. format \in {0, 1, 3} => <<"fmv_s_x", "fmv_d_x", "illegal", "fmv_q_x">>[format + 1]
                     \in {"fmv_s_x", "fmv_d_x", "fmv_q_x"}
    OBVIOUS
  <2> HIDE DEF fp, format, group, f3, rs2
  <2> DEFINE arith == <<"fadd_", "fsub_", "fmul_", "fdiv_">>[group + 1] \o fp
             sign == <<"fsgnj_", "fsgnjn_", "fsgnjx_">>[f3 + 1] \o fp
             min == <<"fmin_", "fmax_">>[f3 + 1] \o fp
             between == BetweenFormats(fp, rs2)
             root == "fsqrt_" \o fp
             cmp == <<"fle_", "flt_", "feq_">>[f3 + 1] \o fp
             int == <<"fcvt_w_", "fcvt_wu_", "fcvt_l_", "fcvt_lu_">>[rs2 + 1] \o fp
             cvt == <<"fcvt_s_", "fcvt_d_", "illegal", "fcvt_q_">>[format + 1]
                        \o <<"w", "wu", "l", "lu">>[rs2 + 1]
             class == <<"fmv_x_", "fclass_">>[f3 + 1] \o fp
             move == <<"fmv_s_x", "fmv_d_x", "illegal", "fmv_q_x">>[format + 1]
  <2>12. OpFp(w) = IF fp = "illegal" THEN "illegal" ELSE
             CASE group < 4               -> arith
               [] group = 4 /\ f3 < 3     -> sign
               [] group = 5 /\ f3 < 2     -> min
               [] group = 8               -> between
               [] group = 11 /\ rs2 = 0   -> root
               [] group = 20 /\ f3 < 3    -> cmp
               [] group = 24 /\ rs2 < 4   -> int
               [] group = 26 /\ rs2 < 4   -> cvt
               [] group = 28 /\ rs2 = 0 /\ f3 < 2 -> class
               [] group = 30 /\ rs2 = 0 /\ f3 = 0 -> move
               [] OTHER                   -> "illegal"
    BY DEF OpFp, fp, format, group, f3, rs2
  <2>13. fp # "illegal" =>
           /\ group < 4 => arith \in FloatOps
           /\ f3 < 3 => sign \in FloatOps /\ cmp \in FloatOps
           /\ f3 < 2 => min \in FloatOps /\ class \in FloatOps
           /\ rs2 < 4 => int \in FloatOps /\ cvt \in FloatOps
           /\ root \in FloatOps
           /\ move \in FloatOps
           /\ between \in FloatOps \union {"illegal"}
    BY <2>1, <2>2, <2>3, <2>4, <2>5, <2>6, <2>7, <2>8, <2>9, <2>10, <2>11, FloatNames
  <2> HIDE DEF arith, sign, min, between, root, cmp, int, cvt, class, move
  <2> QED BY <2>12, <2>13
<1> QED BY <1>5, <1>6, <1>7

-----------------------------------------------------------------------------
(* Every compressed operation has an entry, which names a 32-bit operation *)
(* of an integer or floating-point row.                                    *)
WholeOps == IntegerOps \union FloatOps

LEMMA ExpansionOf ==
    /\ \A op \in {"c_addi4spn", "c_lw", "c_sw", "c_nop", "c_addi", "c_li",
               "c_addi16sp", "c_lui", "c_srli", "c_srai", "c_andi", "c_sub",
               "c_xor", "c_or", "c_and", "c_subw", "c_addw", "c_j", "c_beqz",
               "c_bnez", "c_slli", "c_fldsp", "c_lwsp", "c_jr", "c_mv",
               "c_ebreak", "c_jalr", "c_add", "c_fsdsp", "c_swsp"} :
            expansion[op].isas = {"rv32", "rv64", "rv128"}
    /\ \A op \in {"c_fld", "c_fsd"} :
            expansion[op].isas = {"rv32", "rv64"}
    /\ \A op \in {"c_flw", "c_fsw", "c_jal", "c_flwsp", "c_fswsp"} :
            expansion[op].isas = {"rv32"}
    /\ \A op \in {"c_ld", "c_sd", "c_addiw", "c_ldsp", "c_sdsp"} :
            expansion[op].isas = {"rv64", "rv128"}
    /\ \A op \in {"c_lq", "c_sq", "c_lqsp", "c_sqsp"} :
            expansion[op].isas = {"rv128"}
    /\ \A op \in DOMAIN expansion : expansion[op].op \in WholeOps
    /\ Compressed \subseteq DOMAIN expansion
<1>1. \A op \in {"c_addi4spn", "c_lw", "c_sw", "c_nop", "c_addi", "c_li",
               "c_addi16sp", "c_lui", "c_srli", "c_srai", "c_andi", "c_sub",
               "c_xor", "c_or", "c_and", "c_subw", "c_addw", "c_j", "c_beqz",
               "c_bnez", "c_slli", "c_fldsp", "c_lwsp", "c_jr", "c_mv",
               "c_ebreak", "c_jalr", "c_add", "c_fsdsp", "c_swsp"} :
        expansion[op].isas = {"rv32", "rv64", "rv128"}
  BY DEF expansion, Expansion, On
<1>2. \A op \in {"c_fld", "c_fsd"} :
        expansion[op].isas = {"rv32", "rv64"}
  BY DEF expansion, Expansion, On
<1>3. \A op \in {"c_flw", "c_fsw", "c_jal", "c_flwsp", "c_fswsp"} :
        expansion[op].isas = {"rv32"}
  BY DEF expansion, Expansion, On
<1>4. \A op \in {"c_ld", "c_sd", "c_addiw", "c_ldsp", "c_sdsp"} :
        expansion[op].isas = {"rv64", "rv128"}
  BY DEF expansion, Expansion, On
<1>5. \A op \in {"c_lq", "c_sq", "c_lqsp", "c_sqsp"} :
        expansion[op].isas = {"rv128"}
  BY DEF expansion, Expansion, On
<1>6. \A op \in DOMAIN expansion : expansion[op].op \in WholeOps
  <2>1. \A op \in DOMAIN expansion :
          expansion[op].op \in {"addi", "fld", "lw", "flw", "fsd", "sw", "fsw",
                                "jal", "lui", "srli", "srai", "andi", "sub",
                                "xor", "or", "and", "subw", "addw", "beq",
                                "bne", "slli", "jalr", "ebreak", "add", "ld",
                                "sd", "addiw", "lq", "sq"}
    BY DEF expansion, Expansion
  <2> QED BY <2>1, CodecOf, FloatNames DEF WholeOps
<1>7. Compressed \subseteq DOMAIN expansion
  BY DEF Compressed, CompressedRows, Row, expansion
<1> QED BY <1>1, <1>2, <1>3, <1>4, <1>5, <1>6, <1>7

LEMMA WholeOpsAre ==
    ASSUME NEW op \in WholeOps
    PROVE  op \in Ops /\ op \notin Compressed /\ opcode_data[op].codec \in WholeCodecs
<1>1. PICK r \in IntegerRows \union SystemRows \union AtomicRows \union FloatRows :
             op \in r.ops
  BY DEF WholeOps, IntegerOps, FloatOps
<1>2. r \in Rows /\ r.codec \in WholeCodecs
  BY IntegerRowsAre, FloatRowsAre
<1>3. op \in Ops /\ opcode_data[op] = r
  BY <1>1, <1>2, RowOf
<1>4. op \notin Compressed
  BY <1>1, Apart
<1> QED BY <1>2, <1>3, <1>4

LEMMA FloatOpsApart == FloatOps \cap IntegerOps = {}
BY Apart DEF FloatOps, IntegerOps

LEMMA CompressedAre ==
    ASSUME NEW op \in Compressed
    PROVE  op \in Ops
BY CompressedRowsAre DEF Compressed, Ops

(* The opcode tree, with the majors of the floating-point instructions     *)
(* apart.                                                                  *)
FloatMajors == {1, 9, 11, 16, 17, 18, 19, 20}

LEMMA Quadrant3Is ==
    ASSUME NEW w \in InstructionWord
    PROVE  /\ Quadrant3(w) \in WholeOps
           /\ Field(w, 6, 2) \in FloatMajors => Quadrant3(w) \in FloatOps \union {"illegal"}
<1> DEFINE major == Field(w, 6, 2)
<1>1. major \in Int
  BY LowFieldsAre
<1>2. major \in FloatMajors => Quadrant3(w) \in FloatOps \union {"illegal"}
  <2>1. /\ LoadFp(w) \in FloatOps \union {"illegal"}
        /\ StoreFp(w) \in FloatOps \union {"illegal"}
    BY LoadIs, FloatNames
  <2> QED BY <2>1, FloatLeaves DEF Quadrant3, FloatMajors
<1>3. major \notin FloatMajors => Quadrant3(w) \in IntegerOps
  <2>1. Load(w) \in IntegerOps /\ MiscMem(w) \in IntegerOps /\ Store(w) \in IntegerOps
    BY LoadIs, CodecOf
  <2>2. OpImmediate(w) \in IntegerOps /\ OpImmediate32(w) \in IntegerOps
        /\ OpImmediate64(w) \in IntegerOps
    BY IntegerLeaves, CodecOf
  <2>3. BranchOp(w) \in IntegerOps /\ OpRegister(w) \in IntegerOps
    BY IntegerLeaves, CodecOf
  <2>4. OpRegisterWide(w,
                       Words32) \in IntegerOps /\ OpRegisterWide(w, Words64) \in IntegerOps
    BY WideLeaves, CodecOf
  <2>5. SystemOp(w) \in IntegerOps
    BY SystemLeaves, CodecOf
  <2>6. /\ When(funct3(w) = 0, "jalr") \in IntegerOps
        /\ {"auipc", "lui", "jal", "illegal"} \subseteq IntegerOps
    BY CodecOf DEF When
  <2> QED BY <2>1, <2>2, <2>3, <2>4, <2>5, <2>6 DEF Quadrant3, FloatMajors
<1> QED BY <1>2, <1>3, IllegalIsInteger DEF WholeOps

(* A compressed word is a compressed operation that the instruction set    *)
(* has, or illegal.                                                        *)
LEMMA CompressedQuadrants ==
    ASSUME NEW w \in InstructionWord, NEW i \in rv_isa,
           NEW op \in {Quadrant0(i, w), Quadrant1(i, w), Quadrant2(i, w)}
    PROVE  op = "illegal" \/ (op \in DOMAIN expansion /\ i \in expansion[op].isas)
<1>1. /\ Field(w, 15, 13) \in 0 .. 7
      /\ Field(w, 12, 12) \in 0 .. 1
      /\ Field(w, 11, 10) \in 0 .. 3
      /\ Field(w, 6, 5) \in 0 .. 3
  BY LowFieldsAre
<1>2. i \in {"rv32", "rv64", "rv128"}
  BY DEF rv_isa
<1> DEFINE Everywhere ==
             {"c_addi4spn", "c_lw", "c_sw", "c_nop", "c_addi", "c_li", "c_addi16sp",
              "c_lui",
              "c_srli", "c_srai", "c_andi", "c_sub", "c_xor", "c_or", "c_and", "c_subw",
              "c_addw", "c_j", "c_beqz", "c_bnez", "c_slli", "c_lwsp", "c_jr", "c_mv",
              "c_ebreak", "c_jalr", "c_add", "c_swsp", "c_fldsp", "c_fsdsp", "illegal"}
           Here == IF i = "rv32" THEN {"c_flw", "c_fsw", "c_jal", "c_flwsp", "c_fswsp",
                                       "c_fld", "c_fsd"}
                   ELSE IF i = "rv64" THEN {"c_ld", "c_sd", "c_addiw", "c_ldsp", "c_sdsp",
                                            "c_fld", "c_fsd"}
                   ELSE {"c_ld", "c_sd", "c_addiw", "c_ldsp", "c_sdsp",
                         "c_lq", "c_sq", "c_lqsp", "c_sqsp"}
<1>3. Arithmetic1(w) \in Everywhere
  <2>1. At(<<"c_sub", "c_xor", "c_or", "c_and", "c_subw", "c_addw">>,
           4 * Field(w, 12, 12) + Field(w, 6, 5)) \in Everywhere
    <3> DEFINE n == 4 * Field(w, 12, 12) + Field(w, 6, 5)
    <3>1. n \in 0 .. 7
      BY <1>1
    <3> HIDE DEF n
    <3> QED BY <3>1 DEF At, n
  <2>2. Field(w, 11, 10) < 3 =>
          At(<<"c_srli", "c_srai", "c_andi">>, Field(w, 11, 10)) \in Everywhere
    BY <1>1 DEF At
  <2> QED BY <2>1, <2>2 DEF Arithmetic1
<1>4. Register2(w) \in Everywhere
  BY DEF Register2
<1>5. Quadrant0(i, w) \in Everywhere \union Here
  BY <1>1, <1>2 DEF Quadrant0, At
<1>6. Quadrant1(i, w) \in Everywhere \union Here
  BY <1>1, <1>2, <1>3 DEF Quadrant1, At
<1>7. Quadrant2(i, w) \in Everywhere \union Here
  BY <1>1, <1>2, <1>4 DEF Quadrant2, At
<1>8. \A o \in Everywhere \union Here :
        o = "illegal" \/ (o \in DOMAIN expansion /\ i \in expansion[o].isas)
  <2>1. \A o \in Everywhere \union Here : o # "illegal" => o \in DOMAIN expansion
    BY DEF expansion
  <2>2. \A o \in Everywhere \union Here : o # "illegal" => i \in expansion[o].isas
    BY <1>2, ExpansionOf
  <2> HIDE DEF Everywhere, Here
  <2> QED BY <2>1, <2>2, Zenon
<1> QED BY <1>5, <1>6, <1>7, <1>8

(* The codecs of the compressed operations.                                *)
LEMMA CompressedCodecOf ==
    /\ \A op \in {"c_addi4spn"} : opcode_data[op].codec = "ciw_4spn"
    /\ \A op \in {"c_fld"} : opcode_data[op].codec = "cl_ld"
    /\ \A op \in {"c_lw"} : opcode_data[op].codec = "cl_lw"
    /\ \A op \in {"c_flw"} : opcode_data[op].codec = "cl_lw"
    /\ \A op \in {"c_fsd"} : opcode_data[op].codec = "cs_sd"
    /\ \A op \in {"c_sw"} : opcode_data[op].codec = "cs_sw"
    /\ \A op \in {"c_fsw"} : opcode_data[op].codec = "cs_sw"
    /\ \A op \in {"c_nop", "c_ebreak"} : opcode_data[op].codec = "ci_none"
    /\ \A op \in {"c_addi", "c_addiw"} : opcode_data[op].codec = "ci"
    /\ \A op \in {"c_jal"} : opcode_data[op].codec = "cj_jal"
    /\ \A op \in {"c_li"} : opcode_data[op].codec = "ci_li"
    /\ \A op \in {"c_addi16sp"} : opcode_data[op].codec = "ci_16sp"
    /\ \A op \in {"c_lui"} : opcode_data[op].codec = "ci_lui"
    /\ \A op \in {"c_srli", "c_srai"} : opcode_data[op].codec = "cb_sh6"
    /\ \A op \in {"c_andi"} : opcode_data[op].codec = "cb_imm"
    /\ \A op \in {"c_sub", "c_xor", "c_or", "c_and", "c_subw",
                  "c_addw"} : opcode_data[op].codec = "cs"
    /\ \A op \in {"c_j"} : opcode_data[op].codec = "cj"
    /\ \A op \in {"c_beqz", "c_bnez"} : opcode_data[op].codec = "cb"
    /\ \A op \in {"c_slli"} : opcode_data[op].codec = "ci_sh6"
    /\ \A op \in {"c_fldsp"} : opcode_data[op].codec = "ci_ldsp"
    /\ \A op \in {"c_lwsp"} : opcode_data[op].codec = "ci_lwsp"
    /\ \A op \in {"c_flwsp"} : opcode_data[op].codec = "ci_lwsp"
    /\ \A op \in {"c_jr"} : opcode_data[op].codec = "cr_jr"
    /\ \A op \in {"c_mv"} : opcode_data[op].codec = "cr_mv"
    /\ \A op \in {"c_jalr"} : opcode_data[op].codec = "cr_jalr"
    /\ \A op \in {"c_add"} : opcode_data[op].codec = "cr"
    /\ \A op \in {"c_fsdsp"} : opcode_data[op].codec = "css_sdsp"
    /\ \A op \in {"c_swsp"} : opcode_data[op].codec = "css_swsp"
    /\ \A op \in {"c_fswsp"} : opcode_data[op].codec = "css_swsp"
    /\ \A op \in {"c_ld"} : opcode_data[op].codec = "cl_ld"
    /\ \A op \in {"c_sd"} : opcode_data[op].codec = "cs_sd"
    /\ \A op \in {"c_ldsp"} : opcode_data[op].codec = "ci_ldsp"
    /\ \A op \in {"c_sdsp"} : opcode_data[op].codec = "css_sdsp"
    /\ \A op \in {"c_lq"} : opcode_data[op].codec = "cl_lq"
    /\ \A op \in {"c_sq"} : opcode_data[op].codec = "cs_sq"
    /\ \A op \in {"c_lqsp"} : opcode_data[op].codec = "ci_lqsp"
    /\ \A op \in {"c_sqsp"} : opcode_data[op].codec = "css_sqsp"
    /\ DOMAIN expansion \subseteq Compressed
<1>1. \A op \in {"c_addi4spn"} :
        op \in Compressed /\ opcode_data[op].codec = "ciw_4spn"
  <2> DEFINE r == Row("ciw_4spn", "rd_rs1_imm", {"c_addi4spn"})
  <2>1. r \in CompressedRows
    BY DEF CompressedRows
  <2>2. r.ops = {"c_addi4spn"} /\ r.codec = "ciw_4spn"
    BY DEF Row
  <2> HIDE DEF r
  <2> QED BY <2>1, <2>2, CompressedRowsAre, RowOf DEF Compressed
<1>2. \A op \in {"c_fld"} :
        op \in Compressed /\ opcode_data[op].codec = "cl_ld"
  <2> DEFINE r == Row("cl_ld", "frd_offset_rs1", {"c_fld"})
  <2>1. r \in CompressedRows
    BY DEF CompressedRows
  <2>2. r.ops = {"c_fld"} /\ r.codec = "cl_ld"
    BY DEF Row
  <2> HIDE DEF r
  <2> QED BY <2>1, <2>2, CompressedRowsAre, RowOf DEF Compressed
<1>3. \A op \in {"c_lw"} :
        op \in Compressed /\ opcode_data[op].codec = "cl_lw"
  <2> DEFINE r == Row("cl_lw", "rd_offset_rs1", {"c_lw"})
  <2>1. r \in CompressedRows
    BY DEF CompressedRows
  <2>2. r.ops = {"c_lw"} /\ r.codec = "cl_lw"
    BY DEF Row
  <2> HIDE DEF r
  <2> QED BY <2>1, <2>2, CompressedRowsAre, RowOf DEF Compressed
<1>4. \A op \in {"c_flw"} :
        op \in Compressed /\ opcode_data[op].codec = "cl_lw"
  <2> DEFINE r == Row("cl_lw", "frd_offset_rs1", {"c_flw"})
  <2>1. r \in CompressedRows
    BY DEF CompressedRows
  <2>2. r.ops = {"c_flw"} /\ r.codec = "cl_lw"
    BY DEF Row
  <2> HIDE DEF r
  <2> QED BY <2>1, <2>2, CompressedRowsAre, RowOf DEF Compressed
<1>5. \A op \in {"c_fsd"} :
        op \in Compressed /\ opcode_data[op].codec = "cs_sd"
  <2> DEFINE r == Row("cs_sd", "frs2_offset_rs1", {"c_fsd"})
  <2>1. r \in CompressedRows
    BY DEF CompressedRows
  <2>2. r.ops = {"c_fsd"} /\ r.codec = "cs_sd"
    BY DEF Row
  <2> HIDE DEF r
  <2> QED BY <2>1, <2>2, CompressedRowsAre, RowOf DEF Compressed
<1>6. \A op \in {"c_sw"} :
        op \in Compressed /\ opcode_data[op].codec = "cs_sw"
  <2> DEFINE r == Row("cs_sw", "rs2_offset_rs1", {"c_sw"})
  <2>1. r \in CompressedRows
    BY DEF CompressedRows
  <2>2. r.ops = {"c_sw"} /\ r.codec = "cs_sw"
    BY DEF Row
  <2> HIDE DEF r
  <2> QED BY <2>1, <2>2, CompressedRowsAre, RowOf DEF Compressed
<1>7. \A op \in {"c_fsw"} :
        op \in Compressed /\ opcode_data[op].codec = "cs_sw"
  <2> DEFINE r == Row("cs_sw", "frs2_offset_rs1", {"c_fsw"})
  <2>1. r \in CompressedRows
    BY DEF CompressedRows
  <2>2. r.ops = {"c_fsw"} /\ r.codec = "cs_sw"
    BY DEF Row
  <2> HIDE DEF r
  <2> QED BY <2>1, <2>2, CompressedRowsAre, RowOf DEF Compressed
<1>8. \A op \in {"c_nop", "c_ebreak"} :
        op \in Compressed /\ opcode_data[op].codec = "ci_none"
  <2> DEFINE r == Row("ci_none", "none", {"c_nop", "c_ebreak"})
  <2>1. r \in CompressedRows
    BY DEF CompressedRows
  <2>2. r.ops = {"c_nop", "c_ebreak"} /\ r.codec = "ci_none"
    BY DEF Row
  <2> HIDE DEF r
  <2> QED BY <2>1, <2>2, CompressedRowsAre, RowOf DEF Compressed
<1>9. \A op \in {"c_addi", "c_addiw"} :
        op \in Compressed /\ opcode_data[op].codec = "ci"
  <2> DEFINE r == Row("ci", "rd_rs1_imm", {"c_addi", "c_addiw"})
  <2>1. r \in CompressedRows
    BY DEF CompressedRows
  <2>2. r.ops = {"c_addi", "c_addiw"} /\ r.codec = "ci"
    BY DEF Row
  <2> HIDE DEF r
  <2> QED BY <2>1, <2>2, CompressedRowsAre, RowOf DEF Compressed
<1>10. \A op \in {"c_jal"} :
        op \in Compressed /\ opcode_data[op].codec = "cj_jal"
  <2> DEFINE r == Row("cj_jal", "rd_offset", {"c_jal"})
  <2>1. r \in CompressedRows
    BY DEF CompressedRows
  <2>2. r.ops = {"c_jal"} /\ r.codec = "cj_jal"
    BY DEF Row
  <2> HIDE DEF r
  <2> QED BY <2>1, <2>2, CompressedRowsAre, RowOf DEF Compressed
<1>11. \A op \in {"c_li"} :
        op \in Compressed /\ opcode_data[op].codec = "ci_li"
  <2> DEFINE r == Row("ci_li", "rd_rs1_imm", {"c_li"})
  <2>1. r \in CompressedRows
    BY DEF CompressedRows
  <2>2. r.ops = {"c_li"} /\ r.codec = "ci_li"
    BY DEF Row
  <2> HIDE DEF r
  <2> QED BY <2>1, <2>2, CompressedRowsAre, RowOf DEF Compressed
<1>12. \A op \in {"c_addi16sp"} :
        op \in Compressed /\ opcode_data[op].codec = "ci_16sp"
  <2> DEFINE r == Row("ci_16sp", "rd_rs1_imm", {"c_addi16sp"})
  <2>1. r \in CompressedRows
    BY DEF CompressedRows
  <2>2. r.ops = {"c_addi16sp"} /\ r.codec = "ci_16sp"
    BY DEF Row
  <2> HIDE DEF r
  <2> QED BY <2>1, <2>2, CompressedRowsAre, RowOf DEF Compressed
<1>13. \A op \in {"c_lui"} :
        op \in Compressed /\ opcode_data[op].codec = "ci_lui"
  <2> DEFINE r == Row("ci_lui", "rd_imm", {"c_lui"})
  <2>1. r \in CompressedRows
    BY DEF CompressedRows
  <2>2. r.ops = {"c_lui"} /\ r.codec = "ci_lui"
    BY DEF Row
  <2> HIDE DEF r
  <2> QED BY <2>1, <2>2, CompressedRowsAre, RowOf DEF Compressed
<1>14. \A op \in {"c_srli", "c_srai"} :
        op \in Compressed /\ opcode_data[op].codec = "cb_sh6"
  <2> DEFINE r == Row("cb_sh6", "rd_rs1_imm", {"c_srli", "c_srai"})
  <2>1. r \in CompressedRows
    BY DEF CompressedRows
  <2>2. r.ops = {"c_srli", "c_srai"} /\ r.codec = "cb_sh6"
    BY DEF Row
  <2> HIDE DEF r
  <2> QED BY <2>1, <2>2, CompressedRowsAre, RowOf DEF Compressed
<1>15. \A op \in {"c_andi"} :
        op \in Compressed /\ opcode_data[op].codec = "cb_imm"
  <2> DEFINE r == Row("cb_imm", "rd_rs1_imm", {"c_andi"})
  <2>1. r \in CompressedRows
    BY DEF CompressedRows
  <2>2. r.ops = {"c_andi"} /\ r.codec = "cb_imm"
    BY DEF Row
  <2> HIDE DEF r
  <2> QED BY <2>1, <2>2, CompressedRowsAre, RowOf DEF Compressed
<1>16. \A op \in {"c_sub", "c_xor", "c_or", "c_and", "c_subw", "c_addw"} :
        op \in Compressed /\ opcode_data[op].codec = "cs"
  <2> DEFINE r == Row("cs", "rd_rs1_rs2", {"c_sub", "c_xor", "c_or", "c_and", "c_subw",
                                           "c_addw"})
  <2>1. r \in CompressedRows
    BY DEF CompressedRows
  <2>2. r.ops = {"c_sub", "c_xor", "c_or", "c_and", "c_subw", "c_addw"} /\ r.codec = "cs"
    BY DEF Row
  <2> HIDE DEF r
  <2> QED BY <2>1, <2>2, CompressedRowsAre, RowOf DEF Compressed
<1>17. \A op \in {"c_j"} :
        op \in Compressed /\ opcode_data[op].codec = "cj"
  <2> DEFINE r == Row("cj", "rd_offset", {"c_j"})
  <2>1. r \in CompressedRows
    BY DEF CompressedRows
  <2>2. r.ops = {"c_j"} /\ r.codec = "cj"
    BY DEF Row
  <2> HIDE DEF r
  <2> QED BY <2>1, <2>2, CompressedRowsAre, RowOf DEF Compressed
<1>18. \A op \in {"c_beqz", "c_bnez"} :
        op \in Compressed /\ opcode_data[op].codec = "cb"
  <2> DEFINE r == Row("cb", "rs1_rs2_offset", {"c_beqz", "c_bnez"})
  <2>1. r \in CompressedRows
    BY DEF CompressedRows
  <2>2. r.ops = {"c_beqz", "c_bnez"} /\ r.codec = "cb"
    BY DEF Row
  <2> HIDE DEF r
  <2> QED BY <2>1, <2>2, CompressedRowsAre, RowOf DEF Compressed
<1>19. \A op \in {"c_slli"} :
        op \in Compressed /\ opcode_data[op].codec = "ci_sh6"
  <2> DEFINE r == Row("ci_sh6", "rd_rs1_imm", {"c_slli"})
  <2>1. r \in CompressedRows
    BY DEF CompressedRows
  <2>2. r.ops = {"c_slli"} /\ r.codec = "ci_sh6"
    BY DEF Row
  <2> HIDE DEF r
  <2> QED BY <2>1, <2>2, CompressedRowsAre, RowOf DEF Compressed
<1>20. \A op \in {"c_fldsp"} :
        op \in Compressed /\ opcode_data[op].codec = "ci_ldsp"
  <2> DEFINE r == Row("ci_ldsp", "frd_offset_rs1", {"c_fldsp"})
  <2>1. r \in CompressedRows
    BY DEF CompressedRows
  <2>2. r.ops = {"c_fldsp"} /\ r.codec = "ci_ldsp"
    BY DEF Row
  <2> HIDE DEF r
  <2> QED BY <2>1, <2>2, CompressedRowsAre, RowOf DEF Compressed
<1>21. \A op \in {"c_lwsp"} :
        op \in Compressed /\ opcode_data[op].codec = "ci_lwsp"
  <2> DEFINE r == Row("ci_lwsp", "rd_offset_rs1", {"c_lwsp"})
  <2>1. r \in CompressedRows
    BY DEF CompressedRows
  <2>2. r.ops = {"c_lwsp"} /\ r.codec = "ci_lwsp"
    BY DEF Row
  <2> HIDE DEF r
  <2> QED BY <2>1, <2>2, CompressedRowsAre, RowOf DEF Compressed
<1>22. \A op \in {"c_flwsp"} :
        op \in Compressed /\ opcode_data[op].codec = "ci_lwsp"
  <2> DEFINE r == Row("ci_lwsp", "frd_offset_rs1", {"c_flwsp"})
  <2>1. r \in CompressedRows
    BY DEF CompressedRows
  <2>2. r.ops = {"c_flwsp"} /\ r.codec = "ci_lwsp"
    BY DEF Row
  <2> HIDE DEF r
  <2> QED BY <2>1, <2>2, CompressedRowsAre, RowOf DEF Compressed
<1>23. \A op \in {"c_jr"} :
        op \in Compressed /\ opcode_data[op].codec = "cr_jr"
  <2> DEFINE r == Row("cr_jr", "rd_rs1_offset", {"c_jr"})
  <2>1. r \in CompressedRows
    BY DEF CompressedRows
  <2>2. r.ops = {"c_jr"} /\ r.codec = "cr_jr"
    BY DEF Row
  <2> HIDE DEF r
  <2> QED BY <2>1, <2>2, CompressedRowsAre, RowOf DEF Compressed
<1>24. \A op \in {"c_mv"} :
        op \in Compressed /\ opcode_data[op].codec = "cr_mv"
  <2> DEFINE r == Row("cr_mv", "rd_rs1_rs2", {"c_mv"})
  <2>1. r \in CompressedRows
    BY DEF CompressedRows
  <2>2. r.ops = {"c_mv"} /\ r.codec = "cr_mv"
    BY DEF Row
  <2> HIDE DEF r
  <2> QED BY <2>1, <2>2, CompressedRowsAre, RowOf DEF Compressed
<1>25. \A op \in {"c_jalr"} :
        op \in Compressed /\ opcode_data[op].codec = "cr_jalr"
  <2> DEFINE r == Row("cr_jalr", "rd_rs1_offset", {"c_jalr"})
  <2>1. r \in CompressedRows
    BY DEF CompressedRows
  <2>2. r.ops = {"c_jalr"} /\ r.codec = "cr_jalr"
    BY DEF Row
  <2> HIDE DEF r
  <2> QED BY <2>1, <2>2, CompressedRowsAre, RowOf DEF Compressed
<1>26. \A op \in {"c_add"} :
        op \in Compressed /\ opcode_data[op].codec = "cr"
  <2> DEFINE r == Row("cr", "rd_rs1_rs2", {"c_add"})
  <2>1. r \in CompressedRows
    BY DEF CompressedRows
  <2>2. r.ops = {"c_add"} /\ r.codec = "cr"
    BY DEF Row
  <2> HIDE DEF r
  <2> QED BY <2>1, <2>2, CompressedRowsAre, RowOf DEF Compressed
<1>27. \A op \in {"c_fsdsp"} :
        op \in Compressed /\ opcode_data[op].codec = "css_sdsp"
  <2> DEFINE r == Row("css_sdsp", "frs2_offset_rs1", {"c_fsdsp"})
  <2>1. r \in CompressedRows
    BY DEF CompressedRows
  <2>2. r.ops = {"c_fsdsp"} /\ r.codec = "css_sdsp"
    BY DEF Row
  <2> HIDE DEF r
  <2> QED BY <2>1, <2>2, CompressedRowsAre, RowOf DEF Compressed
<1>28. \A op \in {"c_swsp"} :
        op \in Compressed /\ opcode_data[op].codec = "css_swsp"
  <2> DEFINE r == Row("css_swsp", "rs2_offset_rs1", {"c_swsp"})
  <2>1. r \in CompressedRows
    BY DEF CompressedRows
  <2>2. r.ops = {"c_swsp"} /\ r.codec = "css_swsp"
    BY DEF Row
  <2> HIDE DEF r
  <2> QED BY <2>1, <2>2, CompressedRowsAre, RowOf DEF Compressed
<1>29. \A op \in {"c_fswsp"} :
        op \in Compressed /\ opcode_data[op].codec = "css_swsp"
  <2> DEFINE r == Row("css_swsp", "frs2_offset_rs1", {"c_fswsp"})
  <2>1. r \in CompressedRows
    BY DEF CompressedRows
  <2>2. r.ops = {"c_fswsp"} /\ r.codec = "css_swsp"
    BY DEF Row
  <2> HIDE DEF r
  <2> QED BY <2>1, <2>2, CompressedRowsAre, RowOf DEF Compressed
<1>30. \A op \in {"c_ld"} :
        op \in Compressed /\ opcode_data[op].codec = "cl_ld"
  <2> DEFINE r == Row("cl_ld", "rd_offset_rs1", {"c_ld"})
  <2>1. r \in CompressedRows
    BY DEF CompressedRows
  <2>2. r.ops = {"c_ld"} /\ r.codec = "cl_ld"
    BY DEF Row
  <2> HIDE DEF r
  <2> QED BY <2>1, <2>2, CompressedRowsAre, RowOf DEF Compressed
<1>31. \A op \in {"c_sd"} :
        op \in Compressed /\ opcode_data[op].codec = "cs_sd"
  <2> DEFINE r == Row("cs_sd", "rs2_offset_rs1", {"c_sd"})
  <2>1. r \in CompressedRows
    BY DEF CompressedRows
  <2>2. r.ops = {"c_sd"} /\ r.codec = "cs_sd"
    BY DEF Row
  <2> HIDE DEF r
  <2> QED BY <2>1, <2>2, CompressedRowsAre, RowOf DEF Compressed
<1>32. \A op \in {"c_ldsp"} :
        op \in Compressed /\ opcode_data[op].codec = "ci_ldsp"
  <2> DEFINE r == Row("ci_ldsp", "rd_offset_rs1", {"c_ldsp"})
  <2>1. r \in CompressedRows
    BY DEF CompressedRows
  <2>2. r.ops = {"c_ldsp"} /\ r.codec = "ci_ldsp"
    BY DEF Row
  <2> HIDE DEF r
  <2> QED BY <2>1, <2>2, CompressedRowsAre, RowOf DEF Compressed
<1>33. \A op \in {"c_sdsp"} :
        op \in Compressed /\ opcode_data[op].codec = "css_sdsp"
  <2> DEFINE r == Row("css_sdsp", "rs2_offset_rs1", {"c_sdsp"})
  <2>1. r \in CompressedRows
    BY DEF CompressedRows
  <2>2. r.ops = {"c_sdsp"} /\ r.codec = "css_sdsp"
    BY DEF Row
  <2> HIDE DEF r
  <2> QED BY <2>1, <2>2, CompressedRowsAre, RowOf DEF Compressed
<1>34. \A op \in {"c_lq"} :
        op \in Compressed /\ opcode_data[op].codec = "cl_lq"
  <2> DEFINE r == Row("cl_lq", "rd_offset_rs1", {"c_lq"})
  <2>1. r \in CompressedRows
    BY DEF CompressedRows
  <2>2. r.ops = {"c_lq"} /\ r.codec = "cl_lq"
    BY DEF Row
  <2> HIDE DEF r
  <2> QED BY <2>1, <2>2, CompressedRowsAre, RowOf DEF Compressed
<1>35. \A op \in {"c_sq"} :
        op \in Compressed /\ opcode_data[op].codec = "cs_sq"
  <2> DEFINE r == Row("cs_sq", "rs2_offset_rs1", {"c_sq"})
  <2>1. r \in CompressedRows
    BY DEF CompressedRows
  <2>2. r.ops = {"c_sq"} /\ r.codec = "cs_sq"
    BY DEF Row
  <2> HIDE DEF r
  <2> QED BY <2>1, <2>2, CompressedRowsAre, RowOf DEF Compressed
<1>36. \A op \in {"c_lqsp"} :
        op \in Compressed /\ opcode_data[op].codec = "ci_lqsp"
  <2> DEFINE r == Row("ci_lqsp", "rd_offset_rs1", {"c_lqsp"})
  <2>1. r \in CompressedRows
    BY DEF CompressedRows
  <2>2. r.ops = {"c_lqsp"} /\ r.codec = "ci_lqsp"
    BY DEF Row
  <2> HIDE DEF r
  <2> QED BY <2>1, <2>2, CompressedRowsAre, RowOf DEF Compressed
<1>37. \A op \in {"c_sqsp"} :
        op \in Compressed /\ opcode_data[op].codec = "css_sqsp"
  <2> DEFINE r == Row("css_sqsp", "rs2_offset_rs1", {"c_sqsp"})
  <2>1. r \in CompressedRows
    BY DEF CompressedRows
  <2>2. r.ops = {"c_sqsp"} /\ r.codec = "css_sqsp"
    BY DEF Row
  <2> HIDE DEF r
  <2> QED BY <2>1, <2>2, CompressedRowsAre, RowOf DEF Compressed
<1>38. DOMAIN expansion \subseteq Compressed
  <2>1. DOMAIN expansion \subseteq {"c_addi4spn", "c_fld", "c_lw", "c_flw", "c_fsd", "c_sw",
                                    "c_fsw",
             "c_nop", "c_ebreak", "c_addi", "c_addiw", "c_jal", "c_li",
             "c_addi16sp", "c_lui", "c_srli", "c_srai", "c_andi", "c_sub",
             "c_xor", "c_or", "c_and", "c_subw", "c_addw", "c_j", "c_beqz",
             "c_bnez", "c_slli", "c_fldsp", "c_lwsp", "c_flwsp", "c_jr", "c_mv",
             "c_jalr", "c_add", "c_fsdsp", "c_swsp", "c_fswsp", "c_ld", "c_sd",
             "c_ldsp", "c_sdsp", "c_lq", "c_sq", "c_lqsp", "c_sqsp"}
    BY DEF expansion
  <2> QED BY <2>1, <1>1, <1>2, <1>3, <1>4, <1>5, <1>6, <1>7, <1>8, <1>9, <1>10, <1>11,
             <1>12, <1>13, <1>14, <1>15, <1>16, <1>17, <1>18, <1>19, <1>20, <1>21, <1>22,
             <1>23, <1>24, <1>25, <1>26, <1>27, <1>28, <1>29, <1>30, <1>31, <1>32, <1>33,
             <1>34, <1>35, <1>36, <1>37
<1> QED BY <1>1, <1>2, <1>3, <1>4, <1>5, <1>6, <1>7, <1>8, <1>9, <1>10, <1>11, <1>12, <1>13,
           <1>14, <1>15, <1>16, <1>17, <1>18, <1>19, <1>20, <1>21, <1>22, <1>23, <1>24,
           <1>25, <1>26, <1>27, <1>28, <1>29, <1>30, <1>31, <1>32, <1>33, <1>34, <1>35,
           <1>36, <1>37, <1>38

-----------------------------------------------------------------------------
(* The passes. *)
LEMMA DecodedOp ==
    ASSUME NEW w \in InstructionWord, NEW i \in rv_isa
    PROVE  LET op == decode_inst_opcode(i, w)
           IN  /\ op \in Ops
               /\ op \in WholeOps \/ (op \in DOMAIN expansion /\ i \in expansion[op].isas)
               /\ Field(w, 1, 0) = 3 => op = Quadrant3(w)
<1> DEFINE op == decode_inst_opcode(i, w)
<1>1. Field(w, 1, 0) \in 0 .. 3
  BY LowFieldsAre
<1>2. \/ Field(w, 1, 0) = 3 /\ op = Quadrant3(w)
      \/ Field(w, 1, 0) # 3 /\ op \in {Quadrant0(i, w), Quadrant1(i, w), Quadrant2(i, w)}
  BY <1>1 DEF decode_inst_opcode
<1>3. op \in WholeOps \/ (op \in DOMAIN expansion /\ i \in expansion[op].isas)
  <2>1. op \in {Quadrant0(i, w), Quadrant1(i, w), Quadrant2(i, w)} =>
          op = "illegal" \/ (op \in DOMAIN expansion /\ i \in expansion[op].isas)
    BY CompressedQuadrants, Zenon
  <2> HIDE DEF op
  <2> QED BY <1>2, <2>1, Quadrant3Is, IllegalIsInteger DEF WholeOps
<1>4. op \in Ops
  BY <1>3, WholeOpsAre, CompressedAre, CompressedCodecOf
<1> QED BY <1>2, <1>3, <1>4

(* Whatever the codec, the operands are in their ranges.                   *)
LEMMA OperandRanges ==
    ASSUME NEW w \in InstructionWord, NEW codec
    PROVE  Rd(codec, w) \in Register /\ Rs1(codec,
                                            w) \in Register /\ Rs2(codec, w) \in Register
<1>1. Field(w, 24, 20) \in 0 .. 31
  BY HighFieldsAre
<1>2. Field(w, 19, 15) \in 0 .. 31
  BY MiddleFieldsAre
<1>3. Field(w, 11, 7) \in 0 .. 31 /\ Field(w, 6, 2) \in 0 .. 31
  BY LowFieldsAre
<1>4. Short(w, 4) \in 0 .. 31 /\ Short(w, 9) \in 0 .. 31
  BY LowFieldsAre DEF Short
<1>5. Rd(codec, w) \in Register
  BY <1>3, <1>4 DEF Rd, Register, x0, ra, sp
<1>6. Rs1(codec, w) \in Register
  BY <1>2, <1>3, <1>4 DEF Rs1, Register, x0, ra, sp
<1>7. Rs2(codec, w) \in Register
  BY <1>1, <1>3, <1>4 DEF Rs2, Register, x0, ra, sp
<1> QED BY <1>5, <1>6, <1>7

(* A record like rv_decode.                                                *)
DecodeOK(d) ==
    /\ DOMAIN d = {"op", "codec", "rd", "rs1", "rs2", "rs3", "imm", "rm", "pred", "succ",
                   "aq", "rl"}
    /\ d.op \in Ops
    /\ \A r \in {"rd", "rs1", "rs2", "rs3"} : d[r] \in Register
    /\ d.rm \in 0 .. 7
    /\ {d.pred, d.succ} \subseteq 0 .. 15
    /\ {d.aq, d.rl} \subseteq 0 .. 1

Decoded(i, w) == [ZeroDecode EXCEPT !.op = decode_inst_opcode(i, w)]
WithOperands(i, w) == decode_inst_operands(Decoded(i, w), w)

(* The record after the second pass, field by field.                       *)
LEMMA OperandsAre ==
    ASSUME NEW w \in InstructionWord, NEW i \in rv_isa
    PROVE  LET op == decode_inst_opcode(i, w)
               codec == opcode_data[op].codec
               d == WithOperands(i, w)
           IN  /\ d = [op |-> op, codec |-> codec, rd |-> Rd(codec, w),
                       rs1 |-> Rs1(codec, w),
                       rs2 |-> Rs2(codec,
                                   w), rs3 |-> d.rs3, imm |-> Imm(codec, w), rm |-> d.rm,
                       pred |-> d.pred, succ |-> d.succ, aq |-> d.aq, rl |-> d.rl]
               /\ DecodeOK(d)
<1> DEFINE op == decode_inst_opcode(i, w)
           codec == opcode_data[op].codec
           d == WithOperands(i, w)
           rs3 == IF codec \in {"r4_m"} THEN Field(w, 31, 27) ELSE 0
           rm == IF codec \in {"r_m", "r4_m"} THEN Field(w, 14, 12) ELSE 0
           aq == IF codec \in {"r_a", "r_l"} THEN Bit(w, 26) ELSE 0
           rl == IF codec \in {"r_a", "r_l"} THEN Bit(w, 25) ELSE 0
           pred == IF codec \in {"r_f"} THEN Field(w, 27, 24) ELSE 0
           succ == IF codec \in {"r_f"} THEN Field(w, 23, 20) ELSE 0
<1>1. d = [op |-> op, codec |-> codec, rd |-> Rd(codec, w), rs1 |-> Rs1(codec, w),
           rs2 |-> Rs2(codec, w), rs3 |-> rs3, imm |-> Imm(codec, w), rm |-> rm,
           pred |-> pred, succ |-> succ, aq |-> aq, rl |-> rl]
  <2> DEFINE start == Decoded(i, w)
  <2>1. start.op = op
    <3> HIDE DEF op
    <3>1. Decoded(i, w) = [ZeroDecode EXCEPT !.op = op]
      BY DEF Decoded, op
    <3> QED BY <3>1 DEF ZeroDecode
  <2>2. d = Operands(start, codec, w)
    BY <2>1 DEF WithOperands, decode_inst_operands
  <2> HIDE DEF op, codec, start, d
  <2> QED BY <2>1, <2>2 DEF Operands
<1>2. op \in Ops
  BY DecodedOp
<1>3. Rd(codec, w) \in Register /\ Rs1(codec, w) \in Register /\ Rs2(codec, w) \in Register
  BY OperandRanges
<1>4. /\ rs3 \in 0 .. 31 /\ pred \in 0 .. 15
      /\ succ \in 0 .. 15 /\ aq \in 0 .. 1 /\ rl \in 0 .. 1
  BY HighFieldsAre DEF Bit
<1>5. rm \in 0 .. 7
  BY LowFieldsAre
<1> HIDE DEF op, codec, d, rs3, rm, aq, rl, pred, succ
<1>6. DecodeOK(d)
  BY <1>1, <1>2, <1>3, <1>4, <1>5 DEF DecodeOK, Register
<1>7. /\ d.rs3 = rs3 /\ d.rm = rm /\ d.pred = pred
      /\ d.succ = succ /\ d.aq = aq /\ d.rl = rl
  BY <1>1
<1> QED BY <1>1, <1>6, <1>7 DEF op, codec, d

(* Renaming an instruction leaves its operands alone.                      *)
Renames(d, op, codec, e) == e = [d EXCEPT !.op = op, !.codec = codec]

LEMMA Renamed ==
    ASSUME NEW d, DecodeOK(d), NEW op \in Ops, NEW codec,
           NEW e, Renames(d, op, codec, e)
    PROVE  /\ DecodeOK(e)
           /\ e.op = op /\ e.codec = codec
           /\ e.rd = d.rd /\ e.rs1 = d.rs1 /\ e.rs2 = d.rs2 /\ e.imm = d.imm
<1>1. /\ DOMAIN e = DOMAIN d
      /\ e.op = op /\ e.codec = codec
  BY DEF DecodeOK, Renames
<1>2. /\ e.rd = d.rd /\ e.rs1 = d.rs1 /\ e.rs2 = d.rs2 /\ e.imm = d.imm
  BY DEF DecodeOK, Renames
<1>3. /\ e.rs3 = d.rs3 /\ e.rm = d.rm /\ e.pred = d.pred /\ e.succ = d.succ
      /\ e.aq = d.aq /\ e.rl = d.rl
  BY DEF DecodeOK, Renames
<1>4. DecodeOK(e)
  BY <1>1, <1>2, <1>3 DEF DecodeOK
<1> QED BY <1>1, <1>2, <1>4

(* What is expanded is a 32-bit instruction, and one that was a 32-bit     *)
(* instruction already is left alone.                                      *)
LEMMA ExpandedIs ==
    ASSUME NEW w \in InstructionWord, NEW i \in rv_isa
    PROVE  LET d == Expanded(i, w)
           IN  /\ DecodeOK(d)
               /\ d.op \in WholeOps
               /\ Field(w, 1, 0) = 3 => d = WithOperands(i, w)
<1> DEFINE op == decode_inst_opcode(i, w)
           d == WithOperands(i, w)
           named == expansion[op].op
           e == [d EXCEPT !.op = named, !.codec = opcode_data[named].codec]
           none == [d EXCEPT !.op = "illegal"]
<1>1. Expanded(i, w) = decompress_inst(i, d)
  BY DEF Expanded, WithOperands, Decoded
<1>2. DecodeOK(d) /\ d.op = op
  BY OperandsAre
<1>3. \/ op \in WholeOps
      \/ Field(w, 1, 0) # 3 /\ op \in DOMAIN expansion /\ i \in expansion[op].isas
  BY DecodedOp, Quadrant3Is
<1>4. decompress_inst(i, d) =
        IF op \notin Compressed \/ i \notin expansion[op].isas THEN d
        ELSE IF op \in rvcd_imm_nz /\ d.imm = 0 THEN none ELSE e
  BY <1>2 DEF decompress_inst
<1>5. CASE op \in WholeOps
  <2>1. op \notin Compressed
    BY <1>5, WholeOpsAre
  <2>2. Expanded(i, w) = d
    BY <1>1, <1>4, <2>1
  <2> QED BY <1>2, <1>5, <2>2
<1>6. CASE Field(w, 1, 0) # 3 /\ op \in DOMAIN expansion /\ i \in expansion[op].isas
  <2>1. named \in WholeOps
    BY <1>6, ExpansionOf
  <2>2. DecodeOK(e) /\ e.op = named
    <3>1. named \in Ops
      BY <2>1, WholeOpsAre
    <3>2. Renames(d, named, opcode_data[named].codec, e)
      BY DEF Renames
    <3> HIDE DEF named, d, e
    <3> QED BY <1>2, <3>1, <3>2, Renamed
  <2>3. DecodeOK(none) /\ none.op = "illegal" /\ none.op \in WholeOps
    <3>1. "illegal" \in Ops /\ "illegal" \in WholeOps
      BY IllegalIsInteger, WholeOpsAre DEF WholeOps
    <3> HIDE DEF d
    <3>2. none.op = "illegal" /\ DOMAIN none = DOMAIN d
      BY <1>2 DEF DecodeOK
    <3>3. /\ none.rs3 = d.rs3 /\ none.rm = d.rm /\ none.pred = d.pred /\ none.succ = d.succ
          /\ none.aq = d.aq /\ none.rl = d.rl /\ none.rd = d.rd /\ none.rs1 = d.rs1
          /\ none.rs2 = d.rs2
      BY <1>2 DEF DecodeOK
    <3> HIDE DEF none
    <3> QED BY <1>2, <3>1, <3>2, <3>3 DEF DecodeOK
  <2>4. Expanded(i, w) \in {e, none}
    <3>1. op \in Compressed
      BY <1>6, CompressedCodecOf
    <3> QED BY <1>1, <1>4, <1>6, <3>1
  <2> HIDE DEF d, e, none, named
  <2> QED BY <1>6, <2>1, <2>2, <2>3, <2>4
<1> QED BY <1>3, <1>5, <1>6

(* Every candidate is a pseudo-instruction, or jal or jalr themselves.     *)
LEMMA CandidatesAre ==
    ASSUME NEW op \in DOMAIN pseudo
    PROVE  /\ DOMAIN pseudo[op] \subseteq 1 .. 9
           /\ \A n \in DOMAIN pseudo[op] :
                 pseudo[op][n] \in Ops /\ pseudo[op][n] \notin Compressed
<1> DEFINE Names == UNION {r.ops : r \in PseudoRows}
<1>1. ASSUME NEW o \in Names
      PROVE  o \in Ops /\ o \notin Compressed
  <2>1. PICK r \in PseudoRows : o \in r.ops
    OBVIOUS
  <2>2. r.codec \in WholeCodecs
    BY DEF PseudoRows, Row, WholeCodecs
  <2>3. r \in Rows
    BY DEF Rows
  <2> QED BY <2>1, <2>2, <2>3, RowOf, CompressedRowsAre DEF Compressed
<1>2. \A o \in {"jal", "jalr"} : o \in Ops /\ o \notin Compressed
  BY CodecOf, WholeOpsAre DEF WholeOps
<1>3. ASSUME NEW o \in {"nop", "ret", "mv", "not", "sext_w", "seqz", "neg", "negw", "snez",
                        "sgtz", "sltz", "fmv_s", "fmv_d", "fmv_q", "fabs_s", "fabs_d",
                        "fabs_q", "fneg_s", "fneg_d", "fneg_q", "beqz", "bnez", "bgez",
                        "bltz", "blez", "bgtz", "ble", "bleu", "bgt", "bgtu", "j", "jr",
                        "rdcycle", "rdtime", "rdinstret", "rdcycleh", "rdtimeh",
                        "rdinstreth", "frcsr", "frrm", "frflags", "fscsr", "fsrm",
                        "fsflags", "fsrmi", "fsflagsi"}
      PROVE  o \in Names
  BY DEF PseudoRows, Row
<1> HIDE DEF Names
<1>4. DOMAIN pseudo[op] \subseteq 1 .. 9
  BY DEF pseudo
<1>5. ASSUME NEW n \in DOMAIN pseudo[op]
      PROVE  pseudo[op][n] \in
               {"jal", "jalr", "nop", "ret", "mv", "not", "sext_w", "seqz", "neg", "negw",
                "snez", "sgtz", "sltz", "fmv_s", "fmv_d", "fmv_q", "fabs_s", "fabs_d",
                "fabs_q", "fneg_s", "fneg_d", "fneg_q", "beqz", "bnez", "bgez",
                "bltz", "blez", "bgtz", "ble", "bleu", "bgt", "bgtu", "j", "jr",
                "rdcycle", "rdtime", "rdinstret", "rdcycleh", "rdtimeh",
                "rdinstreth", "frcsr", "frrm", "frflags", "fscsr", "fsrm",
                "fsflags", "fsrmi", "fsflagsi"}
  BY DEF pseudo
<1> QED BY <1>1, <1>2, <1>3, <1>4, <1>5

(* Lifting a 32-bit instruction gives one that is not compressed either,   *)
(* with the same operands.                                                 *)
LEMMA LiftedIs ==
    ASSUME NEW d, DecodeOK(d), d.op \in WholeOps
    PROVE  LET e == lift_pseudo(d)
           IN  /\ DecodeOK(e) /\ e.op \notin Compressed
               /\ \/ e = d
                  \/ \E n \in Candidates(d) :
                        /\ e.op = pseudo[d.op][n]
                        /\ e.rd = d.rd /\ e.rs1 = d.rs1 /\ e.rs2 = d.rs2 /\ e.imm = d.imm
<1> DEFINE S == Candidates(d)
           first == CHOOSE n \in S : \A m \in S : n <= m
           name == pseudo[d.op][first]
<1>1. CASE S = {}
  <2>1. lift_pseudo(d) = d
    BY <1>1 DEF lift_pseudo
  <2> QED BY <2>1, WholeOpsAre
<1>2. CASE S # {}
  <2>1. d.op \in DOMAIN pseudo /\ S \subseteq DOMAIN pseudo[d.op]
    BY <1>2 DEF Candidates
  <2>2. S \subseteq 1 .. 9
    BY <2>1, CandidatesAre
  <2>3. \E n \in S : \A m \in S : n <= m
    <3> HIDE DEF S
    <3> SUFFICES ASSUME \A n \in S : \E m \in S : m < n
                 PROVE  FALSE
      BY <2>2
    <3>1. 1 \notin S
      BY <2>2
    <3>2. 2 \notin S
      BY <2>2, <3>1
    <3>3. 3 \notin S
      BY <2>2, <3>1, <3>2
    <3>4. 4 \notin S
      BY <2>2, <3>1, <3>2, <3>3
    <3>5. S \subseteq 5 .. 9
      BY <2>2, <3>1, <3>2, <3>3, <3>4
    <3>6. 5 \notin S
      BY <3>5
    <3>7. 6 \notin S
      BY <3>5, <3>6
    <3>8. 7 \notin S
      BY <3>5, <3>6, <3>7
    <3>9. 8 \notin S
      BY <3>5, <3>6, <3>7, <3>8
    <3>10. S \subseteq {9}
      BY <3>5, <3>6, <3>7, <3>8, <3>9
    <3>11. PICK n \in S : TRUE
      BY <1>2
    <3>12. PICK m \in S : m < n
      OBVIOUS
    <3>13. n = 9 /\ m = 9
      BY <3>10
    <3> QED BY <3>12, <3>13
  <2>4. first \in S
    BY <2>3
  <2>5. name \in Ops /\ name \notin Compressed
    BY <2>1, <2>4, CandidatesAre
  <2>6. Renames(d, name, opcode_data[name].codec, lift_pseudo(d))
    BY <1>2 DEF lift_pseudo, Renames
  <2> DEFINE e == lift_pseudo(d)
  <2> HIDE DEF name, e
  <2>7. /\ DecodeOK(e) /\ e.op = name
        /\ e.rd = d.rd /\ e.rs1 = d.rs1 /\ e.rs2 = d.rs2 /\ e.imm = d.imm
    BY <2>5, <2>6, Renamed DEF e
  <2>8. e.op = pseudo[d.op][first]
    BY <2>7 DEF name
  <2>9. e.op \notin Compressed
    BY <2>5, <2>7
  <2> HIDE DEF first
  <2>10. \E n \in S : /\ e.op = pseudo[d.op][n]
                     /\ e.rd = d.rd /\ e.rs1 = d.rs1 /\ e.rs2 = d.rs2 /\ e.imm = d.imm
    BY <2>4, <2>7, <2>8
  <2> QED BY <2>7, <2>9, <2>10 DEF e
<1> QED BY <1>1, <1>2

-----------------------------------------------------------------------------
(* The record between the passes is that of the word passed in, after the  *)
(* passes so far: nothing of an earlier call is left in it.                *)
PassesInv ==
    /\ isa \in rv_isa /\ inst \in InstructionWord /\ stage \in Stages
    /\ stage \in {"idle", "opcode"} => dec = ZeroDecode
    /\ stage = "operands" => dec = Decoded(isa, inst)
    /\ stage = "decompress" => dec = WithOperands(isa, inst)
    /\ stage = "lift" => dec = Expanded(isa, inst)
    /\ stage = "format" => dec = lift_pseudo(Expanded(isa, inst))
    /\ stage # "done" => line = NoLine
    /\ stage = "done" =>
          \/ inst = Film /\ dec = ZeroDecode /\ line = HackThePlanet
          \/ /\ inst # Film
             /\ dec = lift_pseudo(Expanded(isa, inst))
             /\ line = Assembly(isa, inst)
    /\ stage \notin {"idle", "done"} => inst # Film

(* The passes of disasm_inst work on one record that each rewrites in part *)
(* (riscv-disas.c:2363-2380).  Between any two of them the record holds    *)
(* what the passes so far make of the word of this call.                   *)
THEOREM Passes == Spec => []PassesInv
<1>1. Init => PassesInv
  <2>1. [hi |-> 0, lo |-> 0] \in InstructionWord
    BY DEF InstructionWord, HalfWord
  <2>2. [hi |-> 0, lo |-> 0] # Film
    BY DEF Film
  <2> QED BY <2>1, <2>2 DEF Init, Idle, PassesInv, rv_isa, Stages
<1>2. PassesInv /\ [Next]_vars => PassesInv'
  <2> SUFFICES ASSUME PassesInv, [Next]_vars PROVE PassesInv'
    OBVIOUS
  <2>1. CASE Call
    <3>1. PICK c \in Calls :
            /\ isa' = c[1] /\ inst' = c[2]
            /\ IF c[2] = Film THEN stage' = "done" /\ line' = HackThePlanet
                              ELSE stage' = "opcode" /\ UNCHANGED line
      BY <2>1 DEF Call
    <3>2. c[1] \in rv_isa /\ c[2] \in InstructionWord
      BY CallsAssumption
    <3>3. dec' = ZeroDecode /\ line = NoLine
      BY <2>1 DEF Call, PassesInv
    <3> QED BY <3>1, <3>2, <3>3 DEF PassesInv, Stages
  <2>2. CASE DecodeOpcode
    BY <2>2 DEF DecodeOpcode, PassesInv, Stages, Decoded
  <2>3. CASE DecodeOperands
    BY <2>3 DEF DecodeOperands, PassesInv, Stages, WithOperands
  <2>4. CASE Decompress
    BY <2>4 DEF Decompress, PassesInv, Stages, Expanded, WithOperands, Decoded
  <2>5. CASE LiftPseudo
    BY <2>5 DEF LiftPseudo, PassesInv, Stages
  <2>6. CASE FormatInst
    BY <2>6 DEF FormatInst, PassesInv, Stages, Assembly
  <2>7. CASE Return
    <3>1. [hi |-> 0, lo |-> 0] \in InstructionWord
      BY DEF InstructionWord, HalfWord
    <3> QED BY <2>7, <3>1 DEF Return, PassesInv, rv_isa, Stages
  <2>8. CASE UNCHANGED vars
    BY <2>8 DEF vars, PassesInv
  <2> QED BY <2>1, <2>2, <2>3, <2>4, <2>5, <2>6, <2>7, <2>8 DEF Next
<1> QED BY <1>1, <1>2, PTL DEF Spec

(* The records of all passes are well formed.                              *)
LEMMA RecordsAre ==
    ASSUME PassesInv
    PROVE  /\ DecodeOK(dec)
           /\ stage \in {"lift", "format"} => dec.op \notin Compressed
<1>1. "illegal" \in Ops
  BY IllegalIsInteger, WholeOpsAre DEF WholeOps
<1>2. DecodeOK(ZeroDecode)
  BY <1>1 DEF DecodeOK, ZeroDecode, Register
<1>3. DecodeOK(Decoded(isa, inst))
  <2> DEFINE op == decode_inst_opcode(isa, inst)
  <2>1. op \in Ops
    BY DecodedOp DEF PassesInv
  <2> HIDE DEF op
  <2>2. [ZeroDecode EXCEPT !.op = op] =
          [op |-> op, codec |-> "illegal", rd |-> 0, rs1 |-> 0, rs2 |-> 0, rs3 |-> 0,
           imm |-> 0, rm |-> 0, pred |-> 0, succ |-> 0, aq |-> 0, rl |-> 0]
    BY DEF ZeroDecode
  <2> DEFINE d == [ZeroDecode EXCEPT !.op = op]
  <2>3. d = [op |-> op, codec |-> "illegal", rd |-> 0, rs1 |-> 0, rs2 |-> 0, rs3 |-> 0,
             imm |-> 0, rm |-> 0, pred |-> 0, succ |-> 0, aq |-> 0, rl |-> 0]
    BY <2>2
  <2> HIDE DEF d
  <2>4. DecodeOK(d)
    BY <2>1, <2>3 DEF DecodeOK, Register
  <2> QED BY <2>4 DEF d, op, Decoded
<1>4. DecodeOK(WithOperands(isa, inst))
  BY OperandsAre DEF PassesInv
<1> DEFINE d == Expanded(isa, inst)
<1>5. DecodeOK(d) /\ d.op \in WholeOps
  BY ExpandedIs DEF PassesInv
<1>6. DecodeOK(lift_pseudo(d)) /\ lift_pseudo(d).op \notin Compressed
  <2> HIDE DEF d
  <2> QED BY <1>5, LiftedIs
<1>7. d.op \notin Compressed
  BY <1>5, WholeOpsAre
<1> QED BY <1>2, <1>3, <1>4, <1>5, <1>6, <1>7 DEF PassesInv, Stages

(* The record and the text stay in their types: whatever codec the table   *)
(* names, decode_inst_operands leaves every register below 32 and every    *)
(* other operand in its field.                                             *)
THEOREM DisassemblerTypeOK == Spec => []TypeOK
<1>1. PassesInv => TypeOK
  <2> SUFFICES ASSUME PassesInv PROVE TypeOK
    OBVIOUS
  <2>1. DecodeOK(dec)
    BY RecordsAre
  <2>2. line.name \in Ops \union {NoLine.name, HackThePlanet.name}
    <3>1. CASE line = NoLine
      BY <3>1
    <3>2. CASE line = HackThePlanet
      BY <3>2
    <3>3. CASE line = format_inst(dec)
      <4>1. line.name = dec.op
        BY <3>3 DEF format_inst
      <4> QED BY <4>1, <2>1 DEF DecodeOK
    <3> QED BY <3>1, <3>2, <3>3 DEF PassesInv, Assembly
  <2> QED BY <2>1, <2>2 DEF TypeOK, DecodeOK, PassesInv
<1> QED BY <1>1, Passes, PTL

(* After the expansion no operation is a compressed one: decode_inst_opcode *)
(* yields a compressed operation only for an instruction set in whose      *)
(* column the table has an expansion, and lift_pseudo never yields one.    *)
THEOREM NoCompressedLeft == Spec => []AlwaysExpanded
<1>1. PassesInv => AlwaysExpanded
  BY RecordsAre DEF AlwaysExpanded
<1> QED BY <1>1, Passes, PTL

(* For every word the decoder's jump and branch offsets, which the CPU     *)
(* slices into word numbers, are the byte offsets of the word's encoding   *)
(* divided by 4 and rounded down.                                          *)
THEOREM JumpsInWords == Spec => []OffsetsInWords
<1>1. PassesInv => OffsetsInWords
  BY OffsetsOfJumps DEF PassesInv, OffsetsInWords
<1> QED BY <1>1, Passes, PTL

(* For every word the immediates the CPU widens to 32 bits keep the value  *)
(* they have as signed numbers of 12 and 20 bits.                          *)
THEOREM WideningKeepsValues == Spec => []ImmediatesWidened
<1>1. PassesInv => ImmediatesWidened
  BY WidenedImmediates DEF PassesInv, ImmediatesWidened
<1> QED BY <1>1, Passes, PTL

-----------------------------------------------------------------------------
(* The processor's side: what the control table sees of the word.          *)
LEMMA SeenIs ==
    ASSUME inst \in InstructionWord
    PROVE  /\ Seen = [opcode |-> Field(inst, 6, 0), funct3 |-> funct3(inst),
                      funct7 |-> funct7(inst), csr |-> Field(inst, 31, 20)]
           /\ Decode!Unsigned(Decode!rd) = Field(inst, 11, 7)
           /\ Decode!Unsigned(Decode!rs1) = Field(inst, 19, 15)
           /\ Decode!Unsigned(Decode!rs2) = Field(inst, 24, 20)
           /\ Decode!Unsigned(Decode!csr) = Field(inst, 31, 20)
<1>1. Field(inst, 6, 0) \in 0 .. 127 /\ Field(inst, 11, 7) \in 0 .. 31
      /\ Field(inst, 14, 12) \in 0 .. 7
  BY LowFieldsAre
<1>2. Field(inst, 19, 15) \in 0 .. 31
  BY MiddleFieldsAre
<1>3. Field(inst, 24, 20) \in 0 .. 31 /\ Field(inst, 31, 25) \in 0 .. 127
      /\ Field(inst, 31, 20) \in 0 .. 4095
  BY HighFieldsAre
<1>4. /\ Decode!opcode = Decode!Vector(7, Field(inst, 6, 0))
      /\ Decode!rd = Decode!Vector(5, Field(inst, 11, 7))
      /\ Decode!funct3 = Decode!Vector(3, Field(inst, 14, 12))
      /\ Decode!rs1 = Decode!Vector(5, Field(inst, 19, 15))
      /\ Decode!rs2 = Decode!Vector(5, Field(inst, 24, 20))
      /\ Decode!funct7 = Decode!Vector(7, Field(inst, 31, 25))
      /\ Decode!csr = Decode!Vector(12, Field(inst, 31, 20))
  BY SameField DEF Decode!opcode, Decode!rd, Decode!funct3, Decode!rs1, Decode!rs2,
     Decode!funct7, Decode!csr, Decode!Bits
<1>5. /\ Decode!Unsigned(Decode!opcode) = Field(inst, 6, 0)
      /\ Decode!Unsigned(Decode!funct7) = Field(inst, 31, 25)
  BY <1>1, <1>3, <1>4, UnsignedFields
<1>6. Decode!Unsigned(Decode!funct3) = Field(inst, 14, 12)
  BY <1>1, <1>4, UnsignedFields
<1>7. /\ Decode!Unsigned(Decode!rd) = Field(inst, 11, 7)
      /\ Decode!Unsigned(Decode!rs1) = Field(inst, 19, 15)
      /\ Decode!Unsigned(Decode!rs2) = Field(inst, 24, 20)
  BY <1>1, <1>2, <1>3, <1>4, UnsignedFields
<1>8. Decode!Unsigned(Decode!csr) = Field(inst, 31, 20)
  <2> DEFINE n == Field(inst, 31, 20)
  <2>1. n \in 0 .. 4095
    BY <1>3
  <2>2. Decode!csr = Decode!Vector(12, n)
    BY <1>4
  <2> HIDE DEF n
  <2>3. Decode!Unsigned(Decode!Vector(12, n)) = n
    BY <2>1 DEF Decode!Unsigned, Decode!Vector
  <2> QED BY <2>2, <2>3 DEF n
<1> QED BY <1>5, <1>6, <1>7, <1>8 DEF Seen, funct3, funct7

(* The table of register-register operations and the opcode tree agree, in *)
(* both directions.                                                        *)
LEMMA RegisterTable ==
    ASSUME NEW w \in InstructionWord, NEW i, i.funct3 = funct3(w), i.funct7 = funct7(w)
    PROVE  /\ \A e \in C!Matching(C!RType, i) :
                 /\ OpRegister(w) \in DOMAIN RegisterOps
                 /\ e.aluop = RegisterOps[OpRegister(w)]
           /\ OpRegister(w) \in DOMAIN RegisterOps => C!Matching(C!RType, i) # {}
<1> DEFINE f7 == funct7(w)
           f3 == funct3(w)
           Table == <<"add", "sll", "slt", "sltu", "xor", "srl", "or", "and",
                      "mul", "mulh", "mulhsu", "mulhu", "div", "divu", "rem", "remu">>
<1>1. f7 \in 0 .. 127 /\ f3 \in 0 .. 7
  BY MoreFields
<1>2. OpRegister(w) = IF f7 < 2 THEN Table[8 * f7 + f3 + 1]
                      ELSE IF 8 * f7 + f3 = 256 THEN "sub"
                      ELSE IF 8 * f7 + f3 = 261 THEN "sra" ELSE "illegal"
  <2>1. funct10(w) = 8 * f7 + f3
    BY DEF funct10
  <2>2. (f7 < 2 => ~ 8 * f7 + f3 = 256) /\ (f7 < 2 => ~ 8 * f7 + f3 = 261)
    BY <1>1
  <2> DEFINE n == 8 * f7 + f3
             low == f7 < 2
             entry == Table[n + 1]
             o == OpRegister(w)
  <2>3. o = CASE low -> entry [] n = 256 -> "sub" [] n = 261 -> "sra" [] OTHER -> "illegal"
    BY <2>1 DEF OpRegister
  <2>4. (low => n # 256) /\ (low => n # 261)
    BY <2>2
  <2>5. n = 256 => n # 261
    OBVIOUS
  <2> HIDE DEF n, low, entry, o
  <2>6. o = IF low THEN entry ELSE
             IF n = 256 THEN "sub" ELSE IF n = 261 THEN "sra" ELSE "illegal"
    BY <2>3, <2>4, <2>5
  <2> QED BY <2>6 DEF n, low, entry, o
<1> DEFINE o == OpRegister(w)
<1>3. f7 = 0 => o = Table[f3 + 1]
  BY <1>1, <1>2
<1>4. f7 = 1 => o = Table[f3 + 9]
  BY <1>1, <1>2
<1>5. f7 = 32 => o = IF f3 = 0 THEN "sub" ELSE IF f3 = 5 THEN "sra" ELSE "illegal"
  BY <1>1, <1>2
<1>6. f7 \notin {0, 1, 32} => o = "illegal"
  BY <1>1, <1>2
<1> HIDE DEF f7, f3, o
<1>7. ASSUME NEW e \in C!Matching(C!RType, i)
      PROVE  o \in DOMAIN RegisterOps /\ e.aluop = RegisterOps[o]
  <2>1. e \in C!RType /\ f7 \in e.funct7 /\ f3 = e.funct3
    BY DEF C!Matching, f7, f3
  <2>2. \/ f7 = 0 /\ f3 = 0 /\ e.aluop = C!ADD
        \/ f7 = 32 /\ f3 = 0 /\ e.aluop = C!SUB
        \/ f7 = 0 /\ f3 = 7 /\ e.aluop = C!AND
        \/ f7 = 0 /\ f3 = 6 /\ e.aluop = C!OR
        \/ f7 = 0 /\ f3 = 4 /\ e.aluop = C!XOR
        \/ f7 = 0 /\ f3 = 1 /\ e.aluop = C!SLL
        \/ f7 = 32 /\ f3 = 5 /\ e.aluop = C!SRA
        \/ f7 = 0 /\ f3 = 5 /\ e.aluop = C!SRL
        \/ f7 = 0 /\ f3 = 2 /\ e.aluop = C!SLT
        \/ f7 = 0 /\ f3 = 3 /\ e.aluop = C!SLTU
        \/ f7 = 1 /\ f3 = 0 /\ e.aluop = C!MUL
        \/ f7 = 1 /\ f3 = 1 /\ e.aluop = C!MULH
        \/ f7 = 1 /\ f3 = 3 /\ e.aluop = C!MULHU
    BY <2>1 DEF C!RType
  <2>3. \/ o = "add" /\ e.aluop = C!ADD
        \/ o = "sub" /\ e.aluop = C!SUB
        \/ o = "and" /\ e.aluop = C!AND
        \/ o = "or" /\ e.aluop = C!OR
        \/ o = "xor" /\ e.aluop = C!XOR
        \/ o = "sll" /\ e.aluop = C!SLL
        \/ o = "sra" /\ e.aluop = C!SRA
        \/ o = "srl" /\ e.aluop = C!SRL
        \/ o = "slt" /\ e.aluop = C!SLT
        \/ o = "sltu" /\ e.aluop = C!SLTU
        \/ o = "mul" /\ e.aluop = C!MUL
        \/ o = "mulh" /\ e.aluop = C!MULH
        \/ o = "mulhu" /\ e.aluop = C!MULHU
    BY <2>2, <1>3, <1>4, <1>5
  <2> QED BY <2>3 DEF RegisterOps
<1>8. ASSUME o \in DOMAIN RegisterOps
      PROVE  C!Matching(C!RType, i) # {}
  <2>1. o \in {"add", "sub", "and", "or", "xor", "sll", "srl", "sra", "slt", "sltu",
               "mul", "mulh", "mulhu"}
    BY <1>8 DEF RegisterOps
  <2>2. \/ f7 = 0 /\ f3 \in 0 .. 7
        \/ f7 = 1 /\ f3 \in {0, 1, 3}
        \/ f7 = 32 /\ f3 \in {0, 5}
    <3>1. f7 = 1 => f3 \in {0, 1, 3}
      BY <2>1, <1>1, <1>4
    <3>2. f7 = 32 => f3 \in {0, 5}
      BY <2>1, <1>1, <1>5
    <3> QED BY <3>1, <3>2, <2>1, <1>1, <1>6
  <2>3. \E e \in C!RType : f7 \in e.funct7 /\ f3 = e.funct3
    BY <2>2 DEF C!RType
  <2> QED BY <2>3 DEF C!Matching, f7, f3
<1> QED BY <1>7, <1>8 DEF o

(* The same for the operations with an immediate; the shifts by 32 and     *)
(* more that the opcode tree takes for shifts match no row.                *)
ComputingOps == DOMAIN ImmediateOps \union DOMAIN ShiftOps
ImmediateAlu(op) == IF op \in DOMAIN ImmediateOps THEN ImmediateOps[op] ELSE ShiftOps[op]

LEMMA ImmediateTable ==
    ASSUME NEW w \in InstructionWord, NEW i, i.funct3 = funct3(w), i.funct7 = funct7(w)
    PROVE  /\ \A e \in C!Matching(C!IType, i) :
                 /\ OpImmediate(w) \in ComputingOps
                 /\ e.aluop = ImmediateAlu(OpImmediate(w))
           /\ OpImmediate(w) \in ComputingOps
              /\ (OpImmediate(w) \in DOMAIN ShiftOps => Field(w, 26, 25) = 0)
                 => C!Matching(C!IType, i) # {}
<1> DEFINE f7 == funct7(w)
           f3 == funct3(w)
           top == shamt_top(w)
           low == Field(w, 26, 25)
           o == OpImmediate(w)
           left == When(top = 0, "slli")
           right == ShiftRight("srli", "srai", top, 8)
<1>1. f7 \in 0 .. 127 /\ f3 \in 0 .. 7 /\ top \in 0 .. 31 /\ low \in 0 .. 3
      /\ f7 = low + 4 * top
  BY MoreFields, HighFieldsAre DEF funct7, shamt_top
<1>2. /\ f3 = 0 => o = "addi"
      /\ f3 = 1 => o = left
      /\ f3 = 2 => o = "slti"
      /\ f3 = 3 => o = "sltiu"
      /\ f3 = 4 => o = "xori"
      /\ f3 = 5 => o = right
      /\ f3 = 6 => o = "ori"
      /\ f3 = 7 => o = "andi"
  <2> HIDE DEF left, right
  <2>1. o = At(<<"addi", left, "slti", "sltiu", "xori", right, "ori", "andi">>, f3)
    BY DEF OpImmediate, left, right
  <2> HIDE DEF o, f3
  <2> QED BY <2>1 DEF At
<1>3. left = IF top = 0 THEN "slli" ELSE "illegal"
  BY DEF When
<1>4. right = IF top = 0 THEN "srli" ELSE IF top = 8 THEN "srai" ELSE "illegal"
  BY DEF ShiftRight
<1> HIDE DEF f7, f3, top, low, o, left, right
<1>5. DOMAIN ImmediateOps = {"addi", "andi", "ori", "xori"}
      /\ DOMAIN ShiftOps = {"slli", "srli", "srai"}
  BY DEF ImmediateOps, ShiftOps
<1>6. ASSUME NEW e \in C!Matching(C!IType, i)
      PROVE  o \in ComputingOps /\ e.aluop = ImmediateAlu(o)
  <2>1. e \in C!IType /\ f7 \in e.funct7 /\ f3 = e.funct3
    BY DEF C!Matching, f7, f3
  <2>2. \/ f3 = 0 /\ e.aluop = C!ADD
        \/ f3 = 7 /\ e.aluop = C!AND
        \/ f3 = 6 /\ e.aluop = C!OR
        \/ f3 = 4 /\ e.aluop = C!XOR
        \/ f7 = 0 /\ f3 = 1 /\ e.aluop = C!SLL
        \/ f7 = 32 /\ f3 = 5 /\ e.aluop = C!SRA
        \/ f7 = 0 /\ f3 = 5 /\ e.aluop = C!SRL
    BY <2>1 DEF C!IType
  <2>3. (f7 = 0 => top = 0) /\ (f7 = 32 => top = 8)
    BY <1>1
  <2>4. \/ o = "addi" /\ e.aluop = C!ADD
        \/ o = "andi" /\ e.aluop = C!AND
        \/ o = "ori" /\ e.aluop = C!OR
        \/ o = "xori" /\ e.aluop = C!XOR
        \/ o = "slli" /\ e.aluop = C!SLL
        \/ o = "srai" /\ e.aluop = C!SRA
        \/ o = "srli" /\ e.aluop = C!SRL
    BY <2>2, <2>3, <1>2, <1>3, <1>4
  <2> QED BY <2>4, <1>5 DEF ComputingOps, ImmediateAlu, ImmediateOps, ShiftOps
<1>7. ASSUME o \in ComputingOps, o \in DOMAIN ShiftOps => low = 0
      PROVE  C!Matching(C!IType, i) # {}
  <2>1. o \in {"addi", "andi", "ori", "xori", "slli", "srli", "srai"}
    BY <1>5, <1>7 DEF ComputingOps
  <2>2. \/ f3 \in {0, 4, 6, 7}
        \/ f3 = 1 /\ top = 0 /\ low = 0
        \/ f3 = 5 /\ top \in {0, 8} /\ low = 0
    BY <2>1, <1>1, <1>2, <1>3, <1>4, <1>5, <1>7
  <2>3. f3 \in {0, 4, 6, 7} \/ (f3 = 1 /\ f7 = 0) \/ (f3 = 5 /\ f7 \in {0, 32})
    BY <2>2, <1>1
  <2>4. \E e \in C!IType : f7 \in e.funct7 /\ f3 = e.funct3
    BY <2>3, <1>1 DEF C!IType
  <2> QED BY <2>4 DEF C!Matching, f7, f3
<1> QED BY <1>6, <1>7 DEF o, low

(* Whatever row of a table matches, the ALU is told the same.              *)
LEMMA ComputeIs ==
    ASSUME NEW table, NEW alusrc, NEW i, NEW aluop, C!Matching(table, i) # {},
           \A e \in C!Matching(table, i) : e.aluop = aluop
    PROVE  C!Compute(table, alusrc, i) = C!Row(alusrc, 1, C!FromAlu, aluop, 0, C!PcNext, 0)
<1> DEFINE e == CHOOSE m \in C!Matching(table, i) : TRUE
<1>1. e \in C!Matching(table, i)
  OBVIOUS
<1>2. C!Compute(table, alusrc, i) = C!Row(alusrc, 1, C!FromAlu, e.aluop, 0, C!PcNext, 0)
  BY DEF C!Compute
<1> QED BY <1>1, <1>2

(* The major opcodes of the operations the processor implements.           *)
LEMMA ImplementedMajors ==
    ASSUME NEW w \in InstructionWord, Quadrant3(w) \in Implemented
    PROVE  LET major == Field(w, 6, 2)
               op == Quadrant3(w)
           IN  \/ major = 4 /\ op = OpImmediate(w) /\ op \in ComputingOps
               \/ major = 12 /\ op = OpRegister(w) /\ op \in DOMAIN RegisterOps
               \/ major = 13 /\ op = "lui"
               \/ major = 24 /\ op = BranchOp(w) /\ op \in DOMAIN Branches
               \/ major = 25 /\ op = "jalr" /\ funct3(w) = 0
               \/ major = 27 /\ op = "jal"
               \/ major = 28 /\ op = "csrrw" /\ funct3(w) = 1
<1> DEFINE major == Field(w, 6, 2)
           op == Quadrant3(w)
<1>1. major \in 0 .. 31
  BY LowFieldsAre
<1>2. op \in {"add", "sub", "and", "or", "xor", "sll", "srl", "sra", "slt", "sltu", "mul",
              "mulh", "mulhu", "addi", "andi", "ori", "xori", "slli", "srli", "srai", "beq",
              "bne", "blt", "bge", "bltu", "bgeu", "lui", "jal", "jalr", "csrrw"}
  BY DEF Implemented, RegisterOps, ImmediateOps, ShiftOps, Branches
<1>3. major \notin FloatMajors
  <2>1. op \in IntegerOps /\ op # "illegal"
    <3> HIDE DEF op
    <3> QED BY <1>2, CodecOf
  <2> QED BY <2>1, Quadrant3Is, FloatOpsApart
<1>4. /\ major = 0 => op = Load(w)
      /\ major = 3 => op = MiscMem(w)
      /\ major = 4 => op = OpImmediate(w)
      /\ major = 5 => op = "auipc"
      /\ major = 6 => op = OpImmediate32(w)
      /\ major = 8 => op = Store(w)
      /\ major = 12 => op = OpRegister(w)
      /\ major = 13 => op = "lui"
      /\ major = 14 => op = OpRegisterWide(w, Words32)
      /\ major = 22 => op = OpImmediate64(w)
      /\ major = 24 => op = BranchOp(w)
      /\ major = 25 => op = When(funct3(w) = 0, "jalr")
      /\ major = 27 => op = "jal"
      /\ major = 28 => op = SystemOp(w)
      /\ major = 30 => op = OpRegisterWide(w, Words64)
      /\ major \in {2, 7, 10, 15, 21, 23, 26, 29, 31} => op = "illegal"
  BY DEF Quadrant3
<1> HIDE DEF major, op
<1>5. major \in {4, 12, 13, 24, 25, 27, 28}
  <2>1. major \notin {0, 3, 8}
    BY <1>2, <1>4, LoadIs
  <2>2. major \notin {6, 22}
    BY <1>2, <1>4, IntegerLeaves
  <2>3. major \notin {14, 30}
    BY <1>2, <1>4, WideLeaves
  <2>4. major \notin {5, 2, 7, 10, 15, 21, 23, 26, 29, 31}
    BY <1>2, <1>4
  <2> QED BY <1>1, <1>3, <2>1, <2>2, <2>3, <2>4 DEF FloatMajors
<1>6. major = 4 => op \in ComputingOps
  <2>1. OpImmediate(w) \in {"addi", "slli", "slti", "sltiu", "xori", "srli", "srai", "ori",
                            "andi", "illegal"}
    BY IntegerLeaves
  <2>2. major = 4 => op \in {"addi", "andi", "ori", "xori", "slli", "srli", "srai"}
    BY <1>2, <1>4, <2>1
  <2> QED BY <2>2 DEF ComputingOps, ImmediateOps, ShiftOps
<1>7. major = 12 => op \in DOMAIN RegisterOps
  <2>1. OpRegister(w) \notin {"addi", "andi", "ori", "xori", "slli", "srli", "srai", "beq",
              "bne", "blt", "bge", "bltu", "bgeu", "lui", "jal", "jalr", "csrrw"}
    BY IntegerLeaves
  <2>2. major = 12 => op \in {"add", "sub", "and", "or", "xor", "sll", "srl", "sra", "slt",
                              "sltu", "mul", "mulh", "mulhu"}
    BY <1>2, <1>4, <2>1
  <2> QED BY <2>2 DEF RegisterOps
<1>8. major = 24 => op \in DOMAIN Branches
  <2>1. major = 24 => op \in {"beq", "bne", "blt", "bge", "bltu", "bgeu"}
    BY <1>2, <1>4, IntegerLeaves
  <2> QED BY <2>1 DEF Branches
<1>9. major = 25 => op = "jalr" /\ funct3(w) = 0
  BY <1>2, <1>4 DEF When
<1>10. major = 28 => op = "csrrw" /\ funct3(w) = 1
  <2>1. SystemOp(w) \in Implemented => SystemOp(w) = "csrrw"
    <3>1. SystemOp(w) \in {"add", "sub", "and", "or", "xor", "sll", "srl", "sra", "slt",
                           "sltu", "mul",
              "mulh", "mulhu", "addi", "andi", "ori", "xori", "slli", "srli", "srai", "beq",
              "bne", "blt", "bge", "bltu", "bgeu", "lui", "jal", "jalr", "csrrw"}
             => SystemOp(w) = "csrrw"
      BY SystemLeaves
    <3> QED BY <3>1 DEF Implemented, RegisterOps, ImmediateOps, ShiftOps, Branches
  <2>2. SystemOp(w) = "csrrw" => funct3(w) = 1
    <3>1. Privileged(w) # "csrrw"
      BY SystemLeaves
    <3>2. funct3(w) \in 0 .. 7
      BY MoreFields
    <3> QED BY <3>1, <3>2 DEF SystemOp, At
  <2> QED BY <1>4, <2>1, <2>2 DEF op
<1> QED BY <1>4, <1>5, <1>6, <1>7, <1>8, <1>9, <1>10 DEF major, op

(* The immediates of the two readers.                                      *)
LEMMA ImmediatesAgree ==
    ASSUME inst \in InstructionWord
    PROVE  /\ Decode!imm12_32.value = imm12(inst)
           /\ Decode!imm12_32.value % 32 = Field(inst, 24, 20)
           /\ Decode!imm20_SL.value = imm20(inst)
           /\ Decode!BOffset = sbimm12(inst)
           /\ Decode!JOffset = jimm20(inst)
           /\ Decode!IImmediate = imm12(inst)
<1>1. /\ Decode!IImmediate = imm12(inst)
      /\ Decode!BOffset = sbimm12(inst)
      /\ Decode!JOffset = jimm20(inst)
      /\ Decode!UImmediate = imm20(inst)
  BY SameField DEF Decode!IImmediate, Decode!BOffset, Decode!JOffset, Decode!UImmediate,
     Decode!Part, imm12, imm20, jimm20, sbimm12, Bit
<1>2. /\ Decode!imm12_32 = [width |-> 32, value |-> Decode!IImmediate]
      /\ Decode!imm20_SL = [width |-> 32, value |-> Decode!UImmediate]
  BY WidenedImmediates DEF Decode!ImmediatesWidened
<1>3. Decode!IImmediate % 32 = Field(inst, 24, 20)
  <2> DEFINE p == Field(inst, 30, 20)
             s == Field(inst, 31, 31)
             a == Field(inst, 24, 20)
             b == Field(inst, 31, 25)
  <2>1. /\ p + 2048 * s = a + 32 * b
        /\ a \in 0 .. 31 /\ s \in 0 .. 1 /\ p \in 0 .. 2047
    BY HighFieldsAre
  <2>2. b \in 0 .. 127
    BY MoreFields
  <2>3. Decode!IImmediate = p - 2048 * s
    BY <1>1 DEF imm12, Bit
  <2> HIDE DEF p, s, a, b
  <2>4. p - 2048 * s = a + 32 * (b - 128 * s)
    BY <2>1, <2>2
  <2>5. (a + 32 * (b - 128 * s)) % 32 = a
    <3> DEFINE q == b - 128 * s
    <3>1. q \in Int
      BY <2>1, <2>2
    <3> HIDE DEF q
    <3>2. (a + 32 * q) % 32 = a
      BY <2>1, <3>1
    <3> QED BY <3>2 DEF q
  <2> QED BY <2>3, <2>4, <2>5 DEF a
<1> QED BY <1>1, <1>2, <1>3

(* The register numbers, for the codecs that have them.                    *)
LEMMA RegistersAgree ==
    ASSUME inst \in InstructionWord, NEW codec
    PROVE  /\ codec \in {"r", "i", "i_sh7", "i_csr", "u", "uj"} =>
                 Decode!Unsigned(Decode!rd) = Rd(codec, inst)
           /\ codec \in {"r", "i", "i_sh7", "i_csr", "sb"} =>
                 Decode!Unsigned(Decode!rs1) = Rs1(codec, inst)
           /\ codec \in {"r", "sb"} => Decode!Unsigned(Decode!rs2) = Rs2(codec, inst)
<1>1. codec \in {"r", "i", "i_sh7", "i_csr", "u", "uj"} => Rd(codec,
                                                              inst) = Field(inst, 11, 7)
  BY DEF Rd
<1>2. codec \in {"r", "i", "i_sh7", "i_csr", "sb"} => Rs1(codec, inst) = Field(inst, 19, 15)
  BY DEF Rs1
<1>3. codec \in {"r", "sb"} => Rs2(codec, inst) = Field(inst, 24, 20)
  BY DEF Rs2
<1> QED BY <1>1, <1>2, <1>3, SeenIs

LEMMA CodecsAre ==
    ASSUME NEW op \in Implemented
    PROVE  opcode_data[op].codec =
             IF op \in DOMAIN RegisterOps THEN "r"
             ELSE IF op \in DOMAIN ShiftOps THEN "i_sh7"
             ELSE IF op \in DOMAIN Branches THEN "sb"
             ELSE IF op = "lui" THEN "u"
             ELSE IF op = "jal" THEN "uj"
             ELSE IF op = "csrrw" THEN "i_csr" ELSE "i"
<1>1. op \in DOMAIN RegisterOps => opcode_data[op].codec = "r"
  BY CodecOf DEF RegisterOps
<1>2. op \in DOMAIN ShiftOps => opcode_data[op].codec = "i_sh7"
  BY CodecOf DEF ShiftOps
<1>3. op \in DOMAIN Branches => opcode_data[op].codec = "sb"
  BY CodecOf DEF Branches
<1>4. op \in DOMAIN ImmediateOps => opcode_data[op].codec = "i"
  BY CodecOf DEF ImmediateOps
<1>5. /\ opcode_data["lui"].codec = "u" /\ opcode_data["jal"].codec = "uj"
      /\ opcode_data["jalr"].codec = "i" /\ opcode_data["csrrw"].codec = "i_csr"
  BY CodecOf
<1> QED BY <1>1, <1>2, <1>3, <1>4, <1>5 DEF Implemented

(* The kinds of implemented operations are apart.                          *)
LEMMA KindsApart ==
    ASSUME NEW op
    PROVE  /\ op \in DOMAIN RegisterOps =>
                 /\ op \notin DOMAIN ImmediateOps /\ op \notin DOMAIN ShiftOps
                 /\ op \notin DOMAIN Branches /\ op \notin {"lui", "jal", "jalr", "csrrw"}
           /\ op \in DOMAIN ImmediateOps =>
                 /\ op \notin DOMAIN ShiftOps
                 /\ op \notin DOMAIN Branches /\ op \notin {"lui", "jal", "jalr", "csrrw"}
           /\ op \in DOMAIN ShiftOps =>
                 op \notin DOMAIN Branches /\ op \notin {"lui", "jal", "jalr", "csrrw"}
           /\ op \in DOMAIN Branches => op \notin {"lui", "jal", "jalr", "csrrw"}
  BY DEF RegisterOps, ImmediateOps, ShiftOps, Branches

LEMMA OperationKinds ==
    ASSUME NEW d
    PROVE  /\ d.op \in DOMAIN RegisterOps =>
                 (SameOperation(d) <=> ComputesWith(RegisterOps[d.op], 0))
           /\ d.op \in DOMAIN ImmediateOps =>
                 (SameOperation(d) <=> ComputesWith(ImmediateOps[d.op], 1))
           /\ d.op \in DOMAIN ShiftOps =>
                 (SameOperation(d) <=> ComputesWith(ShiftOps[d.op], 1))
           /\ d.op \in DOMAIN Branches =>
                 (SameOperation(d) <=> BranchesOn(Branches[d.op][1], Branches[d.op][2]))
           /\ d.op = "lui"   => (SameOperation(d) <=> Writes(C!FromImm20))
           /\ d.op = "jal"   => (SameOperation(d) <=> JumpsTo(C!PcJal))
           /\ d.op = "jalr"  => (SameOperation(d) <=> JumpsTo(C!PcJalr))
           /\ d.op = "csrrw" => (SameOperation(d) <=> Signals(0) = C!CsrRow(Seen))
<1> DEFINE op == d.op
           reg == op \in DOMAIN RegisterOps
           im == op \in DOMAIN ImmediateOps
           sh == op \in DOMAIN ShiftOps
           br == op \in DOMAIN Branches
           A == ComputesWith(RegisterOps[op], 0)
           B == ComputesWith(ImmediateOps[op], 1)
           D == ComputesWith(ShiftOps[op], 1)
           E == BranchesOn(Branches[op][1], Branches[op][2])
           F == Writes(C!FromImm20)
           G == JumpsTo(C!PcJal)
           H == JumpsTo(C!PcJalr)
           I == Signals(0) = C!CsrRow(Seen)
           same == SameOperation(d)
<1>1. same = CASE reg -> A [] im -> B [] sh -> D [] br -> E [] op = "lui" -> F
               [] op = "jal" -> G [] op = "jalr" -> H [] op = "csrrw" -> I
  BY DEF SameOperation
<1>2. /\ reg => ~ im /\ ~ sh /\ ~ br /\ op \notin {"lui", "jal", "jalr", "csrrw"}
      /\ im => ~ sh /\ ~ br /\ op \notin {"lui", "jal", "jalr", "csrrw"}
      /\ sh => ~ br /\ op \notin {"lui", "jal", "jalr", "csrrw"}
      /\ br => op \notin {"lui", "jal", "jalr", "csrrw"}
  BY KindsApart
<1> HIDE DEF op, reg, im, sh, br, A, B, D, E, F, G, H, I, same
<1>3. /\ reg => (same <=> A)
      /\ im => (same <=> B)
      /\ sh => (same <=> D)
      /\ br => (same <=> E)
      /\ op = "lui" => (same <=> F)
      /\ op = "jal" => (same <=> G)
      /\ op = "jalr" => (same <=> H)
      /\ op = "csrrw" => (same <=> I)
  BY <1>1, <1>2
<1> QED BY <1>3 DEF op, reg, im, sh, br, A, B, D, E, F, G, H, I, same

(* What the table orders for the word of each kind.                        *)
LEMMA SignalsAre ==
    ASSUME inst \in InstructionWord, Field(inst, 1, 0) = 3, NEW R
    PROVE  LET major == Field(inst, 6, 2)
           IN  /\ major = 4  => Signals(R) = C!Compute(C!IType, 1, Seen)
               /\ major = 12 => Signals(R) = C!Compute(C!RType, 0, Seen)
               /\ major = 13 => Signals(R) = C!Row(X, 1, C!FromImm20, X, 0, C!PcNext, 0)
               /\ major = 24 => Signals(R) = C!BranchRow(Seen, R, 1 - R)
               /\ major = 25 => Signals(R) = C!JumpRow(C!PcJalr)
               /\ major = 27 => Signals(R) = C!JumpRow(C!PcJal)
               /\ major = 28 => Signals(R) = C!CsrRow(Seen)
               /\ major \notin {4, 12, 13, 24, 25, 27, 28} => Signals(R) = C!Nothing
<1> DEFINE major == Field(inst, 6, 2)
           code == Seen.opcode
<1>1. code = 3 + 4 * major
  BY SeenIs, LowFieldsAre
<1>2. major \in 0 .. 31
  BY LowFieldsAre
<1>3. Signals(R) =
        IF code = 111 THEN C!JumpRow(C!PcJal)
        ELSE IF code = 103 THEN C!JumpRow(C!PcJalr)
        ELSE IF code = 99 THEN C!BranchRow(Seen, R, 1 - R)
        ELSE IF code = 19 THEN C!Compute(C!IType, 1, Seen)
        ELSE IF code = 51 THEN C!Compute(C!RType, 0, Seen)
        ELSE IF code = 55 THEN C!Row(X, 1, C!FromImm20, X, 0, C!PcNext, 0)
        ELSE IF code = 115 THEN C!CsrRow(Seen)
        ELSE C!Nothing
  BY DEF Signals, C!Controls, C!Jal, C!Jalr, C!Branch, C!OpImm, C!Op, C!Lui, C!System
<1> HIDE DEF major, code
<1> QED BY <1>1, <1>2, <1>3 DEF major

LEMMA ShownRegisterOp ==
    ASSUME inst \in InstructionWord, Field(inst, 1, 0) = 3, Field(inst, 6, 2) = 12,
           NEW op \in DOMAIN RegisterOps, op = OpRegister(inst)
    PROVE  ComputesWith(RegisterOps[op], 0)
<1>1. /\ C!Matching(C!RType, Seen) # {}
      /\ \A e \in C!Matching(C!RType, Seen) : e.aluop = RegisterOps[op]
  BY SeenIs, RegisterTable
<1>2. C!Compute(C!RType, 0, Seen) = C!Row(0, 1, C!FromAlu, RegisterOps[op], 0, C!PcNext, 0)
  BY <1>1, ComputeIs
<1> QED BY <1>2, SignalsAre DEF ComputesWith

LEMMA ShownImmediateOp ==
    ASSUME inst \in InstructionWord, Field(inst, 1, 0) = 3, Field(inst, 6, 2) = 4,
           NEW op \in ComputingOps, op = OpImmediate(inst),
           op \in DOMAIN ShiftOps => Field(inst, 26, 25) = 0
    PROVE  ComputesWith(ImmediateAlu(op), 1)
<1>1. /\ C!Matching(C!IType, Seen) # {}
      /\ \A e \in C!Matching(C!IType, Seen) : e.aluop = ImmediateAlu(op)
  BY SeenIs, ImmediateTable
<1>2. C!Compute(C!IType, 1, Seen) = C!Row(1, 1, C!FromAlu, ImmediateAlu(op), 0, C!PcNext, 0)
  BY <1>1, ComputeIs
<1> QED BY <1>2, SignalsAre DEF ComputesWith

(* The branch the text names is the comparison that decides.               *)
LEMMA ShownBranches ==
    ASSUME inst \in InstructionWord, Field(inst, 1, 0) = 3, Field(inst, 6, 2) = 24,
           NEW op \in DOMAIN Branches, op = BranchOp(inst), NEW R \in {0, 1}
    PROVE  /\ Signals(R).aluop = Branches[op][1]
           /\ Signals(R).pc_src = C!PcBranch <=> R = Branches[op][2]
           /\ Signals(R).stall = 1 <=> R = Branches[op][2]
<1> DEFINE f3 == funct3(inst)
           i == Seen
           row == C!BranchRow(i, R, 1 - R)
<1>1. Signals(R) = row
  BY SignalsAre
<1>2. i.funct3 = f3 /\ f3 \in 0 .. 7
  BY SeenIs, MoreFields
<1>3. \/ f3 = 0 /\ op = "beq" /\ Branches[op] = <<C!SUB, 0>>
      \/ f3 = 1 /\ op = "bne" /\ Branches[op] = <<C!SUB, 1>>
      \/ f3 = 4 /\ op = "blt" /\ Branches[op] = <<C!SLT, 1>>
      \/ f3 = 5 /\ op = "bge" /\ Branches[op] = <<C!SLT, 0>>
      \/ f3 = 6 /\ op = "bltu" /\ Branches[op] = <<C!SLTU, 1>>
      \/ f3 = 7 /\ op = "bgeu" /\ Branches[op] = <<C!SLTU, 0>>
  <2>1. \/ f3 = 0 /\ op = "beq"
        \/ f3 = 1 /\ op = "bne"
        \/ f3 = 4 /\ op = "blt"
        \/ f3 = 5 /\ op = "bge"
        \/ f3 = 6 /\ op = "bltu"
        \/ f3 = 7 /\ op = "bgeu"
        \/ op = "illegal"
    BY <1>2 DEF BranchOp, At
  <2>2. op # "illegal"
    BY DEF Branches
  <2> HIDE DEF f3
  <2> QED BY <2>1, <2>2 DEF Branches
<1> HIDE DEF f3, i
<1>4. row.aluop = C!BranchAluop(f3)
  BY <1>2, <1>3 DEF C!BranchRow, C!IsBranch, C!Row
<1>5. /\ row.pc_src = C!PcBranch <=> C!Taken(f3, R, 1 - R)
      /\ row.stall = 1 <=> C!Taken(f3, R, 1 - R)
  BY <1>2, <1>3 DEF C!BranchRow, C!IsBranch, C!Row, C!PcBranch, C!PcNext
<1> HIDE DEF row
<1>6. C!BranchAluop(f3) = Branches[op][1]
  <2>1. /\ f3 \in {0, 1} => C!BranchAluop(f3) = C!SUB
        /\ f3 \in {4, 5} => C!BranchAluop(f3) = C!SLT
        /\ f3 \in {6, 7} => C!BranchAluop(f3) = C!SLTU
    BY DEF C!BranchAluop
  <2> QED BY <1>3, <2>1
<1>7. C!Taken(f3, R, 1 - R) <=> R = Branches[op][2]
  <2>1. 1 - R = 1 <=> R = 0
    OBVIOUS
  <2>2. 1 - R = 0 <=> R = 1
    OBVIOUS
  <2>3. /\ f3 \in {0, 5, 7} => (C!Taken(f3, R, 1 - R) <=> R = 0)
        /\ f3 \in {1, 4, 6} => (C!Taken(f3, R, 1 - R) <=> R = 1)
    BY <2>1, <2>2 DEF C!Taken
  <2> QED BY <1>3, <2>3
<1> QED BY <1>1, <1>4, <1>5, <1>6, <1>7

LEMMA ShownAtLift ==
    ASSUME inst \in InstructionWord, Field(inst, 1, 0) = 3, NEW d,
           d = Expanded("rv32", inst), d.op \in Implemented, ~ BeyondWord(d)
    PROVE  SameOperation(d) /\ SameOperands(d)
<1> DEFINE op == Quadrant3(inst)
           codec == opcode_data[op].codec
           major == Field(inst, 6, 2)
<1>1. /\ d.op = op /\ d.codec = codec /\ d.imm = Imm(codec, inst)
      /\ d.rd = Rd(codec, inst) /\ d.rs1 = Rs1(codec, inst) /\ d.rs2 = Rs2(codec, inst)
  <2>1. "rv32" \in rv_isa
    BY DEF rv_isa
  <2>2. d = WithOperands("rv32", inst)
    BY <2>1, ExpandedIs
  <2>3. decode_inst_opcode("rv32", inst) = op
    BY <2>1, DecodedOp
  <2> DEFINE t == WithOperands("rv32", inst)
  <2> HIDE DEF op
  <2>4. t = [op |-> op, codec |-> codec, rd |-> Rd(codec, inst), rs1 |-> Rs1(codec, inst),
             rs2 |-> Rs2(codec, inst), rs3 |-> t.rs3, imm |-> Imm(codec, inst),
             rm |-> t.rm, pred |-> t.pred, succ |-> t.succ, aq |-> t.aq, rl |-> t.rl]
    BY <2>1, <2>3, OperandsAre
  <2> HIDE DEF t, codec
  <2> QED BY <2>2, <2>4 DEF t
<1>2. \/ major = 4 /\ op = OpImmediate(inst) /\ op \in ComputingOps
      \/ major = 12 /\ op = OpRegister(inst) /\ op \in DOMAIN RegisterOps
      \/ major = 13 /\ op = "lui"
      \/ major = 24 /\ op = BranchOp(inst) /\ op \in DOMAIN Branches
      \/ major = 25 /\ op = "jalr"
      \/ major = 27 /\ op = "jal"
      \/ major = 28 /\ op = "csrrw"
  BY <1>1, ImplementedMajors
<1>3. codec = IF op \in DOMAIN RegisterOps THEN "r"
              ELSE IF op \in DOMAIN ShiftOps THEN "i_sh7"
              ELSE IF op \in DOMAIN Branches THEN "sb"
              ELSE IF op = "lui" THEN "u"
              ELSE IF op = "jal" THEN "uj"
              ELSE IF op = "csrrw" THEN "i_csr" ELSE "i"
  <2> HIDE DEF op
  <2> QED BY <1>1, CodecsAre
<1>4. op \in DOMAIN ShiftOps => d.imm = Field(inst, 24, 20) /\ Field(inst, 26, 25) = 0
  <2> SUFFICES ASSUME op \in DOMAIN ShiftOps
               PROVE  d.imm = Field(inst, 24, 20) /\ Field(inst, 26, 25) = 0
    OBVIOUS
  <2>1. codec = "i_sh7"
    <3> HIDE DEF op, codec
    <3> QED BY <1>3, KindsApart
  <2>2. d.imm = Field(inst, 26, 20)
    <3> HIDE DEF codec
    <3> QED BY <1>1, <2>1 DEF Imm
  <2>3. d.imm = Field(inst, 24, 20) + 32 * Field(inst, 26, 25)
    BY <2>2, HighFieldsAre
  <2>4. ~ d.imm >= 32
    <3> HIDE DEF op
    <3> QED BY <1>1 DEF BeyondWord
  <2>5. Field(inst, 24, 20) \in 0 .. 31 /\ Field(inst, 26, 25) \in 0 .. 3
    BY HighFieldsAre
  <2> QED BY <2>3, <2>4, <2>5
<1>5. SameOperation(d)
  <2>1. CASE major = 12 /\ op = OpRegister(inst) /\ op \in DOMAIN RegisterOps
    <3>1. ComputesWith(RegisterOps[op], 0)
      BY <2>1, ShownRegisterOp
    <3> HIDE DEF op
    <3> QED BY <1>1, <2>1, <3>1, OperationKinds
  <2>2. CASE major = 4 /\ op = OpImmediate(inst) /\ op \in ComputingOps
    <3> HIDE DEF op
    <3>1. ComputesWith(ImmediateAlu(op), 1)
      BY <1>4, <2>2, ShownImmediateOp
    <3>2. CASE op \in DOMAIN ImmediateOps
      BY <1>1, <3>1, <3>2, OperationKinds DEF ImmediateAlu
    <3>3. CASE op \in DOMAIN ShiftOps
      <4>1. op \notin DOMAIN ImmediateOps
        BY <3>3, KindsApart
      <4> QED BY <1>1, <3>1, <3>3, <4>1, OperationKinds DEF ImmediateAlu
    <3> QED BY <2>2, <3>2, <3>3 DEF ComputingOps
  <2>3. CASE major = 24 /\ op = BranchOp(inst) /\ op \in DOMAIN Branches
    <3>1. BranchesOn(Branches[op][1], Branches[op][2])
      BY <2>3, ShownBranches DEF BranchesOn
    <3> HIDE DEF op
    <3> QED BY <1>1, <2>3, <3>1, OperationKinds
  <2> HIDE DEF op
  <2>4. CASE major = 13 /\ op = "lui"
    <3>1. Writes(C!FromImm20)
      BY <2>4, SignalsAre DEF C!Row, Writes
    <3> QED BY <1>1, <2>4, <3>1, OperationKinds
  <2>5. CASE major = 25 /\ op = "jalr"
    <3>1. JumpsTo(C!PcJalr)
      BY <2>5, SignalsAre DEF C!JumpRow, C!Row, JumpsTo, Writes
    <3> QED BY <1>1, <2>5, <3>1, OperationKinds
  <2>6. CASE major = 27 /\ op = "jal"
    <3>1. JumpsTo(C!PcJal)
      BY <2>6, SignalsAre DEF C!JumpRow, C!Row, JumpsTo, Writes
    <3> QED BY <1>1, <2>6, <3>1, OperationKinds
  <2>7. CASE major = 28 /\ op = "csrrw"
    <3>1. Signals(0) = C!CsrRow(Seen)
      BY <2>7, SignalsAre
    <3> QED BY <1>1, <2>7, <3>1, OperationKinds
  <2> QED BY <1>2, <2>1, <2>2, <2>3, <2>4, <2>5, <2>6, <2>7
<1>6. SameOperands(d)
  <2> DEFINE U(bits) == Decode!Unsigned(bits)
  <2>1. /\ d.codec \in {"r", "i", "i_sh7", "i_csr", "u", "uj"} => U(Decode!rd) = d.rd
        /\ d.codec \in {"r", "i", "i_sh7", "i_csr", "sb"} => U(Decode!rs1) = d.rs1
        /\ d.codec \in {"r", "sb"} => U(Decode!rs2) = d.rs2
    <3> HIDE DEF codec
    <3> QED BY <1>1, RegistersAgree
  <2>2. d.op \in DOMAIN ImmediateOps => Decode!imm12_32.value = d.imm
    <3> HIDE DEF op, codec
    <3>1. op \in DOMAIN ImmediateOps => codec = "i"
      BY <1>3, KindsApart
    <3> QED BY <1>1, <3>1, ImmediatesAgree DEF Imm
  <2>3. d.op \in DOMAIN ShiftOps => Decode!imm12_32.value % 32 = d.imm
    <3> HIDE DEF op
    <3> QED BY <1>1, <1>4, ImmediatesAgree
  <2>4. d.op \in DOMAIN Branches => U(Decode!branch_words) = (d.imm \div 4) % 4096
    <3> HIDE DEF op, codec
    <3>1. op \in DOMAIN Branches => codec = "sb"
      BY <1>3, KindsApart
    <3> QED BY <1>1, <3>1, ImmediatesAgree, BranchWords DEF Imm
  <2>5. d.op = "jal" => U(Decode!jal_words) = (d.imm \div 4) % 4096
    <3> HIDE DEF op, codec
    <3>1. op = "jal" => codec = "uj"
      BY <1>3, KindsApart
    <3> QED BY <1>1, <3>1, ImmediatesAgree, JalWords DEF Imm
  <2>6. d.op = "jalr" => U(Decode!jalr_words) = (d.imm \div 4) % 4096
    <3> HIDE DEF op, codec
    <3>1. op = "jalr" => codec = "i"
      BY <1>3, KindsApart
    <3> QED BY <1>1, <3>1, ImmediatesAgree, JalrWords DEF Imm
  <2>7. d.op = "lui" => Decode!imm20_SL.value = d.imm
    <3> HIDE DEF op, codec
    <3>1. op = "lui" => codec = "u"
      BY <1>3, KindsApart
    <3> QED BY <1>1, <3>1, ImmediatesAgree DEF Imm
  <2>8. d.op = "csrrw" => U(Decode!csr) = d.imm
    <3> HIDE DEF op, codec
    <3>1. op = "csrrw" => codec = "i_csr"
      BY <1>3, KindsApart
    <3> QED BY <1>1, <3>1, SeenIs DEF Imm
  <2>9. CASE d.op \in DOMAIN RegisterOps
    <3>1. /\ d.op \notin DOMAIN ImmediateOps /\ d.op \notin DOMAIN ShiftOps
          /\ d.op \notin DOMAIN Branches /\ d.op \notin {"lui", "jal", "jalr", "csrrw"}
      BY <2>9, KindsApart
    <3> QED BY <2>1, <3>1 DEF SameOperands
  <2>10. CASE d.op \notin DOMAIN RegisterOps
    <3> DEFINE im == d.op \in DOMAIN ImmediateOps
               sh == d.op \in DOMAIN ShiftOps
               br == d.op \in DOMAIN Branches
               A == Decode!imm12_32.value = d.imm
               B == Decode!imm12_32.value % 32 = d.imm
               D == U(Decode!branch_words) = (d.imm \div 4) % 4096
               E == U(Decode!jal_words) = (d.imm \div 4) % 4096
               F == U(Decode!jalr_words) = (d.imm \div 4) % 4096
               G == Decode!imm20_SL.value = d.imm
               H == U(Decode!csr) = d.imm
               last == CASE im -> A [] sh -> B [] br -> D [] d.op = "jal" -> E
                         [] d.op = "jalr" -> F [] d.op = "lui" -> G [] d.op = "csrrw" -> H
                         [] OTHER -> TRUE
    <3>1. last => SameOperands(d)
      BY <2>1 DEF SameOperands
    <3>2. /\ im => A
          /\ sh => B
          /\ br => D
          /\ d.op = "jal" => E
          /\ d.op = "jalr" => F
          /\ d.op = "lui" => G
          /\ d.op = "csrrw" => H
      BY <2>2, <2>3, <2>4, <2>5, <2>6, <2>7, <2>8
    <3>3. im \/ sh \/ br \/ d.op \in {"lui", "jal", "jalr", "csrrw"}
      BY <2>10 DEF Implemented
    <3>4. last
      <4> HIDE DEF im, sh, br, A, B, D, E, F, G, H
      <4> QED BY <3>2, <3>3
    <3> QED BY <3>1, <3>4
  <2> QED BY <2>9, <2>10
<1> QED BY <1>5, <1>6

(* Conversely: what has an effect is shown as an implemented operation.    *)
LEMMA ExecutedAtLift ==
    ASSUME inst \in InstructionWord, Field(inst, 1, 0) = 3,
           Signals(0).regwrite = 1 \/ Signals(0).gpio_we = 1,
           ~ (Seen.opcode = C!Jalr /\ Seen.funct3 # 0),
           ~ (Seen.opcode = C!System /\ Seen.funct3 # 1)
    PROVE  Quadrant3(inst) \in Implemented
<1> DEFINE op == Quadrant3(inst)
           major == Field(inst, 6, 2)
           f3 == funct3(inst)
<1>1. C!Nothing.regwrite = 0 /\ C!Nothing.gpio_we = 0
  BY DEF C!Nothing, C!Row
<1>2. Signals(0) # C!Nothing
  BY <1>1
<1>3. major \in {4, 12, 13, 24, 25, 27, 28}
  BY <1>2, SignalsAre
<1>4. Seen.funct3 = f3 /\ Seen.funct7 = funct7(inst) /\ Seen.opcode = 3 + 4 * major
      /\ f3 \in 0 .. 7
  BY SeenIs, LowFieldsAre, MoreFields
<1>5. /\ major = 4 => op = OpImmediate(inst)
      /\ major = 12 => op = OpRegister(inst)
      /\ major = 13 => op = "lui"
      /\ major = 24 => op = BranchOp(inst)
      /\ major = 25 => op = When(f3 = 0, "jalr")
      /\ major = 27 => op = "jal"
      /\ major = 28 => op = SystemOp(inst)
  BY DEF Quadrant3
<1> HIDE DEF op, major, f3
<1>6. CASE major = 4
  <2>1. C!Matching(C!IType, Seen) # {}
    <3>1. Signals(0) = C!Compute(C!IType, 1, Seen)
      BY <1>6, SignalsAre DEF major
    <3> QED BY <3>1, <1>2 DEF C!Compute
  <2>2. op \in ComputingOps
    BY <2>1, <1>4, <1>5, <1>6, ImmediateTable DEF f3
  <2> QED BY <2>2 DEF Implemented, ComputingOps, op
<1>7. CASE major = 12
  <2>1. C!Matching(C!RType, Seen) # {}
    <3>1. Signals(0) = C!Compute(C!RType, 0, Seen)
      BY <1>7, SignalsAre DEF major
    <3> QED BY <3>1, <1>2 DEF C!Compute
  <2>2. op \in DOMAIN RegisterOps
    BY <2>1, <1>4, <1>5, <1>7, RegisterTable DEF f3
  <2> QED BY <2>2 DEF Implemented, op
<1>8. CASE major = 24
  <2>1. f3 \in {0, 1, 4, 5, 6, 7}
    <3>1. Signals(0) = C!BranchRow(Seen, 0, 1 - 0)
      BY <1>8, SignalsAre DEF major
    <3> QED BY <3>1, <1>2, <1>4 DEF C!BranchRow, C!IsBranch
  <2>2. op \in {"beq", "bne", "blt", "bge", "bltu", "bgeu"}
    BY <2>1, <1>5, <1>8 DEF BranchOp, At, f3
  <2> QED BY <2>2 DEF Implemented, Branches, op
<1>9. CASE major = 25
  <2>1. op = "jalr"
    BY <1>4, <1>5, <1>9 DEF When, C!Jalr
  <2> QED BY <2>1 DEF Implemented, op
<1>10. CASE major = 28
  <2>1. f3 = 1
    BY <1>4, <1>10 DEF C!System
  <2>2. op = "csrrw"
    BY <2>1, <1>5, <1>10 DEF SystemOp, At, f3
  <2> QED BY <2>2 DEF Implemented, op
<1>11. CASE major \in {13, 27}
  BY <1>5, <1>11 DEF Implemented, op
<1> QED BY <1>3, <1>6, <1>7, <1>8, <1>9, <1>10, <1>11

(* With a funct3 that the control table does not look at, a word is        *)
(* another instruction to the disassembler.                                *)
LEMMA OthersNotImplemented ==
    ASSUME inst \in InstructionWord, Field(inst, 1, 0) = 3, Quadrant3(inst) \in Implemented
    PROVE  ~ (\/ Seen.opcode = C!Jalr /\ Seen.funct3 # 0
              \/ Seen.opcode = C!System /\ Seen.funct3 # 1)
<1> DEFINE major == Field(inst, 6, 2)
           f3 == funct3(inst)
           op == Quadrant3(inst)
<1>1. Seen.funct3 = f3 /\ Seen.opcode = 3 + 4 * major
  BY SeenIs, LowFieldsAre
<1>2. /\ major = 25 => f3 = 0
      /\ major = 28 => f3 = 1
  <2>1. \/ major = 4 \/ major = 12 \/ major = 13 \/ major = 24
        \/ major = 25 /\ f3 = 0
        \/ major = 27
        \/ major = 28 /\ f3 = 1
    BY ImplementedMajors
  <2> HIDE DEF major, f3
  <2> QED BY <2>1
<1>3. /\ Seen.opcode = C!Jalr => major = 25
      /\ Seen.opcode = C!System => major = 28
  <2>1. major \in 0 .. 31
    BY LowFieldsAre
  <2> HIDE DEF major
  <2> QED BY <1>1, <2>1 DEF C!Jalr, C!System
<1> HIDE DEF major, f3
<1> QED BY <1>1, <1>2, <1>3

(* What the text says is done: for every 32-bit word shown as an           *)
(* instruction the processor implements, the control table orders that     *)
(* operation and the decoder delivers its registers and its immediate.     *)
THEOREM TextIsExecuted == Spec => []ShownIsExecuted
<1>1. PassesInv => ShownIsExecuted
  <2> SUFFICES ASSUME PassesInv, Comparable, dec.op \in Implemented, ~ BeyondWord(dec)
               PROVE  SameOperation(dec) /\ SameOperands(dec)
    BY DEF ShownIsExecuted
  <2>1. inst \in InstructionWord /\ dec = Expanded("rv32", inst) /\ Field(inst, 1, 0) = 3
    BY DEF PassesInv, Comparable
  <2> QED BY <2>1, ShownAtLift
<1> QED BY <1>1, Passes, PTL

(* What is done is in the text: for every 32-bit word for which the        *)
(* control table orders a register write or a display write, the text      *)
(* (for rv32, which the simulators ask for) names an implemented           *)
(* instruction, unless the word is a jalr with a funct3 other than 0 or a  *)
(* system instruction with one other than 1; these are shown as something  *)
(* that is not implemented.                                                *)
THEOREM ExecutionIsInText == Spec => []ExecutedIsShown
<1>1. PassesInv => ExecutedIsShown
  <2> DEFINE NotLookedAt == \/ Seen.opcode = C!Jalr /\ Seen.funct3 # 0
                            \/ Seen.opcode = C!System /\ Seen.funct3 # 1
  <2> SUFFICES ASSUME PassesInv, Comparable,
                      Signals(0).regwrite = 1 \/ Signals(0).gpio_we = 1
               PROVE  dec.op \in Implemented <=> ~ NotLookedAt
    BY DEF ExecutedIsShown
  <2>1. inst \in InstructionWord /\ dec = Expanded("rv32", inst) /\ Field(inst, 1, 0) = 3
        /\ "rv32" \in rv_isa
    BY DEF PassesInv, Comparable, rv_isa
  <2>2. dec.op = Quadrant3(inst)
    <3>1. dec = WithOperands("rv32", inst) /\ decode_inst_opcode("rv32", inst) = Quadrant3(inst)
      BY <2>1, ExpandedIs, DecodedOp
    <3> DEFINE t == WithOperands("rv32", inst)
               op == Quadrant3(inst)
               codec == opcode_data[op].codec
    <3> HIDE DEF op
    <3>2. t = [op |-> op, codec |-> codec, rd |-> Rd(codec, inst), rs1 |-> Rs1(codec, inst),
               rs2 |-> Rs2(codec, inst), rs3 |-> t.rs3, imm |-> Imm(codec, inst),
               rm |-> t.rm, pred |-> t.pred, succ |-> t.succ, aq |-> t.aq, rl |-> t.rl]
      BY <2>1, <3>1, OperandsAre DEF op
    <3> HIDE DEF t
    <3> QED BY <3>1, <3>2 DEF op, t
  <2>3. ~ NotLookedAt => Quadrant3(inst) \in Implemented
    BY <2>1, ExecutedAtLift
  <2>4. Quadrant3(inst) \in Implemented => ~ NotLookedAt
    BY <2>1, OthersNotImplemented
  <2> QED BY <2>2, <2>3, <2>4
<1> QED BY <1>1, Passes, PTL

-----------------------------------------------------------------------------
(* Compressed immediates.  A number as its binary digits, and the fields   *)
(* of a compressed word as their bits.                                     *)
LEMMA Digits ==
    ASSUME NEW q \in Nat
    PROVE  /\ q % 4 = (q % 2) + 2 * ((q \div 2) % 2)
           /\ q % 8 = (q % 2) + 2 * ((q \div 2) % 2) + 4 * ((q \div 4) % 2)
           /\ q % 16 = (q % 2) + 2 * ((q \div 2) % 2) + 4 * ((q \div 4) % 2) +
             8 * ((q \div 8) % 2)
           /\ q % 32 = (q % 2) + 2 * ((q \div 2) % 2) + 4 * ((q \div 4) % 2) +
             8 * ((q \div 8) % 2) + 16 * ((q \div 16) % 2)
<1>1. q % 4 = (q % 2) + 2 * ((q \div 2) % 2)
  OBVIOUS
<1>2. q % 8 = (q % 2) + 2 * ((q \div 2) % 2) + 4 * ((q \div 4) % 2)
  <2>1. q % 8 = (q % 4) + 4 * ((q \div 4) % 2)
    OBVIOUS
  <2> QED BY <1>1, <2>1
<1>3. q % 16 = (q % 2) + 2 * ((q \div 2) % 2) + 4 * ((q \div 4) % 2) +
             8 * ((q \div 8) % 2)
  <2>1. q % 16 = (q % 8) + 8 * ((q \div 8) % 2)
    OBVIOUS
  <2> QED BY <1>2, <2>1
<1>4. q % 32 = (q % 2) + 2 * ((q \div 2) % 2) + 4 * ((q \div 4) % 2) +
             8 * ((q \div 8) % 2) + 16 * ((q \div 16) % 2)
  <2>1. q % 32 = (q % 16) + 16 * ((q \div 16) % 2)
    OBVIOUS
  <2> QED BY <1>3, <2>1
<1> QED BY <1>1, <1>2, <1>3, <1>4

LEMMA CompressedFields ==
    ASSUME NEW w \in InstructionWord
    PROVE  /\ \A k \in 2 .. 12 : Bit(w, k) \in 0 .. 1
           /\ Field(w, 6, 2) = Bit(w, 2) + 2 * Bit(w, 3) + 4 * Bit(w, 4) +
                  8 * Bit(w, 5) + 16 * Bit(w, 6)
           /\ Field(w, 6, 4) = Bit(w, 4) + 2 * Bit(w, 5) + 4 * Bit(w, 6)
           /\ Field(w, 3, 2) = Bit(w, 2) + 2 * Bit(w, 3)
           /\ Field(w, 6, 5) = Bit(w, 5) + 2 * Bit(w, 6)
           /\ Field(w, 4, 2) = Bit(w, 2) + 2 * Bit(w, 3) + 4 * Bit(w, 4)
           /\ Field(w, 5, 2) = Bit(w, 2) + 2 * Bit(w, 3) + 4 * Bit(w, 4) +
                  8 * Bit(w, 5)
           /\ Field(w, 4, 3) = Bit(w, 3) + 2 * Bit(w, 4)
           /\ Field(w, 10, 9) = Bit(w, 9) + 2 * Bit(w, 10)
           /\ Field(w, 5, 3) = Bit(w, 3) + 2 * Bit(w, 4) + 4 * Bit(w, 5)
           /\ Field(w, 11, 10) = Bit(w, 10) + 2 * Bit(w, 11)
           /\ Field(w, 12, 9) = Bit(w, 9) + 2 * Bit(w, 10) + 4 * Bit(w, 11) +
                  8 * Bit(w, 12)
           /\ Field(w, 8, 7) = Bit(w, 7) + 2 * Bit(w, 8)
           /\ Field(w, 12, 10) = Bit(w, 10) + 2 * Bit(w, 11) + 4 * Bit(w, 12)
           /\ Field(w, 9, 7) = Bit(w, 7) + 2 * Bit(w, 8) + 4 * Bit(w, 9)
           /\ Field(w, 12, 11) = Bit(w, 11) + 2 * Bit(w, 12)
           /\ Field(w, 10, 7) = Bit(w, 7) + 2 * Bit(w, 8) + 4 * Bit(w, 9) +
                  8 * Bit(w, 10)
<1> DEFINE n == w.lo
<1>1. n \in Nat
  <2>1. n \in HalfWord
    BY HalvesAre
  <2> HIDE DEF n
  <2> QED BY <2>1 DEF HalfWord
<1>2. ASSUME NEW k \in 2 .. 12 PROVE Bit(w, k) \in 0 .. 1
  <2>1. \A q \in Nat : q % 2 \in 0 .. 1
    OBVIOUS
  <2>2. Bit(w, 2) \in 0 .. 1
    <3> DEFINE q == n \div 4
    <3>1. q \in Nat
      BY <1>1
    <3>2. Bit(w, 2) = q % 2
      BY SMT DEF Bit, Field
    <3> HIDE DEF q
    <3> QED BY <2>1, <3>1, <3>2
  <2>3. Bit(w, 3) \in 0 .. 1
    <3> DEFINE q == n \div 8
    <3>1. q \in Nat
      BY <1>1
    <3>2. Bit(w, 3) = q % 2
      BY SMT DEF Bit, Field
    <3> HIDE DEF q
    <3> QED BY <2>1, <3>1, <3>2
  <2>4. Bit(w, 4) \in 0 .. 1
    <3> DEFINE q == n \div 16
    <3>1. q \in Nat
      BY <1>1
    <3>2. Bit(w, 4) = q % 2
      BY SMT DEF Bit, Field
    <3> HIDE DEF q
    <3> QED BY <2>1, <3>1, <3>2
  <2>5. Bit(w, 5) \in 0 .. 1
    <3> DEFINE q == n \div 32
    <3>1. q \in Nat
      BY <1>1
    <3>2. Bit(w, 5) = q % 2
      BY SMT DEF Bit, Field
    <3> HIDE DEF q
    <3> QED BY <2>1, <3>1, <3>2
  <2>6. Bit(w, 6) \in 0 .. 1
    <3> DEFINE q == n \div 64
    <3>1. q \in Nat
      BY <1>1
    <3>2. Bit(w, 6) = q % 2
      BY SMT DEF Bit, Field
    <3> HIDE DEF q
    <3> QED BY <2>1, <3>1, <3>2
  <2>7. Bit(w, 7) \in 0 .. 1
    <3> DEFINE q == n \div 128
    <3>1. q \in Nat
      BY <1>1
    <3>2. Bit(w, 7) = q % 2
      BY SMT DEF Bit, Field
    <3> HIDE DEF q
    <3> QED BY <2>1, <3>1, <3>2
  <2>8. Bit(w, 8) \in 0 .. 1
    <3> DEFINE q == n \div 256
    <3>1. q \in Nat
      BY <1>1
    <3>2. Bit(w, 8) = q % 2
      BY SMT DEF Bit, Field
    <3> HIDE DEF q
    <3> QED BY <2>1, <3>1, <3>2
  <2>9. Bit(w, 9) \in 0 .. 1
    <3> DEFINE q == n \div 512
    <3>1. q \in Nat
      BY <1>1
    <3>2. Bit(w, 9) = q % 2
      BY SMT DEF Bit, Field
    <3> HIDE DEF q
    <3> QED BY <2>1, <3>1, <3>2
  <2>10. Bit(w, 10) \in 0 .. 1
    <3> DEFINE q == n \div 1024
    <3>1. q \in Nat
      BY <1>1
    <3>2. Bit(w, 10) = q % 2
      BY SMT DEF Bit, Field
    <3> HIDE DEF q
    <3> QED BY <2>1, <3>1, <3>2
  <2>11. Bit(w, 11) \in 0 .. 1
    <3> DEFINE q == n \div 2048
    <3>1. q \in Nat
      BY <1>1
    <3>2. Bit(w, 11) = q % 2
      BY SMT DEF Bit, Field
    <3> HIDE DEF q
    <3> QED BY <2>1, <3>1, <3>2
  <2>12. Bit(w, 12) \in 0 .. 1
    <3> DEFINE q == n \div 4096
    <3>1. q \in Nat
      BY <1>1
    <3>2. Bit(w, 12) = q % 2
      BY SMT DEF Bit, Field
    <3> HIDE DEF q
    <3> QED BY <2>1, <3>1, <3>2
  <2> QED BY <2>2, <2>3, <2>4, <2>5, <2>6, <2>7, <2>8, <2>9, <2>10, <2>11, <2>12
<1>3. Field(w, 6, 2) = Bit(w, 2) + 2 * Bit(w, 3) + 4 * Bit(w, 4) + 8 * Bit(w, 5) +
           16 * Bit(w, 6)
  <2> DEFINE q == n \div 4
  <2>1. q \in Nat
    BY <1>1
  <2>2. /\ Field(w, 6, 2) = q % 32
        /\ Bit(w, 2) = q % 2
        /\ Bit(w, 3) = (n \div 8) % 2
        /\ Bit(w, 4) = (n \div 16) % 2
        /\ Bit(w, 5) = (n \div 32) % 2
        /\ Bit(w, 6) = (n \div 64) % 2
    BY SMT DEF Bit, Field
  <2>3. /\ q \div 2 = n \div 8
        /\ q \div 4 = n \div 16
        /\ q \div 8 = n \div 32
        /\ q \div 16 = n \div 64
    BY <1>1
  <2> HIDE DEF q
  <2>4. q % 32 = (q % 2) + 2 * ((q \div 2) % 2) + 4 * ((q \div 4) % 2) +
             8 * ((q \div 8) % 2) + 16 * ((q \div 16) % 2)
    BY <2>1, Digits
  <2> QED BY <2>2, <2>3, <2>4
<1>4. Field(w, 6, 4) = Bit(w, 4) + 2 * Bit(w, 5) + 4 * Bit(w, 6)
  <2> DEFINE q == n \div 16
  <2>1. q \in Nat
    BY <1>1
  <2>2. /\ Field(w, 6, 4) = q % 8
        /\ Bit(w, 4) = q % 2
        /\ Bit(w, 5) = (n \div 32) % 2
        /\ Bit(w, 6) = (n \div 64) % 2
    BY SMT DEF Bit, Field
  <2>3. /\ q \div 2 = n \div 32
        /\ q \div 4 = n \div 64
    BY <1>1
  <2> HIDE DEF q
  <2>4. q % 8 = (q % 2) + 2 * ((q \div 2) % 2) + 4 * ((q \div 4) % 2)
    BY <2>1, Digits
  <2> QED BY <2>2, <2>3, <2>4
<1>5. Field(w, 3, 2) = Bit(w, 2) + 2 * Bit(w, 3)
  <2> DEFINE q == n \div 4
  <2>1. q \in Nat
    BY <1>1
  <2>2. /\ Field(w, 3, 2) = q % 4
        /\ Bit(w, 2) = q % 2
        /\ Bit(w, 3) = (n \div 8) % 2
    BY SMT DEF Bit, Field
  <2>3. /\ q \div 2 = n \div 8
    BY <1>1
  <2> HIDE DEF q
  <2>4. q % 4 = (q % 2) + 2 * ((q \div 2) % 2)
    BY <2>1, Digits
  <2> QED BY <2>2, <2>3, <2>4
<1>6. Field(w, 6, 5) = Bit(w, 5) + 2 * Bit(w, 6)
  <2> DEFINE q == n \div 32
  <2>1. q \in Nat
    BY <1>1
  <2>2. /\ Field(w, 6, 5) = q % 4
        /\ Bit(w, 5) = q % 2
        /\ Bit(w, 6) = (n \div 64) % 2
    BY SMT DEF Bit, Field
  <2>3. /\ q \div 2 = n \div 64
    BY <1>1
  <2> HIDE DEF q
  <2>4. q % 4 = (q % 2) + 2 * ((q \div 2) % 2)
    BY <2>1, Digits
  <2> QED BY <2>2, <2>3, <2>4
<1>7. Field(w, 4, 2) = Bit(w, 2) + 2 * Bit(w, 3) + 4 * Bit(w, 4)
  <2> DEFINE q == n \div 4
  <2>1. q \in Nat
    BY <1>1
  <2>2. /\ Field(w, 4, 2) = q % 8
        /\ Bit(w, 2) = q % 2
        /\ Bit(w, 3) = (n \div 8) % 2
        /\ Bit(w, 4) = (n \div 16) % 2
    BY SMT DEF Bit, Field
  <2>3. /\ q \div 2 = n \div 8
        /\ q \div 4 = n \div 16
    BY <1>1
  <2> HIDE DEF q
  <2>4. q % 8 = (q % 2) + 2 * ((q \div 2) % 2) + 4 * ((q \div 4) % 2)
    BY <2>1, Digits
  <2> QED BY <2>2, <2>3, <2>4
<1>8. Field(w, 5, 2) = Bit(w, 2) + 2 * Bit(w, 3) + 4 * Bit(w, 4) + 8 * Bit(w, 5)
  <2> DEFINE q == n \div 4
  <2>1. q \in Nat
    BY <1>1
  <2>2. /\ Field(w, 5, 2) = q % 16
        /\ Bit(w, 2) = q % 2
        /\ Bit(w, 3) = (n \div 8) % 2
        /\ Bit(w, 4) = (n \div 16) % 2
        /\ Bit(w, 5) = (n \div 32) % 2
    BY SMT DEF Bit, Field
  <2>3. /\ q \div 2 = n \div 8
        /\ q \div 4 = n \div 16
        /\ q \div 8 = n \div 32
    BY <1>1
  <2> HIDE DEF q
  <2>4. q % 16 = (q % 2) + 2 * ((q \div 2) % 2) + 4 * ((q \div 4) % 2) +
             8 * ((q \div 8) % 2)
    BY <2>1, Digits
  <2> QED BY <2>2, <2>3, <2>4
<1>9. Field(w, 4, 3) = Bit(w, 3) + 2 * Bit(w, 4)
  <2> DEFINE q == n \div 8
  <2>1. q \in Nat
    BY <1>1
  <2>2. /\ Field(w, 4, 3) = q % 4
        /\ Bit(w, 3) = q % 2
        /\ Bit(w, 4) = (n \div 16) % 2
    BY SMT DEF Bit, Field
  <2>3. /\ q \div 2 = n \div 16
    BY <1>1
  <2> HIDE DEF q
  <2>4. q % 4 = (q % 2) + 2 * ((q \div 2) % 2)
    BY <2>1, Digits
  <2> QED BY <2>2, <2>3, <2>4
<1>10. Field(w, 10, 9) = Bit(w, 9) + 2 * Bit(w, 10)
  <2> DEFINE q == n \div 512
  <2>1. q \in Nat
    BY <1>1
  <2>2. /\ Field(w, 10, 9) = q % 4
        /\ Bit(w, 9) = q % 2
        /\ Bit(w, 10) = (n \div 1024) % 2
    BY SMT DEF Bit, Field
  <2>3. /\ q \div 2 = n \div 1024
    BY <1>1
  <2> HIDE DEF q
  <2>4. q % 4 = (q % 2) + 2 * ((q \div 2) % 2)
    BY <2>1, Digits
  <2> QED BY <2>2, <2>3, <2>4
<1>11. Field(w, 5, 3) = Bit(w, 3) + 2 * Bit(w, 4) + 4 * Bit(w, 5)
  <2> DEFINE q == n \div 8
  <2>1. q \in Nat
    BY <1>1
  <2>2. /\ Field(w, 5, 3) = q % 8
        /\ Bit(w, 3) = q % 2
        /\ Bit(w, 4) = (n \div 16) % 2
        /\ Bit(w, 5) = (n \div 32) % 2
    BY SMT DEF Bit, Field
  <2>3. /\ q \div 2 = n \div 16
        /\ q \div 4 = n \div 32
    BY <1>1
  <2> HIDE DEF q
  <2>4. q % 8 = (q % 2) + 2 * ((q \div 2) % 2) + 4 * ((q \div 4) % 2)
    BY <2>1, Digits
  <2> QED BY <2>2, <2>3, <2>4
<1>12. Field(w, 11, 10) = Bit(w, 10) + 2 * Bit(w, 11)
  <2> DEFINE q == n \div 1024
  <2>1. q \in Nat
    BY <1>1
  <2>2. /\ Field(w, 11, 10) = q % 4
        /\ Bit(w, 10) = q % 2
        /\ Bit(w, 11) = (n \div 2048) % 2
    BY SMT DEF Bit, Field
  <2>3. /\ q \div 2 = n \div 2048
    BY <1>1
  <2> HIDE DEF q
  <2>4. q % 4 = (q % 2) + 2 * ((q \div 2) % 2)
    BY <2>1, Digits
  <2> QED BY <2>2, <2>3, <2>4
<1>13. Field(w, 12, 9) = Bit(w, 9) + 2 * Bit(w, 10) + 4 * Bit(w, 11) +
           8 * Bit(w, 12)
  <2> DEFINE q == n \div 512
  <2>1. q \in Nat
    BY <1>1
  <2>2. /\ Field(w, 12, 9) = q % 16
        /\ Bit(w, 9) = q % 2
        /\ Bit(w, 10) = (n \div 1024) % 2
        /\ Bit(w, 11) = (n \div 2048) % 2
        /\ Bit(w, 12) = (n \div 4096) % 2
    BY SMT DEF Bit, Field
  <2>3. /\ q \div 2 = n \div 1024
        /\ q \div 4 = n \div 2048
        /\ q \div 8 = n \div 4096
    BY <1>1
  <2> HIDE DEF q
  <2>4. q % 16 = (q % 2) + 2 * ((q \div 2) % 2) + 4 * ((q \div 4) % 2) +
             8 * ((q \div 8) % 2)
    BY <2>1, Digits
  <2> QED BY <2>2, <2>3, <2>4
<1>14. Field(w, 8, 7) = Bit(w, 7) + 2 * Bit(w, 8)
  <2> DEFINE q == n \div 128
  <2>1. q \in Nat
    BY <1>1
  <2>2. /\ Field(w, 8, 7) = q % 4
        /\ Bit(w, 7) = q % 2
        /\ Bit(w, 8) = (n \div 256) % 2
    BY SMT DEF Bit, Field
  <2>3. /\ q \div 2 = n \div 256
    BY <1>1
  <2> HIDE DEF q
  <2>4. q % 4 = (q % 2) + 2 * ((q \div 2) % 2)
    BY <2>1, Digits
  <2> QED BY <2>2, <2>3, <2>4
<1>15. Field(w, 12, 10) = Bit(w, 10) + 2 * Bit(w, 11) + 4 * Bit(w, 12)
  <2> DEFINE q == n \div 1024
  <2>1. q \in Nat
    BY <1>1
  <2>2. /\ Field(w, 12, 10) = q % 8
        /\ Bit(w, 10) = q % 2
        /\ Bit(w, 11) = (n \div 2048) % 2
        /\ Bit(w, 12) = (n \div 4096) % 2
    BY SMT DEF Bit, Field
  <2>3. /\ q \div 2 = n \div 2048
        /\ q \div 4 = n \div 4096
    BY <1>1
  <2> HIDE DEF q
  <2>4. q % 8 = (q % 2) + 2 * ((q \div 2) % 2) + 4 * ((q \div 4) % 2)
    BY <2>1, Digits
  <2> QED BY <2>2, <2>3, <2>4
<1>16. Field(w, 9, 7) = Bit(w, 7) + 2 * Bit(w, 8) + 4 * Bit(w, 9)
  <2> DEFINE q == n \div 128
  <2>1. q \in Nat
    BY <1>1
  <2>2. /\ Field(w, 9, 7) = q % 8
        /\ Bit(w, 7) = q % 2
        /\ Bit(w, 8) = (n \div 256) % 2
        /\ Bit(w, 9) = (n \div 512) % 2
    BY SMT DEF Bit, Field
  <2>3. /\ q \div 2 = n \div 256
        /\ q \div 4 = n \div 512
    BY <1>1
  <2> HIDE DEF q
  <2>4. q % 8 = (q % 2) + 2 * ((q \div 2) % 2) + 4 * ((q \div 4) % 2)
    BY <2>1, Digits
  <2> QED BY <2>2, <2>3, <2>4
<1>17. Field(w, 12, 11) = Bit(w, 11) + 2 * Bit(w, 12)
  <2> DEFINE q == n \div 2048
  <2>1. q \in Nat
    BY <1>1
  <2>2. /\ Field(w, 12, 11) = q % 4
        /\ Bit(w, 11) = q % 2
        /\ Bit(w, 12) = (n \div 4096) % 2
    BY SMT DEF Bit, Field
  <2>3. /\ q \div 2 = n \div 4096
    BY <1>1
  <2> HIDE DEF q
  <2>4. q % 4 = (q % 2) + 2 * ((q \div 2) % 2)
    BY <2>1, Digits
  <2> QED BY <2>2, <2>3, <2>4
<1>18. Field(w, 10, 7) = Bit(w, 7) + 2 * Bit(w, 8) + 4 * Bit(w, 9) + 8 * Bit(w, 10)
  <2> DEFINE q == n \div 128
  <2>1. q \in Nat
    BY <1>1
  <2>2. /\ Field(w, 10, 7) = q % 16
        /\ Bit(w, 7) = q % 2
        /\ Bit(w, 8) = (n \div 256) % 2
        /\ Bit(w, 9) = (n \div 512) % 2
        /\ Bit(w, 10) = (n \div 1024) % 2
    BY SMT DEF Bit, Field
  <2>3. /\ q \div 2 = n \div 256
        /\ q \div 4 = n \div 512
        /\ q \div 8 = n \div 1024
    BY <1>1
  <2> HIDE DEF q
  <2>4. q % 16 = (q % 2) + 2 * ((q \div 2) % 2) + 4 * ((q \div 4) % 2) +
             8 * ((q \div 8) % 2)
    BY <2>1, Digits
  <2> QED BY <2>2, <2>3, <2>4
<1> QED BY <1>2, <1>3, <1>4, <1>5, <1>6, <1>7, <1>8, <1>9, <1>10, <1>11, <1>12, <1>13,
           <1>14, <1>15, <1>16, <1>17, <1>18

(* One bit of an immediate where a table puts it.                          *)
Placed(w, k, n) == IF k = None THEN 0 ELSE 2 ^ k * Bit(w, n)

LEMMA PlacedIs ==
    ASSUME NEW w, NEW n
    PROVE  /\ Placed(w, None, n) = 0
           /\ Placed(w, 0, n) = 1 * Bit(w, n)
           /\ Placed(w, 1, n) = 2 * Bit(w, n)
           /\ Placed(w, 2, n) = 4 * Bit(w, n)
           /\ Placed(w, 3, n) = 8 * Bit(w, n)
           /\ Placed(w, 4, n) = 16 * Bit(w, n)
           /\ Placed(w, 5, n) = 32 * Bit(w, n)
           /\ Placed(w, 6, n) = 64 * Bit(w, n)
           /\ Placed(w, 7, n) = 128 * Bit(w, n)
           /\ Placed(w, 8, n) = 256 * Bit(w, n)
           /\ Placed(w, 9, n) = 512 * Bit(w, n)
           /\ Placed(w, 10, n) = 1024 * Bit(w, n)
           /\ Placed(w, 11, n) = 2048 * Bit(w, n)
           /\ Placed(w, 12, n) = 4096 * Bit(w, n)
           /\ Placed(w, 13, n) = 8192 * Bit(w, n)
           /\ Placed(w, 14, n) = 16384 * Bit(w, n)
           /\ Placed(w, 15, n) = 32768 * Bit(w, n)
           /\ Placed(w, 16, n) = 65536 * Bit(w, n)
           /\ Placed(w, 17, n) = 131072 * Bit(w, n)
<1>1. Placed(w, None, n) = 0
  BY DEF Placed
<1>2. Placed(w, 0, n) = 1 * Bit(w, n)
  BY SMT DEF Placed, None
<1>3. Placed(w, 1, n) = 2 * Bit(w, n)
  BY SMT DEF Placed, None
<1>4. Placed(w, 2, n) = 4 * Bit(w, n)
  BY SMT DEF Placed, None
<1>5. Placed(w, 3, n) = 8 * Bit(w, n)
  BY SMT DEF Placed, None
<1>6. Placed(w, 4, n) = 16 * Bit(w, n)
  BY SMT DEF Placed, None
<1>7. Placed(w, 5, n) = 32 * Bit(w, n)
  BY SMT DEF Placed, None
<1>8. Placed(w, 6, n) = 64 * Bit(w, n)
  BY SMT DEF Placed, None
<1>9. Placed(w, 7, n) = 128 * Bit(w, n)
  BY SMT DEF Placed, None
<1>10. Placed(w, 8, n) = 256 * Bit(w, n)
  BY SMT DEF Placed, None
<1>11. Placed(w, 9, n) = 512 * Bit(w, n)
  BY SMT DEF Placed, None
<1>12. Placed(w, 10, n) = 1024 * Bit(w, n)
  BY SMT DEF Placed, None
<1>13. Placed(w, 11, n) = 2048 * Bit(w, n)
  BY SMT DEF Placed, None
<1>14. Placed(w, 12, n) = 4096 * Bit(w, n)
  BY SMT DEF Placed, None
<1>15. Placed(w, 13, n) = 8192 * Bit(w, n)
  BY SMT DEF Placed, None
<1>16. Placed(w, 14, n) = 16384 * Bit(w, n)
  BY SMT DEF Placed, None
<1>17. Placed(w, 15, n) = 32768 * Bit(w, n)
  BY SMT DEF Placed, None
<1>18. Placed(w, 16, n) = 65536 * Bit(w, n)
  BY SMT DEF Placed, None
<1>19. Placed(w, 17, n) = 131072 * Bit(w, n)
  BY SMT DEF Placed, None
<1> QED BY <1>1, <1>2, <1>3, <1>4, <1>5, <1>6, <1>7, <1>8, <1>9, <1>10, <1>11, <1>12, <1>13,
           <1>14, <1>15, <1>16, <1>17, <1>18, <1>19

LEMMA BitsAre ==
    ASSUME NEW w \in InstructionWord
    PROVE  /\ Bit(w, 2) \in 0 .. 1
           /\ Bit(w, 3) \in 0 .. 1
           /\ Bit(w, 4) \in 0 .. 1
           /\ Bit(w, 5) \in 0 .. 1
           /\ Bit(w, 6) \in 0 .. 1
           /\ Bit(w, 7) \in 0 .. 1
           /\ Bit(w, 8) \in 0 .. 1
           /\ Bit(w, 9) \in 0 .. 1
           /\ Bit(w, 10) \in 0 .. 1
           /\ Bit(w, 11) \in 0 .. 1
           /\ Bit(w, 12) \in 0 .. 1
  BY CompressedFields

(* The immediates, each against its table.                                 *)
LEMMA Gathers_cimmi ==
    ASSUME NEW w \in InstructionWord, NEW signed, signed = TRUE
    PROVE  Gathered(w, SixBits, signed) = cimmi(w)
<1> DEFINE l == SixBits
<1>1. /\ l[1] = 5
      /\ l[2] = None
      /\ l[3] = None
      /\ l[4] = None
      /\ l[5] = None
      /\ l[6] = None
      /\ l[7] = 4
      /\ l[8] = 3
      /\ l[9] = 2
      /\ l[10] = 1
      /\ l[11] = 0
  BY DEF SixBits
<1> HIDE DEF l
<1>2. Gathered(w, l, signed) =
        - Placed(w, l[1], 12) + Placed(w, l[2], 11) + Placed(w, l[3], 10) +
        Placed(w, l[4], 9) + Placed(w, l[5], 8) + Placed(w, l[6], 7) +
        Placed(w, l[7], 6) + Placed(w, l[8], 5) + Placed(w, l[9], 4) +
        Placed(w, l[10], 3) + Placed(w, l[11], 2)
  BY DEF Gathered, Placed, Bit
<1>3. Gathered(w, l, signed) =
        - Placed(w, 5, 12) + Placed(w, None, 11) + Placed(w, None, 10) +
        Placed(w, None, 9) + Placed(w, None, 8) + Placed(w, None, 7) + Placed(w, 4, 6)
        + Placed(w, 3, 5) + Placed(w, 2, 4) + Placed(w, 1, 3) + Placed(w, 0, 2)
  BY <1>1, <1>2
<1>4. Gathered(w, l, signed) =
        16 * Bit(w, 6) + 8 * Bit(w, 5) + 4 * Bit(w, 4) + 2 * Bit(w, 3) + 1 * Bit(w, 2)
        - 32 * Bit(w, 12)
  BY <1>3, BitsAre, PlacedIs, SMT
<1>5. cimmi(w) =
        16 * Bit(w, 6) + 8 * Bit(w, 5) + 4 * Bit(w, 4) + 2 * Bit(w, 3) + 1 * Bit(w, 2)
        - 32 * Bit(w, 12)
  BY BitsAre, CompressedFields, SMT DEF cimmi
<1>6. Gathered(w, l, signed) = cimmi(w)
  BY <1>4, <1>5
<1> QED BY <1>6, Zenon DEF l

LEMMA Gathers_cimmsh6 ==
    ASSUME NEW w \in InstructionWord, NEW signed, signed = FALSE
    PROVE  Gathered(w, SixBits, signed) = cimmsh6(w)
<1> DEFINE l == SixBits
<1>1. /\ l[1] = 5
      /\ l[2] = None
      /\ l[3] = None
      /\ l[4] = None
      /\ l[5] = None
      /\ l[6] = None
      /\ l[7] = 4
      /\ l[8] = 3
      /\ l[9] = 2
      /\ l[10] = 1
      /\ l[11] = 0
  BY DEF SixBits
<1> HIDE DEF l
<1>2. Gathered(w, l, signed) =
        Placed(w, l[1], 12) + Placed(w, l[2], 11) + Placed(w, l[3], 10) +
        Placed(w, l[4], 9) + Placed(w, l[5], 8) + Placed(w, l[6], 7) +
        Placed(w, l[7], 6) + Placed(w, l[8], 5) + Placed(w, l[9], 4) +
        Placed(w, l[10], 3) + Placed(w, l[11], 2)
  BY DEF Gathered, Placed, Bit
<1>3. Gathered(w, l, signed) =
        Placed(w, 5, 12) + Placed(w, None, 11) + Placed(w, None, 10) +
        Placed(w, None, 9) + Placed(w, None, 8) + Placed(w, None, 7) + Placed(w, 4, 6)
        + Placed(w, 3, 5) + Placed(w, 2, 4) + Placed(w, 1, 3) + Placed(w, 0, 2)
  BY <1>1, <1>2
<1>4. Gathered(w, l, signed) =
        32 * Bit(w, 12) + 16 * Bit(w, 6) + 8 * Bit(w, 5) + 4 * Bit(w, 4) +
        2 * Bit(w, 3) + 1 * Bit(w, 2)
  BY <1>3, BitsAre, PlacedIs, SMT
<1>5. cimmsh6(w) =
        32 * Bit(w, 12) + 16 * Bit(w, 6) + 8 * Bit(w, 5) + 4 * Bit(w, 4) +
        2 * Bit(w, 3) + 1 * Bit(w, 2)
  BY BitsAre, CompressedFields, SMT DEF cimmsh6
<1>6. Gathered(w, l, signed) = cimmsh6(w)
  BY <1>4, <1>5
<1> QED BY <1>6, Zenon DEF l

LEMMA Gathers_cimmj ==
    ASSUME NEW w \in InstructionWord, NEW signed, signed = TRUE
    PROVE  Gathered(w, Jump, signed) = cimmj(w)
<1> DEFINE l == Jump
<1>1. /\ l[1] = 11
      /\ l[2] = 4
      /\ l[3] = 9
      /\ l[4] = 8
      /\ l[5] = 10
      /\ l[6] = 6
      /\ l[7] = 7
      /\ l[8] = 3
      /\ l[9] = 2
      /\ l[10] = 1
      /\ l[11] = 5
  BY DEF Jump
<1> HIDE DEF l
<1>2. Gathered(w, l, signed) =
        - Placed(w, l[1], 12) + Placed(w, l[2], 11) + Placed(w, l[3], 10) +
        Placed(w, l[4], 9) + Placed(w, l[5], 8) + Placed(w, l[6], 7) +
        Placed(w, l[7], 6) + Placed(w, l[8], 5) + Placed(w, l[9], 4) +
        Placed(w, l[10], 3) + Placed(w, l[11], 2)
  BY DEF Gathered, Placed, Bit
<1>3. Gathered(w, l, signed) =
        - Placed(w, 11, 12) + Placed(w, 4, 11) + Placed(w, 9, 10) + Placed(w, 8, 9) +
        Placed(w, 10, 8) + Placed(w, 6, 7) + Placed(w, 7, 6) + Placed(w, 3, 5) +
        Placed(w, 2, 4) + Placed(w, 1, 3) + Placed(w, 5, 2)
  BY <1>1, <1>2
<1>4. Gathered(w, l, signed) =
        16 * Bit(w, 11) + 512 * Bit(w, 10) + 256 * Bit(w, 9) + 1024 * Bit(w, 8) +
        64 * Bit(w, 7) + 128 * Bit(w, 6) + 8 * Bit(w, 5) + 4 * Bit(w, 4) +
        2 * Bit(w, 3) + 32 * Bit(w, 2) - 2048 * Bit(w, 12)
  BY <1>3, BitsAre, PlacedIs, SMT
<1>5. cimmj(w) =
        16 * Bit(w, 11) + 512 * Bit(w, 10) + 256 * Bit(w, 9) + 1024 * Bit(w, 8) +
        64 * Bit(w, 7) + 128 * Bit(w, 6) + 8 * Bit(w, 5) + 4 * Bit(w, 4) +
        2 * Bit(w, 3) + 32 * Bit(w, 2) - 2048 * Bit(w, 12)
  BY BitsAre, CompressedFields, SMT DEF cimmj
<1>6. Gathered(w, l, signed) = cimmj(w)
  BY <1>4, <1>5
<1> QED BY <1>6, Zenon DEF l

LEMMA Gathers_cimmb ==
    ASSUME NEW w \in InstructionWord, NEW signed, signed = TRUE
    PROVE  Gathered(w, CompressedBranch, signed) = cimmb(w)
<1> DEFINE l == CompressedBranch
<1>1. /\ l[1] = 8
      /\ l[2] = 4
      /\ l[3] = 3
      /\ l[4] = None
      /\ l[5] = None
      /\ l[6] = None
      /\ l[7] = 7
      /\ l[8] = 6
      /\ l[9] = 2
      /\ l[10] = 1
      /\ l[11] = 5
  BY DEF CompressedBranch
<1> HIDE DEF l
<1>2. Gathered(w, l, signed) =
        - Placed(w, l[1], 12) + Placed(w, l[2], 11) + Placed(w, l[3], 10) +
        Placed(w, l[4], 9) + Placed(w, l[5], 8) + Placed(w, l[6], 7) +
        Placed(w, l[7], 6) + Placed(w, l[8], 5) + Placed(w, l[9], 4) +
        Placed(w, l[10], 3) + Placed(w, l[11], 2)
  BY DEF Gathered, Placed, Bit
<1>3. Gathered(w, l, signed) =
        - Placed(w, 8, 12) + Placed(w, 4, 11) + Placed(w, 3, 10) + Placed(w, None, 9)
        + Placed(w, None, 8) + Placed(w, None, 7) + Placed(w, 7, 6) + Placed(w, 6, 5)
        + Placed(w, 2, 4) + Placed(w, 1, 3) + Placed(w, 5, 2)
  BY <1>1, <1>2
<1>4. Gathered(w, l, signed) =
        16 * Bit(w, 11) + 8 * Bit(w, 10) + 128 * Bit(w, 6) + 64 * Bit(w, 5) +
        4 * Bit(w, 4) + 2 * Bit(w, 3) + 32 * Bit(w, 2) - 256 * Bit(w, 12)
  BY <1>3, BitsAre, PlacedIs, SMT
<1>5. cimmb(w) =
        16 * Bit(w, 11) + 8 * Bit(w, 10) + 128 * Bit(w, 6) + 64 * Bit(w, 5) +
        4 * Bit(w, 4) + 2 * Bit(w, 3) + 32 * Bit(w, 2) - 256 * Bit(w, 12)
  BY BitsAre, CompressedFields, SMT DEF cimmb
<1>6. Gathered(w, l, signed) = cimmb(w)
  BY <1>4, <1>5
<1> QED BY <1>6, Zenon DEF l

LEMMA Gathers_cimmw ==
    ASSUME NEW w \in InstructionWord, NEW signed, signed = FALSE
    PROVE  Gathered(w, ShortAccess(5, 4, 3, 2, 6), signed) = cimmw(w)
<1> DEFINE l == ShortAccess(5, 4, 3, 2, 6)
<1>1. /\ l[1] = 5
      /\ l[2] = 4
      /\ l[3] = 3
      /\ l[4] = None
      /\ l[5] = None
      /\ l[6] = None
      /\ l[7] = 2
      /\ l[8] = 6
      /\ l[9] = None
      /\ l[10] = None
      /\ l[11] = None
  BY DEF ShortAccess
<1> HIDE DEF l
<1>2. Gathered(w, l, signed) =
        Placed(w, l[1], 12) + Placed(w, l[2], 11) + Placed(w, l[3], 10) +
        Placed(w, l[4], 9) + Placed(w, l[5], 8) + Placed(w, l[6], 7) +
        Placed(w, l[7], 6) + Placed(w, l[8], 5) + Placed(w, l[9], 4) +
        Placed(w, l[10], 3) + Placed(w, l[11], 2)
  BY DEF Gathered, Placed, Bit
<1>3. Gathered(w, l, signed) =
        Placed(w, 5, 12) + Placed(w, 4, 11) + Placed(w, 3, 10) + Placed(w, None, 9) +
        Placed(w, None, 8) + Placed(w, None, 7) + Placed(w, 2, 6) + Placed(w, 6, 5) +
        Placed(w, None, 4) + Placed(w, None, 3) + Placed(w, None, 2)
  BY <1>1, <1>2
<1>4. Gathered(w, l, signed) =
        32 * Bit(w, 12) + 16 * Bit(w, 11) + 8 * Bit(w, 10) + 4 * Bit(w, 6) +
        64 * Bit(w, 5)
  BY <1>3, BitsAre, PlacedIs, SMT
<1>5. cimmw(w) =
        32 * Bit(w, 12) + 16 * Bit(w, 11) + 8 * Bit(w, 10) + 4 * Bit(w, 6) +
        64 * Bit(w, 5)
  BY BitsAre, CompressedFields, SMT DEF cimmw
<1>6. Gathered(w, l, signed) = cimmw(w)
  BY <1>4, <1>5
<1> QED BY <1>6, Zenon DEF l

LEMMA Gathers_cimmd ==
    ASSUME NEW w \in InstructionWord, NEW signed, signed = FALSE
    PROVE  Gathered(w, ShortAccess(5, 4, 3, 7, 6), signed) = cimmd(w)
<1> DEFINE l == ShortAccess(5, 4, 3, 7, 6)
<1>1. /\ l[1] = 5
      /\ l[2] = 4
      /\ l[3] = 3
      /\ l[4] = None
      /\ l[5] = None
      /\ l[6] = None
      /\ l[7] = 7
      /\ l[8] = 6
      /\ l[9] = None
      /\ l[10] = None
      /\ l[11] = None
  BY DEF ShortAccess
<1> HIDE DEF l
<1>2. Gathered(w, l, signed) =
        Placed(w, l[1], 12) + Placed(w, l[2], 11) + Placed(w, l[3], 10) +
        Placed(w, l[4], 9) + Placed(w, l[5], 8) + Placed(w, l[6], 7) +
        Placed(w, l[7], 6) + Placed(w, l[8], 5) + Placed(w, l[9], 4) +
        Placed(w, l[10], 3) + Placed(w, l[11], 2)
  BY DEF Gathered, Placed, Bit
<1>3. Gathered(w, l, signed) =
        Placed(w, 5, 12) + Placed(w, 4, 11) + Placed(w, 3, 10) + Placed(w, None, 9) +
        Placed(w, None, 8) + Placed(w, None, 7) + Placed(w, 7, 6) + Placed(w, 6, 5) +
        Placed(w, None, 4) + Placed(w, None, 3) + Placed(w, None, 2)
  BY <1>1, <1>2
<1>4. Gathered(w, l, signed) =
        32 * Bit(w, 12) + 16 * Bit(w, 11) + 8 * Bit(w, 10) + 128 * Bit(w, 6) +
        64 * Bit(w, 5)
  BY <1>3, BitsAre, PlacedIs, SMT
<1>5. cimmd(w) =
        32 * Bit(w, 12) + 16 * Bit(w, 11) + 8 * Bit(w, 10) + 128 * Bit(w, 6) +
        64 * Bit(w, 5)
  BY BitsAre, CompressedFields, SMT DEF cimmd
<1>6. Gathered(w, l, signed) = cimmd(w)
  BY <1>4, <1>5
<1> QED BY <1>6, Zenon DEF l

LEMMA Gathers_cimmq ==
    ASSUME NEW w \in InstructionWord, NEW signed, signed = FALSE
    PROVE  Gathered(w, ShortAccess(5, 4, 8, 7, 6), signed) = cimmq(w)
<1> DEFINE l == ShortAccess(5, 4, 8, 7, 6)
<1>1. /\ l[1] = 5
      /\ l[2] = 4
      /\ l[3] = 8
      /\ l[4] = None
      /\ l[5] = None
      /\ l[6] = None
      /\ l[7] = 7
      /\ l[8] = 6
      /\ l[9] = None
      /\ l[10] = None
      /\ l[11] = None
  BY DEF ShortAccess
<1> HIDE DEF l
<1>2. Gathered(w, l, signed) =
        Placed(w, l[1], 12) + Placed(w, l[2], 11) + Placed(w, l[3], 10) +
        Placed(w, l[4], 9) + Placed(w, l[5], 8) + Placed(w, l[6], 7) +
        Placed(w, l[7], 6) + Placed(w, l[8], 5) + Placed(w, l[9], 4) +
        Placed(w, l[10], 3) + Placed(w, l[11], 2)
  BY DEF Gathered, Placed, Bit
<1>3. Gathered(w, l, signed) =
        Placed(w, 5, 12) + Placed(w, 4, 11) + Placed(w, 8, 10) + Placed(w, None, 9) +
        Placed(w, None, 8) + Placed(w, None, 7) + Placed(w, 7, 6) + Placed(w, 6, 5) +
        Placed(w, None, 4) + Placed(w, None, 3) + Placed(w, None, 2)
  BY <1>1, <1>2
<1>4. Gathered(w, l, signed) =
        32 * Bit(w, 12) + 16 * Bit(w, 11) + 256 * Bit(w, 10) + 128 * Bit(w, 6) +
        64 * Bit(w, 5)
  BY <1>3, BitsAre, PlacedIs, SMT
<1>5. cimmq(w) =
        32 * Bit(w, 12) + 16 * Bit(w, 11) + 256 * Bit(w, 10) + 128 * Bit(w, 6) +
        64 * Bit(w, 5)
  BY BitsAre, CompressedFields, SMT DEF cimmq
<1>6. Gathered(w, l, signed) = cimmq(w)
  BY <1>4, <1>5
<1> QED BY <1>6, Zenon DEF l

LEMMA Gathers_cimmlwsp ==
    ASSUME NEW w \in InstructionWord, NEW signed, signed = FALSE
    PROVE  Gathered(w, StackLoad(4, 3, 2, 7, 6), signed) = cimmlwsp(w)
<1> DEFINE l == StackLoad(4, 3, 2, 7, 6)
<1>1. /\ l[1] = 5
      /\ l[2] = None
      /\ l[3] = None
      /\ l[4] = None
      /\ l[5] = None
      /\ l[6] = None
      /\ l[7] = 4
      /\ l[8] = 3
      /\ l[9] = 2
      /\ l[10] = 7
      /\ l[11] = 6
  BY DEF StackLoad
<1> HIDE DEF l
<1>2. Gathered(w, l, signed) =
        Placed(w, l[1], 12) + Placed(w, l[2], 11) + Placed(w, l[3], 10) +
        Placed(w, l[4], 9) + Placed(w, l[5], 8) + Placed(w, l[6], 7) +
        Placed(w, l[7], 6) + Placed(w, l[8], 5) + Placed(w, l[9], 4) +
        Placed(w, l[10], 3) + Placed(w, l[11], 2)
  BY DEF Gathered, Placed, Bit
<1>3. Gathered(w, l, signed) =
        Placed(w, 5, 12) + Placed(w, None, 11) + Placed(w, None, 10) +
        Placed(w, None, 9) + Placed(w, None, 8) + Placed(w, None, 7) + Placed(w, 4, 6)
        + Placed(w, 3, 5) + Placed(w, 2, 4) + Placed(w, 7, 3) + Placed(w, 6, 2)
  BY <1>1, <1>2
<1>4. Gathered(w, l, signed) =
        32 * Bit(w, 12) + 16 * Bit(w, 6) + 8 * Bit(w, 5) + 4 * Bit(w, 4) +
        128 * Bit(w, 3) + 64 * Bit(w, 2)
  BY <1>3, BitsAre, PlacedIs, SMT
<1>5. cimmlwsp(w) =
        32 * Bit(w, 12) + 16 * Bit(w, 6) + 8 * Bit(w, 5) + 4 * Bit(w, 4) +
        128 * Bit(w, 3) + 64 * Bit(w, 2)
  BY BitsAre, CompressedFields, SMT DEF cimmlwsp
<1>6. Gathered(w, l, signed) = cimmlwsp(w)
  BY <1>4, <1>5
<1> QED BY <1>6, Zenon DEF l

LEMMA Gathers_cimmldsp ==
    ASSUME NEW w \in InstructionWord, NEW signed, signed = FALSE
    PROVE  Gathered(w, StackLoad(4, 3, 8, 7, 6), signed) = cimmldsp(w)
<1> DEFINE l == StackLoad(4, 3, 8, 7, 6)
<1>1. /\ l[1] = 5
      /\ l[2] = None
      /\ l[3] = None
      /\ l[4] = None
      /\ l[5] = None
      /\ l[6] = None
      /\ l[7] = 4
      /\ l[8] = 3
      /\ l[9] = 8
      /\ l[10] = 7
      /\ l[11] = 6
  BY DEF StackLoad
<1> HIDE DEF l
<1>2. Gathered(w, l, signed) =
        Placed(w, l[1], 12) + Placed(w, l[2], 11) + Placed(w, l[3], 10) +
        Placed(w, l[4], 9) + Placed(w, l[5], 8) + Placed(w, l[6], 7) +
        Placed(w, l[7], 6) + Placed(w, l[8], 5) + Placed(w, l[9], 4) +
        Placed(w, l[10], 3) + Placed(w, l[11], 2)
  BY DEF Gathered, Placed, Bit
<1>3. Gathered(w, l, signed) =
        Placed(w, 5, 12) + Placed(w, None, 11) + Placed(w, None, 10) +
        Placed(w, None, 9) + Placed(w, None, 8) + Placed(w, None, 7) + Placed(w, 4, 6)
        + Placed(w, 3, 5) + Placed(w, 8, 4) + Placed(w, 7, 3) + Placed(w, 6, 2)
  BY <1>1, <1>2
<1>4. Gathered(w, l, signed) =
        32 * Bit(w, 12) + 16 * Bit(w, 6) + 8 * Bit(w, 5) + 256 * Bit(w, 4) +
        128 * Bit(w, 3) + 64 * Bit(w, 2)
  BY <1>3, BitsAre, PlacedIs, SMT
<1>5. cimmldsp(w) =
        32 * Bit(w, 12) + 16 * Bit(w, 6) + 8 * Bit(w, 5) + 256 * Bit(w, 4) +
        128 * Bit(w, 3) + 64 * Bit(w, 2)
  BY BitsAre, CompressedFields, SMT DEF cimmldsp
<1>6. Gathered(w, l, signed) = cimmldsp(w)
  BY <1>4, <1>5
<1> QED BY <1>6, Zenon DEF l

LEMMA Gathers_cimmlqsp ==
    ASSUME NEW w \in InstructionWord, NEW signed, signed = FALSE
    PROVE  Gathered(w, StackLoad(4, 9, 8, 7, 6), signed) = cimmlqsp(w)
<1> DEFINE l == StackLoad(4, 9, 8, 7, 6)
<1>1. /\ l[1] = 5
      /\ l[2] = None
      /\ l[3] = None
      /\ l[4] = None
      /\ l[5] = None
      /\ l[6] = None
      /\ l[7] = 4
      /\ l[8] = 9
      /\ l[9] = 8
      /\ l[10] = 7
      /\ l[11] = 6
  BY DEF StackLoad
<1> HIDE DEF l
<1>2. Gathered(w, l, signed) =
        Placed(w, l[1], 12) + Placed(w, l[2], 11) + Placed(w, l[3], 10) +
        Placed(w, l[4], 9) + Placed(w, l[5], 8) + Placed(w, l[6], 7) +
        Placed(w, l[7], 6) + Placed(w, l[8], 5) + Placed(w, l[9], 4) +
        Placed(w, l[10], 3) + Placed(w, l[11], 2)
  BY DEF Gathered, Placed, Bit
<1>3. Gathered(w, l, signed) =
        Placed(w, 5, 12) + Placed(w, None, 11) + Placed(w, None, 10) +
        Placed(w, None, 9) + Placed(w, None, 8) + Placed(w, None, 7) + Placed(w, 4, 6)
        + Placed(w, 9, 5) + Placed(w, 8, 4) + Placed(w, 7, 3) + Placed(w, 6, 2)
  BY <1>1, <1>2
<1>4. Gathered(w, l, signed) =
        32 * Bit(w, 12) + 16 * Bit(w, 6) + 512 * Bit(w, 5) + 256 * Bit(w, 4) +
        128 * Bit(w, 3) + 64 * Bit(w, 2)
  BY <1>3, BitsAre, PlacedIs, SMT
<1>5. cimmlqsp(w) =
        32 * Bit(w, 12) + 16 * Bit(w, 6) + 512 * Bit(w, 5) + 256 * Bit(w, 4) +
        128 * Bit(w, 3) + 64 * Bit(w, 2)
  BY BitsAre, CompressedFields, SMT DEF cimmlqsp
<1>6. Gathered(w, l, signed) = cimmlqsp(w)
  BY <1>4, <1>5
<1> QED BY <1>6, Zenon DEF l

LEMMA Gathers_cimmswsp ==
    ASSUME NEW w \in InstructionWord, NEW signed, signed = FALSE
    PROVE  Gathered(w, StackStore(5, 4, 3, 2, 7, 6), signed) = cimmswsp(w)
<1> DEFINE l == StackStore(5, 4, 3, 2, 7, 6)
<1>1. /\ l[1] = 5
      /\ l[2] = 4
      /\ l[3] = 3
      /\ l[4] = 2
      /\ l[5] = 7
      /\ l[6] = 6
      /\ l[7] = None
      /\ l[8] = None
      /\ l[9] = None
      /\ l[10] = None
      /\ l[11] = None
  BY DEF StackStore
<1> HIDE DEF l
<1>2. Gathered(w, l, signed) =
        Placed(w, l[1], 12) + Placed(w, l[2], 11) + Placed(w, l[3], 10) +
        Placed(w, l[4], 9) + Placed(w, l[5], 8) + Placed(w, l[6], 7) +
        Placed(w, l[7], 6) + Placed(w, l[8], 5) + Placed(w, l[9], 4) +
        Placed(w, l[10], 3) + Placed(w, l[11], 2)
  BY DEF Gathered, Placed, Bit
<1>3. Gathered(w, l, signed) =
        Placed(w, 5, 12) + Placed(w, 4, 11) + Placed(w, 3, 10) + Placed(w, 2, 9) +
        Placed(w, 7, 8) + Placed(w, 6, 7) + Placed(w, None, 6) + Placed(w, None, 5) +
        Placed(w, None, 4) + Placed(w, None, 3) + Placed(w, None, 2)
  BY <1>1, <1>2
<1>4. Gathered(w, l, signed) =
        32 * Bit(w, 12) + 16 * Bit(w, 11) + 8 * Bit(w, 10) + 4 * Bit(w, 9) +
        128 * Bit(w, 8) + 64 * Bit(w, 7)
  BY <1>3, BitsAre, PlacedIs, SMT
<1>5. cimmswsp(w) =
        32 * Bit(w, 12) + 16 * Bit(w, 11) + 8 * Bit(w, 10) + 4 * Bit(w, 9) +
        128 * Bit(w, 8) + 64 * Bit(w, 7)
  BY BitsAre, CompressedFields, SMT DEF cimmswsp
<1>6. Gathered(w, l, signed) = cimmswsp(w)
  BY <1>4, <1>5
<1> QED BY <1>6, Zenon DEF l

LEMMA Gathers_cimmsdsp ==
    ASSUME NEW w \in InstructionWord, NEW signed, signed = FALSE
    PROVE  Gathered(w, StackStore(5, 4, 3, 8, 7, 6), signed) = cimmsdsp(w)
<1> DEFINE l == StackStore(5, 4, 3, 8, 7, 6)
<1>1. /\ l[1] = 5
      /\ l[2] = 4
      /\ l[3] = 3
      /\ l[4] = 8
      /\ l[5] = 7
      /\ l[6] = 6
      /\ l[7] = None
      /\ l[8] = None
      /\ l[9] = None
      /\ l[10] = None
      /\ l[11] = None
  BY DEF StackStore
<1> HIDE DEF l
<1>2. Gathered(w, l, signed) =
        Placed(w, l[1], 12) + Placed(w, l[2], 11) + Placed(w, l[3], 10) +
        Placed(w, l[4], 9) + Placed(w, l[5], 8) + Placed(w, l[6], 7) +
        Placed(w, l[7], 6) + Placed(w, l[8], 5) + Placed(w, l[9], 4) +
        Placed(w, l[10], 3) + Placed(w, l[11], 2)
  BY DEF Gathered, Placed, Bit
<1>3. Gathered(w, l, signed) =
        Placed(w, 5, 12) + Placed(w, 4, 11) + Placed(w, 3, 10) + Placed(w, 8, 9) +
        Placed(w, 7, 8) + Placed(w, 6, 7) + Placed(w, None, 6) + Placed(w, None, 5) +
        Placed(w, None, 4) + Placed(w, None, 3) + Placed(w, None, 2)
  BY <1>1, <1>2
<1>4. Gathered(w, l, signed) =
        32 * Bit(w, 12) + 16 * Bit(w, 11) + 8 * Bit(w, 10) + 256 * Bit(w, 9) +
        128 * Bit(w, 8) + 64 * Bit(w, 7)
  BY <1>3, BitsAre, PlacedIs, SMT
<1>5. cimmsdsp(w) =
        32 * Bit(w, 12) + 16 * Bit(w, 11) + 8 * Bit(w, 10) + 256 * Bit(w, 9) +
        128 * Bit(w, 8) + 64 * Bit(w, 7)
  BY BitsAre, CompressedFields, SMT DEF cimmsdsp
<1>6. Gathered(w, l, signed) = cimmsdsp(w)
  BY <1>4, <1>5
<1> QED BY <1>6, Zenon DEF l

LEMMA Gathers_cimmsqsp ==
    ASSUME NEW w \in InstructionWord, NEW signed, signed = FALSE
    PROVE  Gathered(w, StackStore(5, 4, 9, 8, 7, 6), signed) = cimmsqsp(w)
<1> DEFINE l == StackStore(5, 4, 9, 8, 7, 6)
<1>1. /\ l[1] = 5
      /\ l[2] = 4
      /\ l[3] = 9
      /\ l[4] = 8
      /\ l[5] = 7
      /\ l[6] = 6
      /\ l[7] = None
      /\ l[8] = None
      /\ l[9] = None
      /\ l[10] = None
      /\ l[11] = None
  BY DEF StackStore
<1> HIDE DEF l
<1>2. Gathered(w, l, signed) =
        Placed(w, l[1], 12) + Placed(w, l[2], 11) + Placed(w, l[3], 10) +
        Placed(w, l[4], 9) + Placed(w, l[5], 8) + Placed(w, l[6], 7) +
        Placed(w, l[7], 6) + Placed(w, l[8], 5) + Placed(w, l[9], 4) +
        Placed(w, l[10], 3) + Placed(w, l[11], 2)
  BY DEF Gathered, Placed, Bit
<1>3. Gathered(w, l, signed) =
        Placed(w, 5, 12) + Placed(w, 4, 11) + Placed(w, 9, 10) + Placed(w, 8, 9) +
        Placed(w, 7, 8) + Placed(w, 6, 7) + Placed(w, None, 6) + Placed(w, None, 5) +
        Placed(w, None, 4) + Placed(w, None, 3) + Placed(w, None, 2)
  BY <1>1, <1>2
<1>4. Gathered(w, l, signed) =
        32 * Bit(w, 12) + 16 * Bit(w, 11) + 512 * Bit(w, 10) + 256 * Bit(w, 9) +
        128 * Bit(w, 8) + 64 * Bit(w, 7)
  BY <1>3, BitsAre, PlacedIs, SMT
<1>5. cimmsqsp(w) =
        32 * Bit(w, 12) + 16 * Bit(w, 11) + 512 * Bit(w, 10) + 256 * Bit(w, 9) +
        128 * Bit(w, 8) + 64 * Bit(w, 7)
  BY BitsAre, CompressedFields, SMT DEF cimmsqsp
<1>6. Gathered(w, l, signed) = cimmsqsp(w)
  BY <1>4, <1>5
<1> QED BY <1>6, Zenon DEF l

LEMMA Gathers_cimmui ==
    ASSUME NEW w \in InstructionWord, NEW signed, signed = TRUE
    PROVE  Gathered(w, <<17, None, None, None, None, None, 16, 15, 14, 13, 12>>,
                    signed) = cimmui(w)
<1> DEFINE l == <<17, None, None, None, None, None, 16, 15, 14, 13, 12>>
<1>1. /\ l[1] = 17
      /\ l[2] = None
      /\ l[3] = None
      /\ l[4] = None
      /\ l[5] = None
      /\ l[6] = None
      /\ l[7] = 16
      /\ l[8] = 15
      /\ l[9] = 14
      /\ l[10] = 13
      /\ l[11] = 12
  OBVIOUS
<1> HIDE DEF l
<1>2. Gathered(w, l, signed) =
        - Placed(w, l[1], 12) + Placed(w, l[2], 11) + Placed(w, l[3], 10) +
        Placed(w, l[4], 9) + Placed(w, l[5], 8) + Placed(w, l[6], 7) +
        Placed(w, l[7], 6) + Placed(w, l[8], 5) + Placed(w, l[9], 4) +
        Placed(w, l[10], 3) + Placed(w, l[11], 2)
  BY DEF Gathered, Placed, Bit
<1>3. Gathered(w, l, signed) =
        - Placed(w, 17, 12) + Placed(w, None, 11) + Placed(w, None, 10) +
        Placed(w, None, 9) + Placed(w, None, 8) + Placed(w, None, 7) +
        Placed(w, 16, 6) + Placed(w, 15, 5) + Placed(w, 14, 4) + Placed(w, 13, 3) +
        Placed(w, 12, 2)
  BY <1>1, <1>2
<1>4. Gathered(w, l, signed) =
        65536 * Bit(w, 6) + 32768 * Bit(w, 5) + 16384 * Bit(w, 4) + 8192 * Bit(w, 3) +
        4096 * Bit(w, 2) - 131072 * Bit(w, 12)
  BY <1>3, BitsAre, PlacedIs, SMT
<1>5. cimmui(w) =
        65536 * Bit(w, 6) + 32768 * Bit(w, 5) + 16384 * Bit(w, 4) + 8192 * Bit(w, 3) +
        4096 * Bit(w, 2) - 131072 * Bit(w, 12)
  BY BitsAre, CompressedFields, SMT DEF cimmui
<1>6. Gathered(w, l, signed) = cimmui(w)
  BY <1>4, <1>5
<1> QED BY <1>6, Zenon DEF l

LEMMA Gathers_cimm16sp ==
    ASSUME NEW w \in InstructionWord, NEW signed, signed = TRUE
    PROVE  Gathered(w, <<9, None, None, None, None, None, 4, 6, 8, 7, 5>>,
                    signed) = cimm16sp(w)
<1> DEFINE l == <<9, None, None, None, None, None, 4, 6, 8, 7, 5>>
<1>1. /\ l[1] = 9
      /\ l[2] = None
      /\ l[3] = None
      /\ l[4] = None
      /\ l[5] = None
      /\ l[6] = None
      /\ l[7] = 4
      /\ l[8] = 6
      /\ l[9] = 8
      /\ l[10] = 7
      /\ l[11] = 5
  OBVIOUS
<1> HIDE DEF l
<1>2. Gathered(w, l, signed) =
        - Placed(w, l[1], 12) + Placed(w, l[2], 11) + Placed(w, l[3], 10) +
        Placed(w, l[4], 9) + Placed(w, l[5], 8) + Placed(w, l[6], 7) +
        Placed(w, l[7], 6) + Placed(w, l[8], 5) + Placed(w, l[9], 4) +
        Placed(w, l[10], 3) + Placed(w, l[11], 2)
  BY DEF Gathered, Placed, Bit
<1>3. Gathered(w, l, signed) =
        - Placed(w, 9, 12) + Placed(w, None, 11) + Placed(w, None, 10) +
        Placed(w, None, 9) + Placed(w, None, 8) + Placed(w, None, 7) + Placed(w, 4, 6)
        + Placed(w, 6, 5) + Placed(w, 8, 4) + Placed(w, 7, 3) + Placed(w, 5, 2)
  BY <1>1, <1>2
<1>4. Gathered(w, l, signed) =
        16 * Bit(w, 6) + 64 * Bit(w, 5) + 256 * Bit(w, 4) + 128 * Bit(w, 3) +
        32 * Bit(w, 2) - 512 * Bit(w, 12)
  BY <1>3, BitsAre, PlacedIs, SMT
<1>5. cimm16sp(w) =
        16 * Bit(w, 6) + 64 * Bit(w, 5) + 256 * Bit(w, 4) + 128 * Bit(w, 3) +
        32 * Bit(w, 2) - 512 * Bit(w, 12)
  BY BitsAre, CompressedFields, SMT DEF cimm16sp
<1>6. Gathered(w, l, signed) = cimm16sp(w)
  BY <1>4, <1>5
<1> QED BY <1>6, Zenon DEF l

LEMMA Gathers_cimm4spn ==
    ASSUME NEW w \in InstructionWord, NEW signed, signed = FALSE
    PROVE  Gathered(w, <<5, 4, 9, 8, 7, 6, 2, 3, None, None, None>>, signed) = cimm4spn(w)
<1> DEFINE l == <<5, 4, 9, 8, 7, 6, 2, 3, None, None, None>>
<1>1. /\ l[1] = 5
      /\ l[2] = 4
      /\ l[3] = 9
      /\ l[4] = 8
      /\ l[5] = 7
      /\ l[6] = 6
      /\ l[7] = 2
      /\ l[8] = 3
      /\ l[9] = None
      /\ l[10] = None
      /\ l[11] = None
  OBVIOUS
<1> HIDE DEF l
<1>2. Gathered(w, l, signed) =
        Placed(w, l[1], 12) + Placed(w, l[2], 11) + Placed(w, l[3], 10) +
        Placed(w, l[4], 9) + Placed(w, l[5], 8) + Placed(w, l[6], 7) +
        Placed(w, l[7], 6) + Placed(w, l[8], 5) + Placed(w, l[9], 4) +
        Placed(w, l[10], 3) + Placed(w, l[11], 2)
  BY DEF Gathered, Placed, Bit
<1>3. Gathered(w, l, signed) =
        Placed(w, 5, 12) + Placed(w, 4, 11) + Placed(w, 9, 10) + Placed(w, 8, 9) +
        Placed(w, 7, 8) + Placed(w, 6, 7) + Placed(w, 2, 6) + Placed(w, 3, 5) +
        Placed(w, None, 4) + Placed(w, None, 3) + Placed(w, None, 2)
  BY <1>1, <1>2
<1>4. Gathered(w, l, signed) =
        32 * Bit(w, 12) + 16 * Bit(w, 11) + 512 * Bit(w, 10) + 256 * Bit(w, 9) +
        128 * Bit(w, 8) + 64 * Bit(w, 7) + 4 * Bit(w, 6) + 8 * Bit(w, 5)
  BY <1>3, BitsAre, PlacedIs, SMT
<1>5. cimm4spn(w) =
        32 * Bit(w, 12) + 16 * Bit(w, 11) + 512 * Bit(w, 10) + 256 * Bit(w, 9) +
        128 * Bit(w, 8) + 64 * Bit(w, 7) + 4 * Bit(w, 6) + 8 * Bit(w, 5)
  BY BitsAre, CompressedFields, SMT DEF cimm4spn
<1>6. Gathered(w, l, signed) = cimm4spn(w)
  BY <1>4, <1>5
<1> QED BY <1>6, Zenon DEF l

(* The codec of a compressed operation picks the extractor that its layout *)
(* calls for.                                                              *)
LEMMA ImmediateGathered ==
    ASSUME NEW w \in InstructionWord, NEW op, Layout(op) # <<>>
    PROVE  Imm(opcode_data[op].codec, w) = Gathered(w, Layout(op), op \in SignedImmediate)
<1> DEFINE signed == op \in SignedImmediate
<1>1. CASE op \in {"c_addi", "c_addiw", "c_li", "c_andi"}
  <2>1. opcode_data[op].codec \in {"ci", "ci_li", "cb_imm"}
    BY <1>1, CompressedCodecOf
  <2>2. Imm(opcode_data[op].codec, w) = cimmi(w)
    BY <2>1 DEF Imm
  <2>3. Layout(op) = SixBits /\ signed = TRUE
    BY <1>1 DEF Layout, SignedImmediate
  <2> HIDE DEF signed
  <2>4. Gathered(w, SixBits, signed) = cimmi(w)
    BY <2>3, Gathers_cimmi, Zenon
  <2> QED BY <2>2, <2>3, <2>4, Zenon DEF signed
<1>2. CASE op \in {"c_srli", "c_srai", "c_slli"}
  <2>1. opcode_data[op].codec \in {"cb_sh6", "ci_sh6"}
    BY <1>2, CompressedCodecOf
  <2>2. Imm(opcode_data[op].codec, w) = cimmsh6(w)
    BY <2>1 DEF Imm
  <2>3. Layout(op) = SixBits /\ signed = FALSE
    BY <1>2 DEF Layout, SignedImmediate
  <2> HIDE DEF signed
  <2>4. Gathered(w, SixBits, signed) = cimmsh6(w)
    BY <2>3, Gathers_cimmsh6, Zenon
  <2> QED BY <2>2, <2>3, <2>4, Zenon DEF signed
<1>3. CASE op \in {"c_j", "c_jal"}
  <2>1. opcode_data[op].codec \in {"cj", "cj_jal"}
    BY <1>3, CompressedCodecOf
  <2>2. Imm(opcode_data[op].codec, w) = cimmj(w)
    BY <2>1 DEF Imm
  <2>3. Layout(op) = Jump /\ signed = TRUE
    BY <1>3 DEF Layout, SignedImmediate
  <2> HIDE DEF signed
  <2>4. Gathered(w, Jump, signed) = cimmj(w)
    BY <2>3, Gathers_cimmj, Zenon
  <2> QED BY <2>2, <2>3, <2>4, Zenon DEF signed
<1>4. CASE op \in {"c_beqz", "c_bnez"}
  <2>1. opcode_data[op].codec \in {"cb"}
    BY <1>4, CompressedCodecOf
  <2>2. Imm(opcode_data[op].codec, w) = cimmb(w)
    BY <2>1 DEF Imm
  <2>3. Layout(op) = CompressedBranch /\ signed = TRUE
    BY <1>4 DEF Layout, SignedImmediate
  <2> HIDE DEF signed
  <2>4. Gathered(w, CompressedBranch, signed) = cimmb(w)
    BY <2>3, Gathers_cimmb, Zenon
  <2> QED BY <2>2, <2>3, <2>4, Zenon DEF signed
<1>5. CASE op \in {"c_lw", "c_flw", "c_sw", "c_fsw"}
  <2>1. opcode_data[op].codec \in {"cl_lw", "cs_sw"}
    BY <1>5, CompressedCodecOf
  <2>2. Imm(opcode_data[op].codec, w) = cimmw(w)
    BY <2>1 DEF Imm
  <2>3. Layout(op) = ShortAccess(5, 4, 3, 2, 6) /\ signed = FALSE
    BY <1>5 DEF Layout, SignedImmediate
  <2> HIDE DEF signed
  <2>4. Gathered(w, ShortAccess(5, 4, 3, 2, 6), signed) = cimmw(w)
    BY <2>3, Gathers_cimmw, Zenon
  <2> QED BY <2>2, <2>3, <2>4, Zenon DEF signed
<1>6. CASE op \in {"c_ld", "c_fld", "c_sd", "c_fsd"}
  <2>1. opcode_data[op].codec \in {"cl_ld", "cs_sd"}
    BY <1>6, CompressedCodecOf
  <2>2. Imm(opcode_data[op].codec, w) = cimmd(w)
    BY <2>1 DEF Imm
  <2>3. Layout(op) = ShortAccess(5, 4, 3, 7, 6) /\ signed = FALSE
    BY <1>6 DEF Layout, SignedImmediate
  <2> HIDE DEF signed
  <2>4. Gathered(w, ShortAccess(5, 4, 3, 7, 6), signed) = cimmd(w)
    BY <2>3, Gathers_cimmd, Zenon
  <2> QED BY <2>2, <2>3, <2>4, Zenon DEF signed
<1>7. CASE op \in {"c_lq", "c_sq"}
  <2>1. opcode_data[op].codec \in {"cl_lq", "cs_sq"}
    BY <1>7, CompressedCodecOf
  <2>2. Imm(opcode_data[op].codec, w) = cimmq(w)
    BY <2>1 DEF Imm
  <2>3. Layout(op) = ShortAccess(5, 4, 8, 7, 6) /\ signed = FALSE
    BY <1>7 DEF Layout, SignedImmediate
  <2> HIDE DEF signed
  <2>4. Gathered(w, ShortAccess(5, 4, 8, 7, 6), signed) = cimmq(w)
    BY <2>3, Gathers_cimmq, Zenon
  <2> QED BY <2>2, <2>3, <2>4, Zenon DEF signed
<1>8. CASE op \in {"c_lwsp", "c_flwsp"}
  <2>1. opcode_data[op].codec \in {"ci_lwsp"}
    BY <1>8, CompressedCodecOf
  <2>2. Imm(opcode_data[op].codec, w) = cimmlwsp(w)
    BY <2>1 DEF Imm
  <2>3. Layout(op) = StackLoad(4, 3, 2, 7, 6) /\ signed = FALSE
    BY <1>8 DEF Layout, SignedImmediate
  <2> HIDE DEF signed
  <2>4. Gathered(w, StackLoad(4, 3, 2, 7, 6), signed) = cimmlwsp(w)
    BY <2>3, Gathers_cimmlwsp, Zenon
  <2> QED BY <2>2, <2>3, <2>4, Zenon DEF signed
<1>9. CASE op \in {"c_ldsp", "c_fldsp"}
  <2>1. opcode_data[op].codec \in {"ci_ldsp"}
    BY <1>9, CompressedCodecOf
  <2>2. Imm(opcode_data[op].codec, w) = cimmldsp(w)
    BY <2>1 DEF Imm
  <2>3. Layout(op) = StackLoad(4, 3, 8, 7, 6) /\ signed = FALSE
    BY <1>9 DEF Layout, SignedImmediate
  <2> HIDE DEF signed
  <2>4. Gathered(w, StackLoad(4, 3, 8, 7, 6), signed) = cimmldsp(w)
    BY <2>3, Gathers_cimmldsp, Zenon
  <2> QED BY <2>2, <2>3, <2>4, Zenon DEF signed
<1>10. CASE op \in {"c_lqsp"}
  <2>1. opcode_data[op].codec \in {"ci_lqsp"}
    BY <1>10, CompressedCodecOf
  <2>2. Imm(opcode_data[op].codec, w) = cimmlqsp(w)
    BY <2>1 DEF Imm
  <2>3. Layout(op) = StackLoad(4, 9, 8, 7, 6) /\ signed = FALSE
    BY <1>10 DEF Layout, SignedImmediate
  <2> HIDE DEF signed
  <2>4. Gathered(w, StackLoad(4, 9, 8, 7, 6), signed) = cimmlqsp(w)
    BY <2>3, Gathers_cimmlqsp, Zenon
  <2> QED BY <2>2, <2>3, <2>4, Zenon DEF signed
<1>11. CASE op \in {"c_swsp", "c_fswsp"}
  <2>1. opcode_data[op].codec \in {"css_swsp"}
    BY <1>11, CompressedCodecOf
  <2>2. Imm(opcode_data[op].codec, w) = cimmswsp(w)
    BY <2>1 DEF Imm
  <2>3. Layout(op) = StackStore(5, 4, 3, 2, 7, 6) /\ signed = FALSE
    BY <1>11 DEF Layout, SignedImmediate
  <2> HIDE DEF signed
  <2>4. Gathered(w, StackStore(5, 4, 3, 2, 7, 6), signed) = cimmswsp(w)
    BY <2>3, Gathers_cimmswsp, Zenon
  <2> QED BY <2>2, <2>3, <2>4, Zenon DEF signed
<1>12. CASE op \in {"c_sdsp", "c_fsdsp"}
  <2>1. opcode_data[op].codec \in {"css_sdsp"}
    BY <1>12, CompressedCodecOf
  <2>2. Imm(opcode_data[op].codec, w) = cimmsdsp(w)
    BY <2>1 DEF Imm
  <2>3. Layout(op) = StackStore(5, 4, 3, 8, 7, 6) /\ signed = FALSE
    BY <1>12 DEF Layout, SignedImmediate
  <2> HIDE DEF signed
  <2>4. Gathered(w, StackStore(5, 4, 3, 8, 7, 6), signed) = cimmsdsp(w)
    BY <2>3, Gathers_cimmsdsp, Zenon
  <2> QED BY <2>2, <2>3, <2>4, Zenon DEF signed
<1>13. CASE op \in {"c_sqsp"}
  <2>1. opcode_data[op].codec \in {"css_sqsp"}
    BY <1>13, CompressedCodecOf
  <2>2. Imm(opcode_data[op].codec, w) = cimmsqsp(w)
    BY <2>1 DEF Imm
  <2>3. Layout(op) = StackStore(5, 4, 9, 8, 7, 6) /\ signed = FALSE
    BY <1>13 DEF Layout, SignedImmediate
  <2> HIDE DEF signed
  <2>4. Gathered(w, StackStore(5, 4, 9, 8, 7, 6), signed) = cimmsqsp(w)
    BY <2>3, Gathers_cimmsqsp, Zenon
  <2> QED BY <2>2, <2>3, <2>4, Zenon DEF signed
<1>14. CASE op \in {"c_lui"}
  <2>1. opcode_data[op].codec \in {"ci_lui"}
    BY <1>14, CompressedCodecOf
  <2>2. Imm(opcode_data[op].codec, w) = cimmui(w)
    BY <2>1 DEF Imm
  <2>3. Layout(op) = <<17, None, None, None, None, None, 16, 15, 14, 13,
                       12>> /\ signed = TRUE
    BY <1>14 DEF Layout, SignedImmediate
  <2> HIDE DEF signed
  <2>4. Gathered(w, <<17, None, None, None, None, None, 16, 15, 14, 13, 12>>,
                 signed) = cimmui(w)
    BY <2>3, Gathers_cimmui, Zenon
  <2> QED BY <2>2, <2>3, <2>4, Zenon DEF signed
<1>15. CASE op \in {"c_addi16sp"}
  <2>1. opcode_data[op].codec \in {"ci_16sp"}
    BY <1>15, CompressedCodecOf
  <2>2. Imm(opcode_data[op].codec, w) = cimm16sp(w)
    BY <2>1 DEF Imm
  <2>3. Layout(op) = <<9, None, None, None, None, None, 4, 6, 8, 7, 5>> /\ signed = TRUE
    BY <1>15 DEF Layout, SignedImmediate
  <2> HIDE DEF signed
  <2>4. Gathered(w, <<9, None, None, None, None, None, 4, 6, 8, 7, 5>>,
                 signed) = cimm16sp(w)
    BY <2>3, Gathers_cimm16sp, Zenon
  <2> QED BY <2>2, <2>3, <2>4, Zenon DEF signed
<1>16. CASE op \in {"c_addi4spn"}
  <2>1. opcode_data[op].codec \in {"ciw_4spn"}
    BY <1>16, CompressedCodecOf
  <2>2. Imm(opcode_data[op].codec, w) = cimm4spn(w)
    BY <2>1 DEF Imm
  <2>3. Layout(op) = <<5, 4, 9, 8, 7, 6, 2, 3, None, None, None>> /\ signed = FALSE
    BY <1>16 DEF Layout, SignedImmediate
  <2> HIDE DEF signed
  <2>4. Gathered(w, <<5, 4, 9, 8, 7, 6, 2, 3, None, None, None>>, signed) = cimm4spn(w)
    BY <2>3, Gathers_cimm4spn, Zenon
  <2> QED BY <2>2, <2>3, <2>4, Zenon DEF signed
<1>17. op \in {"c_addi", "c_addiw", "c_li", "c_andi", "c_srli", "c_srai", "c_slli",
            "c_j", "c_jal", "c_beqz", "c_bnez", "c_lw", "c_flw", "c_sw", "c_fsw",
            "c_ld", "c_fld", "c_sd", "c_fsd", "c_lq", "c_sq", "c_lwsp", "c_flwsp",
            "c_ldsp", "c_fldsp", "c_lqsp", "c_swsp", "c_fswsp", "c_sdsp",
            "c_fsdsp", "c_sqsp", "c_lui", "c_addi16sp", "c_addi4spn"}
  BY DEF Layout
<1> QED BY <1>1, <1>2, <1>3, <1>4, <1>5, <1>6, <1>7, <1>8, <1>9, <1>10, <1>11, <1>12, <1>13,
           <1>14, <1>15, <1>16, <1>17

(* For every word of every instruction set, the immediate the disassembler *)
(* finds in a compressed instruction is the one of the encoding tables:    *)
(* the fourteen operand_cimm functions against the published layouts.      *)
THEOREM ImmediatesOfTables == Spec => []CompressedImmediates
<1>1. PassesInv => CompressedImmediates
  <2> SUFFICES ASSUME PassesInv, stage = "decompress", Layout(dec.op) # <<>>
               PROVE  dec.imm = Gathered(inst, Layout(dec.op), dec.op \in SignedImmediate)
    BY DEF CompressedImmediates
  <2> DEFINE op == decode_inst_opcode(isa, inst)
  <2>1. inst \in InstructionWord /\ isa \in rv_isa /\ dec = WithOperands(isa, inst)
    BY DEF PassesInv
  <2>2. dec.op = op /\ dec.imm = Imm(opcode_data[op].codec, inst)
    BY <2>1, OperandsAre
  <2> HIDE DEF op
  <2>3. Imm(opcode_data[op].codec, inst) = Gathered(inst, Layout(op),
                                                    op \in SignedImmediate)
    BY <2>1, <2>2, ImmediateGathered
  <2> QED BY <2>2, <2>3, Zenon
<1> QED BY <1>1, Passes, PTL

-----------------------------------------------------------------------------
(* Pseudo-instructions.  What an expanded record is made of.               *)
LEMMA ExpandedFrom ==
    ASSUME NEW w \in InstructionWord, NEW i \in rv_isa
    PROVE  LET op == decode_inst_opcode(i, w)
               d == WithOperands(i, w)
               e == Expanded(i, w)
           IN  \/ e = d /\ op \in WholeOps
               \/ e.op = "illegal"
               \/ /\ op \in DOMAIN expansion
                  /\ e.op = expansion[op].op
                  /\ e.rd = d.rd /\ e.rs1 = d.rs1 /\ e.rs2 = d.rs2 /\ e.imm = d.imm
<1> DEFINE op == decode_inst_opcode(i, w)
           d == WithOperands(i, w)
           named == expansion[op].op
           renamed == [d EXCEPT !.op = named, !.codec = opcode_data[named].codec]
           none == [d EXCEPT !.op = "illegal"]
<1>1. Expanded(i, w) = decompress_inst(i, d)
  BY DEF Expanded, WithOperands, Decoded
<1>2. DecodeOK(d) /\ d.op = op
  BY OperandsAre
<1>3. \/ op \in WholeOps
      \/ op \in DOMAIN expansion /\ i \in expansion[op].isas
  BY DecodedOp, Quadrant3Is
<1>4. decompress_inst(i, d) =
        IF op \notin Compressed \/ i \notin expansion[op].isas THEN d
        ELSE IF op \in rvcd_imm_nz /\ d.imm = 0 THEN none ELSE renamed
  BY <1>2 DEF decompress_inst
<1>5. CASE op \in WholeOps
  <2>1. op \notin Compressed
    BY <1>5, WholeOpsAre
  <2>2. Expanded(i, w) = d
    BY <1>1, <1>4, <2>1
  <2> QED BY <1>5, <2>2
<1>6. CASE op \in DOMAIN expansion /\ i \in expansion[op].isas
  <2>1. op \in Compressed
    BY <1>6, CompressedCodecOf
  <2>2. Expanded(i, w) \in {none, renamed}
    BY <1>1, <1>4, <1>6, <2>1
  <2>3. none.op = "illegal"
    BY <1>2 DEF DecodeOK
  <2>4. /\ renamed.op = named
        /\ renamed.rd = d.rd /\ renamed.rs1 = d.rs1
        /\ renamed.rs2 = d.rs2 /\ renamed.imm = d.imm
    <3>1. named \in Ops
      BY <1>6, ExpansionOf, WholeOpsAre
    <3>2. Renames(d, named, opcode_data[named].codec, renamed)
      BY DEF Renames
    <3> HIDE DEF named, d, renamed
    <3> QED BY <1>2, <3>1, <3>2, Renamed
  <2> HIDE DEF d, named, renamed, none, op
  <2> QED BY <1>6, <2>2, <2>3, <2>4 DEF named, op, d
<1> QED BY <1>3, <1>5, <1>6

(* Operations with a shorter form leave the operands their format lacks    *)
(* at zero, also where they stand for a compressed instruction.            *)
ImmediateForms == {"addi", "sltiu", "xori", "addiw", "jalr", "csrrw", "csrrs", "csrrwi"}
RegisterForms == {"sub", "slt", "sltu", "subw"}
BranchForms == {"beq", "bne", "blt", "bge", "bltu", "bgeu"}
SignForms == {"fsgnj_s", "fsgnj_d", "fsgnj_q", "fsgnjn_s", "fsgnjn_d", "fsgnjn_q",
              "fsgnjx_s", "fsgnjx_d", "fsgnjx_q"}

Unused(op, rd, rs1, rs2, imm) ==
    /\ op \in ImmediateForms => rs2 = 0
    /\ op \in RegisterForms \union SignForms => imm = 0
    /\ op \in BranchForms => rd = 0
    /\ op = "jal" => rs1 = 0 /\ rs2 = 0

LEMMA UnusedByCodec ==
    ASSUME NEW w, NEW codec
    PROVE  /\ codec \in {"i", "i_csr"} => Rs2(codec, w) = 0
           /\ codec \in {"r", "r_m", "r4_m", "r_a", "r_l"} => Imm(codec, w) = 0
           /\ codec = "sb" => Rd(codec, w) = 0
           /\ codec = "uj" => Rs1(codec, w) = 0 /\ Rs2(codec, w) = 0
           /\ codec \in {"ci_none", "ci", "ci_li", "ci_16sp", "ciw_4spn", "cr_mv", "cr_jr",
                         "cr_jalr", "cj", "cj_jal"} => Rs2(codec, w) = 0
           /\ codec = "cs" => Imm(codec, w) = 0
           /\ codec = "cb" => Rd(codec, w) = 0
           /\ codec \in {"cj", "cj_jal"} => Rs1(codec, w) = 0
BY DEF Rd, Rs1, Rs2, Imm, x0

LEMMA SignFormCodec ==
    ASSUME NEW op \in SignForms, op \in WholeOps
    PROVE  opcode_data[op].codec \in {"r", "r_m", "r4_m", "r_a", "r_l"}
<1>1. op \notin IntegerOps
  BY DEF IntegerOps, IntegerRows, SystemRows, Row, SignForms
<1>2. PICK r \in AtomicRows \union FloatRows : op \in r.ops
  BY <1>1 DEF WholeOps, FloatOps
<1>3. opcode_data[op] = r
  BY <1>2, FloatRowsAre, RowOf
<1>4. r.ops # {"flw", "fld", "flq"} /\ r.ops # {"fsw", "fsd", "fsq"}
  BY <1>2 DEF SignForms
<1>5. r.codec \in {"r", "r_m", "r4_m", "r_a", "r_l"}
  BY <1>4 DEF AtomicRows, FloatRows, Row
<1> QED BY <1>3, <1>5

LEMMA UnusedAtLift ==
    ASSUME NEW w \in InstructionWord, NEW i \in rv_isa
    PROVE  LET e == Expanded(i, w)
           IN  Unused(e.op, e.rd, e.rs1, e.rs2, e.imm)
<1> DEFINE op == decode_inst_opcode(i, w)
           c == opcode_data[op].codec
           d == WithOperands(i, w)
           e == Expanded(i, w)
<1>1. /\ d.op = op /\ d.rd = Rd(c, w) /\ d.rs1 = Rs1(c, w) /\ d.rs2 = Rs2(c, w)
      /\ d.imm = Imm(c, w)
  BY OperandsAre
<1>2. \/ e = d /\ op \in WholeOps
      \/ e.op = "illegal"
      \/ /\ op \in DOMAIN expansion
         /\ e.op = expansion[op].op
         /\ e.rd = d.rd /\ e.rs1 = d.rs1 /\ e.rs2 = d.rs2 /\ e.imm = d.imm
  BY ExpandedFrom
<1> SUFFICES Unused(e.op, e.rd, e.rs1, e.rs2, e.imm)
  OBVIOUS
<1> HIDE DEF op, d, e
<1>3. CASE e = d /\ op \in WholeOps
  <2>1. op \in ImmediateForms => c \in {"i", "i_csr"}
    BY CodecOf DEF ImmediateForms
  <2>2. op \in RegisterForms => c = "r"
    BY CodecOf DEF RegisterForms
  <2>3. op \in BranchForms => c = "sb"
    BY CodecOf DEF BranchForms
  <2>4. op = "jal" => c = "uj"
    BY CodecOf
  <2>5. op \in SignForms => c \in {"r", "r_m", "r4_m", "r_a", "r_l"}
    BY <1>3, SignFormCodec
  <2> HIDE DEF c
  <2>6. /\ c \in {"i", "i_csr"} => Rs2(c, w) = 0
        /\ c \in {"r", "r_m", "r4_m", "r_a", "r_l"} => Imm(c, w) = 0
        /\ c = "sb" => Rd(c, w) = 0
        /\ c = "uj" => Rs1(c, w) = 0 /\ Rs2(c, w) = 0
    BY UnusedByCodec
  <2> QED BY <1>1, <1>3, <2>1, <2>2, <2>3, <2>4, <2>5, <2>6 DEF Unused
<1>4. CASE e.op = "illegal"
  BY <1>4 DEF Unused, ImmediateForms, RegisterForms, SignForms, BranchForms
<1>5. CASE /\ op \in DOMAIN expansion
           /\ e.op = expansion[op].op
           /\ e.rd = d.rd /\ e.rs1 = d.rs1 /\ e.rs2 = d.rs2 /\ e.imm = d.imm
  <2>1. e.op \in ImmediateForms =>
          op \in {"c_addi4spn", "c_nop", "c_addi", "c_li", "c_addi16sp", "c_mv", "c_addiw",
                 "c_jr", "c_jalr"}
    BY <1>5 DEF expansion, Expansion, ImmediateForms
  <2>2. e.op \in RegisterForms => op \in {"c_sub", "c_subw"}
    BY <1>5 DEF expansion, Expansion, RegisterForms
  <2>3. e.op \in BranchForms => op \in {"c_beqz", "c_bnez"}
    BY <1>5 DEF expansion, Expansion, BranchForms
  <2>4. e.op = "jal" => op \in {"c_j", "c_jal"}
    BY <1>5 DEF expansion, Expansion
  <2>5. e.op \notin SignForms
    BY <1>5 DEF expansion, Expansion, SignForms
  <2>6. op \in {"c_addi4spn", "c_nop", "c_addi", "c_li", "c_addi16sp", "c_mv", "c_addiw",
               "c_jr", "c_jalr"} =>
          c \in {"ci_none", "ci", "ci_li", "ci_16sp", "ciw_4spn", "cr_mv", "cr_jr",
                 "cr_jalr"}
    BY CompressedCodecOf
  <2>7. op \in {"c_sub", "c_subw"} => c = "cs"
    BY CompressedCodecOf
  <2>8. op \in {"c_beqz", "c_bnez"} => c = "cb"
    BY CompressedCodecOf
  <2>9. op \in {"c_j", "c_jal"} => c \in {"cj", "cj_jal"}
    BY CompressedCodecOf
  <2> HIDE DEF c
  <2>10. /\ c \in {"ci_none", "ci", "ci_li", "ci_16sp", "ciw_4spn", "cr_mv", "cr_jr",
                  "cr_jalr", "cj", "cj_jal"} => Rs2(c, w) = 0
         /\ c = "cs" => Imm(c, w) = 0
         /\ c = "cb" => Rd(c, w) = 0
         /\ c \in {"cj", "cj_jal"} => Rs1(c, w) = 0
    BY UnusedByCodec
  <2> QED BY <1>1, <1>5, <2>1, <2>2, <2>3, <2>4, <2>5, <2>6, <2>7, <2>8, <2>9,
             <2>10 DEF Unused
<1> QED BY <1>2, <1>3, <1>4, <1>5

(* The formats of the pseudo-instructions. *)
LEMMA PseudoFormat ==
    /\ \A op \in {"nop", "ret"} :
          opcode_data[op].format = "none"
    /\ \A op \in {"mv", "not", "sext_w", "seqz"} :
          opcode_data[op].format = "rd_rs1"
    /\ \A op \in {"neg", "negw", "snez", "sgtz"} :
          opcode_data[op].format = "rd_rs2"
    /\ \A op \in {"sltz", "fmv_s", "fmv_d", "fmv_q", "fabs_s", "fabs_d", "fabs_q",
                 "fneg_s", "fneg_d", "fneg_q"} :
          opcode_data[op].format = "rd_rs1"
    /\ \A op \in {"beqz", "bnez", "bgez", "bltz"} :
          opcode_data[op].format = "rs1_offset"
    /\ \A op \in {"blez", "bgtz"} :
          opcode_data[op].format = "rs2_offset"
    /\ \A op \in {"ble", "bleu", "bgt", "bgtu"} :
          opcode_data[op].format = "rs2_rs1_offset"
    /\ \A op \in {"j"} :
          opcode_data[op].format = "offset"
    /\ \A op \in {"jr"} :
          opcode_data[op].format = "rs1"
    /\ \A op \in {"rdcycle", "rdtime", "rdinstret", "rdcycleh", "rdtimeh", "rdinstreth",
                 "frcsr", "frrm", "frflags"} :
          opcode_data[op].format = "rd"
    /\ \A op \in {"fscsr", "fsrm", "fsflags"} :
          opcode_data[op].format = "rd_rs1"
    /\ \A op \in {"fsrmi", "fsflagsi"} :
          opcode_data[op].format = "rd_zimm"
<1>1. \A op \in {"nop", "ret"} :
          opcode_data[op].format = "none"
  <2> DEFINE names == {"nop", "ret"}
             r == Row("i", "none", names)
  <2>1. r \in Rows
    BY DEF PseudoRows, Rows
  <2>2. r.ops = names /\ r.format = "none"
    BY DEF Row
  <2> HIDE DEF names, r
  <2>3. \A op \in names : opcode_data[op].format = "none"
    BY <2>1, <2>2, RowOf
  <2> QED BY <2>3 DEF names
<1>2. \A op \in {"mv", "not", "sext_w", "seqz"} :
          opcode_data[op].format = "rd_rs1"
  <2> DEFINE names == {"mv", "not", "sext_w", "seqz"}
             r == Row("i", "rd_rs1", names)
  <2>1. r \in Rows
    BY DEF PseudoRows, Rows
  <2>2. r.ops = names /\ r.format = "rd_rs1"
    BY DEF Row
  <2> HIDE DEF names, r
  <2>3. \A op \in names : opcode_data[op].format = "rd_rs1"
    BY <2>1, <2>2, RowOf
  <2> QED BY <2>3 DEF names
<1>3. \A op \in {"neg", "negw", "snez", "sgtz"} :
          opcode_data[op].format = "rd_rs2"
  <2> DEFINE names == {"neg", "negw", "snez", "sgtz"}
             r == Row("r", "rd_rs2", names)
  <2>1. r \in Rows
    BY DEF PseudoRows, Rows
  <2>2. r.ops = names /\ r.format = "rd_rs2"
    BY DEF Row
  <2> HIDE DEF names, r
  <2>3. \A op \in names : opcode_data[op].format = "rd_rs2"
    BY <2>1, <2>2, RowOf
  <2> QED BY <2>3 DEF names
<1>4. \A op \in {"sltz", "fmv_s", "fmv_d", "fmv_q", "fabs_s", "fabs_d", "fabs_q", "fneg_s",
               "fneg_d", "fneg_q"} :
          opcode_data[op].format = "rd_rs1"
  <2> DEFINE names == {"sltz", "fmv_s", "fmv_d", "fmv_q", "fabs_s", "fabs_d", "fabs_q",
                      "fneg_s", "fneg_d", "fneg_q"}
             r == Row("r", "rd_rs1", names)
  <2>1. r \in Rows
    BY DEF PseudoRows, Rows
  <2>2. r.ops = names /\ r.format = "rd_rs1"
    BY DEF Row
  <2> HIDE DEF names, r
  <2>3. \A op \in names : opcode_data[op].format = "rd_rs1"
    BY <2>1, <2>2, RowOf
  <2> QED BY <2>3 DEF names
<1>5. \A op \in {"beqz", "bnez", "bgez", "bltz"} :
          opcode_data[op].format = "rs1_offset"
  <2> DEFINE names == {"beqz", "bnez", "bgez", "bltz"}
             r == Row("sb", "rs1_offset", names)
  <2>1. r \in Rows
    BY DEF PseudoRows, Rows
  <2>2. r.ops = names /\ r.format = "rs1_offset"
    BY DEF Row
  <2> HIDE DEF names, r
  <2>3. \A op \in names : opcode_data[op].format = "rs1_offset"
    BY <2>1, <2>2, RowOf
  <2> QED BY <2>3 DEF names
<1>6. \A op \in {"blez", "bgtz"} :
          opcode_data[op].format = "rs2_offset"
  <2> DEFINE names == {"blez", "bgtz"}
             r == Row("sb", "rs2_offset", names)
  <2>1. r \in Rows
    BY DEF PseudoRows, Rows
  <2>2. r.ops = names /\ r.format = "rs2_offset"
    BY DEF Row
  <2> HIDE DEF names, r
  <2>3. \A op \in names : opcode_data[op].format = "rs2_offset"
    BY <2>1, <2>2, RowOf
  <2> QED BY <2>3 DEF names
<1>7. \A op \in {"ble", "bleu", "bgt", "bgtu"} :
          opcode_data[op].format = "rs2_rs1_offset"
  <2> DEFINE names == {"ble", "bleu", "bgt", "bgtu"}
             r == Row("sb", "rs2_rs1_offset", names)
  <2>1. r \in Rows
    BY DEF PseudoRows, Rows
  <2>2. r.ops = names /\ r.format = "rs2_rs1_offset"
    BY DEF Row
  <2> HIDE DEF names, r
  <2>3. \A op \in names : opcode_data[op].format = "rs2_rs1_offset"
    BY <2>1, <2>2, RowOf
  <2> QED BY <2>3 DEF names
<1>8. \A op \in {"j"} :
          opcode_data[op].format = "offset"
  <2> DEFINE names == {"j"}
             r == Row("uj", "offset", names)
  <2>1. r \in Rows
    BY DEF PseudoRows, Rows
  <2>2. r.ops = names /\ r.format = "offset"
    BY DEF Row
  <2> HIDE DEF names, r
  <2>3. \A op \in names : opcode_data[op].format = "offset"
    BY <2>1, <2>2, RowOf
  <2> QED BY <2>3 DEF names
<1>9. \A op \in {"jr"} :
          opcode_data[op].format = "rs1"
  <2> DEFINE names == {"jr"}
             r == Row("i", "rs1", names)
  <2>1. r \in Rows
    BY DEF PseudoRows, Rows
  <2>2. r.ops = names /\ r.format = "rs1"
    BY DEF Row
  <2> HIDE DEF names, r
  <2>3. \A op \in names : opcode_data[op].format = "rs1"
    BY <2>1, <2>2, RowOf
  <2> QED BY <2>3 DEF names
<1>10. \A op \in {"rdcycle", "rdtime", "rdinstret", "rdcycleh", "rdtimeh", "rdinstreth",
               "frcsr", "frrm", "frflags"} :
          opcode_data[op].format = "rd"
  <2> DEFINE names == {"rdcycle", "rdtime", "rdinstret", "rdcycleh", "rdtimeh",
                      "rdinstreth", "frcsr", "frrm", "frflags"}
             r == Row("i_csr", "rd", names)
  <2>1. r \in Rows
    BY DEF PseudoRows, Rows
  <2>2. r.ops = names /\ r.format = "rd"
    BY DEF Row
  <2> HIDE DEF names, r
  <2>3. \A op \in names : opcode_data[op].format = "rd"
    BY <2>1, <2>2, RowOf
  <2> QED BY <2>3 DEF names
<1>11. \A op \in {"fscsr", "fsrm", "fsflags"} :
          opcode_data[op].format = "rd_rs1"
  <2> DEFINE names == {"fscsr", "fsrm", "fsflags"}
             r == Row("i_csr", "rd_rs1", names)
  <2>1. r \in Rows
    BY DEF PseudoRows, Rows
  <2>2. r.ops = names /\ r.format = "rd_rs1"
    BY DEF Row
  <2> HIDE DEF names, r
  <2>3. \A op \in names : opcode_data[op].format = "rd_rs1"
    BY <2>1, <2>2, RowOf
  <2> QED BY <2>3 DEF names
<1>12. \A op \in {"fsrmi", "fsflagsi"} :
          opcode_data[op].format = "rd_zimm"
  <2> DEFINE names == {"fsrmi", "fsflagsi"}
             r == Row("i_csr", "rd_zimm", names)
  <2>1. r \in Rows
    BY DEF PseudoRows, Rows
  <2>2. r.ops = names /\ r.format = "rd_zimm"
    BY DEF Row
  <2> HIDE DEF names, r
  <2>3. \A op \in names : opcode_data[op].format = "rd_zimm"
    BY <2>1, <2>2, RowOf
  <2> QED BY <2>3 DEF names
<1> QED BY <1>1, <1>2, <1>3, <1>4, <1>5, <1>6, <1>7, <1>8, <1>9, <1>10, <1>11, <1>12

(* What a text of such a format gives the reader: the numbers it prints.   *)
ArgumentsOf(e) ==
    LET shown == format_inst(e)
    IN  [n \in DOMAIN shown.args |-> shown.args[n][2]]

LEMMA Arguments1 ==
    ASSUME NEW e, NEW a, Format[opcode_data[e.op].format] = <<a>>
    PROVE  ArgumentsOf(e)[1] = Argument(a, e)[2]
BY DEF ArgumentsOf, format_inst

LEMMA Arguments2 ==
    ASSUME NEW e, NEW a, NEW b, Format[opcode_data[e.op].format] = <<a, b>>
    PROVE  ArgumentsOf(e)[1] = Argument(a, e)[2] /\ ArgumentsOf(e)[2] = Argument(b, e)[2]
BY DEF ArgumentsOf, format_inst

LEMMA Arguments3 ==
    ASSUME NEW e, NEW a, NEW b, NEW c, Format[opcode_data[e.op].format] = <<a, b, c>>
    PROVE  /\ ArgumentsOf(e)[1] = Argument(a, e)[2] /\ ArgumentsOf(e)[2] = Argument(b, e)[2]
           /\ ArgumentsOf(e)[3] = Argument(c, e)[2]
BY DEF ArgumentsOf, format_inst

LEMMA PrintedNumbers ==
    ASSUME NEW e
    PROVE  LET a == ArgumentsOf(e)
               f == opcode_data[e.op].format
           IN  /\ f = "rd_rs1" => a[1] = e.rd /\ a[2] = e.rs1
               /\ f = "rd_rs2" => a[1] = e.rd /\ a[2] = e.rs2
               /\ f = "rs1_offset" => a[1] = e.rs1 /\ a[2] = e.imm
               /\ f = "rs2_offset" => a[1] = e.rs2 /\ a[2] = e.imm
               /\ f = "rs2_rs1_offset" => a[1] = e.rs2 /\ a[2] = e.rs1 /\ a[3] = e.imm
               /\ f = "offset" => a[1] = e.imm
               /\ f = "rs1" => a[1] = e.rs1
               /\ f = "rd" => a[1] = e.rd
               /\ f = "rd_zimm" => a[1] = e.rd /\ a[2] = e.rs1
<1> DEFINE a == ArgumentsOf(e)
           f == opcode_data[e.op].format
<1>1. /\ Argument("0", e)[2] = e.rd /\ Argument("1", e)[2] = e.rs1
      /\ Argument("2", e)[2] = e.rs2 /\ Argument("7", e)[2] = e.rs1
      /\ Argument("o", e)[2] = e.imm
  BY DEF Argument
<1>2. CASE f = "rd_rs1"
  <2>1. Format[f] = <<"0", "1">>
    BY <1>2 DEF Format
  <2>2. a[1] = Argument("0", e)[2] /\ a[2] = Argument("1", e)[2]
    BY <2>1, Arguments2
  <2> QED BY <1>1, <1>2, <2>2
<1>3. CASE f = "rd_rs2"
  <2>1. Format[f] = <<"0", "2">>
    BY <1>3 DEF Format
  <2>2. a[1] = Argument("0", e)[2] /\ a[2] = Argument("2", e)[2]
    BY <2>1, Arguments2
  <2> QED BY <1>1, <1>3, <2>2
<1>4. CASE f = "rs1_offset"
  <2>1. Format[f] = <<"1", "o">>
    BY <1>4 DEF Format
  <2>2. a[1] = Argument("1", e)[2] /\ a[2] = Argument("o", e)[2]
    BY <2>1, Arguments2
  <2> QED BY <1>1, <1>4, <2>2
<1>5. CASE f = "rs2_offset"
  <2>1. Format[f] = <<"2", "o">>
    BY <1>5 DEF Format
  <2>2. a[1] = Argument("2", e)[2] /\ a[2] = Argument("o", e)[2]
    BY <2>1, Arguments2
  <2> QED BY <1>1, <1>5, <2>2
<1>6. CASE f = "rs2_rs1_offset"
  <2>1. Format[f] = <<"2", "1", "o">>
    BY <1>6 DEF Format
  <2>2. a[1] = Argument("2", e)[2] /\ a[2] = Argument("1",
                                                      e)[2] /\ a[3] = Argument("o", e)[2]
    BY <2>1, Arguments3
  <2> QED BY <1>1, <1>6, <2>2
<1>7. CASE f = "offset"
  <2>1. Format[f] = <<"o">>
    BY <1>7 DEF Format
  <2>2. a[1] = Argument("o", e)[2]
    BY <2>1, Arguments1
  <2> QED BY <1>1, <1>7, <2>2
<1>8. CASE f = "rs1"
  <2>1. Format[f] = <<"1">>
    BY <1>8 DEF Format
  <2>2. a[1] = Argument("1", e)[2]
    BY <2>1, Arguments1
  <2> QED BY <1>1, <1>8, <2>2
<1>9. CASE f = "rd"
  <2>1. Format[f] = <<"0">>
    BY <1>9 DEF Format
  <2>2. a[1] = Argument("0", e)[2]
    BY <2>1, Arguments1
  <2> QED BY <1>1, <1>9, <2>2
<1>10. CASE f = "rd_zimm"
  <2>1. Format[f] = <<"0", "7">>
    BY <1>10 DEF Format
  <2>2. a[1] = Argument("0", e)[2] /\ a[2] = Argument("7", e)[2]
    BY <2>1, Arguments2
  <2> QED BY <1>1, <1>10, <2>2
<1> HIDE DEF a, f
<1> QED BY <1>2, <1>3, <1>4, <1>5, <1>6, <1>7, <1>8, <1>9, <1>10 DEF a, f

LEMMA ConstraintsSay ==
    ASSUME NEW d
    PROVE  /\ Holds("rd_eq_ra", d) => d.rd = 1
           /\ Holds("rd_eq_x0", d) => d.rd = 0
           /\ Holds("rs1_eq_x0", d) => d.rs1 = 0
           /\ Holds("rs2_eq_x0", d) => d.rs2 = 0
           /\ Holds("rs2_eq_rs1", d) => d.rs2 = d.rs1
           /\ Holds("rs1_eq_ra", d) => d.rs1 = 1
           /\ Holds("imm_eq_zero", d) => d.imm = 0
           /\ Holds("imm_eq_n1", d) => d.imm = -1
           /\ Holds("imm_eq_p1", d) => d.imm = 1
           /\ Holds("csr_eq_0x001", d) => d.imm = 1
           /\ Holds("csr_eq_0x002", d) => d.imm = 2
           /\ Holds("csr_eq_0x003", d) => d.imm = 3
           /\ Holds("csr_eq_0xc00", d) => d.imm = 3072
           /\ Holds("csr_eq_0xc01", d) => d.imm = 3073
           /\ Holds("csr_eq_0xc02", d) => d.imm = 3074
           /\ Holds("csr_eq_0xc80", d) => d.imm = 3200
           /\ Holds("csr_eq_0xc81", d) => d.imm = 3201
           /\ Holds("csr_eq_0xc82", d) => d.imm = 3202
BY DEF Holds, x0, ra

(* The constraints of the pseudo-instructions, and what the manual lets     *)
(* each of them stand for.                                                 *)
LEMMA ConstraintsOf ==
    /\ constraints("j") = {"rd_eq_x0"}
    /\ constraints("ret") = {"rd_eq_x0", "rs1_eq_ra"}
    /\ constraints("jr") = {"rd_eq_x0", "imm_eq_zero"}
    /\ constraints("beqz") = {"rs2_eq_x0"}
    /\ constraints("bnez") = {"rs2_eq_x0"}
    /\ constraints("bltz") = {"rs2_eq_x0"}
    /\ constraints("bgtz") = {"rs1_eq_x0"}
    /\ constraints("bgt") = {}
    /\ constraints("blez") = {"rs1_eq_x0"}
    /\ constraints("bgez") = {"rs2_eq_x0"}
    /\ constraints("ble") = {}
    /\ constraints("bgtu") = {}
    /\ constraints("bleu") = {}
    /\ constraints("nop") = {"rd_eq_x0", "rs1_eq_x0", "imm_eq_zero"}
    /\ constraints("mv") = {"imm_eq_zero"}
    /\ constraints("seqz") = {"imm_eq_p1"}
    /\ constraints("not") = {"imm_eq_n1"}
    /\ constraints("neg") = {"rs1_eq_x0"}
    /\ constraints("sltz") = {"rs2_eq_x0"}
    /\ constraints("sgtz") = {"rs1_eq_x0"}
    /\ constraints("snez") = {"rs1_eq_x0"}
    /\ constraints("sext_w") = {"imm_eq_zero"}
    /\ constraints("negw") = {"rs1_eq_x0"}
    /\ constraints("fscsr") = {"csr_eq_0x003"}
    /\ constraints("fsrm") = {"csr_eq_0x002"}
    /\ constraints("fsflags") = {"csr_eq_0x001"}
    /\ constraints("rdcycle") = {"rs1_eq_x0", "csr_eq_0xc00"}
    /\ constraints("rdtime") = {"rs1_eq_x0", "csr_eq_0xc01"}
    /\ constraints("rdinstret") = {"rs1_eq_x0", "csr_eq_0xc02"}
    /\ constraints("rdcycleh") = {"rs1_eq_x0", "csr_eq_0xc80"}
    /\ constraints("rdtimeh") = {"rs1_eq_x0", "csr_eq_0xc81"}
    /\ constraints("rdinstreth") = {"rs1_eq_x0", "csr_eq_0xc82"}
    /\ constraints("frcsr") = {"rs1_eq_x0", "csr_eq_0x003"}
    /\ constraints("frrm") = {"rs1_eq_x0", "csr_eq_0x002"}
    /\ constraints("frflags") = {"rs1_eq_x0", "csr_eq_0x001"}
    /\ constraints("fsrmi") = {"csr_eq_0x002"}
    /\ constraints("fsflagsi") = {"csr_eq_0x001"}
    /\ constraints("fmv_s") = {"rs2_eq_rs1"}
    /\ constraints("fmv_d") = {"rs2_eq_rs1"}
    /\ constraints("fmv_q") = {"rs2_eq_rs1"}
    /\ constraints("fneg_s") = {"rs2_eq_rs1"}
    /\ constraints("fneg_d") = {"rs2_eq_rs1"}
    /\ constraints("fneg_q") = {"rs2_eq_rs1"}
    /\ constraints("fabs_s") = {"rs2_eq_rs1"}
    /\ constraints("fabs_d") = {"rs2_eq_rs1"}
    /\ constraints("fabs_q") = {"rs2_eq_rs1"}
BY DEF constraints, PlainConstraints

LEMMA StandsForTable ==
    ASSUME NEW a
    PROVE  /\ StandsFor("j", a) = Core("jal", 0, 0, 0, a[1])
           /\ StandsFor("ret", a) = Core("jalr", 0, 1, 0, 0)
           /\ StandsFor("jr", a) = Core("jalr", 0, a[1], 0, 0)
           /\ StandsFor("beqz", a) = Core("beq", 0, a[1], 0, a[2])
           /\ StandsFor("bnez", a) = Core("bne", 0, a[1], 0, a[2])
           /\ StandsFor("bltz", a) = Core("blt", 0, a[1], 0, a[2])
           /\ StandsFor("bgtz", a) = Core("blt", 0, 0, a[1], a[2])
           /\ StandsFor("bgt", a) = Core("blt", 0, a[2], a[1], a[3])
           /\ StandsFor("blez", a) = Core("bge", 0, 0, a[1], a[2])
           /\ StandsFor("bgez", a) = Core("bge", 0, a[1], 0, a[2])
           /\ StandsFor("ble", a) = Core("bge", 0, a[2], a[1], a[3])
           /\ StandsFor("bgtu", a) = Core("bltu", 0, a[2], a[1], a[3])
           /\ StandsFor("bleu", a) = Core("bgeu", 0, a[2], a[1], a[3])
           /\ StandsFor("nop", a) = Core("addi", 0, 0, 0, 0)
           /\ StandsFor("mv", a) = Core("addi", a[1], a[2], 0, 0)
           /\ StandsFor("seqz", a) = Core("sltiu", a[1], a[2], 0, 1)
           /\ StandsFor("not", a) = Core("xori", a[1], a[2], 0, -1)
           /\ StandsFor("neg", a) = Core("sub", a[1], 0, a[2], 0)
           /\ StandsFor("sltz", a) = Core("slt", a[1], a[2], 0, 0)
           /\ StandsFor("sgtz", a) = Core("slt", a[1], 0, a[2], 0)
           /\ StandsFor("snez", a) = Core("sltu", a[1], 0, a[2], 0)
           /\ StandsFor("sext_w", a) = Core("addiw", a[1], a[2], 0, 0)
           /\ StandsFor("negw", a) = Core("subw", a[1], 0, a[2], 0)
           /\ StandsFor("fscsr", a) = Core("csrrw", a[1], a[2], 0, 3)
           /\ StandsFor("fsrm", a) = Core("csrrw", a[1], a[2], 0, 2)
           /\ StandsFor("fsflags", a) = Core("csrrw", a[1], a[2], 0, 1)
           /\ StandsFor("rdcycle", a) = Core("csrrs", a[1], 0, 0, 3072)
           /\ StandsFor("rdtime", a) = Core("csrrs", a[1], 0, 0, 3073)
           /\ StandsFor("rdinstret", a) = Core("csrrs", a[1], 0, 0, 3074)
           /\ StandsFor("rdcycleh", a) = Core("csrrs", a[1], 0, 0, 3200)
           /\ StandsFor("rdtimeh", a) = Core("csrrs", a[1], 0, 0, 3201)
           /\ StandsFor("rdinstreth", a) = Core("csrrs", a[1], 0, 0, 3202)
           /\ StandsFor("frcsr", a) = Core("csrrs", a[1], 0, 0, 3)
           /\ StandsFor("frrm", a) = Core("csrrs", a[1], 0, 0, 2)
           /\ StandsFor("frflags", a) = Core("csrrs", a[1], 0, 0, 1)
           /\ StandsFor("fsrmi", a) = Core("csrrwi", a[1], a[2], 0, 2)
           /\ StandsFor("fsflagsi", a) = Core("csrrwi", a[1], a[2], 0, 1)
           /\ StandsFor("fmv_s", a) = Core("fsgnj_s", a[1], a[2], a[2], 0)
           /\ StandsFor("fmv_d", a) = Core("fsgnj_d", a[1], a[2], a[2], 0)
           /\ StandsFor("fmv_q", a) = Core("fsgnj_q", a[1], a[2], a[2], 0)
           /\ StandsFor("fneg_s", a) = Core("fsgnjn_s", a[1], a[2], a[2], 0)
           /\ StandsFor("fneg_d", a) = Core("fsgnjn_d", a[1], a[2], a[2], 0)
           /\ StandsFor("fneg_q", a) = Core("fsgnjn_q", a[1], a[2], a[2], 0)
           /\ StandsFor("fabs_s", a) = Core("fsgnjx_s", a[1], a[2], a[2], 0)
           /\ StandsFor("fabs_d", a) = Core("fsgnjx_d", a[1], a[2], a[2], 0)
           /\ StandsFor("fabs_q", a) = Core("fsgnjx_q", a[1], a[2], a[2], 0)
BY DEF StandsFor, SignInjections, CsrWritesImm, CsrWrites, CsrReads

(* Record e is shown for d by the pseudo-instruction name of op; the text  *)
(* gives back d.                                                           *)
ShownFor(op, name, d, e) ==
    /\ Unused(op, d.rd, d.rs1, d.rs2, d.imm)
    /\ check_constraints(d, constraints(name))
    /\ e.op = name
    /\ e.rd = d.rd /\ e.rs1 = d.rs1 /\ e.rs2 = d.rs2 /\ e.imm = d.imm

GivesBack(op, name, d, e) ==
    StandsFor(name, ArgumentsOf(e))
        = Core(op, d.rd, d.rs1, d.rs2, IF name = "ret" THEN 0 ELSE d.imm)

Means(op, name) == \A d, e : ShownFor(op, name, d, e) => GivesBack(op, name, d, e)

LEMMA ArithmeticMean ==
    /\ Means("addi", "nop")
    /\ Means("addi", "mv")
    /\ Means("sltiu", "seqz")
    /\ Means("xori", "not")
    /\ Means("sub", "neg")
    /\ Means("slt", "sltz")
    /\ Means("slt", "sgtz")
    /\ Means("sltu", "snez")
    /\ Means("addiw", "sext_w")
    /\ Means("subw", "negw")
<1>1. ASSUME NEW d, NEW e, ShownFor("addi", "nop", d, e)
      PROVE  GivesBack("addi", "nop", d, e)
  <2>1. d.rs2 = 0 /\ d.rd = 0 /\ d.rs1 = 0 /\ d.imm = 0
    BY <1>1, ConstraintsOf, ConstraintsSay
       DEF ShownFor, check_constraints, Unused, ImmediateForms
  <2> QED BY <2>1, StandsForTable DEF GivesBack
<1>2. ASSUME NEW d, NEW e, ShownFor("addi", "mv", d, e)
      PROVE  GivesBack("addi", "mv", d, e)
  <2>1. d.rs2 = 0 /\ d.imm = 0
    BY <1>2, ConstraintsOf, ConstraintsSay
       DEF ShownFor, check_constraints, Unused, ImmediateForms
  <2>2. ArgumentsOf(e)[1] = d.rd /\ ArgumentsOf(e)[2] = d.rs1
    BY <1>2, PseudoFormat, PrintedNumbers DEF ShownFor
  <2> QED BY <2>1, <2>2, StandsForTable DEF GivesBack
<1>3. ASSUME NEW d, NEW e, ShownFor("sltiu", "seqz", d, e)
      PROVE  GivesBack("sltiu", "seqz", d, e)
  <2>1. d.rs2 = 0 /\ d.imm = 1
    BY <1>3, ConstraintsOf, ConstraintsSay
       DEF ShownFor, check_constraints, Unused, ImmediateForms
  <2>2. ArgumentsOf(e)[1] = d.rd /\ ArgumentsOf(e)[2] = d.rs1
    BY <1>3, PseudoFormat, PrintedNumbers DEF ShownFor
  <2> QED BY <2>1, <2>2, StandsForTable DEF GivesBack
<1>4. ASSUME NEW d, NEW e, ShownFor("xori", "not", d, e)
      PROVE  GivesBack("xori", "not", d, e)
  <2>1. d.rs2 = 0 /\ d.imm = -1
    BY <1>4, ConstraintsOf, ConstraintsSay
       DEF ShownFor, check_constraints, Unused, ImmediateForms
  <2>2. ArgumentsOf(e)[1] = d.rd /\ ArgumentsOf(e)[2] = d.rs1
    BY <1>4, PseudoFormat, PrintedNumbers DEF ShownFor
  <2> QED BY <2>1, <2>2, StandsForTable DEF GivesBack
<1>5. ASSUME NEW d, NEW e, ShownFor("sub", "neg", d, e)
      PROVE  GivesBack("sub", "neg", d, e)
  <2>1. d.imm = 0 /\ d.rs1 = 0
    BY <1>5, ConstraintsOf, ConstraintsSay
       DEF ShownFor, check_constraints, Unused, RegisterForms
  <2>2. ArgumentsOf(e)[1] = d.rd /\ ArgumentsOf(e)[2] = d.rs2
    BY <1>5, PseudoFormat, PrintedNumbers DEF ShownFor
  <2> QED BY <2>1, <2>2, StandsForTable DEF GivesBack
<1>6. ASSUME NEW d, NEW e, ShownFor("slt", "sltz", d, e)
      PROVE  GivesBack("slt", "sltz", d, e)
  <2>1. d.imm = 0 /\ d.rs2 = 0
    BY <1>6, ConstraintsOf, ConstraintsSay
       DEF ShownFor, check_constraints, Unused, RegisterForms
  <2>2. ArgumentsOf(e)[1] = d.rd /\ ArgumentsOf(e)[2] = d.rs1
    BY <1>6, PseudoFormat, PrintedNumbers DEF ShownFor
  <2> QED BY <2>1, <2>2, StandsForTable DEF GivesBack
<1>7. ASSUME NEW d, NEW e, ShownFor("slt", "sgtz", d, e)
      PROVE  GivesBack("slt", "sgtz", d, e)
  <2>1. d.imm = 0 /\ d.rs1 = 0
    BY <1>7, ConstraintsOf, ConstraintsSay
       DEF ShownFor, check_constraints, Unused, RegisterForms
  <2>2. ArgumentsOf(e)[1] = d.rd /\ ArgumentsOf(e)[2] = d.rs2
    BY <1>7, PseudoFormat, PrintedNumbers DEF ShownFor
  <2> QED BY <2>1, <2>2, StandsForTable DEF GivesBack
<1>8. ASSUME NEW d, NEW e, ShownFor("sltu", "snez", d, e)
      PROVE  GivesBack("sltu", "snez", d, e)
  <2>1. d.imm = 0 /\ d.rs1 = 0
    BY <1>8, ConstraintsOf, ConstraintsSay
       DEF ShownFor, check_constraints, Unused, RegisterForms
  <2>2. ArgumentsOf(e)[1] = d.rd /\ ArgumentsOf(e)[2] = d.rs2
    BY <1>8, PseudoFormat, PrintedNumbers DEF ShownFor
  <2> QED BY <2>1, <2>2, StandsForTable DEF GivesBack
<1>9. ASSUME NEW d, NEW e, ShownFor("addiw", "sext_w", d, e)
      PROVE  GivesBack("addiw", "sext_w", d, e)
  <2>1. d.rs2 = 0 /\ d.imm = 0
    BY <1>9, ConstraintsOf, ConstraintsSay
       DEF ShownFor, check_constraints, Unused, ImmediateForms
  <2>2. ArgumentsOf(e)[1] = d.rd /\ ArgumentsOf(e)[2] = d.rs1
    BY <1>9, PseudoFormat, PrintedNumbers DEF ShownFor
  <2> QED BY <2>1, <2>2, StandsForTable DEF GivesBack
<1>10. ASSUME NEW d, NEW e, ShownFor("subw", "negw", d, e)
      PROVE  GivesBack("subw", "negw", d, e)
  <2>1. d.imm = 0 /\ d.rs1 = 0
    BY <1>10, ConstraintsOf, ConstraintsSay
       DEF ShownFor, check_constraints, Unused, RegisterForms
  <2>2. ArgumentsOf(e)[1] = d.rd /\ ArgumentsOf(e)[2] = d.rs2
    BY <1>10, PseudoFormat, PrintedNumbers DEF ShownFor
  <2> QED BY <2>1, <2>2, StandsForTable DEF GivesBack
<1> QED BY <1>1, <1>2, <1>3, <1>4, <1>5, <1>6, <1>7, <1>8, <1>9, <1>10 DEF Means

LEMMA BranchesMean ==
    /\ Means("beq", "beqz")
    /\ Means("bne", "bnez")
    /\ Means("blt", "bltz")
    /\ Means("blt", "bgtz")
    /\ Means("blt", "bgt")
    /\ Means("bge", "blez")
    /\ Means("bge", "bgez")
    /\ Means("bge", "ble")
    /\ Means("bltu", "bgtu")
    /\ Means("bgeu", "bleu")
<1>1. ASSUME NEW d, NEW e, ShownFor("beq", "beqz", d, e)
      PROVE  GivesBack("beq", "beqz", d, e)
  <2>1. d.rd = 0 /\ d.rs2 = 0
    BY <1>1, ConstraintsOf, ConstraintsSay
       DEF ShownFor, check_constraints, Unused, BranchForms
  <2>2. ArgumentsOf(e)[1] = d.rs1 /\ ArgumentsOf(e)[2] = d.imm
    BY <1>1, PseudoFormat, PrintedNumbers DEF ShownFor
  <2> QED BY <2>1, <2>2, StandsForTable DEF GivesBack
<1>2. ASSUME NEW d, NEW e, ShownFor("bne", "bnez", d, e)
      PROVE  GivesBack("bne", "bnez", d, e)
  <2>1. d.rd = 0 /\ d.rs2 = 0
    BY <1>2, ConstraintsOf, ConstraintsSay
       DEF ShownFor, check_constraints, Unused, BranchForms
  <2>2. ArgumentsOf(e)[1] = d.rs1 /\ ArgumentsOf(e)[2] = d.imm
    BY <1>2, PseudoFormat, PrintedNumbers DEF ShownFor
  <2> QED BY <2>1, <2>2, StandsForTable DEF GivesBack
<1>3. ASSUME NEW d, NEW e, ShownFor("blt", "bltz", d, e)
      PROVE  GivesBack("blt", "bltz", d, e)
  <2>1. d.rd = 0 /\ d.rs2 = 0
    BY <1>3, ConstraintsOf, ConstraintsSay
       DEF ShownFor, check_constraints, Unused, BranchForms
  <2>2. ArgumentsOf(e)[1] = d.rs1 /\ ArgumentsOf(e)[2] = d.imm
    BY <1>3, PseudoFormat, PrintedNumbers DEF ShownFor
  <2> QED BY <2>1, <2>2, StandsForTable DEF GivesBack
<1>4. ASSUME NEW d, NEW e, ShownFor("blt", "bgtz", d, e)
      PROVE  GivesBack("blt", "bgtz", d, e)
  <2>1. d.rd = 0 /\ d.rs1 = 0
    BY <1>4, ConstraintsOf, ConstraintsSay
       DEF ShownFor, check_constraints, Unused, BranchForms
  <2>2. ArgumentsOf(e)[1] = d.rs2 /\ ArgumentsOf(e)[2] = d.imm
    BY <1>4, PseudoFormat, PrintedNumbers DEF ShownFor
  <2> QED BY <2>1, <2>2, StandsForTable DEF GivesBack
<1>5. ASSUME NEW d, NEW e, ShownFor("blt", "bgt", d, e)
      PROVE  GivesBack("blt", "bgt", d, e)
  <2>1. d.rd = 0
    BY <1>5, ConstraintsOf, ConstraintsSay
       DEF ShownFor, check_constraints, Unused, BranchForms
  <2>2. ArgumentsOf(e)[1] = d.rs2 /\ ArgumentsOf(e)[2] = d.rs1 /\ ArgumentsOf(e)[3] = d.imm
    BY <1>5, PseudoFormat, PrintedNumbers DEF ShownFor
  <2> QED BY <2>1, <2>2, StandsForTable DEF GivesBack
<1>6. ASSUME NEW d, NEW e, ShownFor("bge", "blez", d, e)
      PROVE  GivesBack("bge", "blez", d, e)
  <2>1. d.rd = 0 /\ d.rs1 = 0
    BY <1>6, ConstraintsOf, ConstraintsSay
       DEF ShownFor, check_constraints, Unused, BranchForms
  <2>2. ArgumentsOf(e)[1] = d.rs2 /\ ArgumentsOf(e)[2] = d.imm
    BY <1>6, PseudoFormat, PrintedNumbers DEF ShownFor
  <2> QED BY <2>1, <2>2, StandsForTable DEF GivesBack
<1>7. ASSUME NEW d, NEW e, ShownFor("bge", "bgez", d, e)
      PROVE  GivesBack("bge", "bgez", d, e)
  <2>1. d.rd = 0 /\ d.rs2 = 0
    BY <1>7, ConstraintsOf, ConstraintsSay
       DEF ShownFor, check_constraints, Unused, BranchForms
  <2>2. ArgumentsOf(e)[1] = d.rs1 /\ ArgumentsOf(e)[2] = d.imm
    BY <1>7, PseudoFormat, PrintedNumbers DEF ShownFor
  <2> QED BY <2>1, <2>2, StandsForTable DEF GivesBack
<1>8. ASSUME NEW d, NEW e, ShownFor("bge", "ble", d, e)
      PROVE  GivesBack("bge", "ble", d, e)
  <2>1. d.rd = 0
    BY <1>8, ConstraintsOf, ConstraintsSay
       DEF ShownFor, check_constraints, Unused, BranchForms
  <2>2. ArgumentsOf(e)[1] = d.rs2 /\ ArgumentsOf(e)[2] = d.rs1 /\ ArgumentsOf(e)[3] = d.imm
    BY <1>8, PseudoFormat, PrintedNumbers DEF ShownFor
  <2> QED BY <2>1, <2>2, StandsForTable DEF GivesBack
<1>9. ASSUME NEW d, NEW e, ShownFor("bltu", "bgtu", d, e)
      PROVE  GivesBack("bltu", "bgtu", d, e)
  <2>1. d.rd = 0
    BY <1>9, ConstraintsOf, ConstraintsSay
       DEF ShownFor, check_constraints, Unused, BranchForms
  <2>2. ArgumentsOf(e)[1] = d.rs2 /\ ArgumentsOf(e)[2] = d.rs1 /\ ArgumentsOf(e)[3] = d.imm
    BY <1>9, PseudoFormat, PrintedNumbers DEF ShownFor
  <2> QED BY <2>1, <2>2, StandsForTable DEF GivesBack
<1>10. ASSUME NEW d, NEW e, ShownFor("bgeu", "bleu", d, e)
      PROVE  GivesBack("bgeu", "bleu", d, e)
  <2>1. d.rd = 0
    BY <1>10, ConstraintsOf, ConstraintsSay
       DEF ShownFor, check_constraints, Unused, BranchForms
  <2>2. ArgumentsOf(e)[1] = d.rs2 /\ ArgumentsOf(e)[2] = d.rs1 /\ ArgumentsOf(e)[3] = d.imm
    BY <1>10, PseudoFormat, PrintedNumbers DEF ShownFor
  <2> QED BY <2>1, <2>2, StandsForTable DEF GivesBack
<1> QED BY <1>1, <1>2, <1>3, <1>4, <1>5, <1>6, <1>7, <1>8, <1>9, <1>10 DEF Means

LEMMA JumpsMean ==
    /\ Means("jal", "j")
    /\ Means("jalr", "ret")
    /\ Means("jalr", "jr")
<1>1. ASSUME NEW d, NEW e, ShownFor("jal", "j", d, e)
      PROVE  GivesBack("jal", "j", d, e)
  <2>1. d.rs1 = 0 /\ d.rs2 = 0 /\ d.rd = 0
    BY <1>1, ConstraintsOf, ConstraintsSay
       DEF ShownFor, check_constraints, Unused
  <2>2. ArgumentsOf(e)[1] = d.imm
    BY <1>1, PseudoFormat, PrintedNumbers DEF ShownFor
  <2> QED BY <2>1, <2>2, StandsForTable DEF GivesBack
<1>2. ASSUME NEW d, NEW e, ShownFor("jalr", "ret", d, e)
      PROVE  GivesBack("jalr", "ret", d, e)
  <2>1. d.rs2 = 0 /\ d.rd = 0 /\ d.rs1 = 1
    BY <1>2, ConstraintsOf, ConstraintsSay
       DEF ShownFor, check_constraints, Unused, ImmediateForms
  <2> QED BY <2>1, StandsForTable DEF GivesBack
<1>3. ASSUME NEW d, NEW e, ShownFor("jalr", "jr", d, e)
      PROVE  GivesBack("jalr", "jr", d, e)
  <2>1. d.rs2 = 0 /\ d.rd = 0 /\ d.imm = 0
    BY <1>3, ConstraintsOf, ConstraintsSay
       DEF ShownFor, check_constraints, Unused, ImmediateForms
  <2>2. ArgumentsOf(e)[1] = d.rs1
    BY <1>3, PseudoFormat, PrintedNumbers DEF ShownFor
  <2> QED BY <2>1, <2>2, StandsForTable DEF GivesBack
<1> QED BY <1>1, <1>2, <1>3 DEF Means

LEMMA CsrAccessesMean ==
    /\ Means("csrrs", "rdcycle")
    /\ Means("csrrs", "rdtime")
    /\ Means("csrrs", "rdinstret")
    /\ Means("csrrs", "rdcycleh")
    /\ Means("csrrs", "rdtimeh")
    /\ Means("csrrs", "rdinstreth")
    /\ Means("csrrs", "frcsr")
    /\ Means("csrrs", "frrm")
    /\ Means("csrrs", "frflags")
    /\ Means("csrrw", "fscsr")
    /\ Means("csrrw", "fsrm")
    /\ Means("csrrw", "fsflags")
    /\ Means("csrrwi", "fsrmi")
    /\ Means("csrrwi", "fsflagsi")
<1>1. ASSUME NEW d, NEW e, ShownFor("csrrs", "rdcycle", d, e)
      PROVE  GivesBack("csrrs", "rdcycle", d, e)
  <2>1. d.rs2 = 0 /\ d.rs1 = 0 /\ d.imm = 3072
    BY <1>1, ConstraintsOf, ConstraintsSay
       DEF ShownFor, check_constraints, Unused, ImmediateForms
  <2>2. ArgumentsOf(e)[1] = d.rd
    BY <1>1, PseudoFormat, PrintedNumbers DEF ShownFor
  <2> QED BY <2>1, <2>2, StandsForTable DEF GivesBack
<1>2. ASSUME NEW d, NEW e, ShownFor("csrrs", "rdtime", d, e)
      PROVE  GivesBack("csrrs", "rdtime", d, e)
  <2>1. d.rs2 = 0 /\ d.rs1 = 0 /\ d.imm = 3073
    BY <1>2, ConstraintsOf, ConstraintsSay
       DEF ShownFor, check_constraints, Unused, ImmediateForms
  <2>2. ArgumentsOf(e)[1] = d.rd
    BY <1>2, PseudoFormat, PrintedNumbers DEF ShownFor
  <2> QED BY <2>1, <2>2, StandsForTable DEF GivesBack
<1>3. ASSUME NEW d, NEW e, ShownFor("csrrs", "rdinstret", d, e)
      PROVE  GivesBack("csrrs", "rdinstret", d, e)
  <2>1. d.rs2 = 0 /\ d.rs1 = 0 /\ d.imm = 3074
    BY <1>3, ConstraintsOf, ConstraintsSay
       DEF ShownFor, check_constraints, Unused, ImmediateForms
  <2>2. ArgumentsOf(e)[1] = d.rd
    BY <1>3, PseudoFormat, PrintedNumbers DEF ShownFor
  <2> QED BY <2>1, <2>2, StandsForTable DEF GivesBack
<1>4. ASSUME NEW d, NEW e, ShownFor("csrrs", "rdcycleh", d, e)
      PROVE  GivesBack("csrrs", "rdcycleh", d, e)
  <2>1. d.rs2 = 0 /\ d.rs1 = 0 /\ d.imm = 3200
    BY <1>4, ConstraintsOf, ConstraintsSay
       DEF ShownFor, check_constraints, Unused, ImmediateForms
  <2>2. ArgumentsOf(e)[1] = d.rd
    BY <1>4, PseudoFormat, PrintedNumbers DEF ShownFor
  <2> QED BY <2>1, <2>2, StandsForTable DEF GivesBack
<1>5. ASSUME NEW d, NEW e, ShownFor("csrrs", "rdtimeh", d, e)
      PROVE  GivesBack("csrrs", "rdtimeh", d, e)
  <2>1. d.rs2 = 0 /\ d.rs1 = 0 /\ d.imm = 3201
    BY <1>5, ConstraintsOf, ConstraintsSay
       DEF ShownFor, check_constraints, Unused, ImmediateForms
  <2>2. ArgumentsOf(e)[1] = d.rd
    BY <1>5, PseudoFormat, PrintedNumbers DEF ShownFor
  <2> QED BY <2>1, <2>2, StandsForTable DEF GivesBack
<1>6. ASSUME NEW d, NEW e, ShownFor("csrrs", "rdinstreth", d, e)
      PROVE  GivesBack("csrrs", "rdinstreth", d, e)
  <2>1. d.rs2 = 0 /\ d.rs1 = 0 /\ d.imm = 3202
    BY <1>6, ConstraintsOf, ConstraintsSay
       DEF ShownFor, check_constraints, Unused, ImmediateForms
  <2>2. ArgumentsOf(e)[1] = d.rd
    BY <1>6, PseudoFormat, PrintedNumbers DEF ShownFor
  <2> QED BY <2>1, <2>2, StandsForTable DEF GivesBack
<1>7. ASSUME NEW d, NEW e, ShownFor("csrrs", "frcsr", d, e)
      PROVE  GivesBack("csrrs", "frcsr", d, e)
  <2>1. d.rs2 = 0 /\ d.rs1 = 0 /\ d.imm = 3
    BY <1>7, ConstraintsOf, ConstraintsSay
       DEF ShownFor, check_constraints, Unused, ImmediateForms
  <2>2. ArgumentsOf(e)[1] = d.rd
    BY <1>7, PseudoFormat, PrintedNumbers DEF ShownFor
  <2> QED BY <2>1, <2>2, StandsForTable DEF GivesBack
<1>8. ASSUME NEW d, NEW e, ShownFor("csrrs", "frrm", d, e)
      PROVE  GivesBack("csrrs", "frrm", d, e)
  <2>1. d.rs2 = 0 /\ d.rs1 = 0 /\ d.imm = 2
    BY <1>8, ConstraintsOf, ConstraintsSay
       DEF ShownFor, check_constraints, Unused, ImmediateForms
  <2>2. ArgumentsOf(e)[1] = d.rd
    BY <1>8, PseudoFormat, PrintedNumbers DEF ShownFor
  <2> QED BY <2>1, <2>2, StandsForTable DEF GivesBack
<1>9. ASSUME NEW d, NEW e, ShownFor("csrrs", "frflags", d, e)
      PROVE  GivesBack("csrrs", "frflags", d, e)
  <2>1. d.rs2 = 0 /\ d.rs1 = 0 /\ d.imm = 1
    BY <1>9, ConstraintsOf, ConstraintsSay
       DEF ShownFor, check_constraints, Unused, ImmediateForms
  <2>2. ArgumentsOf(e)[1] = d.rd
    BY <1>9, PseudoFormat, PrintedNumbers DEF ShownFor
  <2> QED BY <2>1, <2>2, StandsForTable DEF GivesBack
<1>10. ASSUME NEW d, NEW e, ShownFor("csrrw", "fscsr", d, e)
      PROVE  GivesBack("csrrw", "fscsr", d, e)
  <2>1. d.rs2 = 0 /\ d.imm = 3
    BY <1>10, ConstraintsOf, ConstraintsSay
       DEF ShownFor, check_constraints, Unused, ImmediateForms
  <2>2. ArgumentsOf(e)[1] = d.rd /\ ArgumentsOf(e)[2] = d.rs1
    BY <1>10, PseudoFormat, PrintedNumbers DEF ShownFor
  <2> QED BY <2>1, <2>2, StandsForTable DEF GivesBack
<1>11. ASSUME NEW d, NEW e, ShownFor("csrrw", "fsrm", d, e)
      PROVE  GivesBack("csrrw", "fsrm", d, e)
  <2>1. d.rs2 = 0 /\ d.imm = 2
    BY <1>11, ConstraintsOf, ConstraintsSay
       DEF ShownFor, check_constraints, Unused, ImmediateForms
  <2>2. ArgumentsOf(e)[1] = d.rd /\ ArgumentsOf(e)[2] = d.rs1
    BY <1>11, PseudoFormat, PrintedNumbers DEF ShownFor
  <2> QED BY <2>1, <2>2, StandsForTable DEF GivesBack
<1>12. ASSUME NEW d, NEW e, ShownFor("csrrw", "fsflags", d, e)
      PROVE  GivesBack("csrrw", "fsflags", d, e)
  <2>1. d.rs2 = 0 /\ d.imm = 1
    BY <1>12, ConstraintsOf, ConstraintsSay
       DEF ShownFor, check_constraints, Unused, ImmediateForms
  <2>2. ArgumentsOf(e)[1] = d.rd /\ ArgumentsOf(e)[2] = d.rs1
    BY <1>12, PseudoFormat, PrintedNumbers DEF ShownFor
  <2> QED BY <2>1, <2>2, StandsForTable DEF GivesBack
<1>13. ASSUME NEW d, NEW e, ShownFor("csrrwi", "fsrmi", d, e)
      PROVE  GivesBack("csrrwi", "fsrmi", d, e)
  <2>1. d.rs2 = 0 /\ d.imm = 2
    BY <1>13, ConstraintsOf, ConstraintsSay
       DEF ShownFor, check_constraints, Unused, ImmediateForms
  <2>2. ArgumentsOf(e)[1] = d.rd /\ ArgumentsOf(e)[2] = d.rs1
    BY <1>13, PseudoFormat, PrintedNumbers DEF ShownFor
  <2> QED BY <2>1, <2>2, StandsForTable DEF GivesBack
<1>14. ASSUME NEW d, NEW e, ShownFor("csrrwi", "fsflagsi", d, e)
      PROVE  GivesBack("csrrwi", "fsflagsi", d, e)
  <2>1. d.rs2 = 0 /\ d.imm = 1
    BY <1>14, ConstraintsOf, ConstraintsSay
       DEF ShownFor, check_constraints, Unused, ImmediateForms
  <2>2. ArgumentsOf(e)[1] = d.rd /\ ArgumentsOf(e)[2] = d.rs1
    BY <1>14, PseudoFormat, PrintedNumbers DEF ShownFor
  <2> QED BY <2>1, <2>2, StandsForTable DEF GivesBack
<1> QED BY <1>1, <1>2, <1>3, <1>4, <1>5, <1>6, <1>7, <1>8, <1>9, <1>10, <1>11, <1>12, <1>13,
           <1>14 DEF Means

LEMMA SignMovesMean ==
    /\ Means("fsgnj_s", "fmv_s")
    /\ Means("fsgnj_d", "fmv_d")
    /\ Means("fsgnj_q", "fmv_q")
    /\ Means("fsgnjn_s", "fneg_s")
    /\ Means("fsgnjn_d", "fneg_d")
    /\ Means("fsgnjn_q", "fneg_q")
    /\ Means("fsgnjx_s", "fabs_s")
    /\ Means("fsgnjx_d", "fabs_d")
    /\ Means("fsgnjx_q", "fabs_q")
<1>1. ASSUME NEW d, NEW e, ShownFor("fsgnj_s", "fmv_s", d, e)
      PROVE  GivesBack("fsgnj_s", "fmv_s", d, e)
  <2>1. d.imm = 0 /\ d.rs2 = d.rs1
    BY <1>1, ConstraintsOf, ConstraintsSay
       DEF ShownFor, check_constraints, Unused, SignForms
  <2>2. ArgumentsOf(e)[1] = d.rd /\ ArgumentsOf(e)[2] = d.rs1
    BY <1>1, PseudoFormat, PrintedNumbers DEF ShownFor
  <2> QED BY <2>1, <2>2, StandsForTable DEF GivesBack
<1>2. ASSUME NEW d, NEW e, ShownFor("fsgnj_d", "fmv_d", d, e)
      PROVE  GivesBack("fsgnj_d", "fmv_d", d, e)
  <2>1. d.imm = 0 /\ d.rs2 = d.rs1
    BY <1>2, ConstraintsOf, ConstraintsSay
       DEF ShownFor, check_constraints, Unused, SignForms
  <2>2. ArgumentsOf(e)[1] = d.rd /\ ArgumentsOf(e)[2] = d.rs1
    BY <1>2, PseudoFormat, PrintedNumbers DEF ShownFor
  <2> QED BY <2>1, <2>2, StandsForTable DEF GivesBack
<1>3. ASSUME NEW d, NEW e, ShownFor("fsgnj_q", "fmv_q", d, e)
      PROVE  GivesBack("fsgnj_q", "fmv_q", d, e)
  <2>1. d.imm = 0 /\ d.rs2 = d.rs1
    BY <1>3, ConstraintsOf, ConstraintsSay
       DEF ShownFor, check_constraints, Unused, SignForms
  <2>2. ArgumentsOf(e)[1] = d.rd /\ ArgumentsOf(e)[2] = d.rs1
    BY <1>3, PseudoFormat, PrintedNumbers DEF ShownFor
  <2> QED BY <2>1, <2>2, StandsForTable DEF GivesBack
<1>4. ASSUME NEW d, NEW e, ShownFor("fsgnjn_s", "fneg_s", d, e)
      PROVE  GivesBack("fsgnjn_s", "fneg_s", d, e)
  <2>1. d.imm = 0 /\ d.rs2 = d.rs1
    BY <1>4, ConstraintsOf, ConstraintsSay
       DEF ShownFor, check_constraints, Unused, SignForms
  <2>2. ArgumentsOf(e)[1] = d.rd /\ ArgumentsOf(e)[2] = d.rs1
    BY <1>4, PseudoFormat, PrintedNumbers DEF ShownFor
  <2> QED BY <2>1, <2>2, StandsForTable DEF GivesBack
<1>5. ASSUME NEW d, NEW e, ShownFor("fsgnjn_d", "fneg_d", d, e)
      PROVE  GivesBack("fsgnjn_d", "fneg_d", d, e)
  <2>1. d.imm = 0 /\ d.rs2 = d.rs1
    BY <1>5, ConstraintsOf, ConstraintsSay
       DEF ShownFor, check_constraints, Unused, SignForms
  <2>2. ArgumentsOf(e)[1] = d.rd /\ ArgumentsOf(e)[2] = d.rs1
    BY <1>5, PseudoFormat, PrintedNumbers DEF ShownFor
  <2> QED BY <2>1, <2>2, StandsForTable DEF GivesBack
<1>6. ASSUME NEW d, NEW e, ShownFor("fsgnjn_q", "fneg_q", d, e)
      PROVE  GivesBack("fsgnjn_q", "fneg_q", d, e)
  <2>1. d.imm = 0 /\ d.rs2 = d.rs1
    BY <1>6, ConstraintsOf, ConstraintsSay
       DEF ShownFor, check_constraints, Unused, SignForms
  <2>2. ArgumentsOf(e)[1] = d.rd /\ ArgumentsOf(e)[2] = d.rs1
    BY <1>6, PseudoFormat, PrintedNumbers DEF ShownFor
  <2> QED BY <2>1, <2>2, StandsForTable DEF GivesBack
<1>7. ASSUME NEW d, NEW e, ShownFor("fsgnjx_s", "fabs_s", d, e)
      PROVE  GivesBack("fsgnjx_s", "fabs_s", d, e)
  <2>1. d.imm = 0 /\ d.rs2 = d.rs1
    BY <1>7, ConstraintsOf, ConstraintsSay
       DEF ShownFor, check_constraints, Unused, SignForms
  <2>2. ArgumentsOf(e)[1] = d.rd /\ ArgumentsOf(e)[2] = d.rs1
    BY <1>7, PseudoFormat, PrintedNumbers DEF ShownFor
  <2> QED BY <2>1, <2>2, StandsForTable DEF GivesBack
<1>8. ASSUME NEW d, NEW e, ShownFor("fsgnjx_d", "fabs_d", d, e)
      PROVE  GivesBack("fsgnjx_d", "fabs_d", d, e)
  <2>1. d.imm = 0 /\ d.rs2 = d.rs1
    BY <1>8, ConstraintsOf, ConstraintsSay
       DEF ShownFor, check_constraints, Unused, SignForms
  <2>2. ArgumentsOf(e)[1] = d.rd /\ ArgumentsOf(e)[2] = d.rs1
    BY <1>8, PseudoFormat, PrintedNumbers DEF ShownFor
  <2> QED BY <2>1, <2>2, StandsForTable DEF GivesBack
<1>9. ASSUME NEW d, NEW e, ShownFor("fsgnjx_q", "fabs_q", d, e)
      PROVE  GivesBack("fsgnjx_q", "fabs_q", d, e)
  <2>1. d.imm = 0 /\ d.rs2 = d.rs1
    BY <1>9, ConstraintsOf, ConstraintsSay
       DEF ShownFor, check_constraints, Unused, SignForms
  <2>2. ArgumentsOf(e)[1] = d.rd /\ ArgumentsOf(e)[2] = d.rs1
    BY <1>9, PseudoFormat, PrintedNumbers DEF ShownFor
  <2> QED BY <2>1, <2>2, StandsForTable DEF GivesBack
<1> QED BY <1>1, <1>2, <1>3, <1>4, <1>5, <1>6, <1>7, <1>8, <1>9 DEF Means

LEMMA CandidatesMean ==
    ASSUME NEW op \in DOMAIN pseudo, NEW n \in DOMAIN pseudo[op], pseudo[op][n] # op
    PROVE  Means(op, pseudo[op][n])
<1> DEFINE name == pseudo[op][n]
<1>1. CASE op = "jal"
  <2>1. name \in {"j"}
    BY <1>1 DEF pseudo
  <2> HIDE DEF name
  <2> QED BY <1>1, <2>1, JumpsMean DEF name
<1>2. CASE op = "jalr"
  <2>1. name \in {"ret", "jr"}
    BY <1>2 DEF pseudo
  <2> HIDE DEF name
  <2> QED BY <1>2, <2>1, JumpsMean DEF name
<1>3. CASE op = "beq"
  <2>1. name \in {"beqz"}
    BY <1>3 DEF pseudo
  <2> HIDE DEF name
  <2> QED BY <1>3, <2>1, BranchesMean DEF name
<1>4. CASE op = "bne"
  <2>1. name \in {"bnez"}
    BY <1>4 DEF pseudo
  <2> HIDE DEF name
  <2> QED BY <1>4, <2>1, BranchesMean DEF name
<1>5. CASE op = "blt"
  <2>1. name \in {"bltz", "bgtz", "bgt"}
    BY <1>5 DEF pseudo
  <2> HIDE DEF name
  <2> QED BY <1>5, <2>1, BranchesMean DEF name
<1>6. CASE op = "bge"
  <2>1. name \in {"blez", "bgez", "ble"}
    BY <1>6 DEF pseudo
  <2> HIDE DEF name
  <2> QED BY <1>6, <2>1, BranchesMean DEF name
<1>7. CASE op = "bltu"
  <2>1. name \in {"bgtu"}
    BY <1>7 DEF pseudo
  <2> HIDE DEF name
  <2> QED BY <1>7, <2>1, BranchesMean DEF name
<1>8. CASE op = "bgeu"
  <2>1. name \in {"bleu"}
    BY <1>8 DEF pseudo
  <2> HIDE DEF name
  <2> QED BY <1>8, <2>1, BranchesMean DEF name
<1>9. CASE op = "addi"
  <2>1. name \in {"nop", "mv"}
    BY <1>9 DEF pseudo
  <2> HIDE DEF name
  <2> QED BY <1>9, <2>1, ArithmeticMean DEF name
<1>10. CASE op = "sltiu"
  <2>1. name \in {"seqz"}
    BY <1>10 DEF pseudo
  <2> HIDE DEF name
  <2> QED BY <1>10, <2>1, ArithmeticMean DEF name
<1>11. CASE op = "xori"
  <2>1. name \in {"not"}
    BY <1>11 DEF pseudo
  <2> HIDE DEF name
  <2> QED BY <1>11, <2>1, ArithmeticMean DEF name
<1>12. CASE op = "sub"
  <2>1. name \in {"neg"}
    BY <1>12 DEF pseudo
  <2> HIDE DEF name
  <2> QED BY <1>12, <2>1, ArithmeticMean DEF name
<1>13. CASE op = "slt"
  <2>1. name \in {"sltz", "sgtz"}
    BY <1>13 DEF pseudo
  <2> HIDE DEF name
  <2> QED BY <1>13, <2>1, ArithmeticMean DEF name
<1>14. CASE op = "sltu"
  <2>1. name \in {"snez"}
    BY <1>14 DEF pseudo
  <2> HIDE DEF name
  <2> QED BY <1>14, <2>1, ArithmeticMean DEF name
<1>15. CASE op = "addiw"
  <2>1. name \in {"sext_w"}
    BY <1>15 DEF pseudo
  <2> HIDE DEF name
  <2> QED BY <1>15, <2>1, ArithmeticMean DEF name
<1>16. CASE op = "subw"
  <2>1. name \in {"negw"}
    BY <1>16 DEF pseudo
  <2> HIDE DEF name
  <2> QED BY <1>16, <2>1, ArithmeticMean DEF name
<1>17. CASE op = "csrrw"
  <2>1. name \in {"fscsr", "fsrm", "fsflags"}
    BY <1>17 DEF pseudo
  <2> HIDE DEF name
  <2> QED BY <1>17, <2>1, CsrAccessesMean DEF name
<1>18. CASE op = "csrrs"
  <2>1. name \in {"rdcycle", "rdtime", "rdinstret", "rdcycleh", "rdtimeh", "rdinstreth",
                  "frcsr", "frrm", "frflags"}
    BY <1>18 DEF pseudo
  <2> HIDE DEF name
  <2> QED BY <1>18, <2>1, CsrAccessesMean DEF name
<1>19. CASE op = "csrrwi"
  <2>1. name \in {"fsrmi", "fsflagsi"}
    BY <1>19 DEF pseudo
  <2> HIDE DEF name
  <2> QED BY <1>19, <2>1, CsrAccessesMean DEF name
<1>20. CASE op = "fsgnj_s"
  <2>1. name \in {"fmv_s"}
    BY <1>20 DEF pseudo
  <2> HIDE DEF name
  <2> QED BY <1>20, <2>1, SignMovesMean DEF name
<1>21. CASE op = "fsgnj_d"
  <2>1. name \in {"fmv_d"}
    BY <1>21 DEF pseudo
  <2> HIDE DEF name
  <2> QED BY <1>21, <2>1, SignMovesMean DEF name
<1>22. CASE op = "fsgnj_q"
  <2>1. name \in {"fmv_q"}
    BY <1>22 DEF pseudo
  <2> HIDE DEF name
  <2> QED BY <1>22, <2>1, SignMovesMean DEF name
<1>23. CASE op = "fsgnjn_s"
  <2>1. name \in {"fneg_s"}
    BY <1>23 DEF pseudo
  <2> HIDE DEF name
  <2> QED BY <1>23, <2>1, SignMovesMean DEF name
<1>24. CASE op = "fsgnjn_d"
  <2>1. name \in {"fneg_d"}
    BY <1>24 DEF pseudo
  <2> HIDE DEF name
  <2> QED BY <1>24, <2>1, SignMovesMean DEF name
<1>25. CASE op = "fsgnjn_q"
  <2>1. name \in {"fneg_q"}
    BY <1>25 DEF pseudo
  <2> HIDE DEF name
  <2> QED BY <1>25, <2>1, SignMovesMean DEF name
<1>26. CASE op = "fsgnjx_s"
  <2>1. name \in {"fabs_s"}
    BY <1>26 DEF pseudo
  <2> HIDE DEF name
  <2> QED BY <1>26, <2>1, SignMovesMean DEF name
<1>27. CASE op = "fsgnjx_d"
  <2>1. name \in {"fabs_d"}
    BY <1>27 DEF pseudo
  <2> HIDE DEF name
  <2> QED BY <1>27, <2>1, SignMovesMean DEF name
<1>28. CASE op = "fsgnjx_q"
  <2>1. name \in {"fabs_q"}
    BY <1>28 DEF pseudo
  <2> HIDE DEF name
  <2> QED BY <1>28, <2>1, SignMovesMean DEF name
<1>29. op \in {"jal", "jalr", "beq", "bne", "blt", "bge", "bltu", "bgeu", "addi", "sltiu",
           "xori", "sub", "slt", "sltu", "addiw", "subw", "csrrw", "csrrs", "csrrwi",
           "fsgnj_s", "fsgnj_d", "fsgnj_q", "fsgnjn_s", "fsgnjn_d", "fsgnjn_q",
           "fsgnjx_s", "fsgnjx_d", "fsgnjx_q"}
  BY DEF pseudo
<1> QED BY <1>1, <1>2, <1>3, <1>4, <1>5, <1>6, <1>7, <1>8, <1>9, <1>10, <1>11, <1>12, <1>13,
           <1>14, <1>15, <1>16, <1>17, <1>18, <1>19, <1>20, <1>21, <1>22, <1>23, <1>24,
           <1>25, <1>26, <1>27, <1>28, <1>29

(* For every word a pseudo-instruction is shown for, the text together     *)
(* with the meaning the manual gives the pseudo-instruction yields back    *)
(* the instruction and its operands: check_constraints has checked what    *)
(* the shorter text leaves out (the offset of ret, which rvcc_ret does not *)
(* check, excepted).                                                       *)
THEOREM LiftingKeepsOperands == Spec => LiftKeepsOperands
<1> DEFINE Kept ==
      stage = "lift" /\ dec'.op # dec.op =>
        LET shown == format_inst(dec')
        IN  StandsFor(shown.name, [n \in DOMAIN shown.args |-> shown.args[n][2]])
            = Core(dec.op, dec.rd, dec.rs1, dec.rs2,
                   IF dec'.op = "ret" THEN 0 ELSE dec.imm)
<1>1. PassesInv /\ [Next]_vars => [Kept]_vars
  <2> SUFFICES ASSUME PassesInv, Next, stage = "lift", dec'.op # dec.op
               PROVE  StandsFor(dec'.op, ArgumentsOf(dec'))
                      = Core(dec.op, dec.rd, dec.rs1, dec.rs2,
                             IF dec'.op = "ret" THEN 0 ELSE dec.imm)
    BY DEF format_inst, ArgumentsOf
  <2> DEFINE d == dec
             e == dec'
  <2>1. e = lift_pseudo(d)
    BY DEF Next, Call, DecodeOpcode, DecodeOperands, Decompress, LiftPseudo, FormatInst, Return
  <2>2. d = Expanded(isa, inst) /\ isa \in rv_isa /\ inst \in InstructionWord
    BY DEF PassesInv
  <2>3. DecodeOK(d) /\ d.op \in WholeOps
    BY <2>2, ExpandedIs
  <2>4. Unused(d.op, d.rd, d.rs1, d.rs2, d.imm)
    BY <2>2, UnusedAtLift
  <2> HIDE DEF d, e
  <2>5. PICK n \in Candidates(d) :
          /\ e.op = pseudo[d.op][n]
          /\ e.rd = d.rd /\ e.rs1 = d.rs1 /\ e.rs2 = d.rs2 /\ e.imm = d.imm
    BY <2>1, <2>3, LiftedIs DEF d, e
  <2>6. /\ d.op \in DOMAIN pseudo /\ n \in DOMAIN pseudo[d.op]
        /\ check_constraints(d, constraints(pseudo[d.op][n]))
    BY <2>5 DEF Candidates
  <2>7. Means(d.op, e.op)
    BY <2>5, <2>6, CandidatesMean DEF d, e
  <2>8. check_constraints(d, constraints(e.op))
    BY <2>5, <2>6
  <2>9. StandsFor(e.op, ArgumentsOf(e))
        = Core(d.op, d.rd, d.rs1, d.rs2, IF e.op = "ret" THEN 0 ELSE d.imm)
    BY <2>4, <2>5, <2>7, <2>8 DEF Means, ShownFor, GivesBack
  <2> QED BY <2>9 DEF d, e
<1> QED BY <1>1, Passes, PTL DEF Spec, LiftKeepsOperands

-----------------------------------------------------------------------------
(* Writing an instruction and reading it back.  The parts of a word that   *)
(* is assembled from its parts.                                            *)
TwelveBits == 0 .. 4095
LowPart(m, l, f, b) == (4 * m + 3) + 128 * l + 4096 * f + 32768 * b
HighPart(h, t) == h + 16 * t

LEMMA InHalfWord ==
    ASSUME NEW n \in Int, 0 <= n, n <= 65535
    PROVE  n \in HalfWord
<1> DEFINE top == 65535
<1>1. top \in Int /\ n <= top
  OBVIOUS
<1>2. HalfWord = 0 .. top
  BY DEF HalfWord
<1> HIDE DEF top
<1>3. n \in 0 .. top
  BY <1>1
<1> QED BY <1>2, <1>3

LowHalfIs(n, m, l, f, b) ==
    /\ n \in HalfWord
    /\ (n \div 1) % 4 = 3
    /\ (n \div 4) % 32 = m
    /\ (n \div 128) % 32 = l
    /\ (n \div 4096) % 8 = f
    /\ n \div 32768 = b
    /\ n \div 4096 = f + 8 * b
    /\ (n \div 128) % 2 = l % 2
    /\ (n \div 256) % 16 = l \div 2

LEMMA LowHalf ==
    ASSUME NEW m \in 0 .. 31, NEW l \in 0 .. 31, NEW f \in 0 .. 7, NEW b \in 0 .. 1
    PROVE  LowHalfIs(LowPart(m, l, f, b), m, l, f, b)
<1> DEFINE n == LowPart(m, l, f, b)
<1>1. n \in HalfWord
  <2>1. n \in Int
    BY SMT DEF LowPart
  <2>2. 0 <= n
    BY SMT DEF LowPart
  <2>3. n <= 65535
    BY SMT DEF LowPart
  <2> HIDE DEF n
  <2> QED BY <2>1, <2>2, <2>3, InHalfWord
<1>2. (n \div 1) % 4 = 3
  <2>1. n \div 1 = 4 * (m + 32 * l + 1024 * f + 8192 * b) + 3
    BY SMT DEF LowPart
  <2> DEFINE q == n \div 1
  <2>2. q = 4 * (m + 32 * l + 1024 * f + 8192 * b) + 3
    BY <2>1
  <2> HIDE DEF q, n
  <2>3. q % 4 = 3
    BY <2>2, SMT
  <2> QED BY <2>3 DEF q
<1>3. (n \div 4) % 32 = m
  <2>1. n \div 4 = 32 * (l + 32 * f + 256 * b) + m
    BY SMT DEF LowPart
  <2> DEFINE q == n \div 4
  <2>2. q = 32 * (l + 32 * f + 256 * b) + m
    BY <2>1
  <2> HIDE DEF q, n
  <2>3. q % 32 = m
    BY <2>2, SMT
  <2> QED BY <2>3 DEF q
<1>4. (n \div 128) % 32 = l
  <2>1. n \div 128 = 32 * (f + 8 * b) + l
    BY SMT DEF LowPart
  <2> DEFINE q == n \div 128
  <2>2. q = 32 * (f + 8 * b) + l
    BY <2>1
  <2> HIDE DEF q, n
  <2>3. q % 32 = l
    BY <2>2, SMT
  <2> QED BY <2>3 DEF q
<1>5. (n \div 4096) % 8 = f
  <2>1. n \div 4096 = 8 * b + f
    BY SMT DEF LowPart
  <2> DEFINE q == n \div 4096
  <2>2. q = 8 * b + f
    BY <2>1
  <2> HIDE DEF q, n
  <2>3. q % 8 = f
    BY <2>2, SMT
  <2> QED BY <2>3 DEF q
<1>6. n \div 32768 = b
  BY SMT DEF LowPart
<1>7. n \div 4096 = f + 8 * b
  BY SMT DEF LowPart
<1>8. (n \div 128) % 2 = l % 2
  <2>1. n \div 128 = 32 * (f + 8 * b) + l
    BY SMT DEF LowPart
  <2> DEFINE q == n \div 128
  <2>2. q = 32 * (f + 8 * b) + l
    BY <2>1
  <2> HIDE DEF q, n
  <2>3. q % 2 = l % 2
    BY <2>2, SMT
  <2> QED BY <2>3 DEF q
<1>9. (n \div 256) % 16 = l \div 2
  <2>1. n \div 256 = 16 * (f + 8 * b) + (l \div 2)
    BY SMT DEF LowPart
  <2> DEFINE q == n \div 256
  <2>2. q = 16 * (f + 8 * b) + (l \div 2)
    BY <2>1
  <2> HIDE DEF q, n
  <2>3. q % 16 = l \div 2
    BY <2>2, SMT
  <2> QED BY <2>3 DEF q
<1> HIDE DEF n
<1> QED BY <1>1, <1>2, <1>3, <1>4, <1>5, <1>6, <1>7, <1>8, <1>9, SMT DEF n, LowHalfIs

HighHalfIs(n, h, t) ==
    /\ n \in HalfWord
    /\ n % 16 = h
    /\ (n \div 16) % 4096 = t
    /\ (n \div 16) % 2048 = t % 2048
    /\ (n \div 16) % 32 = t % 32
    /\ (n \div 16) % 128 = t % 128
    /\ (n \div 512) % 128 = t \div 32
    /\ (n \div 512) % 64 = (t \div 32) % 64
    /\ (n \div 2048) % 32 = t \div 128
    /\ (n \div 32768) % 2 = t \div 2048

LEMMA HighHalf ==
    ASSUME NEW h \in 0 .. 15, NEW t \in TwelveBits
    PROVE  HighHalfIs(HighPart(h, t), h, t)
<1> DEFINE n == HighPart(h, t)
<1>1. n \in HalfWord
  <2>1. n \in Int
    BY SMT DEF HighPart, TwelveBits
  <2>2. 0 <= n
    BY SMT DEF HighPart, TwelveBits
  <2>3. n <= 65535
    BY SMT DEF HighPart, TwelveBits
  <2> HIDE DEF n
  <2> QED BY <2>1, <2>2, <2>3, InHalfWord
<1>2. n % 16 = h
  BY SMT DEF HighPart, TwelveBits
<1>3. (n \div 16) % 4096 = t
  <2>1. n \div 16 = t
    BY SMT DEF HighPart, TwelveBits
  <2> DEFINE q == n \div 16
  <2>2. q = t
    BY <2>1
  <2> HIDE DEF q, n
  <2>3. q % 4096 = t
    BY <2>2, SMT DEF TwelveBits
  <2> QED BY <2>3 DEF q
<1>4. (n \div 16) % 2048 = t % 2048
  <2>1. n \div 16 = t
    BY SMT DEF HighPart, TwelveBits
  <2> DEFINE q == n \div 16
  <2>2. q = t
    BY <2>1
  <2> HIDE DEF q, n
  <2>3. q % 2048 = t % 2048
    BY <2>2, SMT DEF TwelveBits
  <2> QED BY <2>3 DEF q
<1>5. (n \div 16) % 32 = t % 32
  <2>1. n \div 16 = t
    BY SMT DEF HighPart, TwelveBits
  <2> DEFINE q == n \div 16
  <2>2. q = t
    BY <2>1
  <2> HIDE DEF q, n
  <2>3. q % 32 = t % 32
    BY <2>2, SMT DEF TwelveBits
  <2> QED BY <2>3 DEF q
<1>6. (n \div 16) % 128 = t % 128
  <2>1. n \div 16 = t
    BY SMT DEF HighPart, TwelveBits
  <2> DEFINE q == n \div 16
  <2>2. q = t
    BY <2>1
  <2> HIDE DEF q, n
  <2>3. q % 128 = t % 128
    BY <2>2, SMT DEF TwelveBits
  <2> QED BY <2>3 DEF q
<1>7. (n \div 512) % 128 = t \div 32
  <2>1. n \div 512 = t \div 32
    BY SMT DEF HighPart, TwelveBits
  <2> DEFINE q == n \div 512
  <2>2. q = t \div 32
    BY <2>1
  <2> HIDE DEF q, n
  <2>3. q % 128 = t \div 32
    BY <2>2, SMT DEF TwelveBits
  <2> QED BY <2>3 DEF q
<1>8. (n \div 512) % 64 = (t \div 32) % 64
  <2>1. n \div 512 = t \div 32
    BY SMT DEF HighPart, TwelveBits
  <2> DEFINE q == n \div 512
  <2>2. q = t \div 32
    BY <2>1
  <2> HIDE DEF q, n
  <2>3. q % 64 = (t \div 32) % 64
    BY <2>2, SMT DEF TwelveBits
  <2> QED BY <2>3 DEF q
<1>9. (n \div 2048) % 32 = t \div 128
  <2>1. n \div 2048 = t \div 128
    BY SMT DEF HighPart, TwelveBits
  <2> DEFINE q == n \div 2048
  <2>2. q = t \div 128
    BY <2>1
  <2> HIDE DEF q, n
  <2>3. q % 32 = t \div 128
    BY <2>2, SMT DEF TwelveBits
  <2> QED BY <2>3 DEF q
<1>10. (n \div 32768) % 2 = t \div 2048
  <2>1. n \div 32768 = t \div 2048
    BY SMT DEF HighPart, TwelveBits
  <2> DEFINE q == n \div 32768
  <2>2. q = t \div 2048
    BY <2>1
  <2> HIDE DEF q, n
  <2>3. q % 2 = t \div 2048
    BY <2>2, SMT DEF TwelveBits
  <2> QED BY <2>3 DEF q
<1> HIDE DEF n
<1> QED BY <1>1, <1>2, <1>3, <1>4, <1>5, <1>6, <1>7, <1>8, <1>9, <1>10, SMT DEF n,
           HighHalfIs

AssembledIs(v, m, l, f, r, t) ==
    /\ v \in InstructionWord
    /\ Field(v, 1, 0) = 3
    /\ Field(v, 6, 2) = m
    /\ Field(v, 11, 7) = l
    /\ Field(v, 14, 12) = f
    /\ Field(v, 7, 7) = l % 2
    /\ Field(v, 11, 8) = l \div 2
    /\ Field(v, 19, 15) = r
    /\ Field(v, 31, 20) = t
    /\ Field(v, 30, 20) = t % 2048
    /\ Field(v, 24, 20) = t % 32
    /\ Field(v, 26, 20) = t % 128
    /\ Field(v, 31, 25) = t \div 32
    /\ Field(v, 30, 25) = (t \div 32) % 64
    /\ Field(v, 31, 27) = t \div 128
    /\ Field(v, 31, 31) = t \div 2048

LEMMA AssembledFields ==
    ASSUME NEW m \in 0 .. 31, NEW l \in 0 .. 31, NEW f \in 0 .. 7, NEW r \in 0 .. 31,
           NEW t \in TwelveBits
    PROVE  AssembledIs(Assembled(4 * m + 3, l, f, r, t), m, l, f, r, t)
<1> DEFINE b == r % 2
           h == r \div 2
           lo == LowPart(m, l, f, b)
           hi == HighPart(h, t)
           v == Assembled(4 * m + 3, l, f, r, t)
<1>1. v = [lo |-> lo, hi |-> hi]
  BY DEF Assembled, LowPart, HighPart
<1>2. b \in 0 .. 1 /\ h \in 0 .. 15
  BY SMT
<1>13. r = b + 2 * h
  BY SMT
<1> HIDE DEF b, h
<1>3. LowHalfIs(lo, m, l, f, b)
  BY <1>2, LowHalf, Zenon
<1>4. HighHalfIs(hi, h, t)
  BY <1>2, HighHalf, Zenon
<1> HIDE DEF lo, hi, v
<1>5. v.lo = lo /\ v.hi = hi
  BY <1>1
<1>6. v \in InstructionWord
  <2>1. lo \in HalfWord /\ hi \in HalfWord
    BY <1>3, <1>4 DEF LowHalfIs, HighHalfIs
  <2> QED BY <1>1, <2>1 DEF InstructionWord
<1>7. /\ Field(v, 1, 0) = (lo \div 1) % 4
      /\ Field(v, 6, 2) = (lo \div 4) % 32
      /\ Field(v, 11, 7) = (lo \div 128) % 32
      /\ Field(v, 14, 12) = (lo \div 4096) % 8
      /\ Field(v, 7, 7) = (lo \div 128) % 2
      /\ Field(v, 11, 8) = (lo \div 256) % 16
  BY <1>5, SMT DEF Field
<1>8. Field(v, 19, 15) = (lo \div 32768) + 2 * (hi % 16)
  BY <1>5, SMT DEF Field
<1>9. /\ Field(v, 31, 20) = (hi \div 16) % 4096
      /\ Field(v, 30, 20) = (hi \div 16) % 2048
      /\ Field(v, 24, 20) = (hi \div 16) % 32
      /\ Field(v, 26, 20) = (hi \div 16) % 128
      /\ Field(v, 31, 25) = (hi \div 512) % 128
      /\ Field(v, 30, 25) = (hi \div 512) % 64
      /\ Field(v, 31, 27) = (hi \div 2048) % 32
      /\ Field(v, 31, 31) = (hi \div 32768) % 2
  BY <1>5, SMT DEF Field
<1>10. Field(v, 19, 15) = r
  BY <1>2, <1>3, <1>4, <1>8, <1>13 DEF LowHalfIs, HighHalfIs
<1>11. /\ Field(v, 1, 0) = 3 /\ Field(v, 6, 2) = m /\ Field(v, 11, 7) = l
       /\ Field(v, 14, 12) = f /\ Field(v, 7, 7) = l % 2 /\ Field(v, 11, 8) = l \div 2
  BY <1>3, <1>7, SMT DEF LowHalfIs
<1>12. /\ Field(v, 31, 20) = t
       /\ Field(v, 30, 20) = t % 2048
       /\ Field(v, 24, 20) = t % 32
       /\ Field(v, 26, 20) = t % 128
       /\ Field(v, 31, 25) = t \div 32
       /\ Field(v, 30, 25) = (t \div 32) % 64
       /\ Field(v, 31, 27) = t \div 128
       /\ Field(v, 31, 31) = t \div 2048
  BY <1>4, <1>9, SMT DEF HighHalfIs
<1> QED BY <1>6, <1>10, <1>11, <1>12, SMT DEF v, AssembledIs

UpperWord(m, l, s, p, c, g) ==
    AssembledUpper(4 * m + 3, l, 524288 * s + 512 * p + 256 * c + g)

AssembledUpperIs(v, m, l, s, p, c, g) ==
    /\ v \in InstructionWord
    /\ Field(v, 1, 0) = 3
    /\ Field(v, 6, 2) = m
    /\ Field(v, 11, 7) = l
    /\ Field(v, 19, 12) = g
    /\ Field(v, 20, 20) = c
    /\ Field(v, 30, 21) = p
    /\ Field(v, 31, 31) = s
    /\ Field(v, 30, 12) = 512 * p + 256 * c + g

LEMMA AssembledUpperFields ==
    ASSUME NEW m \in 0 .. 31, NEW l \in 0 .. 31, NEW s \in 0 .. 1, NEW p \in 0 .. 1023,
           NEW c \in 0 .. 1, NEW g \in 0 .. 255
    PROVE  AssembledUpperIs(UpperWord(m, l, s, p, c, g), m, l, s, p, c, g)
<1> DEFINE u == 524288 * s + 512 * p + 256 * c + g
           g0 == g % 16
           g1 == g \div 16
           f == g0 % 8
           b == g0 \div 8
           lo == LowPart(m, l, f, b)
           hi == g1 + 16 * c + 32 * p + 32768 * s
           v == AssembledUpper(4 * m + 3, l, u)
<1>1. g0 \in 0 .. 15 /\ g1 \in 0 .. 15 /\ g = g0 + 16 * g1
  BY SMT
<1> HIDE DEF g0, g1
<1>2. f \in 0 .. 7 /\ b \in 0 .. 1 /\ g0 = f + 8 * b
  BY <1>1, SMT
<1> HIDE DEF f, b
<1>3. u % 16 = g0 /\ u \div 16 = hi
  BY <1>1, SMT
<1> HIDE DEF u
<1>4. v = [lo |-> lo, hi |-> hi]
  <2>1. lo = (4 * m + 3) + 128 * l + 4096 * g0
    BY <1>2 DEF LowPart
  <2> HIDE DEF lo, hi
  <2> QED BY <1>3, <2>1 DEF AssembledUpper
<1>5. LowHalfIs(lo, m, l, f, b)
  BY <1>2, LowHalf, Zenon
<1>6. /\ hi \in HalfWord
      /\ hi % 16 = g1
      /\ (hi \div 16) % 2 = c
      /\ (hi \div 32) % 1024 = p
      /\ (hi \div 32768) % 2 = s
      /\ hi % 32768 = g1 + 16 * c + 32 * p
  <2>1. hi \in HalfWord
    <3>1. hi \in Int
      BY <1>1, SMT
    <3>2. 0 <= hi
      BY <1>1, SMT
    <3>3. hi <= 65535
      BY <1>1, SMT
    <3> HIDE DEF hi
    <3> QED BY <3>1, <3>2, <3>3, InHalfWord
  <2>8. hi % 16 = g1
    BY <1>1, SMT
  <2>9. hi % 32768 = g1 + 16 * c + 32 * p
    BY <1>1, SMT
  <2> DEFINE q1 == hi \div 16
             q2 == hi \div 32
             q3 == hi \div 32768
  <2>2. q1 = c + 2 * (p + 1024 * s)
    BY <1>1, SMT
  <2>3. q2 = p + 1024 * s
    BY <1>1, SMT
  <2>4. q3 = s
    BY <1>1, SMT
  <2> HIDE DEF hi, q1, q2, q3
  <2>5. q1 % 2 = c
    BY <2>2, SMT
  <2>6. q2 % 1024 = p
    BY <2>3, SMT
  <2>7. q3 % 2 = s
    BY <2>4, SMT
  <2> QED BY <2>1, <2>5, <2>6, <2>7, <2>8, <2>9 DEF q1, q2, q3
<1> HIDE DEF lo, hi, v
<1>7. v.lo = lo /\ v.hi = hi
  BY <1>4
<1>8. v \in InstructionWord
  <2>1. lo \in HalfWord /\ hi \in HalfWord
    BY <1>5, <1>6 DEF LowHalfIs
  <2> QED BY <1>4, <2>1 DEF InstructionWord
<1>9. /\ Field(v, 1, 0) = (lo \div 1) % 4
      /\ Field(v, 6, 2) = (lo \div 4) % 32
      /\ Field(v, 11, 7) = (lo \div 128) % 32
      /\ Field(v, 20, 20) = (hi \div 16) % 2
      /\ Field(v, 30, 21) = (hi \div 32) % 1024
      /\ Field(v, 31, 31) = (hi \div 32768) % 2
  BY <1>7, SMT DEF Field
<1>10. /\ Field(v, 19, 12) = (lo \div 4096) + 16 * (hi % 16)
       /\ Field(v, 30, 12) = (lo \div 4096) + 16 * (hi % 32768)
  BY <1>7, SMT DEF Field
<1>11. Field(v, 19, 12) = g /\ Field(v, 30, 12) = 512 * p + 256 * c + g
  BY <1>1, <1>2, <1>5, <1>6, <1>10, SMT DEF LowHalfIs
<1>12. /\ Field(v, 1, 0) = 3 /\ Field(v, 6, 2) = m /\ Field(v, 11, 7) = l
       /\ Field(v, 20, 20) = c /\ Field(v, 30, 21) = p /\ Field(v, 31, 31) = s
  BY <1>5, <1>6, <1>9, SMT DEF LowHalfIs
<1> QED BY <1>8, <1>11, <1>12, SMT DEF v, u, AssembledUpperIs, UpperWord

(* The operations that compressed instructions stand for, at their places  *)
(* in the opcode tree.                                                     *)
LEMMA OpcodeOf ==
    ASSUME NEW w \in InstructionWord, NEW m, NEW f,
           Field(w, 6, 2) = m, funct3(w) = f
    PROVE  /\ m = 4 /\ f = 0 => Quadrant3(w) = "addi"
           /\ m = 4 /\ f = 7 => Quadrant3(w) = "andi"
           /\ m = 4 /\ f = 1 /\ shamt_top(w) = 0 => Quadrant3(w) = "slli"
           /\ m = 4 /\ f = 5 /\ shamt_top(w) = 0 => Quadrant3(w) = "srli"
           /\ m = 4 /\ f = 5 /\ shamt_top(w) = 8 => Quadrant3(w) = "srai"
           /\ m = 6 /\ f = 0 => Quadrant3(w) = "addiw"
           /\ m = 0 /\ f = 2 => Quadrant3(w) = "lw"
           /\ m = 0 /\ f = 3 => Quadrant3(w) = "ld"
           /\ m = 3 /\ f = 2 => Quadrant3(w) = "lq"
           /\ m = 1 /\ f = 2 => Quadrant3(w) = "flw"
           /\ m = 1 /\ f = 3 => Quadrant3(w) = "fld"
           /\ m = 25 /\ f = 0 => Quadrant3(w) = "jalr"
           /\ m = 8 /\ f = 2 => Quadrant3(w) = "sw"
           /\ m = 8 /\ f = 3 => Quadrant3(w) = "sd"
           /\ m = 8 /\ f = 4 => Quadrant3(w) = "sq"
           /\ m = 9 /\ f = 2 => Quadrant3(w) = "fsw"
           /\ m = 9 /\ f = 3 => Quadrant3(w) = "fsd"
           /\ m = 24 /\ f = 0 => Quadrant3(w) = "beq"
           /\ m = 24 /\ f = 1 => Quadrant3(w) = "bne"
           /\ m = 12 /\ funct7(w) = 0 /\ f = 0 => Quadrant3(w) = "add"
           /\ m = 12 /\ funct7(w) = 0 /\ f = 4 => Quadrant3(w) = "xor"
           /\ m = 12 /\ funct7(w) = 0 /\ f = 6 => Quadrant3(w) = "or"
           /\ m = 12 /\ funct7(w) = 0 /\ f = 7 => Quadrant3(w) = "and"
           /\ m = 12 /\ funct7(w) = 32 /\ f = 0 => Quadrant3(w) = "sub"
           /\ m = 14 /\ funct7(w) = 0 /\ f = 0 => Quadrant3(w) = "addw"
           /\ m = 14 /\ funct7(w) = 32 /\ f = 0 => Quadrant3(w) = "subw"
           /\ m = 13 => Quadrant3(w) = "lui"
           /\ m = 27 => Quadrant3(w) = "jal"
           /\ (m = 28 /\ f = 0 /\ funct7(w) = 0 /\ rs2_field(w) = 1
               /\ Field(w, 19, 15) = 0 /\ Field(w, 11, 7) = 0) => Quadrant3(w) = "ebreak"
<1> DEFINE op == Quadrant3(w)
<1>1. /\ m = 0 => op = Load(w)
      /\ m = 1 => op = LoadFp(w)
      /\ m = 3 => op = MiscMem(w)
      /\ m = 4 => op = OpImmediate(w)
      /\ m = 6 => op = OpImmediate32(w)
      /\ m = 8 => op = Store(w)
      /\ m = 9 => op = StoreFp(w)
      /\ m = 12 => op = OpRegister(w)
      /\ m = 13 => op = "lui"
      /\ m = 14 => op = OpRegisterWide(w, Words32)
      /\ m = 24 => op = BranchOp(w)
      /\ m = 25 => op = When(funct3(w) = 0, "jalr")
      /\ m = 27 => op = "jal"
      /\ m = 28 => op = SystemOp(w)
  BY DEF Quadrant3
<1> HIDE DEF op
<1>2. /\ f = 0 => OpImmediate(w) = "addi"
      /\ f = 7 => OpImmediate(w) = "andi"
      /\ f = 1 /\ shamt_top(w) = 0 => OpImmediate(w) = "slli"
      /\ f = 5 /\ shamt_top(w) = 0 => OpImmediate(w) = "srli"
      /\ f = 5 /\ shamt_top(w) = 8 => OpImmediate(w) = "srai"
  BY DEF OpImmediate, At, When, ShiftRight
<1>3. f = 0 => OpImmediate32(w) = "addiw"
  BY DEF OpImmediate32
<1>4. /\ f = 2 => Load(w) = "lw" /\ MiscMem(w) = "lq" /\ LoadFp(w) = "flw"
      /\ f = 3 => Load(w) = "ld" /\ LoadFp(w) = "fld"
  BY DEF Load, MiscMem, LoadFp, At
<1>5. /\ f = 2 => Store(w) = "sw" /\ StoreFp(w) = "fsw"
      /\ f = 3 => Store(w) = "sd" /\ StoreFp(w) = "fsd"
      /\ f = 4 => Store(w) = "sq"
  BY DEF Store, StoreFp, At
<1>6. /\ f = 0 => BranchOp(w) = "beq"
      /\ f = 1 => BranchOp(w) = "bne"
  BY DEF BranchOp, At
<1>7. /\ funct7(w) = 0 /\ f = 0 => OpRegister(w) = "add"
      /\ funct7(w) = 0 /\ f = 4 => OpRegister(w) = "xor"
      /\ funct7(w) = 0 /\ f = 6 => OpRegister(w) = "or"
      /\ funct7(w) = 0 /\ f = 7 => OpRegister(w) = "and"
      /\ funct7(w) = 32 /\ f = 0 => OpRegister(w) = "sub"
  BY DEF OpRegister, funct10
<1>8. /\ funct7(w) = 0 /\ f = 0 => OpRegisterWide(w, Words32) = "addw"
      /\ funct7(w) = 32 /\ f = 0 => OpRegisterWide(w, Words32) = "subw"
  BY DEF OpRegisterWide, Words32, funct10
<1>9. (f = 0 /\ funct7(w) = 0 /\ rs2_field(w) = 1 /\ Field(w, 19, 15) = 0
       /\ Field(w, 11, 7) = 0) => SystemOp(w) = "ebreak"
  <2>1. At(<<"ecall", "ebreak", "uret">>, 1) = "ebreak"
    BY DEF At
  <2>2. (funct7(w) = 0 /\ rs2_field(w) = 1 /\ Field(w, 19, 15) = 0
         /\ Field(w, 11, 7) = 0) => Privileged(w) = "ebreak"
    BY <2>1 DEF Privileged, When
  <2>3. f = 0 => SystemOp(w) = Privileged(w)
    BY DEF SystemOp, At
  <2> QED BY <2>2, <2>3
<1>10. f = 0 => When(funct3(w) = 0, "jalr") = "jalr"
  BY DEF When
<1>11. /\ m = 0 /\ f = 2 => op = "lw"
       /\ m = 0 /\ f = 3 => op = "ld"
       /\ m = 3 /\ f = 2 => op = "lq"
       /\ m = 1 /\ f = 2 => op = "flw"
       /\ m = 1 /\ f = 3 => op = "fld"
       /\ m = 8 /\ f = 2 => op = "sw"
       /\ m = 8 /\ f = 3 => op = "sd"
       /\ m = 8 /\ f = 4 => op = "sq"
       /\ m = 9 /\ f = 2 => op = "fsw"
       /\ m = 9 /\ f = 3 => op = "fsd"
  BY <1>1, <1>4, <1>5, Zenon
<1>12. /\ m = 4 /\ f = 0 => op = "addi"
       /\ m = 4 /\ f = 7 => op = "andi"
       /\ m = 4 /\ f = 1 /\ shamt_top(w) = 0 => op = "slli"
       /\ m = 4 /\ f = 5 /\ shamt_top(w) = 0 => op = "srli"
       /\ m = 4 /\ f = 5 /\ shamt_top(w) = 8 => op = "srai"
       /\ m = 6 /\ f = 0 => op = "addiw"
       /\ m = 25 /\ f = 0 => op = "jalr"
       /\ m = 24 /\ f = 0 => op = "beq"
       /\ m = 24 /\ f = 1 => op = "bne"
  BY <1>1, <1>2, <1>3, <1>6, <1>10, Zenon
<1>13. /\ m = 12 /\ funct7(w) = 0 /\ f = 0 => op = "add"
       /\ m = 12 /\ funct7(w) = 0 /\ f = 4 => op = "xor"
       /\ m = 12 /\ funct7(w) = 0 /\ f = 6 => op = "or"
       /\ m = 12 /\ funct7(w) = 0 /\ f = 7 => op = "and"
       /\ m = 12 /\ funct7(w) = 32 /\ f = 0 => op = "sub"
       /\ m = 14 /\ funct7(w) = 0 /\ f = 0 => op = "addw"
       /\ m = 14 /\ funct7(w) = 32 /\ f = 0 => op = "subw"
  BY <1>1, <1>7, <1>8, Zenon
<1>14. /\ m = 13 => op = "lui"
       /\ m = 27 => op = "jal"
       /\ (m = 28 /\ f = 0 /\ funct7(w) = 0 /\ rs2_field(w) = 1
           /\ Field(w, 19, 15) = 0 /\ Field(w, 11, 7) = 0) => op = "ebreak"
  BY <1>1, <1>9
<1> QED BY <1>11, <1>12, <1>13, <1>14 DEF op

(* The floating-point accesses have the operands of the integer ones.      *)
LEMMA FloatAccessCodecs ==
    /\ \A op \in {"flw", "fld"} : op \in Ops /\ opcode_data[op].codec = "i"
    /\ \A op \in {"fsw", "fsd"} : op \in Ops /\ opcode_data[op].codec = "s"
<1>1. \A op \in {"flw", "fld"} : op \in Ops /\ opcode_data[op].codec = "i"
  <2> DEFINE r == Row("i", "frd_offset_rs1", {"flw", "fld", "flq"})
  <2>1. r \in FloatRows
    BY DEF FloatRows
  <2>2. r.ops = {"flw", "fld", "flq"} /\ r.codec = "i"
    BY DEF Row
  <2> HIDE DEF r
  <2> QED BY <2>1, <2>2, FloatRowsAre, RowOf
<1>2. \A op \in {"fsw", "fsd"} : op \in Ops /\ opcode_data[op].codec = "s"
  <2> DEFINE r == Row("s", "frs2_offset_rs1", {"fsw", "fsd", "fsq"})
  <2>1. r \in FloatRows
    BY DEF FloatRows
  <2>2. r.ops = {"fsw", "fsd", "fsq"} /\ r.codec = "s"
    BY DEF Row
  <2> HIDE DEF r
  <2> QED BY <2>1, <2>2, FloatRowsAre, RowOf
<1> QED BY <1>1, <1>2

(* A record whose operation has registers and an immediate only.           *)
Instruction(op, rd, rs1, rs2, imm) ==
    [op |-> op, codec |-> opcode_data[op].codec, rd |-> rd, rs1 |-> rs1, rs2 |-> rs2,
     rs3 |-> 0, imm |-> imm, rm |-> 0, pred |-> 0, succ |-> 0, aq |-> 0, rl |-> 0]

PlainCodec(c) == c \notin {"r4_m", "r_m", "r_a", "r_l", "r_f"}

LEMMA PlainOperands ==
    ASSUME NEW w \in InstructionWord, NEW i \in rv_isa,
           NEW op, op = decode_inst_opcode(i, w),
           NEW c, c = opcode_data[op].codec, PlainCodec(c)
    PROVE  WithOperands(i, w) = Instruction(op, Rd(c, w), Rs1(c, w), Rs2(c, w), Imm(c, w))
<1> DEFINE start == Decoded(i, w)
<1>1. start.op = op
  <2>1. Decoded(i, w) = [ZeroDecode EXCEPT !.op = op]
    BY DEF Decoded
  <2> QED BY <2>1 DEF ZeroDecode
<1>2. WithOperands(i, w) = Operands(start, c, w)
  BY <1>1 DEF WithOperands, decode_inst_operands
<1> HIDE DEF start
<1>3. Operands(start, c, w) = Instruction(op, Rd(c, w), Rs1(c, w), Rs2(c, w), Imm(c, w))
  BY <1>1 DEF Operands, Instruction, PlainCodec
<1> QED BY <1>2, <1>3

RenamedTo(d, named) == [d EXCEPT !.op = named, !.codec = opcode_data[named].codec]

LEMMA RenamedInstruction ==
    ASSUME NEW op, NEW rd, NEW rs1, NEW rs2, NEW imm, NEW named,
           NEW d, d = Instruction(op, rd, rs1, rs2, imm)
    PROVE  RenamedTo(d, named) = Instruction(named, rd, rs1, rs2, imm)
<1> DEFINE c == opcode_data[named].codec
           first == [d EXCEPT !.op = named]
<1>1. first = [op |-> named, codec |-> opcode_data[op].codec, rd |-> rd, rs1 |-> rs1,
               rs2 |-> rs2, rs3 |-> 0, imm |-> imm, rm |-> 0, pred |-> 0, succ |-> 0,
               aq |-> 0, rl |-> 0]
  BY DEF Instruction
<1>2. DOMAIN d = {"op", "codec", "rd", "rs1", "rs2", "rs3", "imm", "rm", "pred", "succ",
                  "aq", "rl"}
  BY DEF Instruction
<1>3. [d EXCEPT !.op = named, !.codec = c] = [first EXCEPT !.codec = c]
  <2> HIDE DEF c
  <2> QED BY <1>2
<1> HIDE DEF first, c
<1>4. [first EXCEPT !.codec = c]
        = [op |-> named, codec |-> c, rd |-> rd, rs1 |-> rs1, rs2 |-> rs2,
           rs3 |-> 0, imm |-> imm, rm |-> 0, pred |-> 0, succ |-> 0, aq |-> 0, rl |-> 0]
  BY <1>1
<1> QED BY <1>3, <1>4 DEF c, Instruction, RenamedTo

(* A plain instruction is read from its word as the opcode tree and its    *)
(* codec say.                                                              *)
LEMMA ReadBack ==
    ASSUME NEW v \in InstructionWord, NEW i \in rv_isa, Field(v, 1, 0) = 3,
           NEW op, op = Quadrant3(v),
           NEW c, c = opcode_data[op].codec, PlainCodec(c)
    PROVE  Expanded(i, v) = Instruction(op, Rd(c, v), Rs1(c, v), Rs2(c, v), Imm(c, v))
<1>1. decode_inst_opcode(i, v) = op
  BY DecodedOp
<1>2. WithOperands(i, v) = Instruction(op, Rd(c, v), Rs1(c, v), Rs2(c, v), Imm(c, v))
  BY <1>1, PlainOperands
<1>3. Expanded(i, v) = WithOperands(i, v)
  BY ExpandedIs
<1> QED BY <1>2, <1>3

LEMMA FieldsOf ==
    ASSUME NEW d, NEW op, NEW rd, NEW rs1, NEW rs2, NEW imm,
           d = Instruction(op, rd, rs1, rs2, imm)
    PROVE  d.op = op /\ d.rd = rd /\ d.rs1 = rs1 /\ d.rs2 = rs2 /\ d.imm = imm
BY DEF Instruction

(* The words of the formats, and what their codecs read from them.         *)
SignedTwelve == -2048 .. 2047

LEMMA LowTwelve ==
    ASSUME NEW imm \in SignedTwelve
    PROVE  /\ imm % 4096 \in TwelveBits
           /\ ((imm % 4096) % 2048) - 2048 * ((imm % 4096) \div 2048) = imm
<1>1. CASE imm >= 0
  <2>1. imm % 4096 = imm
    BY <1>1, SMT DEF SignedTwelve
  <2>2. imm % 2048 = imm /\ imm \div 2048 = 0
    BY <1>1, SMT DEF SignedTwelve
  <2> QED BY <2>1, <2>2, <1>1, SMT DEF SignedTwelve, TwelveBits
<1>2. CASE imm < 0
  <2>1. imm % 4096 = imm + 4096
    BY <1>2, SMT DEF SignedTwelve
  <2>2. (imm + 4096) % 2048 = imm + 2048 /\ (imm + 4096) \div 2048 = 1
    BY <1>2, SMT DEF SignedTwelve
  <2> QED BY <2>1, <2>2, <1>2, SMT DEF SignedTwelve, TwelveBits
<1> QED BY <1>1, <1>2, SMT DEF SignedTwelve

LEMMA ImmediateWord ==
    ASSUME NEW m \in 0 .. 31, NEW f \in 0 .. 7, NEW rd \in Register, NEW rs1 \in Register,
           NEW imm \in SignedTwelve,
           NEW v, v = Assembled(4 * m + 3, rd, f, rs1, imm % 4096)
    PROVE  /\ v \in InstructionWord /\ Field(v, 1, 0) = 3
           /\ Field(v, 6, 2) = m /\ funct3(v) = f
           /\ Rd("i", v) = rd /\ Rs1("i", v) = rs1 /\ Rs2("i", v) = 0 /\ Imm("i", v) = imm
<1> DEFINE t == imm % 4096
<1>1. t \in TwelveBits /\ (t % 2048) - 2048 * (t \div 2048) = imm
  BY LowTwelve
<1> HIDE DEF t
<1>2. v = Assembled(4 * m + 3, rd, f, rs1, t)
  BY DEF t
<1>3. /\ v \in InstructionWord /\ Field(v, 1, 0) = 3
      /\ Field(v, 6, 2) = m /\ Field(v, 14, 12) = f
      /\ Field(v, 11, 7) = rd /\ Field(v, 19, 15) = rs1
      /\ Field(v, 30, 20) = t % 2048 /\ Field(v, 31, 31) = t \div 2048
  <2>1. rd \in 0 .. 31 /\ rs1 \in 0 .. 31
    BY DEF Register
  <2>2. AssembledIs(Assembled(4 * m + 3, rd, f, rs1, t), m, rd, f, rs1, t)
    <3>1. t \in TwelveBits
      BY <1>1, SMT
    <3> QED BY <2>1, <3>1, AssembledFields, Zenon
  <2> QED BY <1>2, <2>2, SMT DEF AssembledIs
<1>4. Imm("i", v) = imm
  BY <1>1, <1>3 DEF Imm, imm12, Bit
<1>5. Rd("i", v) = rd /\ Rs1("i", v) = rs1 /\ Rs2("i", v) = 0
  BY <1>3 DEF Rd, Rs1, Rs2, x0
<1> QED BY <1>3, <1>4, <1>5 DEF funct3

PlainImmediates == {"addi", "andi", "addiw", "lw", "ld", "lq", "flw", "fld", "jalr"}

LEMMA ImmediatesWritten ==
    ASSUME NEW i \in rv_isa, NEW op \in PlainImmediates, NEW rd \in Register,
           NEW rs1 \in Register, NEW imm \in SignedTwelve,
           NEW d, d = Instruction(op, rd, rs1, 0, imm)
    PROVE  Expanded(i, Written(d)) = d
<1>1. /\ opcode_data[op].codec = "i" /\ PlainCodec("i")
  BY CodecOf, FloatAccessCodecs DEF PlainImmediates, PlainCodec
<1>2. \E m \in 0 .. 31, f \in 0 .. 7 :
        /\ op \in DOMAIN IFormat /\ IFormat[op][1] = 4 * m + 3 /\ IFormat[op][2] = f
        /\ \A w \in InstructionWord :
              Field(w, 6, 2) = m /\ funct3(w) = f => Quadrant3(w) = op
  <2>1. CASE op = "addi"
    <3>1. /\ op \in DOMAIN IFormat /\ IFormat[op][1] = 4 * 4 + 3 /\ IFormat[op][2] = 0
      BY <2>1 DEF IFormat
    <3>2. \A w \in InstructionWord :
            Field(w, 6, 2) = 4 /\ funct3(w) = 0 => Quadrant3(w) = op
      BY <2>1, OpcodeOf
    <3>3. 4 \in 0 .. 31 /\ 0 \in 0 .. 7
      OBVIOUS
    <3> QED BY <3>1, <3>2, <3>3
  <2>2. CASE op = "andi"
    <3>1. /\ op \in DOMAIN IFormat /\ IFormat[op][1] = 4 * 4 + 3 /\ IFormat[op][2] = 7
      BY <2>2 DEF IFormat
    <3>2. \A w \in InstructionWord :
            Field(w, 6, 2) = 4 /\ funct3(w) = 7 => Quadrant3(w) = op
      BY <2>2, OpcodeOf
    <3>3. 4 \in 0 .. 31 /\ 7 \in 0 .. 7
      OBVIOUS
    <3> QED BY <3>1, <3>2, <3>3
  <2>3. CASE op = "addiw"
    <3>1. /\ op \in DOMAIN IFormat /\ IFormat[op][1] = 4 * 6 + 3 /\ IFormat[op][2] = 0
      BY <2>3 DEF IFormat
    <3>2. \A w \in InstructionWord :
            Field(w, 6, 2) = 6 /\ funct3(w) = 0 => Quadrant3(w) = op
      BY <2>3, OpcodeOf
    <3>3. 6 \in 0 .. 31 /\ 0 \in 0 .. 7
      OBVIOUS
    <3> QED BY <3>1, <3>2, <3>3
  <2>4. CASE op = "lw"
    <3>1. /\ op \in DOMAIN IFormat /\ IFormat[op][1] = 4 * 0 + 3 /\ IFormat[op][2] = 2
      BY <2>4 DEF IFormat
    <3>2. \A w \in InstructionWord :
            Field(w, 6, 2) = 0 /\ funct3(w) = 2 => Quadrant3(w) = op
      BY <2>4, OpcodeOf
    <3>3. 0 \in 0 .. 31 /\ 2 \in 0 .. 7
      OBVIOUS
    <3> QED BY <3>1, <3>2, <3>3
  <2>5. CASE op = "ld"
    <3>1. /\ op \in DOMAIN IFormat /\ IFormat[op][1] = 4 * 0 + 3 /\ IFormat[op][2] = 3
      BY <2>5 DEF IFormat
    <3>2. \A w \in InstructionWord :
            Field(w, 6, 2) = 0 /\ funct3(w) = 3 => Quadrant3(w) = op
      BY <2>5, OpcodeOf
    <3>3. 0 \in 0 .. 31 /\ 3 \in 0 .. 7
      OBVIOUS
    <3> QED BY <3>1, <3>2, <3>3
  <2>6. CASE op = "lq"
    <3>1. /\ op \in DOMAIN IFormat /\ IFormat[op][1] = 4 * 3 + 3 /\ IFormat[op][2] = 2
      BY <2>6 DEF IFormat
    <3>2. \A w \in InstructionWord :
            Field(w, 6, 2) = 3 /\ funct3(w) = 2 => Quadrant3(w) = op
      BY <2>6, OpcodeOf
    <3>3. 3 \in 0 .. 31 /\ 2 \in 0 .. 7
      OBVIOUS
    <3> QED BY <3>1, <3>2, <3>3
  <2>7. CASE op = "flw"
    <3>1. /\ op \in DOMAIN IFormat /\ IFormat[op][1] = 4 * 1 + 3 /\ IFormat[op][2] = 2
      BY <2>7 DEF IFormat
    <3>2. \A w \in InstructionWord :
            Field(w, 6, 2) = 1 /\ funct3(w) = 2 => Quadrant3(w) = op
      BY <2>7, OpcodeOf
    <3>3. 1 \in 0 .. 31 /\ 2 \in 0 .. 7
      OBVIOUS
    <3> QED BY <3>1, <3>2, <3>3
  <2>8. CASE op = "fld"
    <3>1. /\ op \in DOMAIN IFormat /\ IFormat[op][1] = 4 * 1 + 3 /\ IFormat[op][2] = 3
      BY <2>8 DEF IFormat
    <3>2. \A w \in InstructionWord :
            Field(w, 6, 2) = 1 /\ funct3(w) = 3 => Quadrant3(w) = op
      BY <2>8, OpcodeOf
    <3>3. 1 \in 0 .. 31 /\ 3 \in 0 .. 7
      OBVIOUS
    <3> QED BY <3>1, <3>2, <3>3
  <2>9. CASE op = "jalr"
    <3>1. /\ op \in DOMAIN IFormat /\ IFormat[op][1] = 4 * 25 + 3 /\ IFormat[op][2] = 0
      BY <2>9 DEF IFormat
    <3>2. \A w \in InstructionWord :
            Field(w, 6, 2) = 25 /\ funct3(w) = 0 => Quadrant3(w) = op
      BY <2>9, OpcodeOf
    <3>3. 25 \in 0 .. 31 /\ 0 \in 0 .. 7
      OBVIOUS
    <3> QED BY <3>1, <3>2, <3>3
  <2> QED BY <2>1, <2>2, <2>3, <2>4, <2>5, <2>6, <2>7, <2>8, <2>9 DEF PlainImmediates
<1>3. PICK m \in 0 .. 31, f \in 0 .. 7 :
        /\ op \in DOMAIN IFormat /\ IFormat[op][1] = 4 * m + 3 /\ IFormat[op][2] = f
        /\ \A w \in InstructionWord :
              Field(w, 6, 2) = m /\ funct3(w) = f => Quadrant3(w) = op
  BY <1>2
<1> DEFINE v == Written(d)
<1>4. v = Assembled(4 * m + 3, rd, f, rs1, imm % 4096)
  <2>1. d.op = op /\ d.rd = rd /\ d.rs1 = rs1 /\ d.imm = imm
    BY FieldsOf
  <2>2. op # "srai" /\ op \notin DOMAIN SFormat /\ op \notin DOMAIN BFormat
        /\ op \notin DOMAIN RFormat /\ op \notin {"lui", "jal", "ebreak"}
    BY DEF PlainImmediates, SFormat, BFormat, RFormat
  <2> QED BY <1>3, <2>1, <2>2 DEF Written
<1> HIDE DEF v
<1>5. /\ v \in InstructionWord /\ Field(v, 1, 0) = 3
      /\ Field(v, 6, 2) = m /\ funct3(v) = f
      /\ Rd("i", v) = rd /\ Rs1("i", v) = rs1 /\ Rs2("i", v) = 0 /\ Imm("i", v) = imm
  BY <1>4, ImmediateWord
<1>6. Quadrant3(v) = op
  BY <1>3, <1>5
<1>7. Expanded(i, v) = Instruction(op, Rd("i", v), Rs1("i", v), Rs2("i", v), Imm("i", v))
  BY <1>1, <1>5, <1>6, ReadBack
<1> QED BY <1>5, <1>7 DEF v

(* What a codec reads from a 32-bit word.                                  *)
ReadsAs(v, m, f, c, rd, rs1, rs2, imm) ==
    /\ v \in InstructionWord /\ Field(v, 1, 0) = 3 /\ Field(v, 6, 2) = m /\ funct3(v) = f
    /\ Rd(c, v) = rd /\ Rs1(c, v) = rs1 /\ Rs2(c, v) = rs2 /\ Imm(c, v) = imm

(* Shifts by a constant.                                                   *)
ShiftAmount == 0 .. 63
ShiftTop(t, top, imm) == t = 128 * top + imm

LEMMA ShiftWord ==
    ASSUME NEW f \in 0 .. 7, NEW rd \in Register, NEW rs1 \in Register,
           NEW imm \in ShiftAmount, NEW top \in {0, 8}, NEW m \in 0 .. 31,
           NEW t, ShiftTop(t, top, imm), NEW v, v = Assembled(4 * m + 3, rd, f, rs1, t)
    PROVE  ReadsAs(v, m, f, "i_sh7", rd, rs1, 0, imm) /\ shamt_top(v) = top
<1>1. t \in TwelveBits
  BY SMT DEF ShiftAmount, ShiftTop, TwelveBits
<1>2. t % 128 = imm /\ t \div 128 = top
  BY SMT DEF ShiftAmount, ShiftTop
<1>4. rd \in 0 .. 31 /\ rs1 \in 0 .. 31
  BY SMT DEF Register
<1>5. AssembledIs(Assembled(4 * m + 3, rd, f, rs1, t), m, rd, f, rs1, t)
  BY <1>1, <1>4, AssembledFields, Zenon
<1>6. /\ v \in InstructionWord /\ Field(v, 1, 0) = 3
      /\ Field(v, 6, 2) = m /\ Field(v, 14, 12) = f
      /\ Field(v, 11, 7) = rd /\ Field(v, 19, 15) = rs1
      /\ Field(v, 26, 20) = imm /\ Field(v, 31, 27) = top
  BY <1>2, <1>5, SMT DEF AssembledIs
<1>7. Imm("i_sh7", v) = imm
  BY <1>6 DEF Imm
<1>8. Rd("i_sh7", v) = rd /\ Rs1("i_sh7", v) = rs1 /\ Rs2("i_sh7", v) = 0
  BY <1>6 DEF Rd, Rs1, Rs2, x0
<1> QED BY <1>6, <1>7, <1>8 DEF ReadsAs, funct3, shamt_top

LEMMA ShiftsWritten ==
    ASSUME NEW i \in rv_isa, NEW op \in {"slli", "srli", "srai"}, NEW rd \in Register,
           NEW rs1 \in Register, NEW imm \in ShiftAmount,
           NEW d, d = Instruction(op, rd, rs1, 0, imm)
    PROVE  Expanded(i, Written(d)) = d
<1>1. opcode_data[op].codec = "i_sh7" /\ PlainCodec("i_sh7")
  BY CodecOf DEF PlainCodec
<1>2. PICK m \in 0 .. 31, f \in 0 .. 7, top \in {0, 8} :
        /\ Written(d) = Assembled(4 * m + 3, rd, f, rs1, 128 * top + imm)
        /\ \A w \in InstructionWord :
              Field(w, 6, 2) = m /\ funct3(w) = f /\ shamt_top(w) = top
                 => Quadrant3(w) = op
  <2>0. 4 \in 0 .. 31
    OBVIOUS
  <2>1. d.op = op /\ d.rd = rd /\ d.rs1 = rs1 /\ d.imm = imm
    BY FieldsOf
  <2>2. imm % 4096 = 128 * 0 + imm /\ 1024 + imm = 128 * 8 + imm
    BY SMT DEF ShiftAmount
  <2>3. CASE op = "slli"
    <3>1. op \in DOMAIN IFormat /\ IFormat[op][1] = 19 /\ IFormat[op][2] = 1
      BY <2>3 DEF IFormat
    <3>2. Written(d) = Assembled(19, rd, 1, rs1, imm % 4096)
      <4>1. op # "srai" /\ op \notin DOMAIN SFormat /\ op \notin DOMAIN BFormat
            /\ op \notin DOMAIN RFormat /\ op \notin {"lui", "jal", "ebreak"}
        BY <2>3 DEF SFormat, BFormat, RFormat
      <4> QED BY <2>1, <3>1, <4>1 DEF Written
    <3>3. \A w \in InstructionWord :
            Field(w, 6, 2) = 4 /\ funct3(w) = 1 /\ shamt_top(w) = 0 => Quadrant3(w) = op
      BY <2>3, OpcodeOf
    <3>4. Written(d) = Assembled(4 * 4 + 3, rd, 1, rs1, 128 * 0 + imm)
      <4>1. 19 = 4 * 4 + 3
        BY SMT
      <4> QED BY <2>2, <3>2, <4>1
    <3>5. 1 \in 0 .. 7 /\ 0 \in {0, 8}
      OBVIOUS
    <3> QED BY <2>0, <3>3, <3>4, <3>5
  <2>4. CASE op = "srli"
    <3>1. op \in DOMAIN IFormat /\ IFormat[op][1] = 19 /\ IFormat[op][2] = 5
      BY <2>4 DEF IFormat
    <3>2. Written(d) = Assembled(19, rd, 5, rs1, imm % 4096)
      <4>1. op # "srai" /\ op \notin DOMAIN SFormat /\ op \notin DOMAIN BFormat
            /\ op \notin DOMAIN RFormat /\ op \notin {"lui", "jal", "ebreak"}
        BY <2>4 DEF SFormat, BFormat, RFormat
      <4> QED BY <2>1, <3>1, <4>1 DEF Written
    <3>3. \A w \in InstructionWord :
            Field(w, 6, 2) = 4 /\ funct3(w) = 5 /\ shamt_top(w) = 0 => Quadrant3(w) = op
      BY <2>4, OpcodeOf
    <3>4. Written(d) = Assembled(4 * 4 + 3, rd, 5, rs1, 128 * 0 + imm)
      <4>1. 19 = 4 * 4 + 3
        BY SMT
      <4> QED BY <2>2, <3>2, <4>1
    <3>5. 5 \in 0 .. 7 /\ 0 \in {0, 8}
      OBVIOUS
    <3> QED BY <2>0, <3>3, <3>4, <3>5
  <2>5. CASE op = "srai"
    <3>1. op \notin DOMAIN IFormat
      BY <2>5 DEF IFormat
    <3>2. Written(d) = Assembled(19, rd, 5, rs1, 1024 + imm)
      <4>1. op \notin DOMAIN SFormat /\ op \notin DOMAIN BFormat
            /\ op \notin DOMAIN RFormat /\ op \notin {"lui", "jal", "ebreak"}
        BY <2>5 DEF SFormat, BFormat, RFormat
      <4> QED BY <2>1, <2>5, <3>1, <4>1 DEF Written
    <3>3. \A w \in InstructionWord :
            Field(w, 6, 2) = 4 /\ funct3(w) = 5 /\ shamt_top(w) = 8 => Quadrant3(w) = op
      BY <2>5, OpcodeOf
    <3>4. Written(d) = Assembled(4 * 4 + 3, rd, 5, rs1, 128 * 8 + imm)
      <4>1. 19 = 4 * 4 + 3
        BY SMT
      <4> QED BY <2>2, <3>2, <4>1
    <3>5. 5 \in 0 .. 7 /\ 8 \in {0, 8}
      OBVIOUS
    <3> QED BY <2>0, <3>3, <3>4, <3>5
  <2> QED BY <2>3, <2>4, <2>5
<1> DEFINE v == Written(d)
<1> HIDE DEF v
<1>3. ReadsAs(v, m, f, "i_sh7", rd, rs1, 0, imm) /\ shamt_top(v) = top
  <2> DEFINE t == 128 * top + imm
  <2>1. v = Assembled(4 * m + 3, rd, f, rs1, t)
    BY <1>2 DEF v
  <2>2. ShiftTop(t, top, imm)
    BY DEF ShiftTop
  <2> HIDE DEF t
  <2> QED BY <2>1, <2>2, ShiftWord
<1>4. Quadrant3(v) = op
  BY <1>2, <1>3 DEF ReadsAs
<1>5. Expanded(i, v) = Instruction(op, Rd("i_sh7", v), Rs1("i_sh7", v), Rs2("i_sh7", v),
                                   Imm("i_sh7", v))
  BY <1>1, <1>3, <1>4, ReadBack DEF ReadsAs
<1> QED BY <1>3, <1>5 DEF ReadsAs, v

(* Stores. *)
StoreOffset == 0 .. 1023

LEMMA StoreWord ==
    ASSUME NEW m \in 0 .. 31, NEW f \in 0 .. 7, NEW rs1 \in Register, NEW rs2 \in Register,
           NEW imm \in StoreOffset,
           NEW v, v = Assembled(4 * m + 3, Bits(imm, 4, 0), f, rs1,
                                32 * Bits(imm, 11, 5) + rs2)
    PROVE  ReadsAs(v, m, f, "s", 0, rs1, rs2, imm)
<1> DEFINE l == imm % 32
           h == imm \div 32
           t == 32 * h + rs2
<1>1. l \in 0 .. 31 /\ h \in 0 .. 31 /\ imm = l + 32 * h
  BY SMT DEF StoreOffset
<1>2. Bits(imm, 4, 0) = l /\ Bits(imm, 11, 5) = h
  BY SMT DEF Bits, StoreOffset
<1> HIDE DEF l, h
<1>3. rs1 \in 0 .. 31 /\ rs2 \in 0 .. 31
  BY DEF Register
<1>4. t \in TwelveBits
  BY <1>1, <1>3, SMT DEF TwelveBits
<1>5. t % 32 = rs2 /\ t \div 32 = h /\ t \div 2048 = 0
  BY <1>1, <1>3, SMT
<1>6. v = Assembled(4 * m + 3, l, f, rs1, t)
  BY <1>2
<1> HIDE DEF t
<1>7. AssembledIs(Assembled(4 * m + 3, l, f, rs1, t), m, l, f, rs1, t)
  <2>1. l \in 0 .. 31
    BY <1>1
  <2> QED BY <1>3, <1>4, <2>1, AssembledFields, Zenon
<1>8. h % 64 = h
  BY <1>1, SMT
<1>9. /\ v \in InstructionWord /\ Field(v, 1, 0) = 3
      /\ Field(v, 6, 2) = m /\ Field(v, 14, 12) = f
      /\ Field(v, 11, 7) = l /\ Field(v, 19, 15) = rs1 /\ Field(v, 24, 20) = rs2
      /\ Field(v, 30, 25) = h /\ Field(v, 31, 31) = 0
  BY <1>5, <1>6, <1>7, <1>8, SMT DEF AssembledIs
<1>10. Imm("s", v) = imm
  BY <1>1, <1>9 DEF Imm, simm12, Bit
<1>11. Rd("s", v) = 0 /\ Rs1("s", v) = rs1 /\ Rs2("s", v) = rs2
  BY <1>9 DEF Rd, Rs1, Rs2, x0
<1> QED BY <1>9, <1>10, <1>11 DEF ReadsAs, funct3

LEMMA StoresWritten ==
    ASSUME NEW i \in rv_isa, NEW op \in {"sw", "sd", "sq", "fsw",
                                         "fsd"}, NEW rs1 \in Register,
           NEW rs2 \in Register, NEW imm \in StoreOffset,
           NEW d, d = Instruction(op, 0, rs1, rs2, imm)
    PROVE  Expanded(i, Written(d)) = d
<1>1. opcode_data[op].codec = "s" /\ PlainCodec("s")
  BY CodecOf, FloatAccessCodecs DEF PlainCodec
<1>2. \E m \in 0 .. 31, f \in 0 .. 7 :
        /\ op \in DOMAIN SFormat /\ SFormat[op][1] = 4 * m + 3 /\ SFormat[op][2] = f
        /\ \A w \in InstructionWord :
              Field(w, 6, 2) = m /\ funct3(w) = f => Quadrant3(w) = op
  <2>1. CASE op = "sw"
    <3>1. /\ op \in DOMAIN SFormat /\ SFormat[op][1] = 4 * 8 + 3 /\ SFormat[op][2] = 2
      BY <2>1 DEF SFormat
    <3>2. \A w \in InstructionWord :
            Field(w, 6, 2) = 8 /\ funct3(w) = 2 => Quadrant3(w) = op
      BY <2>1, OpcodeOf
    <3>3. 8 \in 0 .. 31 /\ 2 \in 0 .. 7
      OBVIOUS
    <3> QED BY <3>1, <3>2, <3>3
  <2>2. CASE op = "sd"
    <3>1. /\ op \in DOMAIN SFormat /\ SFormat[op][1] = 4 * 8 + 3 /\ SFormat[op][2] = 3
      BY <2>2 DEF SFormat
    <3>2. \A w \in InstructionWord :
            Field(w, 6, 2) = 8 /\ funct3(w) = 3 => Quadrant3(w) = op
      BY <2>2, OpcodeOf
    <3>3. 8 \in 0 .. 31 /\ 3 \in 0 .. 7
      OBVIOUS
    <3> QED BY <3>1, <3>2, <3>3
  <2>3. CASE op = "sq"
    <3>1. /\ op \in DOMAIN SFormat /\ SFormat[op][1] = 4 * 8 + 3 /\ SFormat[op][2] = 4
      BY <2>3 DEF SFormat
    <3>2. \A w \in InstructionWord :
            Field(w, 6, 2) = 8 /\ funct3(w) = 4 => Quadrant3(w) = op
      BY <2>3, OpcodeOf
    <3>3. 8 \in 0 .. 31 /\ 4 \in 0 .. 7
      OBVIOUS
    <3> QED BY <3>1, <3>2, <3>3
  <2>4. CASE op = "fsw"
    <3>1. /\ op \in DOMAIN SFormat /\ SFormat[op][1] = 4 * 9 + 3 /\ SFormat[op][2] = 2
      BY <2>4 DEF SFormat
    <3>2. \A w \in InstructionWord :
            Field(w, 6, 2) = 9 /\ funct3(w) = 2 => Quadrant3(w) = op
      BY <2>4, OpcodeOf
    <3>3. 9 \in 0 .. 31 /\ 2 \in 0 .. 7
      OBVIOUS
    <3> QED BY <3>1, <3>2, <3>3
  <2>5. CASE op = "fsd"
    <3>1. /\ op \in DOMAIN SFormat /\ SFormat[op][1] = 4 * 9 + 3 /\ SFormat[op][2] = 3
      BY <2>5 DEF SFormat
    <3>2. \A w \in InstructionWord :
            Field(w, 6, 2) = 9 /\ funct3(w) = 3 => Quadrant3(w) = op
      BY <2>5, OpcodeOf
    <3>3. 9 \in 0 .. 31 /\ 3 \in 0 .. 7
      OBVIOUS
    <3> QED BY <3>1, <3>2, <3>3
  <2> QED BY <2>1, <2>2, <2>3, <2>4, <2>5
<1>3. PICK m \in 0 .. 31, f \in 0 .. 7 :
        /\ op \in DOMAIN SFormat /\ SFormat[op][1] = 4 * m + 3 /\ SFormat[op][2] = f
        /\ \A w \in InstructionWord :
              Field(w, 6, 2) = m /\ funct3(w) = f => Quadrant3(w) = op
  BY <1>2
<1> DEFINE v == Written(d)
<1>4. v = Assembled(4 * m + 3, Bits(imm, 4, 0), f, rs1, 32 * Bits(imm, 11, 5) + rs2)
  <2>1. d.op = op /\ d.rs1 = rs1 /\ d.rs2 = rs2 /\ d.imm = imm
    BY FieldsOf
  <2>2. op # "srai" /\ op \notin DOMAIN IFormat /\ op \notin DOMAIN BFormat
        /\ op \notin DOMAIN RFormat /\ op \notin {"lui", "jal", "ebreak"}
    BY DEF IFormat, BFormat, RFormat
  <2> QED BY <1>3, <2>1, <2>2 DEF Written
<1> HIDE DEF v
<1>5. ReadsAs(v, m, f, "s", 0, rs1, rs2, imm)
  BY <1>4, StoreWord
<1>6. Quadrant3(v) = op
  BY <1>3, <1>5 DEF ReadsAs
<1>7. Expanded(i, v) = Instruction(op, Rd("s", v), Rs1("s", v), Rs2("s", v), Imm("s", v))
  BY <1>1, <1>5, <1>6, ReadBack DEF ReadsAs
<1> QED BY <1>5, <1>7 DEF ReadsAs, v

(* Branches to even offsets. *)
BranchDistance(a, h, s) == 2 * a + 32 * h - 2048 * s
BranchLow(l, a, s) == l = 2 * a + s
BranchTop(t, s, h, rs2) == t = 2048 * s + 32 * h + rs2

LEMMA BranchBits ==
    ASSUME NEW a \in 0 .. 15, NEW h \in 0 .. 63, NEW s \in 0 .. 1
    PROVE  LET imm == BranchDistance(a, h, s)
           IN  /\ Bits(imm, 4, 1) = a /\ Bits(imm, 10, 5) = h
               /\ Bits(imm, 11, 11) = s /\ Bits(imm, 12, 12) = s
<1> DEFINE imm == BranchDistance(a, h, s)
           q1 == imm \div 2
           q5 == imm \div 32
           q11 == imm \div 2048
           q12 == imm \div 4096
<1>1. q1 = a + 16 * (h - 64 * s)
  BY SMT DEF BranchDistance
<1>2. q5 = h - 64 * s
  BY SMT DEF BranchDistance
<1>3. q11 = - s
  BY SMT DEF BranchDistance
<1>4. q12 = - s
  BY SMT DEF BranchDistance
<1>5. /\ Bits(imm, 4, 1) = q1 % 16 /\ Bits(imm, 10, 5) = q5 % 64
      /\ Bits(imm, 11, 11) = q11 % 2 /\ Bits(imm, 12, 12) = q12 % 2
  BY SMT DEF Bits
<1> HIDE DEF imm, q1, q5, q11, q12
<1>6. q1 % 16 = a
  BY <1>1, SMT
<1>7. q5 % 64 = h
  <2>1. CASE s = 0
    BY <1>2, <2>1, SMT
  <2>2. CASE s = 1
    BY <1>2, <2>2, SMT
  <2> QED BY <2>1, <2>2
<1>8. q11 % 2 = s /\ q12 % 2 = s
  <2>1. q11 % 2 = s
    BY <1>3, SMT
  <2>2. q12 % 2 = s
    BY <1>4, SMT
  <2> QED BY <2>1, <2>2
<1> QED BY <1>5, <1>6, <1>7, <1>8 DEF imm

LEMMA BranchWord ==
    ASSUME NEW f \in 0 .. 7, NEW rs1 \in Register, NEW rs2 \in Register,
           NEW a \in 0 .. 15, NEW h \in 0 .. 63, NEW s \in 0 .. 1, NEW m \in 0 .. 31,
           NEW l, BranchLow(l, a, s), NEW t, BranchTop(t, s, h, rs2),
           NEW v, v = Assembled(4 * m + 3, l, f, rs1, t)
    PROVE  ReadsAs(v, m, f, "sb", 0, rs1, rs2, BranchDistance(a, h, s))
<1>1. rs1 \in 0 .. 31 /\ rs2 \in 0 .. 31
  BY SMT DEF Register
<1>2. l \in 0 .. 31 /\ l % 2 = s /\ l \div 2 = a
  BY SMT DEF BranchLow
<1>3. t \in TwelveBits
  <2>1. t \in Int
    BY <1>1, SMT DEF BranchTop
  <2>2. 0 <= t
    BY <1>1, SMT DEF BranchTop
  <2>3. t <= 4095
    BY <1>1, SMT DEF BranchTop
  <2> QED BY <2>1, <2>2, <2>3, SMT DEF TwelveBits
<1>4. t % 32 = rs2 /\ t \div 32 = 64 * s + h /\ t \div 2048 = s
  BY <1>1, SMT DEF BranchTop
<1>5. (64 * s + h) % 64 = h
  BY SMT
<1>7. AssembledIs(Assembled(4 * m + 3, l, f, rs1, t), m, l, f, rs1, t)
  <2>1. l \in 0 .. 31
    BY <1>2
  <2> QED BY <1>1, <1>3, <2>1, AssembledFields, Zenon
<1>8. /\ v \in InstructionWord /\ Field(v, 1, 0) = 3
      /\ Field(v, 6, 2) = m /\ Field(v, 14, 12) = f
      /\ Field(v, 11, 8) = a /\ Field(v, 7, 7) = s
      /\ Field(v, 19, 15) = rs1 /\ Field(v, 24, 20) = rs2
      /\ Field(v, 30, 25) = h /\ Field(v, 31, 31) = s
  BY <1>2, <1>4, <1>5, <1>7, SMT DEF AssembledIs
<1>9. Imm("sb", v) = BranchDistance(a, h, s)
  <2>1. Imm("sb", v) = 2 * a + 32 * h + 2 ^ 11 * s - 2 ^ 12 * s
    BY <1>8 DEF Imm, sbimm12, Bit
  <2> QED BY <2>1, SMT DEF BranchDistance
<1>10. Rd("sb", v) = 0 /\ Rs1("sb", v) = rs1 /\ Rs2("sb", v) = rs2
  BY <1>8 DEF Rd, Rs1, Rs2, x0
<1> QED BY <1>8, <1>9, <1>10 DEF ReadsAs, funct3

LEMMA BranchesWritten ==
    ASSUME NEW i \in rv_isa, NEW op \in {"beq", "bne"}, NEW rs1 \in Register,
           NEW rs2 \in Register, NEW imm,
           \E a \in 0 .. 15, h \in 0 .. 63, s \in 0 .. 1 : imm = BranchDistance(a, h, s),
           NEW d, d = Instruction(op, 0, rs1, rs2, imm)
    PROVE  Expanded(i, Written(d)) = d
<1>0. PICK a \in 0 .. 15, h \in 0 .. 63, s \in 0 .. 1 : imm = BranchDistance(a, h, s)
  OBVIOUS
<1>1. opcode_data[op].codec = "sb" /\ PlainCodec("sb")
  BY CodecOf DEF PlainCodec
<1>2. PICK m \in 0 .. 31, f \in 0 .. 7 :
        /\ m = 24 /\ op \in DOMAIN BFormat /\ BFormat[op][2] = f
        /\ \A w \in InstructionWord :
              Field(w, 6, 2) = m /\ funct3(w) = f => Quadrant3(w) = op
  <2>1. CASE op = "beq"
    <3>1. op \in DOMAIN BFormat /\ BFormat[op][2] = 0
      BY <2>1 DEF BFormat
    <3>2. \A w \in InstructionWord :
            Field(w, 6, 2) = 24 /\ funct3(w) = 0 => Quadrant3(w) = op
      BY <2>1, OpcodeOf
    <3> QED BY <3>1, <3>2
  <2>2. CASE op = "bne"
    <3>1. op \in DOMAIN BFormat /\ BFormat[op][2] = 1
      BY <2>2 DEF BFormat
    <3>2. \A w \in InstructionWord :
            Field(w, 6, 2) = 24 /\ funct3(w) = 1 => Quadrant3(w) = op
      BY <2>2, OpcodeOf
    <3> QED BY <3>1, <3>2
  <2> QED BY <2>1, <2>2
<1> DEFINE v == Written(d)
<1>3. v = Assembled(4 * m + 3, 2 * a + s, f, rs1, 2048 * s + 32 * h + rs2)
  <2>1. d.op = op /\ d.rs1 = rs1 /\ d.rs2 = rs2 /\ d.imm = imm
    BY FieldsOf
  <2>2. op # "srai" /\ op \notin DOMAIN IFormat /\ op \notin DOMAIN SFormat
        /\ op \notin DOMAIN RFormat /\ op \notin {"lui", "jal", "ebreak"}
    BY DEF IFormat, SFormat, RFormat
  <2>3. v = Assembled(99, 2 * Bits(imm, 4, 1) + Bits(imm, 11, 11), f, rs1,
                      2048 * Bits(imm, 12, 12) + 32 * Bits(imm, 10, 5) + rs2)
    BY <1>2, <2>1, <2>2 DEF Written
  <2>4. /\ Bits(imm, 4, 1) = a /\ Bits(imm, 10, 5) = h
        /\ Bits(imm, 11, 11) = s /\ Bits(imm, 12, 12) = s
    BY <1>0, BranchBits
  <2>5. 99 = 4 * m + 3
    BY <1>2, SMT
  <2> HIDE DEF v
  <2> QED BY <2>3, <2>4, <2>5
<1> HIDE DEF v
<1>4. ReadsAs(v, m, f, "sb", 0, rs1, rs2, imm)
  <2> DEFINE l == 2 * a + s
             t == 2048 * s + 32 * h + rs2
  <2>1. v = Assembled(4 * m + 3, l, f, rs1, t)
    BY <1>3
  <2>2. BranchLow(l, a, s)
    BY DEF BranchLow
  <2>3. BranchTop(t, s, h, rs2)
    BY DEF BranchTop
  <2> HIDE DEF l, t
  <2>4. ReadsAs(v, m, f, "sb", 0, rs1, rs2, BranchDistance(a, h, s))
    BY <2>1, <2>2, <2>3, BranchWord, Zenon
  <2> QED BY <1>0, <2>4
<1>5. Quadrant3(v) = op
  BY <1>2, <1>4 DEF ReadsAs
<1>6. Expanded(i, v) = Instruction(op, Rd("sb", v), Rs1("sb", v), Rs2("sb", v),
                                   Imm("sb", v))
  BY <1>1, <1>4, <1>5, ReadBack DEF ReadsAs
<1> QED BY <1>4, <1>6 DEF ReadsAs, v

(* Register-register operations.                                           *)
RegisterTop(t, g, rs2) == t = 32 * g + rs2

LEMMA RegisterWord ==
    ASSUME NEW m \in 0 .. 31, NEW f \in 0 .. 7, NEW g \in {0, 32}, NEW rd \in Register,
           NEW rs1 \in Register, NEW rs2 \in Register, NEW t, RegisterTop(t, g, rs2),
           NEW v, v = Assembled(4 * m + 3, rd, f, rs1, t)
    PROVE  ReadsAs(v, m, f, "r", rd, rs1, rs2, 0) /\ funct7(v) = g
<1>1. rd \in 0 .. 31 /\ rs1 \in 0 .. 31 /\ rs2 \in 0 .. 31
  BY DEF Register
<1>2. t \in TwelveBits
  BY <1>1, SMT DEF RegisterTop, TwelveBits
<1>3. t % 32 = rs2 /\ t \div 32 = g
  BY <1>1, SMT DEF RegisterTop
<1>4. AssembledIs(Assembled(4 * m + 3, rd, f, rs1, t), m, rd, f, rs1, t)
  BY <1>1, <1>2, AssembledFields, Zenon
<1>5. /\ v \in InstructionWord /\ Field(v, 1, 0) = 3
      /\ Field(v, 6, 2) = m /\ Field(v, 14, 12) = f
      /\ Field(v, 11, 7) = rd /\ Field(v, 19, 15) = rs1 /\ Field(v, 24, 20) = rs2
      /\ Field(v, 31, 25) = g
  BY <1>3, <1>4 DEF AssembledIs
<1>6. Rd("r", v) = rd /\ Rs1("r", v) = rs1 /\ Rs2("r", v) = rs2 /\ Imm("r", v) = 0
  BY <1>5 DEF Rd, Rs1, Rs2, Imm
<1> QED BY <1>5, <1>6 DEF ReadsAs, funct3, funct7

PlainRegisterOps == {"add", "sub", "xor", "or", "and", "addw", "subw"}

LEMMA RegistersWritten ==
    ASSUME NEW i \in rv_isa, NEW op \in PlainRegisterOps, NEW rd \in Register,
           NEW rs1 \in Register, NEW rs2 \in Register,
           NEW d, d = Instruction(op, rd, rs1, rs2, 0)
    PROVE  Expanded(i, Written(d)) = d
<1>1. opcode_data[op].codec = "r" /\ PlainCodec("r")
  BY CodecOf DEF PlainCodec, PlainRegisterOps
<1>2. \E m \in 0 .. 31, f \in 0 .. 7, g \in {0, 32} :
        /\ op \in DOMAIN RFormat /\ RFormat[op][1] = 4 * m + 3
        /\ RFormat[op][2] = f /\ RFormat[op][3] = g
        /\ \A w \in InstructionWord :
              Field(w, 6, 2) = m /\ funct3(w) = f /\ funct7(w) = g => Quadrant3(w) = op
  <2>1. CASE op = "add"
    <3>1. /\ op \in DOMAIN RFormat /\ RFormat[op][1] = 4 * 12 + 3
          /\ RFormat[op][2] = 0 /\ RFormat[op][3] = 0
      BY <2>1 DEF RFormat
    <3>2. \A w \in InstructionWord :
            Field(w, 6, 2) = 12 /\ funct3(w) = 0 /\ funct7(w) = 0 => Quadrant3(w) = op
      BY <2>1, OpcodeOf
    <3>3. 12 \in 0 .. 31 /\ 0 \in 0 .. 7 /\ 0 \in {0, 32}
      OBVIOUS
    <3> QED BY <3>1, <3>2, <3>3
  <2>2. CASE op = "sub"
    <3>1. /\ op \in DOMAIN RFormat /\ RFormat[op][1] = 4 * 12 + 3
          /\ RFormat[op][2] = 0 /\ RFormat[op][3] = 32
      BY <2>2 DEF RFormat
    <3>2. \A w \in InstructionWord :
            Field(w, 6, 2) = 12 /\ funct3(w) = 0 /\ funct7(w) = 32 => Quadrant3(w) = op
      BY <2>2, OpcodeOf
    <3>3. 12 \in 0 .. 31 /\ 0 \in 0 .. 7 /\ 32 \in {0, 32}
      OBVIOUS
    <3> QED BY <3>1, <3>2, <3>3
  <2>3. CASE op = "xor"
    <3>1. /\ op \in DOMAIN RFormat /\ RFormat[op][1] = 4 * 12 + 3
          /\ RFormat[op][2] = 4 /\ RFormat[op][3] = 0
      BY <2>3 DEF RFormat
    <3>2. \A w \in InstructionWord :
            Field(w, 6, 2) = 12 /\ funct3(w) = 4 /\ funct7(w) = 0 => Quadrant3(w) = op
      BY <2>3, OpcodeOf
    <3>3. 12 \in 0 .. 31 /\ 4 \in 0 .. 7 /\ 0 \in {0, 32}
      OBVIOUS
    <3> QED BY <3>1, <3>2, <3>3
  <2>4. CASE op = "or"
    <3>1. /\ op \in DOMAIN RFormat /\ RFormat[op][1] = 4 * 12 + 3
          /\ RFormat[op][2] = 6 /\ RFormat[op][3] = 0
      BY <2>4 DEF RFormat
    <3>2. \A w \in InstructionWord :
            Field(w, 6, 2) = 12 /\ funct3(w) = 6 /\ funct7(w) = 0 => Quadrant3(w) = op
      BY <2>4, OpcodeOf
    <3>3. 12 \in 0 .. 31 /\ 6 \in 0 .. 7 /\ 0 \in {0, 32}
      OBVIOUS
    <3> QED BY <3>1, <3>2, <3>3
  <2>5. CASE op = "and"
    <3>1. /\ op \in DOMAIN RFormat /\ RFormat[op][1] = 4 * 12 + 3
          /\ RFormat[op][2] = 7 /\ RFormat[op][3] = 0
      BY <2>5 DEF RFormat
    <3>2. \A w \in InstructionWord :
            Field(w, 6, 2) = 12 /\ funct3(w) = 7 /\ funct7(w) = 0 => Quadrant3(w) = op
      BY <2>5, OpcodeOf
    <3>3. 12 \in 0 .. 31 /\ 7 \in 0 .. 7 /\ 0 \in {0, 32}
      OBVIOUS
    <3> QED BY <3>1, <3>2, <3>3
  <2>6. CASE op = "addw"
    <3>1. /\ op \in DOMAIN RFormat /\ RFormat[op][1] = 4 * 14 + 3
          /\ RFormat[op][2] = 0 /\ RFormat[op][3] = 0
      BY <2>6 DEF RFormat
    <3>2. \A w \in InstructionWord :
            Field(w, 6, 2) = 14 /\ funct3(w) = 0 /\ funct7(w) = 0 => Quadrant3(w) = op
      BY <2>6, OpcodeOf
    <3>3. 14 \in 0 .. 31 /\ 0 \in 0 .. 7 /\ 0 \in {0, 32}
      OBVIOUS
    <3> QED BY <3>1, <3>2, <3>3
  <2>7. CASE op = "subw"
    <3>1. /\ op \in DOMAIN RFormat /\ RFormat[op][1] = 4 * 14 + 3
          /\ RFormat[op][2] = 0 /\ RFormat[op][3] = 32
      BY <2>7 DEF RFormat
    <3>2. \A w \in InstructionWord :
            Field(w, 6, 2) = 14 /\ funct3(w) = 0 /\ funct7(w) = 32 => Quadrant3(w) = op
      BY <2>7, OpcodeOf
    <3>3. 14 \in 0 .. 31 /\ 0 \in 0 .. 7 /\ 32 \in {0, 32}
      OBVIOUS
    <3> QED BY <3>1, <3>2, <3>3
  <2>9. op \in {"add", "sub", "xor", "or", "and", "addw", "subw"}
    BY DEF PlainRegisterOps
  <2> QED BY <2>9, <2>1, <2>2, <2>3, <2>4, <2>5, <2>6, <2>7, Zenon
<1>3. PICK m \in 0 .. 31, f \in 0 .. 7, g \in {0, 32} :
        /\ op \in DOMAIN RFormat /\ RFormat[op][1] = 4 * m + 3
        /\ RFormat[op][2] = f /\ RFormat[op][3] = g
        /\ \A w \in InstructionWord :
              Field(w, 6, 2) = m /\ funct3(w) = f /\ funct7(w) = g => Quadrant3(w) = op
  BY <1>2
<1> DEFINE v == Written(d)
           t == 32 * g + rs2
<1>4. v = Assembled(4 * m + 3, rd, f, rs1, t)
  <2>1. d.op = op /\ d.rd = rd /\ d.rs1 = rs1 /\ d.rs2 = rs2
    BY FieldsOf
  <2>2. op # "srai" /\ op \notin DOMAIN IFormat /\ op \notin DOMAIN SFormat
        /\ op \notin DOMAIN BFormat /\ op \notin {"lui", "jal", "ebreak"}
    BY DEF PlainRegisterOps, IFormat, SFormat, BFormat
  <2> QED BY <1>3, <2>1, <2>2 DEF Written
<1>5. RegisterTop(t, g, rs2)
  BY DEF RegisterTop
<1> HIDE DEF v, t
<1>6. ReadsAs(v, m, f, "r", rd, rs1, rs2, 0) /\ funct7(v) = g
  BY <1>4, <1>5, RegisterWord
<1>7. Quadrant3(v) = op
  BY <1>3, <1>6 DEF ReadsAs
<1>8. Expanded(i, v) = Instruction(op, Rd("r", v), Rs1("r", v), Rs2("r", v), Imm("r", v))
  BY <1>1, <1>6, <1>7, ReadBack DEF ReadsAs
<1> QED BY <1>6, <1>8 DEF ReadsAs, v

(* The upper immediate, a signed number of six bits.                       *)
UpperValue(q, s) == 4096 * (q - 32 * s)

LEMMA UpperBits ==
    ASSUME NEW q \in 0 .. 31, NEW s \in 0 .. 1
    PROVE  Bits(UpperValue(q, s), 31, 12)
              = 524288 * s + 512 * (1023 * s) + 256 * s + (q + 224 * s)
<1> DEFINE n == UpperValue(q, s)
           u == n \div 4096
<1>1. u = q - 32 * s
  BY SMT DEF UpperValue
<1>2. Bits(n, 31, 12) = u % 1048576
  BY SMT DEF Bits
<1> HIDE DEF n, u
<1>3. u % 1048576 = 1048544 * s + q
  <2>1. CASE s = 0
    BY <1>1, <2>1, SMT
  <2>2. CASE s = 1
    BY <1>1, <2>2, SMT
  <2> QED BY <2>1, <2>2
<1>4. 1048544 * s + q = 524288 * s + 512 * (1023 * s) + 256 * s + (q + 224 * s)
  BY SMT
<1> QED BY <1>2, <1>3, <1>4 DEF n

LEMMA UpperWritten ==
    ASSUME NEW i \in rv_isa, NEW rd \in Register, NEW q \in 0 .. 31, NEW s \in 0 .. 1,
           NEW d, d = Instruction("lui", rd, 0, 0, UpperValue(q, s))
    PROVE  Expanded(i, Written(d)) = d
<1>1. opcode_data["lui"].codec = "u" /\ PlainCodec("u")
  BY CodecOf DEF PlainCodec
<1> DEFINE v == Written(d)
           imm == UpperValue(q, s)
           p == 1023 * s
           g == q + 224 * s
<1>2. v = UpperWord(13, rd, s, p, s, g)
  <2>1. d.op = "lui" /\ d.rd = rd /\ d.imm = imm
    BY FieldsOf
  <2>2. "lui" # "srai" /\ "lui" \notin DOMAIN IFormat /\ "lui" \notin DOMAIN SFormat
        /\ "lui" \notin DOMAIN BFormat /\ "lui" \notin DOMAIN RFormat
    BY DEF IFormat, SFormat, BFormat, RFormat
  <2>3. v = AssembledUpper(55, rd, Bits(imm, 31, 12))
    <3> HIDE DEF imm
    <3> QED BY <2>1, <2>2 DEF Written
  <2>4. Bits(imm, 31, 12) = 524288 * s + 512 * p + 256 * s + g
    BY UpperBits
  <2>5. 55 = 4 * 13 + 3
    BY SMT
  <2> HIDE DEF v, imm, p, g
  <2> QED BY <2>3, <2>4, <2>5 DEF UpperWord
<1>3. p \in 0 .. 1023 /\ g \in 0 .. 255 /\ rd \in 0 .. 31 /\ 13 \in 0 .. 31
  BY SMT DEF Register
<1>4. 512 * p + 256 * s + g - 524288 * s = q - 32 * s
  BY SMT
<1>5. imm = (q - 32 * s) * 4096
  BY SMT DEF UpperValue
<1> HIDE DEF v, p, g, imm
<1>6. AssembledUpperIs(UpperWord(13, rd, s, p, s, g), 13, rd, s, p, s, g)
  BY <1>3, AssembledUpperFields, Zenon
<1>7. /\ v \in InstructionWord /\ Field(v, 1, 0) = 3 /\ Field(v, 6, 2) = 13
      /\ Field(v, 11, 7) = rd /\ Field(v, 31, 31) = s
      /\ Field(v, 30, 12) = 512 * p + 256 * s + g
  BY <1>2, <1>6 DEF AssembledUpperIs
<1>8. Imm("u", v) = imm
  <2> DEFINE n == 512 * p + 256 * s + g
             k == n - 524288 * s
  <2>1. Field(v, 30, 12) = n /\ Field(v, 31, 31) = s
    BY <1>7
  <2>2. imm = k * 4096
    <3>1. k = q - 32 * s
      BY <1>3, <1>4
    <3> HIDE DEF k
    <3> QED BY <1>5, <3>1
  <2> HIDE DEF n
  <2>3. n - 2 ^ 19 * s = k
    BY SMT
  <2> HIDE DEF k
  <2>4. imm20(v) = k * 4096
    BY <2>1, <2>3 DEF imm20, Bit
  <2>5. Imm("u", v) = imm20(v)
    BY DEF Imm
  <2> QED BY <2>2, <2>4, <2>5
<1>9. Rd("u", v) = rd /\ Rs1("u", v) = 0 /\ Rs2("u", v) = 0
  BY <1>7 DEF Rd, Rs1, Rs2, x0
<1>10. Quadrant3(v) = "lui"
  <2>1. funct3(v) = funct3(v)
    OBVIOUS
  <2> QED BY <1>7, OpcodeOf
<1>11. Expanded(i, v) = Instruction("lui", Rd("u", v), Rs1("u", v), Rs2("u", v),
                                    Imm("u", v))
  BY <1>1, <1>7, <1>10, ReadBack
<1> QED BY <1>8, <1>9, <1>11 DEF v, imm

(* Jumps to even offsets.                                                  *)
JumpDistance(p, s) == 2 * p - 2048 * s

LEMMA JumpBits ==
    ASSUME NEW p \in 0 .. 1023, NEW s \in 0 .. 1
    PROVE  LET imm == JumpDistance(p, s)
           IN  /\ Bits(imm, 20, 20) = s /\ Bits(imm, 10, 1) = p
               /\ Bits(imm, 11, 11) = s /\ Bits(imm, 19, 12) = 255 * s
<1> DEFINE imm == JumpDistance(p, s)
           q1 == imm \div 2
           q11 == imm \div 2048
           q12 == imm \div 4096
           q20 == imm \div 1048576
<1>1. q1 = p - 1024 * s
  BY SMT DEF JumpDistance
<1>2. q11 = - s
  BY SMT DEF JumpDistance
<1>3. q12 = - s
  BY SMT DEF JumpDistance
<1>4. q20 = - s
  BY SMT DEF JumpDistance
<1>5. /\ Bits(imm, 20, 20) = q20 % 2 /\ Bits(imm, 10, 1) = q1 % 1024
      /\ Bits(imm, 11, 11) = q11 % 2 /\ Bits(imm, 19, 12) = q12 % 256
  BY SMT DEF Bits
<1> HIDE DEF imm, q1, q11, q12, q20
<1>6. q1 % 1024 = p
  <2>1. CASE s = 0
    BY <1>1, <2>1, SMT
  <2>2. CASE s = 1
    BY <1>1, <2>2, SMT
  <2> QED BY <2>1, <2>2
<1>7. q11 % 2 = s
  BY <1>2, SMT
<1>8. q20 % 2 = s
  BY <1>4, SMT
<1>9. q12 % 256 = 255 * s
  BY <1>3, SMT
<1> QED BY <1>5, <1>6, <1>7, <1>8, <1>9 DEF imm

LEMMA JumpsWritten ==
    ASSUME NEW i \in rv_isa, NEW rd \in Register, NEW p \in 0 .. 1023, NEW s \in 0 .. 1,
           NEW d, d = Instruction("jal", rd, 0, 0, JumpDistance(p, s))
    PROVE  Expanded(i, Written(d)) = d
<1>1. opcode_data["jal"].codec = "uj" /\ PlainCodec("uj")
  BY CodecOf DEF PlainCodec
<1> DEFINE v == Written(d)
           imm == JumpDistance(p, s)
           g == 255 * s
<1>2. v = UpperWord(27, rd, s, p, s, g)
  <2>1. d.op = "jal" /\ d.rd = rd /\ d.imm = imm
    BY FieldsOf
  <2>2. "jal" \notin {"srai", "lui"} /\ "jal" \notin DOMAIN IFormat
        /\ "jal" \notin DOMAIN SFormat
        /\ "jal" \notin DOMAIN BFormat /\ "jal" \notin DOMAIN RFormat
    BY DEF IFormat, SFormat, BFormat, RFormat
  <2>3. v = AssembledUpper(111, rd, 2 ^ 19 * Bits(imm, 20, 20) + 512 * Bits(imm, 10, 1)
                                    + 256 * Bits(imm, 11, 11) + Bits(imm, 19, 12))
    <3> HIDE DEF imm
    <3> QED BY <2>1, <2>2 DEF Written
  <2>4. /\ Bits(imm, 20, 20) = s /\ Bits(imm, 10, 1) = p
        /\ Bits(imm, 11, 11) = s /\ Bits(imm, 19, 12) = g
    BY JumpBits
  <2>5. 111 = 4 * 27 + 3 /\ 2 ^ 19 = 524288
    BY SMT
  <2> HIDE DEF v, imm, g
  <2> QED BY <2>3, <2>4, <2>5 DEF UpperWord
<1>3. g \in 0 .. 255 /\ rd \in 0 .. 31 /\ 27 \in 0 .. 31
  BY SMT DEF Register
<1>4. 2 * p + 2048 * s + 4096 * g - 1048576 * s = imm
  BY SMT DEF JumpDistance
<1> HIDE DEF v, g, imm
<1>6. AssembledUpperIs(UpperWord(27, rd, s, p, s, g), 27, rd, s, p, s, g)
  BY <1>3, AssembledUpperFields, Zenon
<1>7. /\ v \in InstructionWord /\ Field(v, 1, 0) = 3 /\ Field(v, 6, 2) = 27
      /\ Field(v, 11, 7) = rd /\ Field(v, 31, 31) = s
      /\ Field(v, 30, 21) = p /\ Field(v, 20, 20) = s /\ Field(v, 19, 12) = g
  BY <1>2, <1>6 DEF AssembledUpperIs
<1>8. Imm("uj", v) = imm
  <2>1. Imm("uj", v) = 2 * p + 2 ^ 11 * s + 2 ^ 12 * g - 2 ^ 20 * s
    BY <1>7 DEF Imm, jimm20, Bit
  <2>2. 2 ^ 11 = 2048 /\ 2 ^ 12 = 4096 /\ 2 ^ 20 = 1048576
    BY SMT
  <2> QED BY <1>4, <2>1, <2>2
<1>9. Rd("uj", v) = rd /\ Rs1("uj", v) = 0 /\ Rs2("uj", v) = 0
  BY <1>7 DEF Rd, Rs1, Rs2, x0
<1>10. Quadrant3(v) = "jal"
  BY <1>7, OpcodeOf
<1>11. Expanded(i, v) = Instruction("jal", Rd("uj", v), Rs1("uj", v), Rs2("uj", v),
                                    Imm("uj", v))
  BY <1>1, <1>7, <1>10, ReadBack
<1> QED BY <1>8, <1>9, <1>11 DEF v, imm

LEMMA BreakWritten ==
    ASSUME NEW i \in rv_isa, NEW d, d = Instruction("ebreak", 0, 0, 0, 0)
    PROVE  Expanded(i, Written(d)) = d
<1>1. opcode_data["ebreak"].codec = "none" /\ PlainCodec("none")
  BY CodecOf DEF PlainCodec
<1> DEFINE v == Written(d)
<1>2. v = Assembled(4 * 28 + 3, 0, 0, 0, 1)
  <2>1. d.op = "ebreak"
    BY FieldsOf
  <2>2. "ebreak" \notin {"srai", "lui", "jal"} /\ "ebreak" \notin DOMAIN IFormat
        /\ "ebreak" \notin DOMAIN SFormat
        /\ "ebreak" \notin DOMAIN BFormat /\ "ebreak" \notin DOMAIN RFormat
    BY DEF IFormat, SFormat, BFormat, RFormat
  <2>3. v = Assembled(115, 0, 0, 0, 1)
    BY <2>1, <2>2 DEF Written
  <2>4. 115 = 4 * 28 + 3
    BY SMT
  <2> HIDE DEF v
  <2> QED BY <2>3, <2>4
<1> HIDE DEF v
<1>3. 28 \in 0 .. 31 /\ 0 \in 0 .. 31 /\ 0 \in 0 .. 7 /\ 1 \in TwelveBits
  BY SMT DEF TwelveBits
<1>4. AssembledIs(Assembled(4 * 28 + 3, 0, 0, 0, 1), 28, 0, 0, 0, 1)
  BY <1>3, AssembledFields, Zenon
<1>5. 1 % 32 = 1 /\ 1 \div 32 = 0
  BY SMT
<1>6. /\ v \in InstructionWord /\ Field(v, 1, 0) = 3 /\ Field(v, 6, 2) = 28
      /\ funct3(v) = 0 /\ funct7(v) = 0 /\ rs2_field(v) = 1
      /\ Field(v, 19, 15) = 0 /\ Field(v, 11, 7) = 0
  BY <1>2, <1>4, <1>5 DEF AssembledIs, funct3, funct7, rs2_field
<1>7. /\ Rd("none", v) = 0 /\ Rs1("none", v) = 0 /\ Rs2("none", v) = 0
      /\ Imm("none", v) = 0
  BY DEF Rd, Rs1, Rs2, Imm, x0
<1>8. Quadrant3(v) = "ebreak"
  BY <1>6, OpcodeOf
<1>9. Expanded(i, v) = Instruction("ebreak", Rd("none", v), Rs1("none", v), Rs2("none", v),
                                   Imm("none", v))
  BY <1>1, <1>6, <1>8, ReadBack
<1> QED BY <1>7, <1>9 DEF v

(* The ranges of the fields of a compressed word that immediates are made  *)
(* of.                                                                     *)
LEMMA ShortFields ==
    ASSUME NEW w \in InstructionWord
    PROVE  /\ Bit(w, 2) \in 0 .. 1 /\ Bit(w, 5) \in 0 .. 1 /\ Bit(w, 6) \in 0 .. 1
           /\ Bit(w, 7) \in 0 .. 1 /\ Bit(w, 8) \in 0 .. 1 /\ Bit(w, 10) \in 0 .. 1
           /\ Bit(w, 11) \in 0 .. 1 /\ Bit(w, 12) \in 0 .. 1
           /\ Field(w, 3, 2) \in 0 .. 3 /\ Field(w, 6, 5) \in 0 .. 3
           /\ Field(w, 4, 3) \in 0 .. 3 /\ Field(w, 10, 9) \in 0 .. 3
           /\ Field(w, 11, 10) \in 0 .. 3 /\ Field(w, 8, 7) \in 0 .. 3
           /\ Field(w, 12, 11) \in 0 .. 3
           /\ Field(w, 6, 4) \in 0 .. 7 /\ Field(w, 4, 2) \in 0 .. 7
           /\ Field(w, 5, 3) \in 0 .. 7 /\ Field(w, 12, 10) \in 0 .. 7
           /\ Field(w, 9, 7) \in 0 .. 7
           /\ Field(w, 5, 2) \in 0 .. 15 /\ Field(w, 12, 9) \in 0 .. 15
           /\ Field(w, 10, 7) \in 0 .. 15
           /\ Field(w, 6, 2) \in 0 .. 31
<1>1. /\ Bit(w, 2) \in 0 .. 1 /\ Bit(w, 3) \in 0 .. 1 /\ Bit(w, 4) \in 0 .. 1
      /\ Bit(w, 5) \in 0 .. 1 /\ Bit(w, 6) \in 0 .. 1 /\ Bit(w, 7) \in 0 .. 1
      /\ Bit(w, 8) \in 0 .. 1 /\ Bit(w, 9) \in 0 .. 1 /\ Bit(w, 10) \in 0 .. 1
      /\ Bit(w, 11) \in 0 .. 1 /\ Bit(w, 12) \in 0 .. 1
  BY CompressedFields
<1>2. /\ Field(w, 3, 2) \in 0 .. 3 /\ Field(w, 6, 5) \in 0 .. 3
      /\ Field(w, 4, 3) \in 0 .. 3 /\ Field(w, 10, 9) \in 0 .. 3
  BY <1>1, CompressedFields
<1>3. /\ Field(w, 11, 10) \in 0 .. 3 /\ Field(w, 8, 7) \in 0 .. 3
      /\ Field(w, 12, 11) \in 0 .. 3
  BY <1>1, CompressedFields
<1>4. /\ Field(w, 6, 4) \in 0 .. 7 /\ Field(w, 4, 2) \in 0 .. 7
      /\ Field(w, 5, 3) \in 0 .. 7
  BY <1>1, CompressedFields
<1>5. Field(w, 12, 10) \in 0 .. 7 /\ Field(w, 9, 7) \in 0 .. 7
  BY <1>1, CompressedFields
<1>6. /\ Field(w, 5, 2) \in 0 .. 15 /\ Field(w, 12, 9) \in 0 .. 15
      /\ Field(w, 10, 7) \in 0 .. 15
  BY <1>1, CompressedFields
<1>7. Field(w, 6, 2) \in 0 .. 31
  BY LowFieldsAre
<1> QED BY <1>1, <1>2, <1>3, <1>4, <1>5, <1>6, <1>7

(* The immediates of compressed words fit into the fields of the 32-bit    *)
(* formats.                                                                *)
LEMMA CompressedOffsets ==
    ASSUME NEW w \in InstructionWord
    PROVE  /\ cimmi(w) \in SignedTwelve /\ cimm16sp(w) \in SignedTwelve
           /\ cimm4spn(w) \in StoreOffset
           /\ cimmw(w) \in StoreOffset /\ cimmd(w) \in StoreOffset /\ cimmq(w) \in StoreOffset
           /\ cimmlwsp(w) \in StoreOffset /\ cimmldsp(w) \in StoreOffset
           /\ cimmlqsp(w) \in StoreOffset
           /\ cimmswsp(w) \in StoreOffset /\ cimmsdsp(w) \in StoreOffset
           /\ cimmsqsp(w) \in StoreOffset
           /\ cimmsh6(w) \in ShiftAmount
<1>1. cimmi(w) \in SignedTwelve
  BY ShortFields DEF cimmi, SignedTwelve
<1>2. cimm16sp(w) \in SignedTwelve
  BY ShortFields DEF cimm16sp, SignedTwelve
<1>3. cimm4spn(w) \in StoreOffset
  BY ShortFields DEF cimm4spn, StoreOffset
<1>4. cimmw(w) \in StoreOffset
  BY ShortFields DEF cimmw, StoreOffset
<1>5. cimmd(w) \in StoreOffset
  BY ShortFields DEF cimmd, StoreOffset
<1>6. cimmq(w) \in StoreOffset
  BY ShortFields DEF cimmq, StoreOffset
<1>7. cimmlwsp(w) \in StoreOffset
  BY ShortFields DEF cimmlwsp, StoreOffset
<1>8. cimmldsp(w) \in StoreOffset
  BY ShortFields DEF cimmldsp, StoreOffset
<1>9. cimmlqsp(w) \in StoreOffset
  BY ShortFields DEF cimmlqsp, StoreOffset
<1>10. cimmswsp(w) \in StoreOffset
  BY ShortFields DEF cimmswsp, StoreOffset
<1>11. cimmsdsp(w) \in StoreOffset
  BY ShortFields DEF cimmsdsp, StoreOffset
<1>12. cimmsqsp(w) \in StoreOffset
  BY ShortFields DEF cimmsqsp, StoreOffset
<1>13. cimmsh6(w) \in ShiftAmount
  BY ShortFields DEF cimmsh6, ShiftAmount
<1> QED BY <1>1, <1>2, <1>3, <1>4, <1>5, <1>6, <1>7, <1>8, <1>9, <1>10, <1>11, <1>12, <1>13

LEMMA CompressedBranchOffset ==
    ASSUME NEW w \in InstructionWord
    PROVE  \E a \in 0 .. 15, h \in 0 .. 63, s \in 0 .. 1 : cimmb(w) = BranchDistance(a, h, s)
<1> DEFINE s == Bit(w, 12)
           a == Field(w, 4, 3) + 4 * Field(w, 11, 10)
           h == Bit(w, 2) + 2 * Field(w, 6, 5) + 56 * s
<1>1. a \in 0 .. 15 /\ h \in 0 .. 63 /\ s \in 0 .. 1
  BY ShortFields
<1>2. cimmb(w) = BranchDistance(a, h, s)
  BY ShortFields DEF cimmb, BranchDistance
<1> HIDE DEF a, h, s
<1> QED BY <1>1, <1>2

LEMMA CompressedJumpOffset ==
    ASSUME NEW w \in InstructionWord
    PROVE  \E p \in 0 .. 1023, s \in 0 .. 1 : cimmj(w) = JumpDistance(p, s)
<1> DEFINE s == Bit(w, 12)
           p == Field(w, 5, 3) + 8 * Bit(w, 11) + 16 * Bit(w, 2) + 32 * Bit(w, 7)
                + 64 * Bit(w, 6) + 128 * Field(w, 10, 9) + 512 * Bit(w, 8)
<1>1. p \in 0 .. 1023 /\ s \in 0 .. 1
  BY ShortFields
<1>2. cimmj(w) = JumpDistance(p, s)
  BY ShortFields DEF cimmj, JumpDistance
<1> HIDE DEF p, s
<1> QED BY <1>1, <1>2

LEMMA CompressedUpper ==
    ASSUME NEW w \in InstructionWord
    PROVE  \E q \in 0 .. 31, s \in 0 .. 1 : cimmui(w) = UpperValue(q, s)
<1> DEFINE s == Bit(w, 12)
           q == Field(w, 6, 2)
<1>1. q \in 0 .. 31 /\ s \in 0 .. 1
  BY ShortFields
<1>2. cimmui(w) = UpperValue(q, s)
  BY ShortFields DEF cimmui, UpperValue
<1> QED BY <1>1, <1>2

(* The compressed codecs by what they read.                                *)
ImmediateCodecs ==
    {"ci_none", "ci", "ci_li", "cb_imm", "ci_16sp", "ciw_4spn", "cl_lw", "cl_ld", "cl_lq",
     "ci_lwsp", "ci_ldsp", "ci_lqsp", "cr_jr", "cr_mv", "cr_jalr"}
StoreCodecs == {"cs_sw", "cs_sd", "cs_sq", "css_swsp", "css_sdsp", "css_sqsp"}

LEMMA CodecsRead ==
    ASSUME NEW w \in InstructionWord, NEW c
    PROVE  /\ c \in ImmediateCodecs => Rs2(c, w) = 0 /\ Imm(c, w) \in SignedTwelve
           /\ c \in StoreCodecs => Rd(c, w) = 0 /\ Imm(c, w) \in StoreOffset
           /\ c \in {"cb_sh6", "ci_sh6"} => Rs2(c, w) = 0 /\ Imm(c, w) \in ShiftAmount
           /\ c \in {"cs", "cr"} => Imm(c, w) = 0
           /\ c = "cb" => Rd(c, w) = 0 /\ Rs2(c, w) = 0 /\ Imm(c, w) = cimmb(w)
           /\ c \in {"cj", "cj_jal"} => Rs1(c, w) = 0 /\ Rs2(c,
                                                             w) = 0 /\ Imm(c, w) = cimmj(w)
           /\ c = "ci_lui" => Rs1(c, w) = 0 /\ Rs2(c, w) = 0 /\ Imm(c, w) = cimmui(w)
           /\ c = "ci_none" => /\ Rd(c, w) = 0 /\ Rs1(c, w) = 0
                               /\ Rs2(c, w) = 0 /\ Imm(c, w) = 0
<1>1. StoreOffset \subseteq SignedTwelve /\ 0 \in SignedTwelve
  BY SMT DEF StoreOffset, SignedTwelve
<1>2. ASSUME c \in ImmediateCodecs PROVE Rs2(c, w) = 0 /\ Imm(c, w) \in SignedTwelve
  <2>1. Rs2(c, w) = 0
    BY <1>2 DEF ImmediateCodecs, Rs2, x0
  <2>2. \/ c \in {"ci_none", "cr_jr", "cr_mv", "cr_jalr"} /\ Imm(c, w) = 0
        \/ c \in {"cb_imm", "ci", "ci_li"} /\ Imm(c, w) = cimmi(w)
        \/ c = "ci_16sp" /\ Imm(c, w) = cimm16sp(w)
        \/ c = "ciw_4spn" /\ Imm(c, w) = cimm4spn(w)
        \/ c = "cl_lw" /\ Imm(c, w) = cimmw(w)
        \/ c = "cl_ld" /\ Imm(c, w) = cimmd(w)
        \/ c = "cl_lq" /\ Imm(c, w) = cimmq(w)
        \/ c = "ci_lwsp" /\ Imm(c, w) = cimmlwsp(w)
        \/ c = "ci_ldsp" /\ Imm(c, w) = cimmldsp(w)
        \/ c = "ci_lqsp" /\ Imm(c, w) = cimmlqsp(w)
    BY <1>2 DEF ImmediateCodecs, Imm
  <2> QED BY <1>1, <2>1, <2>2, CompressedOffsets
<1>3. ASSUME c \in StoreCodecs PROVE Rd(c, w) = 0 /\ Imm(c, w) \in StoreOffset
  <2>1. Rd(c, w) = 0
    BY <1>3 DEF StoreCodecs, Rd, x0
  <2>2. Imm(c, w) \in {cimmw(w), cimmd(w), cimmq(w), cimmswsp(w), cimmsdsp(w), cimmsqsp(w)}
    BY <1>3 DEF StoreCodecs, Imm
  <2> QED BY <2>1, <2>2, CompressedOffsets
<1>4. ASSUME c \in {"cb_sh6", "ci_sh6"} PROVE Rs2(c, w) = 0 /\ Imm(c, w) \in ShiftAmount
  <2>1. Rs2(c, w) = 0 /\ Imm(c, w) = cimmsh6(w)
    BY <1>4 DEF Rs2, Imm, x0
  <2> QED BY <2>1, CompressedOffsets
<1>5. c \in {"cs", "cr"} => Imm(c, w) = 0
  BY DEF Imm
<1>6. c = "cb" => Rd(c, w) = 0 /\ Rs2(c, w) = 0 /\ Imm(c, w) = cimmb(w)
  BY DEF Rd, Rs2, Imm, x0
<1>7. c \in {"cj", "cj_jal"} => Rs1(c, w) = 0 /\ Rs2(c, w) = 0 /\ Imm(c, w) = cimmj(w)
  BY DEF Rs1, Rs2, Imm, x0
<1>8. c = "ci_lui" => Rs1(c, w) = 0 /\ Rs2(c, w) = 0 /\ Imm(c, w) = cimmui(w)
  BY DEF Rs1, Rs2, Imm, x0
<1>9. c = "ci_none" => /\ Rd(c, w) = 0 /\ Rs1(c, w) = 0
                       /\ Rs2(c, w) = 0 /\ Imm(c, w) = 0
  BY DEF Rd, Rs1, Rs2, Imm, x0
<1> QED BY <1>2, <1>3, <1>4, <1>5, <1>6, <1>7, <1>8, <1>9

(* What a compressed operation stands for, and how its operands are found. *)
LEMMA KindOf ==
    ASSUME NEW op \in DOMAIN expansion
    PROVE  LET n == expansion[op].op
               c == opcode_data[op].codec
           IN  \/ n \in PlainImmediates /\ c \in ImmediateCodecs
               \/ n \in {"slli", "srli", "srai"} /\ c \in {"cb_sh6", "ci_sh6"}
               \/ n \in {"sw", "sd", "sq", "fsw", "fsd"} /\ c \in StoreCodecs
               \/ n \in PlainRegisterOps /\ c \in {"cs", "cr"}
               \/ n \in {"beq", "bne"} /\ c = "cb"
               \/ n = "jal" /\ c \in {"cj", "cj_jal"}
               \/ n = "lui" /\ c = "ci_lui"
               \/ n = "ebreak" /\ c = "ci_none"
<1> DEFINE Immediates == {"c_addi4spn", "c_nop", "c_addi", "c_li", "c_addi16sp", "c_mv",
                          "c_andi", "c_addiw", "c_jr", "c_jalr"}
           Loads == {"c_fld", "c_lw", "c_flw", "c_ld", "c_lq", "c_fldsp", "c_lwsp",
                     "c_flwsp", "c_ldsp", "c_lqsp"}
           Stores == {"c_fsd", "c_sw", "c_fsw", "c_sd", "c_sq", "c_fsdsp", "c_swsp",
                      "c_fswsp", "c_sdsp", "c_sqsp"}
           Registers == {"c_sub", "c_xor", "c_or", "c_and", "c_subw", "c_addw", "c_add"}
           Shifts == {"c_srli", "c_srai", "c_slli"}
<1>1. op \in Immediates \union Loads \union Stores \union Registers \union Shifts
              \union {"c_beqz", "c_bnez", "c_jal", "c_j", "c_lui", "c_ebreak"}
  BY DEF expansion
<1>2. ASSUME op \in Immediates
      PROVE  /\ expansion[op].op \in PlainImmediates
             /\ opcode_data[op].codec \in ImmediateCodecs
  <2>1. expansion[op].op \in {"addi", "andi", "addiw", "jalr"}
    BY <1>2 DEF expansion, Expansion
  <2>2. opcode_data[op].codec \in {"ciw_4spn", "ci_none", "ci", "ci_li", "ci_16sp", "cr_mv",
                                   "cb_imm", "cr_jr", "cr_jalr"}
    BY <1>2, CompressedCodecOf
  <2> QED BY <2>1, <2>2 DEF PlainImmediates, ImmediateCodecs
<1>3. ASSUME op \in Loads
      PROVE  /\ expansion[op].op \in PlainImmediates
             /\ opcode_data[op].codec \in ImmediateCodecs
  <2>1. expansion[op].op \in {"lw", "ld", "lq", "flw", "fld"}
    BY <1>3 DEF expansion, Expansion
  <2>2. opcode_data[op].codec \in {"cl_lw", "cl_ld", "cl_lq", "ci_lwsp", "ci_ldsp",
                                   "ci_lqsp"}
    BY <1>3, CompressedCodecOf
  <2> QED BY <2>1, <2>2 DEF PlainImmediates, ImmediateCodecs
<1>4. ASSUME op \in Stores
      PROVE  /\ expansion[op].op \in {"sw", "sd", "sq", "fsw", "fsd"}
             /\ opcode_data[op].codec \in StoreCodecs
  <2>1. expansion[op].op \in {"sw", "sd", "sq", "fsw", "fsd"}
    BY <1>4 DEF expansion, Expansion
  <2>2. opcode_data[op].codec \in StoreCodecs
    BY <1>4, CompressedCodecOf DEF StoreCodecs
  <2> QED BY <2>1, <2>2
<1>5. ASSUME op \in Registers
      PROVE  expansion[op].op \in PlainRegisterOps /\ opcode_data[op].codec \in {"cs", "cr"}
  <2>1. expansion[op].op \in PlainRegisterOps
    BY <1>5 DEF expansion, Expansion, PlainRegisterOps
  <2>2. opcode_data[op].codec \in {"cs", "cr"}
    BY <1>5, CompressedCodecOf
  <2> QED BY <2>1, <2>2
<1>6. ASSUME op \in Shifts
      PROVE  /\ expansion[op].op \in {"slli", "srli", "srai"}
             /\ opcode_data[op].codec \in {"cb_sh6", "ci_sh6"}
  <2>1. expansion[op].op \in {"slli", "srli", "srai"}
    BY <1>6 DEF expansion, Expansion
  <2>2. opcode_data[op].codec \in {"cb_sh6", "ci_sh6"}
    BY <1>6, CompressedCodecOf
  <2> QED BY <2>1, <2>2
<1>7. ASSUME op \in {"c_beqz", "c_bnez"}
      PROVE  expansion[op].op \in {"beq", "bne"} /\ opcode_data[op].codec = "cb"
  BY <1>7, CompressedCodecOf DEF expansion, Expansion
<1>8. ASSUME op \in {"c_jal", "c_j"}
      PROVE  expansion[op].op = "jal" /\ opcode_data[op].codec \in {"cj", "cj_jal"}
  BY <1>8, CompressedCodecOf DEF expansion, Expansion
<1>9. ASSUME op = "c_lui"
      PROVE  expansion[op].op = "lui" /\ opcode_data[op].codec = "ci_lui"
  BY <1>9, CompressedCodecOf DEF expansion, Expansion
<1>10. ASSUME op = "c_ebreak"
       PROVE  expansion[op].op = "ebreak" /\ opcode_data[op].codec = "ci_none"
  BY <1>10, CompressedCodecOf DEF expansion, Expansion
<1> HIDE DEF Immediates, Loads, Stores, Registers, Shifts
<1> QED BY <1>1, <1>2, <1>3, <1>4, <1>5, <1>6, <1>7, <1>8, <1>9, <1>10

LEMMA CompressedCodecsArePlain ==
    ASSUME NEW op \in DOMAIN expansion
    PROVE  PlainCodec(opcode_data[op].codec)
BY KindOf DEF PlainCodec, ImmediateCodecs, StoreCodecs

(* A compressed word that stands for something: the record after the       *)
(* expansion.                                                              *)
LEMMA CompressedIs ==
    ASSUME NEW w \in InstructionWord, NEW i \in rv_isa, Field(w, 1, 0) # 3,
           Expanded(i, w).op # "illegal"
    PROVE  LET op == decode_inst_opcode(i, w)
               c == opcode_data[op].codec
           IN  /\ op \in DOMAIN expansion
               /\ Expanded(i, w) = Instruction(expansion[op].op, Rd(c, w), Rs1(c, w),
                                               Rs2(c, w), Imm(c, w))
<1> DEFINE op == decode_inst_opcode(i, w)
           c == opcode_data[op].codec
           d == WithOperands(i, w)
           named == expansion[op].op
           renamed == RenamedTo(d, named)
           none == [d EXCEPT !.op = "illegal"]
<1>1. Expanded(i, w) = decompress_inst(i, d)
  BY DEF Expanded, WithOperands, Decoded
<1>2. DecodeOK(d) /\ d.op = op
  BY OperandsAre
<1>3. decompress_inst(i, d) =
        IF op \notin Compressed \/ i \notin expansion[op].isas THEN d
        ELSE IF op \in rvcd_imm_nz /\ d.imm = 0 THEN none ELSE renamed
  BY <1>2 DEF decompress_inst, RenamedTo
<1>4. none.op = "illegal"
  BY <1>2 DEF DecodeOK
<1>5. op = "illegal" \/ (op \in DOMAIN expansion /\ i \in expansion[op].isas)
  <2>1. Field(w, 1, 0) \in 0 .. 3
    BY LowFieldsAre
  <2>2. op \in {Quadrant0(i, w), Quadrant1(i, w), Quadrant2(i, w)}
    BY <2>1 DEF decode_inst_opcode
  <2> HIDE DEF op
  <2> QED BY <2>2, CompressedQuadrants, Zenon
<1>6. op # "illegal"
  <2>1. ASSUME op = "illegal" PROVE FALSE
    <3>1. "illegal" \in WholeOps
      BY IllegalIsInteger DEF WholeOps
    <3>2. op \notin Compressed
      BY <2>1, <3>1, WholeOpsAre
    <3>3. Expanded(i, w) = d
      BY <1>1, <1>3, <3>2
    <3> QED BY <1>2, <2>1, <3>3
  <2> QED BY <2>1
<1>7. op \in DOMAIN expansion /\ i \in expansion[op].isas
  BY <1>5, <1>6
<1>8. op \in Compressed
  BY <1>7, CompressedCodecOf
<1> HIDE DEF d, named, renamed, none, op
<1>9. Expanded(i, w) = renamed
  BY <1>1, <1>3, <1>4, <1>7, <1>8
<1>10. PlainCodec(c)
  BY <1>7, CompressedCodecsArePlain
<1>11. d = Instruction(op, Rd(c, w), Rs1(c, w), Rs2(c, w), Imm(c, w))
  BY <1>10, PlainOperands DEF d, op
<1>12. renamed = Instruction(named, Rd(c, w), Rs1(c, w), Rs2(c, w), Imm(c, w))
  <2> DEFINE rd == Rd(c, w)
             rs1 == Rs1(c, w)
             rs2 == Rs2(c, w)
             imm == Imm(c, w)
  <2>1. d = Instruction(op, rd, rs1, rs2, imm)
    BY <1>11
  <2> HIDE DEF rd, rs1, rs2, imm
  <2>2. renamed = Instruction(named, rd, rs1, rs2, imm)
    BY <2>1, RenamedInstruction DEF renamed
  <2> QED BY <2>2 DEF rd, rs1, rs2, imm
<1> QED BY <1>7, <1>9, <1>12 DEF op, named

LEMMA ExpansionsReadBack ==
    ASSUME NEW w \in InstructionWord, NEW i \in rv_isa, Field(w, 1, 0) # 3,
           NEW d, d = Expanded(i, w), d.op # "illegal"
    PROVE  Expanded(i, Written(d)) = d
<1> DEFINE op == decode_inst_opcode(i, w)
           n == expansion[op].op
           c == opcode_data[op].codec
           rd == Rd(c, w)
           rs1 == Rs1(c, w)
           rs2 == Rs2(c, w)
           imm == Imm(c, w)
<1>1. op \in DOMAIN expansion /\ d = Instruction(n, rd, rs1, rs2, imm)
  BY CompressedIs
<1>2. rd \in Register /\ rs1 \in Register /\ rs2 \in Register
  BY OperandRanges
<1>3. /\ c \in ImmediateCodecs => rs2 = 0 /\ imm \in SignedTwelve
      /\ c \in StoreCodecs => rd = 0 /\ imm \in StoreOffset
      /\ c \in {"cb_sh6", "ci_sh6"} => rs2 = 0 /\ imm \in ShiftAmount
      /\ c \in {"cs", "cr"} => imm = 0
      /\ c = "cb" => rd = 0 /\ rs2 = 0 /\ imm = cimmb(w)
      /\ c \in {"cj", "cj_jal"} => rs1 = 0 /\ rs2 = 0 /\ imm = cimmj(w)
      /\ c = "ci_lui" => rs1 = 0 /\ rs2 = 0 /\ imm = cimmui(w)
      /\ c = "ci_none" => rd = 0 /\ rs1 = 0 /\ rs2 = 0 /\ imm = 0
  BY CodecsRead
<1>4. \/ n \in PlainImmediates /\ c \in ImmediateCodecs
      \/ n \in {"slli", "srli", "srai"} /\ c \in {"cb_sh6", "ci_sh6"}
      \/ n \in {"sw", "sd", "sq", "fsw", "fsd"} /\ c \in StoreCodecs
      \/ n \in PlainRegisterOps /\ c \in {"cs", "cr"}
      \/ n \in {"beq", "bne"} /\ c = "cb"
      \/ n = "jal" /\ c \in {"cj", "cj_jal"}
      \/ n = "lui" /\ c = "ci_lui"
      \/ n = "ebreak" /\ c = "ci_none"
  BY <1>1, KindOf
<1> HIDE DEF n, c, op, rd, rs1, rs2, imm
<1>5. CASE n \in PlainImmediates /\ c \in ImmediateCodecs
  BY <1>1, <1>2, <1>3, <1>5, ImmediatesWritten
<1>6. CASE n \in {"slli", "srli", "srai"} /\ c \in {"cb_sh6", "ci_sh6"}
  BY <1>1, <1>2, <1>3, <1>6, ShiftsWritten
<1>7. CASE n \in {"sw", "sd", "sq", "fsw", "fsd"} /\ c \in StoreCodecs
  BY <1>1, <1>2, <1>3, <1>7, StoresWritten
<1>8. CASE n \in PlainRegisterOps /\ c \in {"cs", "cr"}
  BY <1>1, <1>2, <1>3, <1>8, RegistersWritten
<1>9. CASE n \in {"beq", "bne"} /\ c = "cb"
  <2>1. \E a \in 0 .. 15, h \in 0 .. 63, s \in 0 .. 1 : imm = BranchDistance(a, h, s)
    BY <1>3, <1>9, CompressedBranchOffset
  <2>2. d = Instruction(n, 0, rs1, rs2, imm)
    BY <1>1, <1>3, <1>9
  <2> QED BY <1>2, <1>9, <2>1, <2>2, BranchesWritten
<1>10. CASE n = "jal" /\ c \in {"cj", "cj_jal"}
  <2>1. PICK p \in 0 .. 1023, s \in 0 .. 1 : imm = JumpDistance(p, s)
    BY <1>3, <1>10, CompressedJumpOffset
  <2> QED BY <1>1, <1>2, <1>3, <1>10, <2>1, JumpsWritten
<1>11. CASE n = "lui" /\ c = "ci_lui"
  <2>1. PICK q \in 0 .. 31, s \in 0 .. 1 : imm = UpperValue(q, s)
    BY <1>3, <1>11, CompressedUpper
  <2> QED BY <1>1, <1>2, <1>3, <1>11, <2>1, UpperWritten
<1>12. CASE n = "ebreak" /\ c = "ci_none"
  BY <1>1, <1>3, <1>12, BreakWritten
<1> QED BY <1>4, <1>5, <1>6, <1>7, <1>8, <1>9, <1>10, <1>11, <1>12

(* For every compressed word that is an instruction: what it is expanded   *)
(* to (decompress_inst renames the operation, and keeps the operands the   *)
(* compressed codec found), written as a 32-bit word by the formats of the *)
(* manual and passed in again, comes out as the same operation, registers  *)
(* and immediate.                                                          *)
THEOREM ExpansionsAreInstructions == Spec => []ExpandsToItself
<1>1. PassesInv => ExpandsToItself
  BY ExpansionsReadBack DEF PassesInv, ExpandsToItself
<1> QED BY <1>1, Passes, PTL
=============================================================================
