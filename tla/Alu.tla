-------------------------------- MODULE Alu ---------------------------------
(***************************************************************************)
(* The arithmetic unit (alu.sv), a combinational function of two words and *)
(* an operation code, for words of any width that is a power of two.       *)
(***************************************************************************)
EXTENDS Integers, Sequences, FiniteSetsExt, SequencesExt

CONSTANTS
    Width,              \* bits of a word: 32 in the code
    ShiftBits           \* bits of a shift amount: 5 in the code

ASSUME WidthAssumption ==
    /\ ShiftBits \in Nat
    /\ Width \in Nat \ {0}
    /\ Width = 2 ^ ShiftBits

(* What a power of two is, for the proofs: the provers know no powers.     *)
ASSUME PowerAssumption ==
    \A k \in 0 .. Width - 1 : 2 ^ k \in Nat \ {0} /\ 2 ^ (k + 1) = 2 * 2 ^ k

Modulus == 2 ^ Width
Word == 0 .. Modulus - 1

BitOf(word, k) == (word \div 2 ^ k) % 2

(* The word whose bit k is bits[k]. *)
Assemble(bits) == MapThenSumSet(LAMBDA k : bits[k] * 2 ^ k, DOMAIN bits)

SignBit(word) == BitOf(word, Width - 1)
Signed(word) == word - SignBit(word) * Modulus

StageZeroFill(shifted, k, A) ==     \* mutant: the fill bits are forgotten
    shifted \div 2 ^ (2 ^ k)

(* The arithmetic right shift: one stage per bit of the shift amount, each *)
(* moving by a power of two and filling with the sign of the operand.      *)
Stage(shifted, k, A) ==
    shifted \div 2 ^ (2 ^ k) + SignBit(A) * (Modulus - 2 ^ (Width - 2 ^ k))

BarrelShift(A, shamt) ==
    FoldLeft(LAMBDA shifted, k : IF BitOf(shamt, k) = 1 THEN Stage(shifted, k, A)
                                                        ELSE shifted,
             A, [n \in 1 .. ShiftBits |-> n - 1])

Truth(condition) == IF condition THEN 1 ELSE 0

SignedLessByDifference(A, B) ==     \* mutant: the sign of a difference that may overflow
    SignBit((A - B) % Modulus)

SignedLess(A, B) == Truth(Signed(A) < Signed(B))

(* mulhs, mulhu: the upper half of the double-width product.               *)
UpperHalf(product) == (product \div Modulus) % Modulus

R(op, A, B) ==
    LET shamt == B % 2 ^ ShiftBits
        bits == 0 .. Width - 1
    IN CASE op = 0  -> Assemble([k \in bits |-> BitOf(A, k) * BitOf(B, k)])
         [] op = 1  -> Assemble([k \in bits |-> Truth(1 \in {BitOf(A, k), BitOf(B, k)})])
         [] op = 2  -> Assemble([k \in bits |-> Truth(BitOf(A, k) # BitOf(B, k))])
         [] op = 3  -> (A + B) % Modulus
         [] op = 4  -> (A - B) % Modulus
         [] op = 5  -> (Signed(A) * Signed(B)) % Modulus
         [] op = 6  -> UpperHalf(Signed(A) * Signed(B))
         [] op = 7  -> UpperHalf(A * B)
         [] op = 8  -> (A * 2 ^ shamt) % Modulus
         [] op = 9  -> A \div 2 ^ shamt
         [] op \in {10, 11} -> BarrelShift(A, shamt)
         [] op = 12 -> SignedLess(A, B)
         [] op \in 13 .. 15 -> Truth(A < B)

zero(op, A, B) == Truth(R(op, A, B) = 0)
=============================================================================
