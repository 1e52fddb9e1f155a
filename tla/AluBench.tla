------------------------------ MODULE AluBench ------------------------------
(***************************************************************************)
(* The ALU in its test bench (lab_jb/testbench/alu_testtop.sv).  On each   *)
(* rising clock edge the bench puts the next vector on the inputs, on each *)
(* falling edge it compares R with the vector's expected value and counts. *)
(* The vectors here are all of them: every operation on every two words.   *)
(*                                                                         *)
(* The expected value comes from a second definition of the operations,    *)
(* which takes words as sets of bit numbers and has no barrel shifter, no  *)
(* signed product and no signed comparison.                                *)
(***************************************************************************)
EXTENDS Alu

VARIABLES
    clk,
    vecno,              \* the number of the next vector
    vector,             \* the one on the inputs: op, A, B
    okcount,
    errcount

vars == <<clk, vecno, vector, okcount, errcount>>

-----------------------------------------------------------------------------
Ones(word) == {k \in 0 .. Width - 1 : BitOf(word, k) = 1}
WordOf(ones) == MapThenSumSet(LAMBDA k : 2 ^ k, ones)
Positions == 0 .. Width - 1

(* The signed upper half of a product, from the unsigned one.              *)
SignedHigh(A, B) ==
    ((A * B) \div Modulus - SignBit(A) * B - SignBit(B) * A) % Modulus

Expected(v) ==
    LET a == Ones(v.A)
        b == Ones(v.B)
        shamt == v.B % Width
        right == {k \in Positions : k + shamt \in a}
        fill == IF Width - 1 \in a THEN Width - shamt .. Width - 1 ELSE {}
    IN CASE v.op = 0 -> WordOf(a \cap b)
         [] v.op = 1 -> WordOf(a \cup b)
         [] v.op = 2 -> WordOf((a \cup b) \ (a \cap b))
         [] v.op = 3 -> (v.A + v.B) % Modulus
         [] v.op = 4 -> (v.A + (Modulus - v.B)) % Modulus
         [] v.op = 5 -> (v.A * v.B) % Modulus
         [] v.op = 6 -> SignedHigh(v.A, v.B)
         [] v.op = 7 -> (v.A * v.B) \div Modulus
         [] v.op = 8 -> WordOf({k \in Positions : k - shamt \in a})
         [] v.op = 9 -> WordOf(right)
         [] v.op \in {10, 11} -> WordOf(right \cup fill)
         [] v.op = 12 -> IF SignBit(v.A) # SignBit(v.B) THEN SignBit(v.A)
                                                        ELSE Truth(v.A < v.B)
         [] v.op \in 13 .. 15 -> Truth(v.A < v.B)

(* Vector number n: op, A and B are its digits. *)
Vector(n) == [op |-> n \div (Modulus * Modulus),
              A |-> (n \div Modulus) % Modulus,
              B |-> n % Modulus]

Vectors == 16 * Modulus * Modulus

-----------------------------------------------------------------------------
Init ==
    /\ clk = 0
    /\ vecno = 0
    /\ vector = Vector(0)
    /\ okcount = 0
    /\ errcount = 0

Posedge ==
    /\ clk = 0
    /\ vecno < Vectors
    /\ clk' = 1
    /\ vector' = Vector(vecno)
    /\ UNCHANGED <<vecno, okcount, errcount>>

Negedge ==
    /\ clk = 1
    /\ clk' = 0
    /\ IF R(vector.op, vector.A, vector.B) = Expected(vector)
         THEN okcount' = okcount + 1 /\ UNCHANGED errcount
         ELSE errcount' = errcount + 1 /\ UNCHANGED okcount
    /\ vecno' = vecno + 1
    /\ UNCHANGED vector

Next == Posedge \/ Negedge

Spec == Init /\ [][Next]_vars

-----------------------------------------------------------------------------
(* No vector ever fails: the barrel shifter, the two halves of the signed  *)
(* product and the comparisons agree with their definitions on bits.       *)
NoErrors == errcount = 0

(* What the control unit takes a branch on: the difference is 0 exactly    *)
(* for equal words, and "less than" is 1 or 0 and orders any two different *)
(* words one way.                                                          *)
BranchesDecidable ==
    LET A == vector.A
        B == vector.B
    IN /\ zero(4, A, B) = 1 <=> A = B
       /\ \A less \in {12, 13} : R(less, A, B) + R(less, B, A) = Truth(A # B)
=============================================================================
