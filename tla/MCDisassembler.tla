--------------------------- MODULE MCDisassembler ---------------------------
(***************************************************************************)
(* Words to disassemble.  A word with few ones, or few zeros, among its    *)
(* operand bits shows every bit that is dropped, moved or confused with    *)
(* another; lists of chosen field values reach every leaf of the opcode    *)
(* tree and every constraint of a pseudo-instruction.                      *)
(***************************************************************************)
EXTENDS ProcessorView, SequencesExt

CONSTANTS
    MaxOnes,            \* bound: ones anywhere in a word
    MaxOdd              \* bound: bits that differ from the others in a compressed word

ASSUME BoundsAssumption == MaxOnes \in 1 .. 3 /\ MaxOdd \in 1 .. 11

(* The words that differ from one in W in at most max of the given bits.   *)
Near(W, bits, max) ==
    FoldLeft(LAMBDA F, n : F \union {Flipped(w, k) : w \in F, k \in bits}, W,
             [n \in 1 .. max |-> n])

Sparse == Near({[hi |-> 0, lo |-> 0]}, 0 .. 31, MaxOnes)

(* Compressed: every quadrant and funct3, with few or nearly all of the    *)
(* eleven bits in between.                                                 *)
CompressedWords ==
    Near({[hi |-> 0, lo |-> quadrant + 8192 * f3 + middle] :
            quadrant \in 0 .. 2, f3 \in 0 .. 7, middle \in {0, 8188}}, 2 .. 12, MaxOdd)

(* 32-bit: every major opcode and funct3, with at most one odd operand bit.*)
FewOperands ==
    Near({[hi |-> ones * 65535, lo |-> 3 + 4 * major + 4096 * f3 + ones * 36736] :
            major \in 0 .. 31, f3 \in 0 .. 7, ones \in {0, 1}}, (7 .. 11) \union (15 .. 31), 1)

(* Chosen values of the fields of the register format. *)
RegisterWords(majors, f3s, f7s, rs2s, rs1s, rds) ==
    {Assembled(3 + 4 * major, rd, f3, rs1, 32 * f7 + rs2) :
        major \in majors, f3 \in f3s, f7 \in f7s, rs2 \in rs2s, rs1 \in rs1s, rd \in rds}

ImmediateWords(majors, imms, rs1s, rds) ==
    {Assembled(3 + 4 * major, rd, f3, rs1, imm) :
        major \in majors, f3 \in 0 .. 7, imm \in imms, rs1 \in rs1s, rd \in rds}

Chosen ==
    RegisterWords({20}, {0, 1, 2, 7}, 0 .. 127, 0 .. 4, {3}, {9})
    \union RegisterWords({16, 19}, {0, 5, 6}, {0, 1, 2, 3, 127}, {1}, {3}, {9})
    \union RegisterWords({11}, {1, 2, 3, 4}, {4 * n + 1 : n \in 0 .. 31}, {0, 1}, {3}, {9})
    \union RegisterWords({12, 14, 30}, 0 .. 7, {0, 1, 32}, {0, 3}, {0, 3}, {0, 9})
    \union RegisterWords({24}, 0 .. 7, {0, 65}, {0, 3}, {0, 3}, {8})
    \union ImmediateWords({4, 6, 25}, {0, 1, 4, 4095}, {0, 1, 3}, {0, 1, 9})
    \union ImmediateWords({28}, {0, 1, 2, 3, 256, 258, 260, 261, 288, 514, 770, 1970,
                                 3072, 3073, 3074, 3200, 3201, 3202, 3842}, {0, 3}, {0, 9})
    \union {Film}

MCCalls ==
    {<<"rv32", w>> : w \in Sparse \union FewOperands \union Chosen}
    \union {<<i, w>> : i \in rv_isa, w \in CompressedWords}
=============================================================================
