------------------------------ MODULE Decoder -------------------------------
(***************************************************************************)
(* How the bits of an instruction word become the fields the processor     *)
(* computes with: the slices of decoder.sv, and the sign extensions and    *)
(* word offsets the wires of cpu.sv make of them.                          *)
(*                                                                         *)
(* The fields have no state: the module is looked at with a word in place  *)
(* of the variable (ProcessorView.tla).                                    *)
(***************************************************************************)
EXTENDS Words

VARIABLE instruction

-----------------------------------------------------------------------------
(* A bit vector is its width and its value in two's complement; Vector     *)
(* takes the low bits of a number.                                         *)
Vector(width, n) ==
    LET low == n % 2 ^ width
    IN  [width |-> width, value |-> IF low < 2 ^ (width - 1) THEN low ELSE low - 2 ^ width]

Unsigned(v) == v.value % 2 ^ v.width

(* instruction[hi:lo], v[hi:lo], {n{bit}}, n'b0 and {u, v}.                *)
Bits(hi, lo) == Vector(hi - lo + 1, Field(instruction, hi, lo))
Slice(v, hi, lo) == Vector(hi - lo + 1, v.value \div 2 ^ lo)
Replicate(n, bit) == [width |-> n, value |-> bit.value]
Zeros(n) == [width |-> n, value |-> 0]
u ++ v == [width |-> u.width + v.width, value |-> u.value * 2 ^ v.width + Unsigned(v)]

opcode == Bits(6, 0)
rd == Bits(11, 7)
funct3 == Bits(14, 12)
rs1 == Bits(19, 15)
rs2 == Bits(24, 20)
funct7 == Bits(31, 25)
imm12 == Bits(31, 20)
imm20 == Bits(31, 12)
csr == Bits(31, 20)

branch_offsetSwapped ==             \* mutant: bits 7 and 30 in the order of jal
    Bits(31, 31) ++ Bits(30, 25) ++ Bits(7, 7) ++ Bits(11, 8) ++ Zeros(1)

branch_offset == Bits(31, 31) ++ Bits(7, 7) ++ Bits(30, 25) ++ Bits(11, 8) ++ Zeros(1)
jal_offset == Bits(31, 31) ++ Bits(19, 12) ++ Bits(20, 20) ++ Bits(30, 21) ++ Zeros(1)
jalr_offset == Bits(31, 20)

(* The byte offsets as the 12-bit word offsets that are added to PC_EX and *)
(* readdata1.                                                              *)
branch_words == Slice(branch_offset, 12, 12) ++ Slice(branch_offset, 12, 2)
jal_words == Slice(jal_offset, 13, 2)
jalr_words == Replicate(2, Slice(jalr_offset, 11, 11)) ++ Slice(jalr_offset, 11, 2)

imm12ZeroExtended == Zeros(20) ++ imm12             \* mutant: no sign

imm12_32 == Replicate(20, Slice(imm12, 11, 11)) ++ imm12
imm20_SL == imm20 ++ Zeros(12)

-----------------------------------------------------------------------------
(* The numbers the encodings stand for, part by part as they are tabulated *)
(* (2021F_lab_jb/README.md:205-270): imm[12], imm[11], imm[10:5], imm[4:1] *)
(* of a branch, and so on.  The top part is the sign.                      *)
Part(hi, lo) == Field(instruction, hi, lo)

BOffset == 2 * Part(11, 8) + 32 * Part(30, 25) + 2048 * Part(7, 7) - 4096 * Part(31, 31)
JOffset ==
    2 * Part(30, 21) + 2048 * Part(20, 20) + 4096 * Part(19, 12) - 1048576 * Part(31, 31)
IImmediate == Part(30, 20) - 2048 * Part(31, 31)
UImmediate == (Part(30, 12) - 524288 * Part(31, 31)) * 4096

(* Jumps go where their encodings say: each word offset is the byte offset *)
(* divided by 4, forwards and backwards, modulo the 4096 words there are.  *)
OffsetsInWords ==
    /\ Unsigned(branch_words) = (BOffset \div 4) % 4096
    /\ Unsigned(jal_words) = (JOffset \div 4) % 4096
    /\ Unsigned(jalr_words) = (IImmediate \div 4) % 4096

(* Widening keeps the value of an immediate: the 32-bit operand of an      *)
(* I-type instruction is the signed 12-bit one, and lui's is the 20-bit    *)
(* one shifted, with nothing in the bits below.                            *)
ImmediatesWidened ==
    /\ imm12_32 = [width |-> 32, value |-> IImmediate]
    /\ imm20_SL = [width |-> 32, value |-> UImmediate]
=============================================================================
