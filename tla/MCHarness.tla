----------------------------- MODULE MCHarness ------------------------------
(* The simulators around a small processor: two-bit words, four program    *)
(* words, two registers, two displays of one bit each, short ROM files.    *)
EXTENDS Harness

Arith == INSTANCE Alu WITH Width <- 2, ShiftBits <- 1

MCAlu(op, a, b) == Arith!R(op, a, b)

MCMem == {Zeros}

Make(opcode, funct3, rd, rs1, imm) ==
    [opcode |-> opcode, funct3 |-> funct3, funct7 |-> 0, csr |-> imm, rd |-> rd,
     rs1 |-> rs1, rs2 |-> 0, imm12 |-> imm % WordMod, imm20 |-> imm % WordMod,
     branch |-> imm % PcMod, jal |-> imm % PcMod, jalr |-> imm % PcMod]

addi == Make(C!OpImm, 0, 1, 1, 1)           \* addi x1, x1, 1
jal == Make(C!Jal, 0, 1, 0, 3)              \* jal x1, -1
show == Make(C!System, 1, 1, 1, C!HexCsr)   \* csrrw x1, io2, x1
read == Make(C!System, 1, 1, 0, 3840)       \* csrrw x1, io0, x0

L(kind, word) == [kind |-> kind, word |-> word, head |-> addi]

MCLines == {L("word", show), L("noted", addi), L("split", read), L("short", addi),
            L("junk", addi), L("comment", addi), L("blank", addi)}

(* Short files of any lines, and some that fill the memory.                *)
MCFiles ==
    UNION {[1 .. n -> MCLines] : n \in 1 .. 2} \cup
    {<<L("word", read), L("blank", read), L("word", show), L("word", addi), L("word", jal)>>,
     <<L("word", addi), L("word", show), L("word", addi), L("word", show), L("word", jal)>>}

(* What the memory can hold, before it is loaded as well as afterwards.    *)
MCPrograms == [0 .. 3 -> {addi, jal, show, read, ZeroInstruction}]
=============================================================================
