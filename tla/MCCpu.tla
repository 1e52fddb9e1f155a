------------------------------- MODULE MCCpu --------------------------------
(* Small processors for TLC: two-bit words, four instruction addresses,    *)
(* three registers, and every program over a small set of instructions.    *)
EXTENDS Cpu

Arith == INSTANCE Alu WITH Width <- 2, ShiftBits <- 1

MCAlu(op, a, b) == Arith!R(op, a, b)

MCMem == {[r \in Reg |-> 3]}

Make(opcode, funct3, rd, rs1, rs2, imm) ==
    [opcode |-> opcode, funct3 |-> funct3, funct7 |-> 0, csr |-> imm, rd |-> rd,
     rs1 |-> rs1, rs2 |-> rs2, imm12 |-> imm % WordMod, imm20 |-> imm % WordMod,
     branch |-> imm % PcMod, jal |-> imm % PcMod, jalr |-> imm % PcMod]

Everything(instructions) == [0 .. PcMod - 1 -> instructions]

(* Results that are still in flight when they are needed, and the CSRs.    *)
DataInstructions ==
    { Make(C!OpImm, 0, 1, 1, 0, 1),             \* addi x1, x1, 1
      Make(C!Op, 0, 2, 1, 2, 0),                \* add x2, x1, x2
      Make(C!OpImm, 0, 0, 1, 0, 3),             \* addi x0, x1, 3
      Make(C!Lui, 0, 1, 0, 0, 2),               \* lui x1
      Make(C!System, 1, 2, 0, 0, 3840),         \* csrrw x2, io0, x0
      Make(C!System, 1, 2, 0, 0, 291),          \* csrrw x2, 0x123, x0
      Make(C!System, 1, 1, 1, 0, C!HexCsr) }    \* csrrw x1, io2, x1

DataPrograms == Everything(DataInstructions)

(* Jumps, branches, links and what is fetched behind them.                 *)
JumpInstructions ==
    { Make(C!OpImm, 0, 1, 1, 0, 1),             \* addi x1, x1, 1
      Make(C!Jal, 0, 1, 0, 0, 2),               \* jal x1, +2
      Make(C!Jalr, 0, 2, 1, 0, 1),              \* jalr x2, 1(x1)
      Make(C!Branch, 0, 1, 1, 2, 3),            \* beq x1, x2, -1
      Make(C!Branch, 5, 2, 2, 1, 2),            \* bge x2, x1, +2
      Make(C!Branch, 2, 2, 2, 1, 2),            \* no such branch
      Make(C!System, 1, 1, 1, 0, C!HexCsr) }    \* csrrw x1, io2, x1

JumpPrograms == Everything(JumpInstructions)

DataOrJumpPrograms == DataPrograms \cup JumpPrograms
=============================================================================
