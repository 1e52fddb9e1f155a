-------------------------------- MODULE Isa ---------------------------------
(***************************************************************************)
(* What the processor promises to the program: one instruction after the   *)
(* other, each reading the registers as the one before left them.  No      *)
(* pipeline, no stall, no bypass.  Cpu.tla is shown to implement it.       *)
(*                                                                         *)
(* Two things of the implementation remain visible.  A reset forgets the   *)
(* result of the last instruction if it comes right behind it (prev), and  *)
(* a machine step may do nothing but settle that result (Settle).          *)
(***************************************************************************)
EXTENDS Encoding

CONSTANTS WordMod, PcMod, Reg, Alu(_, _, _), GpioIn, Programs, PowerOnMem

VARIABLES
    rom,                \* the program
    pc,                 \* address of the next instruction
    regs,               \* the registers as the program sees them
    prev,               \* the registers a reset would leave
    out,                \* what the HEX displays show
    rst_n               \* the reset key, 0 while it is pressed

vars == <<rom, pc, regs, prev, out, rst_n>>

Init ==
    /\ rom \in Programs
    /\ pc = 0
    /\ regs \in {[m EXCEPT ![0] = 0] : m \in PowerOnMem}
    /\ prev = regs
    /\ out = 0
    /\ rst_n = 0

-----------------------------------------------------------------------------
i == rom[pc]
A == regs[i.rs1]
B == regs[i.rs2]
Link == (pc + 1) % PcMod        \* addresses count words, so the link is pc + 1

(* Register rd becomes value and execution goes on at target. *)
Write(rd, value, target) ==
    /\ regs' = IF rd = 0 THEN regs ELSE [regs EXCEPT ![rd] = value]
    /\ prev' = regs
    /\ pc' = target
    /\ UNCHANGED <<rom, rst_n>>

ExecuteOp ==
    /\ i.opcode = Op
    /\ \E e \in Matching(RType, i) : Write(i.rd, Alu(e.aluop, A, B), Link)
    /\ UNCHANGED out

ExecuteOpImm ==
    /\ i.opcode = OpImm
    /\ \E e \in Matching(IType, i) : Write(i.rd, Alu(e.aluop, A, i.imm12), Link)
    /\ UNCHANGED out

ExecuteLui ==
    /\ i.opcode = Lui
    /\ Write(i.rd, i.imm20, Link)
    /\ UNCHANGED out

ExecuteJal ==
    /\ i.opcode = Jal
    /\ Write(i.rd, Link, (pc + i.jal) % PcMod)
    /\ UNCHANGED out

ExecuteJalr ==
    /\ i.opcode = Jalr
    /\ Write(i.rd, Link, (A + i.jalr) % PcMod)
    /\ UNCHANGED out

Less(a, b) == Alu(SLT, a, b) = 1
LessUnsigned(a, b) == Alu(SLTU, a, b) = 1

Condition ==
    \/ i.funct3 = 0 /\ A = B
    \/ i.funct3 = 1 /\ A # B
    \/ i.funct3 = 4 /\ Less(A, B)
    \/ i.funct3 = 5 /\ ~ Less(A, B)
    \/ i.funct3 = 6 /\ LessUnsigned(A, B)
    \/ i.funct3 = 7 /\ ~ LessUnsigned(A, B)

(* Taken or not, a branch leaves its link in the register that bits 11..7, *)
(* a part of its offset, happen to name.                                   *)
ExecuteBranch ==
    /\ i.opcode = Branch
    /\ IsBranch(i.funct3)
    /\ Write(i.rd, Link, IF Condition THEN (pc + i.branch) % PcMod ELSE Link)
    /\ UNCHANGED out

ExecuteCsrWrite ==
    /\ i.opcode = System
    /\ i.csr = HexCsr
    /\ out' = A
    /\ prev' = regs
    /\ pc' = Link
    /\ UNCHANGED <<rom, regs, rst_n>>

ExecuteCsrRead ==
    /\ i.opcode = System
    /\ i.csr # HexCsr
    /\ \E switches \in GpioIn : Write(i.rd, switches, Link)
    /\ UNCHANGED out

Known ==
    \/ i.opcode \in {Lui, Jal, Jalr, System}
    \/ i.opcode = Op /\ Matching(RType, i) # {}
    \/ i.opcode = OpImm /\ Matching(IType, i) # {}
    \/ i.opcode = Branch /\ IsBranch(i.funct3)

ExecuteUnknown ==
    /\ ~ Known
    /\ prev' = regs
    /\ pc' = Link
    /\ UNCHANGED <<rom, regs, out, rst_n>>

Execute ==
    /\ rst_n = 1
    /\ \/ ExecuteOp
       \/ ExecuteOpImm
       \/ ExecuteLui
       \/ ExecuteJal
       \/ ExecuteJalr
       \/ ExecuteBranch
       \/ ExecuteCsrWrite
       \/ ExecuteCsrRead
       \/ ExecuteUnknown

-----------------------------------------------------------------------------
Settle ==
    /\ rst_n = 1
    /\ prev' = regs
    /\ UNCHANGED <<rom, pc, regs, out, rst_n>>

Reset ==
    /\ rst_n = 0
    /\ pc' = 0
    /\ out' = 0
    /\ regs' = prev
    /\ UNCHANGED <<rom, prev, rst_n>>

Key ==
    /\ rst_n' = 1 - rst_n
    /\ UNCHANGED <<rom, pc, regs, prev, out>>

Next == Execute \/ Settle \/ Reset \/ Key

Spec == Init /\ [][Next]_vars
=============================================================================
