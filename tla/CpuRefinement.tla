--------------------------- MODULE CpuRefinement ----------------------------
(***************************************************************************)
(* The pipeline implements the sequential machine of Isa.tla, for every    *)
(* width, ALU, program and input, on a build in which an unspecified write *)
(* enable does not write (the simulators).                                 *)
(***************************************************************************)
EXTENDS CpuProofs

(* What a read port shows is the register as the program sees it: the      *)
(* bypass makes up for the value that has not been stored yet.             *)
LEMMA ReadSeesRegisters ==
    ASSUME PipelineInv, NEW r \in Reg
    PROVE  rf!Read(r) = Registers[r]
  BY DEF PipelineInv, TypeOK, ZeroRegister, rf!Read, Registers

(* The clock edge stores it. *)
LEMMA EdgeStoresRegisters ==
    ASSUME PipelineInv, rst_n = 1
    PROVE  rf!Edge = Registers
<1>1. mem \in [Reg -> Word] /\ rd_WB \in Reg /\ mem[0] = 0 /\ 0 \in Reg
  BY RegAssumption DEF PipelineInv, TypeOK, ZeroRegister
<1>2. rf!Edge = [r \in Reg |-> rf!Edge[r]]
  BY <1>1 DEF rf!Edge
<1>3. ASSUME NEW r \in Reg PROVE rf!Edge[r] = Registers[r]
  BY <1>1 DEF rf!Edge, Registers
<1>4. QED
  BY <1>2, <1>3 DEF Registers

(* One edge of normal operation, as the program sees it. *)
LEMMA RunEffect ==
    ASSUME PipelineInv, ClockRun
    PROVE  /\ mem' = Registers
           /\ Registers' = IF controls.regwrite = 1 /\ instruction_EX.rd # 0
                             THEN [Registers EXCEPT ![instruction_EX.rd] = writedata_WB']
                             ELSE Registers
           /\ NextInstruction' = IF controls.stall = 1 THEN nextPC ELSE PC_FETCH
           /\ inst_ram' = inst_ram
           /\ rst_n = 1 /\ rst_n' = 1
<1>1. mem' = Registers
  BY EdgeStoresRegisters DEF ClockRun
<1>2. Registers' = [r \in Reg |-> IF r = 0 THEN 0
                                  ELSE IF controls.regwrite = 1 /\ r = instruction_EX.rd
                                    THEN writedata_WB'
                                  ELSE Registers[r]]
  BY <1>1 DEF ClockRun, RunBack, Registers
<1>3. Registers[0] = 0 /\ Registers = [r \in Reg |-> Registers[r]]
  BY RegAssumption DEF Registers
<1>4. Registers' = IF controls.regwrite = 1 /\ instruction_EX.rd # 0
                     THEN [Registers EXCEPT ![instruction_EX.rd] = writedata_WB']
                     ELSE Registers
  BY <1>2, <1>3
<1>5. NextInstruction' = IF controls.stall = 1 THEN nextPC ELSE PC_FETCH
  BY DEF ClockRun, RunFront, NextInstruction
<1>6. QED
  BY <1>1, <1>4, <1>5 DEF ClockRun

(* An instruction takes effect, seen from both machines. *)
TakesEffect ==
    /\ PipelineInv
    /\ ClockRun
    /\ XResolves = {0}
    /\ stall_EX = 0
    /\ ~ bubble

LEMMA SameInstruction ==
    ASSUME TakesEffect
    PROVE  /\ Sequential!i = instruction_EX
           /\ instruction_EX \in Instruction
           /\ Sequential!A = readdata1
           /\ Sequential!B = readdata2
           /\ readdata1 \in Word /\ readdata2 \in Word
           /\ NextInstruction = PC_EX
           /\ PC_FETCH = Sequential!Link
           /\ PC_EX' = Sequential!Link
<1>1. instruction_EX \in Instruction /\ instruction_EX.rs1 \in Reg /\ instruction_EX.rs2 \in Reg
  BY DEF TakesEffect, PipelineInv, TypeOK, Instruction
<1>2. NextInstruction = PC_EX
  BY DEF TakesEffect, NextInstruction
<1>3. Sequential!i = instruction_EX
  BY <1>2 DEF TakesEffect, PipelineInv, SlotMatchesPc, Sequential!i
<1>4. PC_FETCH = Sequential!Link
  BY <1>2 DEF TakesEffect, PipelineInv, FetchFollowsSlot, Sequential!Link
<1>5. Sequential!A = readdata1 /\ Sequential!B = readdata2
  BY <1>1, <1>3, ReadSeesRegisters
     DEF TakesEffect, Sequential!A, Sequential!B, readdata1, readdata2
<1>6. readdata1 \in Word /\ readdata2 \in Word
  BY <1>1, ReadType DEF TakesEffect, PipelineInv, readdata1, readdata2
<1>7. PC_EX' = PC_FETCH
  BY DEF TakesEffect, ClockRun, RunFront
<1>8. QED
  BY <1>1, <1>2, <1>3, <1>4, <1>5, <1>6, <1>7

(* A row that writes a register and goes on behind the instruction. *)
LEMMA WriteStep ==
    ASSUME TakesEffect, controls.regwrite = 1
    PROVE  Sequential!Write(instruction_EX.rd, writedata_WB',
                            IF controls.stall = 1 THEN nextPC ELSE Sequential!Link)
<1>1. PipelineInv /\ ClockRun
  BY DEF TakesEffect
<1>2. QED
  BY <1>1, RunEffect, SameInstruction DEF Sequential!Write

(* The displays keep their value unless the row enables them. *)
LEMMA OutputKept ==
    ASSUME TakesEffect, controls.gpio_we \in {0, X}
    PROVE  CPU_out' = CPU_out
<1>1. Resolve(controls.gpio_we) = {0}
  BY DEF TakesEffect, Resolve
<1>2. QED
  BY <1>1 DEF TakesEffect, ClockRun, RunFront

(* A row that writes nothing and goes on behind the instruction. *)
LEMMA PlainStep ==
    ASSUME TakesEffect, controls.regwrite = 0, controls.stall = 0
    PROVE  /\ Registers' = Registers
           /\ mem' = Registers
           /\ NextInstruction' = Sequential!Link
           /\ inst_ram' = inst_ram /\ rst_n' = rst_n
<1>1. PipelineInv /\ ClockRun
  BY DEF TakesEffect
<1>2. QED
  BY <1>1, RunEffect, SameInstruction

-----------------------------------------------------------------------------
(* One lemma per kind of instruction. *)

LEMMA JalStep ==
    ASSUME TakesEffect, instruction_EX.opcode = C!Jal
    PROVE  Sequential!ExecuteJal
<1>1. controls = C!JumpRow(C!PcJal)
  BY DEF TakesEffect, controls, C!Controls, C!Jal
<1>2. /\ controls.regwrite = 1 /\ controls.stall = 1 /\ controls.gpio_we = X
      /\ controls.regsel = C!FromPc /\ controls.pc_src = C!PcJal
  BY <1>1 DEF C!JumpRow, C!Row
<1>3. writedata_WB' = Sequential!Link
  BY <1>2, SameInstruction DEF TakesEffect, ClockRun, RunBack, writedata_WB, C!FromGpio,
     C!FromImm20, C!FromAlu, C!FromPc
<1>4. nextPC = (NextInstruction + Sequential!i.jal) % PcMod
  BY <1>2, SameInstruction DEF nextPC, jal_addr_EX, C!PcJal, C!PcJalr
<1>5. CPU_out' = CPU_out
  BY <1>2, OutputKept
<1>6. QED
  BY <1>2, <1>3, <1>4, <1>5, WriteStep, SameInstruction
     DEF Sequential!ExecuteJal, Sequential!Jal, C!Jal

LEMMA JalrStep ==
    ASSUME TakesEffect, instruction_EX.opcode = C!Jalr
    PROVE  Sequential!ExecuteJalr
<1>1. controls = C!JumpRow(C!PcJalr)
  BY DEF TakesEffect, controls, C!Controls, C!Jal, C!Jalr
<1>2. /\ controls.regwrite = 1 /\ controls.stall = 1 /\ controls.gpio_we = X
      /\ controls.regsel = C!FromPc /\ controls.pc_src = C!PcJalr
  BY <1>1 DEF C!JumpRow, C!Row
<1>3. writedata_WB' = Sequential!Link
  BY <1>2, SameInstruction DEF TakesEffect, ClockRun, RunBack, writedata_WB, C!FromGpio,
     C!FromImm20, C!FromAlu, C!FromPc
<1>4. nextPC = (Sequential!A + Sequential!i.jalr) % PcMod
  BY <1>2, SameInstruction DEF nextPC, jalr_addr_EX, C!PcJalr
<1>5. CPU_out' = CPU_out
  BY <1>2, OutputKept
<1>6. QED
  BY <1>2, <1>3, <1>4, <1>5, WriteStep, SameInstruction
     DEF Sequential!ExecuteJalr, Sequential!Jalr, C!Jalr

(* The controller decides a branch by the result of the ALU as the         *)
(* sequential machine does by the operands.                                *)
LEMMA BranchDecided ==
    ASSUME TakesEffect, instruction_EX.opcode = C!Branch, C!IsBranch(instruction_EX.funct3)
    PROVE  C!Taken(instruction_EX.funct3, R_EX, zero_EX) <=> Sequential!Condition
<1> DEFINE f == instruction_EX.funct3
           a == readdata1
           b == readdata2
<1>1. f \in {0, 1, 4, 5, 6, 7} /\ a \in Word /\ b \in Word
  BY SameInstruction DEF C!IsBranch
<1>2. operation.aluop = C!BranchAluop(f) /\ operation.alusrc = 0
  BY DEF TakesEffect, operation, C!Controls, C!BranchRow, C!Row, C!Jal, C!Jalr, C!Branch
<1>3. C!BranchAluop(f) \in 0 .. 15 /\ X \notin 0 .. 15
  BY ValueAssumption DEF C!BranchAluop, C!SUB, C!SLT, C!SLTU
<1>4. R_EX = Alu(C!BranchAluop(f), a, b)
  BY <1>2, <1>3 DEF R_EX, B_EX
<1>5. Sequential!A = a /\ Sequential!B = b /\ Sequential!i.funct3 = f
  BY SameInstruction
<1> HIDE DEF f, a, b
<1>6. CASE f \in {0, 1}
  <2>1. R_EX = 0 <=> a = b
    BY <1>1, <1>4, <1>6, AluAssumption DEF C!BranchAluop
  <2>2. zero_EX = 1 <=> a = b
    BY <2>1 DEF zero_EX
  <2>3. zero_EX = 0 <=> a # b
    BY <2>1 DEF zero_EX
  <2>4. QED
    BY <1>5, <1>6, <2>2, <2>3 DEF C!Taken, Sequential!Condition, f
<1>7. CASE f \in {4, 5}
  <2>1. R_EX = Alu(C!SLT, a, b) /\ R_EX \in {0, 1}
    BY <1>1, <1>4, <1>7, AluAssumption DEF C!BranchAluop
  <2>2. QED
    BY <1>5, <1>7, <2>1
       DEF C!Taken, Sequential!Condition, Sequential!Less, C!SLT, Sequential!SLT, f
<1>8. CASE f \in {6, 7}
  <2>1. R_EX = Alu(C!SLTU, a, b) /\ R_EX \in {0, 1}
    BY <1>1, <1>4, <1>8, AluAssumption DEF C!BranchAluop
  <2>2. QED
    BY <1>5, <1>8, <2>1
       DEF C!Taken, Sequential!Condition, Sequential!LessUnsigned, C!SLTU, Sequential!SLTU, f
<1>9. QED
  BY <1>1, <1>6, <1>7, <1>8

LEMMA BranchStep ==
    ASSUME TakesEffect, instruction_EX.opcode = C!Branch, C!IsBranch(instruction_EX.funct3)
    PROVE  Sequential!ExecuteBranch
<1>1. controls = C!BranchRow(instruction_EX, R_EX, zero_EX)
  BY DEF TakesEffect, controls, C!Controls, C!Jal, C!Jalr, C!Branch
<1>2. /\ controls.regwrite = 1 /\ controls.gpio_we = 0 /\ controls.regsel = C!FromPc
      /\ controls.stall = IF Sequential!Condition THEN 1 ELSE 0
      /\ Sequential!Condition => controls.pc_src = C!PcBranch
  BY <1>1, BranchDecided DEF C!BranchRow, C!Row
<1>3. writedata_WB' = Sequential!Link
  BY <1>2, SameInstruction DEF TakesEffect, ClockRun, RunBack, writedata_WB, C!FromGpio,
     C!FromImm20, C!FromAlu, C!FromPc
<1>4. Sequential!Condition => nextPC = (NextInstruction + Sequential!i.branch) % PcMod
  BY <1>2, SameInstruction DEF nextPC, branch_addr_EX, C!PcBranch, C!PcJal, C!PcJalr
<1>5. CPU_out' = CPU_out
  BY <1>2, OutputKept
<1>6. Sequential!i = instruction_EX
  BY SameInstruction
<1>7. Sequential!Write(instruction_EX.rd, Sequential!Link,
                       IF Sequential!Condition
                         THEN (NextInstruction + Sequential!i.branch) % PcMod
                         ELSE Sequential!Link)
  BY <1>2, <1>3, <1>4, WriteStep
<1>8. QED
  BY <1>5, <1>6, <1>7
     DEF Sequential!ExecuteBranch, Sequential!Branch, C!Branch, Sequential!IsBranch, C!IsBranch

(* The tables are the same on both sides, and the entry the controller     *)
(* chooses is one the sequential machine may take.                         *)
LEMMA SameTables ==
    /\ Sequential!RType = C!RType
    /\ Sequential!IType = C!IType
    /\ \A table, i : Sequential!Matching(table, i) = C!Matching(table, i)
  BY DEF Sequential!RType, C!RType, Sequential!IType, C!IType, Sequential!Matching,
         C!Matching, Sequential!AND, C!AND, Sequential!OR, C!OR, Sequential!XOR, C!XOR,
         Sequential!ADD, C!ADD, Sequential!SUB, C!SUB, Sequential!MUL, C!MUL,
         Sequential!MULH, C!MULH, Sequential!MULHU, C!MULHU, Sequential!SLL, C!SLL,
         Sequential!SRL, C!SRL, Sequential!SRA, C!SRA, Sequential!SLT, C!SLT,
         Sequential!SLTU, C!SLTU

LEMMA ComputeStep ==
    ASSUME TakesEffect, NEW table \in {C!RType, C!IType}, NEW alusrc \in {0, 1},
           C!Matching(table, instruction_EX) # {},
           controls = C!Compute(table, alusrc, instruction_EX)
    PROVE  \E e \in C!Matching(table, instruction_EX) :
              /\ Sequential!Write(instruction_EX.rd,
                     Alu(e.aluop, readdata1, IF alusrc = 1 THEN instruction_EX.imm12
                                                           ELSE readdata2),
                     Sequential!Link)
              /\ CPU_out' = CPU_out
<1> DEFINE e == CHOOSE m \in C!Matching(table, instruction_EX) : TRUE
<1>1. e \in C!Matching(table, instruction_EX)
  OBVIOUS
<1>2. e.aluop \in 0 .. 15
  BY <1>1 DEF C!Matching, C!RType, C!IType, C!AND, C!OR, C!XOR, C!ADD, C!SUB, C!MUL,
              C!MULH, C!MULHU, C!SLL, C!SRL, C!SRA, C!SLT, C!SLTU
<1>3. controls = C!Row(alusrc, 1, C!FromAlu, e.aluop, 0, C!PcNext, 0)
  BY DEF C!Compute
<1> HIDE DEF e
<1>4. /\ controls.regwrite = 1 /\ controls.stall = 0 /\ controls.gpio_we = 0
      /\ controls.regsel = C!FromAlu /\ controls.aluop = e.aluop /\ controls.alusrc = alusrc
  BY <1>3 DEF C!Row
<1>5. operation.aluop = e.aluop /\ operation.alusrc = alusrc
  <2>1. instruction_EX \in Instruction /\ stall_EX \in {0, 1}
    BY SameInstruction DEF TakesEffect
  <2>2. QED
    BY <1>4, <2>1, OperationIndependent DEF operation, controls
<1>6. R_EX = Alu(e.aluop, readdata1, IF alusrc = 1 THEN instruction_EX.imm12 ELSE readdata2)
  BY <1>2, <1>5, ValueAssumption DEF R_EX, B_EX
<1>7. writedata_WB' = R_EX
  BY <1>4 DEF TakesEffect, ClockRun, RunBack, writedata_WB, C!FromGpio, C!FromImm20,
     C!FromAlu
<1>8. Sequential!Write(instruction_EX.rd, R_EX, Sequential!Link)
  BY <1>4, <1>7, WriteStep
<1>9. CPU_out' = CPU_out
  BY <1>4, OutputKept
<1>10. QED
  BY <1>1, <1>6, <1>8, <1>9

LEMMA OpStep ==
    ASSUME TakesEffect, instruction_EX.opcode = C!Op, C!Matching(C!RType, instruction_EX) # {}
    PROVE  Sequential!ExecuteOp
<1>1. controls = C!Compute(C!RType, 0, instruction_EX)
  BY DEF TakesEffect, controls, C!Controls, C!Jal, C!Jalr, C!Branch, C!OpImm, C!Op
<1>2. PICK e \in C!Matching(C!RType, instruction_EX) :
              /\ Sequential!Write(instruction_EX.rd, Alu(e.aluop, readdata1, readdata2),
                                  Sequential!Link)
              /\ CPU_out' = CPU_out
  BY <1>1, ComputeStep
<1>3. QED
  BY <1>2, SameTables, SameInstruction DEF Sequential!ExecuteOp, Sequential!Op, C!Op

LEMMA OpImmStep ==
    ASSUME TakesEffect, instruction_EX.opcode = C!OpImm, C!Matching(C!IType, instruction_EX) # {}
    PROVE  Sequential!ExecuteOpImm
<1>1. controls = C!Compute(C!IType, 1, instruction_EX)
  BY DEF TakesEffect, controls, C!Controls, C!Jal, C!Jalr, C!Branch, C!OpImm
<1>2. PICK e \in C!Matching(C!IType, instruction_EX) :
              /\ Sequential!Write(instruction_EX.rd,
                                  Alu(e.aluop, readdata1, instruction_EX.imm12),
                                  Sequential!Link)
              /\ CPU_out' = CPU_out
  BY <1>1, ComputeStep
<1>3. QED
  BY <1>2, SameTables, SameInstruction DEF Sequential!ExecuteOpImm, Sequential!OpImm, C!OpImm

LEMMA LuiStep ==
    ASSUME TakesEffect, instruction_EX.opcode = C!Lui
    PROVE  Sequential!ExecuteLui
<1>1. controls = C!Row(X, 1, C!FromImm20, X, 0, C!PcNext, 0)
  BY DEF TakesEffect, controls, C!Controls, C!Jal, C!Jalr, C!Branch, C!OpImm, C!Op, C!Lui
<1>2. /\ controls.regwrite = 1 /\ controls.stall = 0 /\ controls.gpio_we = 0
      /\ controls.regsel = C!FromImm20
  BY <1>1 DEF C!Row
<1>3. writedata_WB' = instruction_EX.imm20
  BY <1>2 DEF TakesEffect, ClockRun, RunBack, writedata_WB, C!FromGpio, C!FromImm20
<1>4. QED
  BY <1>2, <1>3, WriteStep, OutputKept, SameInstruction
     DEF Sequential!ExecuteLui, Sequential!Lui, C!Lui

LEMMA CsrStep ==
    ASSUME TakesEffect, instruction_EX.opcode = C!System
    PROVE  Sequential!ExecuteCsrWrite \/ Sequential!ExecuteCsrRead
<1>1. controls = C!CsrRow(instruction_EX)
  BY DEF TakesEffect, controls, C!Controls, C!Jal, C!Jalr, C!Branch, C!OpImm, C!Op, C!Lui,
     C!System
<1>2. CASE instruction_EX.csr = C!HexCsr
  <2>1. controls.regwrite = 0 /\ controls.stall = 0 /\ controls.gpio_we = 1
    BY <1>1, <1>2 DEF C!CsrRow, C!Row
  <2>2. CPU_out' = readdata1
    BY <2>1, ValueAssumption DEF TakesEffect, ClockRun, RunFront, Resolve
  <2>3. QED
    BY <1>2, <2>1, <2>2, PlainStep, SameInstruction
       DEF Sequential!ExecuteCsrWrite, Sequential!System, C!System, Sequential!HexCsr, C!HexCsr
<1>3. CASE instruction_EX.csr # C!HexCsr
  <2>1. /\ controls.regwrite = 1 /\ controls.stall = 0 /\ controls.gpio_we = 0
        /\ controls.regsel = C!FromGpio
    BY <1>1, <1>3 DEF C!CsrRow, C!Row
  <2>2. writedata_WB' = GPIO_in_WB' /\ GPIO_in_WB' \in GpioIn
    BY <2>1 DEF TakesEffect, ClockRun, RunBack, writedata_WB, C!FromGpio
  <2>3. Sequential!Write(instruction_EX.rd, GPIO_in_WB', Sequential!Link)
    BY <2>1, <2>2, WriteStep
  <2>4. CPU_out' = CPU_out
    BY <2>1, OutputKept
  <2>5. QED
    BY <1>3, <2>2, <2>3, <2>4, SameInstruction
       DEF Sequential!ExecuteCsrRead, Sequential!System, C!System, Sequential!HexCsr, C!HexCsr
<1>4. QED
  BY <1>2, <1>3

(* Everything else does nothing on both sides. *)
LEMMA UnknownStep ==
    ASSUME TakesEffect, ~ Sequential!Known
    PROVE  Sequential!ExecuteUnknown
<1>1. controls = C!Nothing
  BY SameInstruction, SameTables
     DEF TakesEffect, controls, C!Controls, C!BranchRow, C!Compute, Sequential!Known,
         C!Jal, C!Jalr, C!Branch, C!OpImm, C!Op, C!Lui, C!System,
         Sequential!Jal, Sequential!Jalr, Sequential!Branch, Sequential!OpImm,
         Sequential!Op, Sequential!Lui, Sequential!System, Sequential!IsBranch, C!IsBranch
<1>2. controls.regwrite = 0 /\ controls.stall = 0 /\ controls.gpio_we = 0
  BY <1>1 DEF C!Nothing, C!Row
<1>3. QED
  BY <1>2, PlainStep, OutputKept, SameInstruction DEF Sequential!ExecuteUnknown

-----------------------------------------------------------------------------
(* The steps of the pipeline. *)

LEMMA ExecuteRefines ==
    ASSUME TakesEffect
    PROVE  Sequential!Execute
<1>1. rst_n = 1
  BY DEF TakesEffect, ClockRun
<1>2. CASE Sequential!Known
  <2>1. Sequential!i = instruction_EX
    BY SameInstruction
  <2>2. \/ instruction_EX.opcode \in {C!Lui, C!Jal, C!Jalr, C!System}
        \/ instruction_EX.opcode = C!Op /\ C!Matching(C!RType, instruction_EX) # {}
        \/ instruction_EX.opcode = C!OpImm /\ C!Matching(C!IType, instruction_EX) # {}
        \/ instruction_EX.opcode = C!Branch /\ C!IsBranch(instruction_EX.funct3)
    BY <1>2, <2>1, SameTables
       DEF Sequential!Known, C!Jal, C!Jalr, C!Branch, C!OpImm, C!Op, C!Lui, C!System,
           Sequential!Jal, Sequential!Jalr, Sequential!Branch, Sequential!OpImm,
           Sequential!Op, Sequential!Lui, Sequential!System, Sequential!IsBranch, C!IsBranch
  <2>3. QED
    BY <1>1, <2>2, LuiStep, JalStep, JalrStep, CsrStep, OpStep, OpImmStep, BranchStep
       DEF Sequential!Execute
<1>3. CASE ~ Sequential!Known
  BY <1>1, <1>3, UnknownStep DEF Sequential!Execute
<1>4. QED
  BY <1>2, <1>3

(* Behind a jump, or behind a reset, the slot only lets the write-back     *)
(* stage drain.                                                            *)
LEMMA IdleRefines ==
    ASSUME PipelineInv, ClockRun, XResolves = {0}, stall_EX = 1 \/ bubble
    PROVE  Sequential!Settle
<1>1. controls = C!Nothing
  BY IdleControls DEF PipelineInv
<1>2. controls.regwrite = 0 /\ controls.stall = 0 /\ controls.gpio_we = 0
  BY <1>1 DEF C!Nothing, C!Row
<1>3. /\ mem' = Registers /\ Registers' = Registers
      /\ NextInstruction' = PC_FETCH
      /\ inst_ram' = inst_ram /\ rst_n = 1 /\ rst_n' = 1
  BY <1>2, RunEffect
<1>4. NextInstruction = PC_FETCH
  BY DEF NextInstruction
<1>5. CPU_out' = CPU_out
  BY <1>2, ValueAssumption DEF ClockRun, RunFront, Resolve
<1>6. QED
  BY <1>3, <1>4, <1>5 DEF Sequential!Settle

(* The reset edge drops what is in the write-back stage.                   *)
LEMMA ResetRefines ==
    ASSUME PipelineInv, ClockReset
    PROVE  Sequential!Reset
<1>1. mem \in [Reg -> Word] /\ mem[0] = 0 /\ 0 \in Reg
  BY RegAssumption DEF PipelineInv, TypeOK, ZeroRegister
<1>2. mem' = mem
  BY <1>1 DEF ClockReset, rf!Edge
<1>3. Registers' = mem
  BY <1>1, <1>2 DEF ClockReset, ResetBack, Registers
<1>4. NextInstruction' = 0
  BY DEF ClockReset, ResetFront, NextInstruction
<1>5. QED
  BY <1>2, <1>3, <1>4 DEF ClockReset, ResetFront, Sequential!Reset

LEMMA KeyRefines ==
    ASSUME PipelineInv, KeyPress \/ KeyRelease
    PROVE  Sequential!Key
<1>1. mem' = mem
  BY RegAssumption DEF PipelineInv, TypeOK, ZeroRegister, KeyPress, KeyRelease
<1>2. UNCHANGED <<inst_ram, pipeline>> /\ rst_n' = 1 - rst_n
  BY DEF KeyPress, KeyRelease
<1>3. Registers' = Registers /\ NextInstruction' = NextInstruction
  BY <1>1, <1>2 DEF pipeline, Registers, NextInstruction, writedata_WB
<1>4. QED
  BY <1>1, <1>2, <1>3 DEF pipeline, Sequential!Key

LEMMA StutterRefines ==
    ASSUME UNCHANGED vars
    PROVE  UNCHANGED Sequential!vars
  BY DEF vars, Sequential!vars, Registers, NextInstruction, writedata_WB

LEMMA InitRefines == Init => Sequential!Init
<1> SUFFICES ASSUME Init PROVE Sequential!Init
  OBVIOUS
<1>1. PICK m \in PowerOnMem : mem = [m EXCEPT ![0] = 0]
  BY DEF Init
<1>2. m \in [Reg -> Word] /\ 0 \in Reg
  BY ValueAssumption, RegAssumption
<1>3. mem = [r \in Reg |-> mem[r]] /\ mem[0] = 0
  BY <1>1, <1>2
<1>4. Registers = mem
  BY <1>3 DEF Init, Registers
<1>5. NextInstruction = 0
  BY DEF Init, NextInstruction
<1>6. QED
  BY <1>1, <1>4, <1>5 DEF Init, Sequential!Init

LEMMA StepRefines ==
    ASSUME XResolves = {0}, PipelineInv, [Next]_vars
    PROVE  [Sequential!Next]_(Sequential!vars)
<1>1. CASE ClockRun /\ (stall_EX = 1 \/ bubble)
  BY <1>1, IdleRefines DEF Sequential!Next
<1>2. CASE ClockRun /\ ~ (stall_EX = 1 \/ bubble)
  <2>1. stall_EX = 0
    BY <1>2 DEF PipelineInv, TypeOK
  <2>2. TakesEffect
    BY <1>2, <2>1 DEF TakesEffect
  <2>3. QED
    BY <2>2, ExecuteRefines DEF Sequential!Next
<1>3. CASE ClockReset
  BY <1>3, ResetRefines DEF Sequential!Next
<1>4. CASE KeyPress \/ KeyRelease
  BY <1>4, KeyRefines DEF Sequential!Next
<1>5. CASE UNCHANGED vars
  BY <1>5, StutterRefines
<1>6. QED
  BY <1>1, <1>2, <1>3, <1>4, <1>5 DEF Next

(* The processor runs its program one instruction after the other, for     *)
(* every width, ALU, program, input and pattern of resets, provided an     *)
(* unspecified write enable does not write.                                *)
THEOREM PipelineImplementsIsa ==
    ASSUME XResolves = {0}
    PROVE  Spec => RunsSequentially
<1>1. Init => Sequential!Init
  BY InitRefines
<1>2. PipelineInv /\ [Next]_vars => [Sequential!Next]_(Sequential!vars)
  BY StepRefines
<1>3. QED
  BY <1>1, <1>2, PipelineInvariant, PTL DEF Spec, Sequential!Spec, RunsSequentially

-----------------------------------------------------------------------------
(* Only the row of a csrrw to io2 enables the display register. *)
LEMMA EnabledByCsr ==
    ASSUME controls.gpio_we \notin {0, X}
    PROVE  instruction_EX.opcode = C!System /\ instruction_EX.csr = C!HexCsr
<1>1. /\ C!StalledRow.gpio_we = 0 /\ C!Nothing.gpio_we = 0
      /\ C!JumpRow(C!PcJal).gpio_we = X /\ C!JumpRow(C!PcJalr).gpio_we = X
      /\ C!Row(X, 1, C!FromImm20, X, 0, C!PcNext, 0).gpio_we = 0
  BY DEF C!StalledRow, C!Nothing, C!JumpRow, C!Row
<1>2. \A i, r, z : C!BranchRow(i, r, z).gpio_we = 0
  BY DEF C!BranchRow, C!Nothing, C!Row
<1>3. \A table, alusrc, i : C!Compute(table, alusrc, i).gpio_we = 0
  BY DEF C!Compute, C!Nothing, C!Row
<1>4. \A i : i.csr # C!HexCsr => C!CsrRow(i).gpio_we = 0
  BY DEF C!CsrRow, C!Row
<1>5. QED
  BY <1>1, <1>2, <1>3, <1>4 DEF controls, C!Controls

(* The displays change as lab_jb_hsmith/README.md:149-151 says, by a reset *)
(* or a csrrw to io2, on every build that lets an unspecified gpio_we of a *)
(* jump (controller.sv:59, 65) not write: what cpu_output shows comes from *)
(* that signal alone.                                                      *)
THEOREM OutputOnlyByCsrIfXIsZero ==
    ASSUME XResolves = {0}
    PROVE  Spec => OutputOnlyByCsr
<1>1. [Next]_vars =>
        [CPU_out' # CPU_out =>
            \/ rst_n = 0
            \/ instruction_EX.opcode = C!System /\ instruction_EX.csr = C!HexCsr]_vars
  <2> SUFFICES ASSUME [Next]_vars, CPU_out' # CPU_out, rst_n # 0
               PROVE  instruction_EX.opcode = C!System /\ instruction_EX.csr = C!HexCsr
    OBVIOUS
  <2>1. ClockRun
    BY DEF Next, ClockReset, KeyPress, KeyRelease, pipeline, vars
  <2>2. controls.gpio_we \notin {0, X}
    BY <2>1 DEF ClockRun, RunFront, Resolve
  <2>3. QED
    BY <2>2, EnabledByCsr
<1>2. QED
  BY <1>1, PTL DEF Spec, OutputOnlyByCsr
=============================================================================
