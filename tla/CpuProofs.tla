----------------------------- MODULE CpuProofs ------------------------------
(***************************************************************************)
(* Theorems about the processor, for words and instruction memories of any *)
(* size, any ALU that returns words, any program and any switch settings.  *)
(***************************************************************************)
EXTENDS Cpu, TLAPS

(* The signals of the control table have their widths or are unspecified.  *)
ControlSignals ==
    [alusrc : {0, 1, X}, regwrite : {0, 1}, regsel : {0, 1, 2, 3, X},
     aluop : 0 .. 15 \cup {X}, gpio_we : {0, 1, X}, pc_src : 0 .. 3, stall : {0, 1}]

LEMMA RowType ==
    ASSUME NEW alusrc \in {0, 1, X}, NEW regwrite \in {0, 1},
           NEW regsel \in {0, 1, 2, 3, X}, NEW aluop \in 0 .. 15 \cup {X},
           NEW gpio_we \in {0, 1, X}, NEW pc_src \in 0 .. 3, NEW stall \in {0, 1}
    PROVE  C!Row(alusrc, regwrite, regsel, aluop, gpio_we, pc_src, stall)
              \in ControlSignals
  BY DEF C!Row, ControlSignals

LEMMA BranchAluopType ==
    ASSUME NEW i \in Instruction, C!IsBranch(i.funct3)
    PROVE  C!BranchAluop(i.funct3) \in 0 .. 15
  BY DEF C!BranchAluop, C!IsBranch, C!SUB, C!SLT, C!SLTU

LEMMA ComputeType ==
    ASSUME NEW i \in Instruction, NEW table \in {C!RType, C!IType}, NEW alusrc \in {0, 1}
    PROVE  C!Compute(table, alusrc, i) \in ControlSignals
<1>1. CASE C!Matching(table, i) = {}
  BY <1>1, RowType DEF C!Compute, C!Nothing
<1>2. CASE C!Matching(table, i) # {}
  <2> DEFINE e == CHOOSE m \in C!Matching(table, i) : TRUE
  <2>1. e \in C!Matching(table, i)
    BY <1>2
  <2>2. e \in table
    BY <2>1 DEF C!Matching
  <2>3. e.aluop \in 0 .. 15
    BY <2>2 DEF C!RType, C!IType, C!AND, C!OR, C!XOR, C!ADD, C!SUB, C!MUL, C!MULH,
                C!MULHU, C!SLL, C!SRL, C!SRA, C!SLT, C!SLTU
  <2>4. C!Compute(table, alusrc, i) = C!Row(alusrc, 1, C!FromAlu, e.aluop, 0, C!PcNext, 0)
    BY <1>2 DEF C!Compute
  <2> HIDE DEF e
  <2>5. QED
    BY <2>3, <2>4, RowType DEF C!FromAlu, C!PcNext
<1>3. QED
  BY <1>1, <1>2

(* Every row of the table is well formed, ...                              *)
LEMMA ControlsType ==
    ASSUME NEW i \in Instruction, NEW s \in {0, 1}, NEW r, NEW z
    PROVE  C!Controls(i, s, r, z) \in ControlSignals
<1>1. C!Nothing \in ControlSignals
  BY RowType DEF C!Nothing
<1>2. C!StalledRow \in ControlSignals
  BY <1>1 DEF C!StalledRow
<1>3. C!JumpRow(C!PcJal) \in ControlSignals /\ C!JumpRow(C!PcJalr) \in ControlSignals
  BY RowType DEF C!JumpRow, C!FromPc, C!PcJal, C!PcJalr
<1>4. C!BranchRow(i, r, z) \in ControlSignals
  <2>1. CASE ~ C!IsBranch(i.funct3)
    BY <1>1, <2>1 DEF C!BranchRow
  <2>2. CASE C!IsBranch(i.funct3)
    BY <2>2, BranchAluopType, RowType DEF C!BranchRow, C!FromPc, C!PcBranch, C!PcNext
  <2>3. QED
    BY <2>1, <2>2
<1>5. C!CsrRow(i) \in ControlSignals
  BY RowType DEF C!CsrRow, C!FromGpio, C!PcNext
<1>6. C!Row(X, 1, C!FromImm20, X, 0, C!PcNext, 0) \in ControlSignals
  BY RowType DEF C!FromImm20, C!PcNext
<1>7. C!Compute(C!IType, 1, i) \in ControlSignals /\ C!Compute(C!RType, 0, i) \in ControlSignals
  BY ComputeType
<1>8. QED
  BY <1>1, <1>2, <1>3, <1>4, <1>5, <1>6, <1>7 DEF C!Controls

(* ... a row that writes a register selects a value that exists, ...       *)
LEMMA WrittenValueExists ==
    ASSUME NEW i \in Instruction, NEW s \in {0, 1}, NEW r, NEW z,
           C!Controls(i, s, r, z).regwrite = 1
    PROVE  /\ C!Controls(i, s, r, z).regsel \in 0 .. 3
           /\ C!Controls(i, s, r, z).regsel = C!FromAlu =>
                  C!Controls(i, s, r, z).aluop \in 0 .. 15
<1> DEFINE c == C!Controls(i, s, r, z)
           Sound(row) == row.regwrite = 1 => /\ row.regsel \in 0 .. 3
                                             /\ row.regsel = C!FromAlu => row.aluop \in 0 .. 15
<1>1. Sound(C!Nothing) /\ Sound(C!StalledRow)
  BY DEF C!Nothing, C!StalledRow, C!Row
<1>2. Sound(C!JumpRow(C!PcJal)) /\ Sound(C!JumpRow(C!PcJalr))
  BY DEF C!JumpRow, C!Row, C!FromPc, C!FromAlu
<1>3. Sound(C!BranchRow(i, r, z))
  BY <1>1 DEF C!BranchRow, C!Row, C!FromPc, C!FromAlu
<1>4. Sound(C!CsrRow(i)) /\ Sound(C!Row(X, 1, C!FromImm20, X, 0, C!PcNext, 0))
  BY DEF C!CsrRow, C!Row, C!FromGpio, C!FromImm20, C!FromAlu
<1>5. ASSUME NEW table \in {C!RType, C!IType}, NEW alusrc \in {0, 1}
      PROVE  Sound(C!Compute(table, alusrc, i))
  <2>1. CASE C!Matching(table, i) = {}
    BY <1>1, <2>1 DEF C!Compute
  <2>2. CASE C!Matching(table, i) # {}
    <3> DEFINE e == CHOOSE m \in C!Matching(table, i) : TRUE
    <3>1. e \in table
      BY <2>2 DEF C!Matching
    <3>2. e.aluop \in 0 .. 15
      BY <3>1 DEF C!RType, C!IType, C!AND, C!OR, C!XOR, C!ADD, C!SUB, C!MUL, C!MULH,
                  C!MULHU, C!SLL, C!SRL, C!SRA, C!SLT, C!SLTU
    <3>3. C!Compute(table, alusrc, i) = C!Row(alusrc, 1, C!FromAlu, e.aluop, 0, C!PcNext, 0)
      BY <2>2 DEF C!Compute
    <3> HIDE DEF e
    <3>4. QED
      BY <3>2, <3>3 DEF C!Row, C!FromAlu
  <2>3. QED
    BY <2>1, <2>2
<1>6. Sound(c)
  BY <1>1, <1>2, <1>3, <1>4, <1>5 DEF C!Controls
<1>7. QED
  BY <1>6

(* ... and the operation and operand of the ALU do not depend on its own   *)
(* result: the combinational loop through the controller is broken there.  *)
LEMMA OperationIndependent ==
    ASSUME NEW i \in Instruction, NEW s \in {0, 1}, NEW r, NEW z, NEW r2, NEW z2
    PROVE  /\ C!Controls(i, s, r, z).aluop = C!Controls(i, s, r2, z2).aluop
           /\ C!Controls(i, s, r, z).alusrc = C!Controls(i, s, r2, z2).alusrc
<1>1. /\ C!BranchRow(i, r, z).aluop = C!BranchRow(i, r2, z2).aluop
      /\ C!BranchRow(i, r, z).alusrc = C!BranchRow(i, r2, z2).alusrc
  BY DEF C!BranchRow, C!Row
<1>2. QED
  BY <1>1 DEF C!Controls

-----------------------------------------------------------------------------
(* The combinational signals of a well-typed pipeline. *)

LEMMA PcWraps == ASSUME NEW n \in Nat PROVE n % PcMod \in Pc
  BY SizeAssumption DEF Pc

LEMMA PcIsWord == Pc \subseteq Word /\ 0 \in Pc /\ 0 \in Word
  BY SizeAssumption DEF Pc, Word

LEMMA ReadType ==
    ASSUME TypeOK, NEW r \in Reg
    PROVE  rf!Read(r) \in Word
  BY PcIsWord DEF TypeOK, rf!Read

LEMMA EdgeType ==
    ASSUME TypeOK
    PROVE  rf!Edge \in [Reg -> Word]
  BY PcIsWord, RegAssumption DEF TypeOK, rf!Edge

LEMMA ResultType ==
    ASSUME TypeOK
    PROVE  /\ R_EX \in Word \cup {X}
           /\ controls.aluop \in 0 .. 15 => R_EX \in Word
<1>1. instruction_EX \in Instruction /\ stall_EX \in {0, 1}
  BY DEF TypeOK
<1>2. instruction_EX.rs1 \in Reg /\ instruction_EX.rs2 \in Reg /\ instruction_EX.imm12 \in Word
  BY <1>1 DEF Instruction
<1>3. readdata1 \in Word /\ B_EX \in Word
  BY <1>2, ReadType DEF readdata1, readdata2, B_EX
<1>4. operation.aluop \in 0 .. 15 \cup {X}
  BY <1>1, ControlsType DEF operation, ControlSignals
<1>5. controls.aluop = operation.aluop
  BY <1>1, OperationIndependent DEF operation, controls
<1>6. X \notin 0 .. 15
  BY ValueAssumption
<1>7. QED
  BY <1>3, <1>4, <1>5, <1>6, AluAssumption DEF R_EX

LEMMA NextPcType ==
    ASSUME TypeOK
    PROVE  nextPC \in Pc
<1>1. instruction_EX \in Instruction
  BY DEF TypeOK
<1>2. /\ instruction_EX.rs1 \in Reg
      /\ instruction_EX.branch \in Nat
      /\ instruction_EX.jal \in Nat
      /\ instruction_EX.jalr \in Nat
  BY <1>1, SizeAssumption DEF Instruction, Pc
<1>3. readdata1 \in Nat
  BY <1>2, ReadType, SizeAssumption DEF readdata1, Word
<1>4. PC_EX \in Nat /\ PC_FETCH \in Nat
  BY SizeAssumption DEF TypeOK, Pc
<1>5. /\ PC_EX + instruction_EX.branch \in Nat
      /\ PC_EX + instruction_EX.jal \in Nat
      /\ readdata1 + instruction_EX.jalr \in Nat
      /\ PC_FETCH + 1 \in Nat
  BY <1>2, <1>3, <1>4
<1>6. QED
  BY <1>5, PcWraps DEF nextPC, branch_addr_EX, jal_addr_EX, jalr_addr_EX

-----------------------------------------------------------------------------
(* The pipeline invariant. *)

LEMMA ZeroInstructionType == ZeroInstruction \in Instruction
  BY PcIsWord, RegAssumption DEF ZeroInstruction, Instruction

LEMMA InitInv == Init => PipelineInv
<1> SUFFICES ASSUME Init PROVE PipelineInv
  OBVIOUS
<1>1. PICK m \in PowerOnMem : mem = [m EXCEPT ![0] = 0]
  BY DEF Init
<1>2. m \in [Reg -> Word]
  BY ValueAssumption
<1>3. mem \in [Reg -> Word] /\ mem[0] = 0
  BY <1>1, <1>2, RegAssumption, PcIsWord
<1>4. inst_ram \in [Pc -> Instruction]
  BY ValueAssumption DEF Init
<1>5. TypeOK
  BY <1>3, <1>4, ZeroInstructionType, PcIsWord, RegAssumption
     DEF Init, TypeOK, writedata_WB, C!FromGpio
<1>6. QED
  BY <1>3, <1>5 DEF Init, PipelineInv, ZeroRegister, SlotMatchesPc, FetchFollowsSlot

(* The write port never puts anything but 0 into register 0.               *)
LEMMA EdgeKeepsZero ==
    ASSUME TypeOK, mem[0] = 0
    PROVE  rf!Edge[0] = 0
  BY RegAssumption DEF TypeOK, rf!Edge

(* A row without a stall leaves the PC to count on. *)
LEMMA NoStallCountsOn ==
    ASSUME TypeOK, controls.stall = 0
    PROVE  nextPC = (PC_FETCH + 1) % PcMod
<1>1. controls.pc_src = 0
  BY DEF controls, C!Controls, C!StalledRow, C!Nothing, C!JumpRow, C!BranchRow,
         C!Compute, C!CsrRow, C!Row, C!PcNext
<1>2. QED
  BY <1>1 DEF nextPC, C!PcJalr, C!PcJal, C!PcBranch

(* A slot that is squashed, or that a reset has emptied, does nothing. *)
LEMMA IdleControls ==
    ASSUME SlotMatchesPc, stall_EX = 1 \/ bubble
    PROVE  controls = C!Nothing
<1>1. CASE stall_EX = 1
  BY <1>1 DEF controls, C!Controls, C!StalledRow
<1>2. CASE bubble /\ stall_EX # 1
  BY <1>2 DEF SlotMatchesPc, ZeroInstruction, controls, C!Controls, C!Jal, C!Jalr, C!Branch,
              C!OpImm, C!Op, C!Lui, C!System
<1>3. QED
  BY <1>1, <1>2

LEMMA RunInv ==
    ASSUME PipelineInv, ClockRun
    PROVE  PipelineInv'
<1> USE DEF PipelineInv
<1>1. instruction_EX \in Instruction /\ stall_EX \in {0, 1} /\ PC_FETCH \in Pc
  BY DEF TypeOK
<1>2. controls \in ControlSignals
  BY <1>1, ControlsType DEF controls
<1>3. TypeOK'
  <2>1. /\ PC_FETCH' \in Pc
        /\ PC_EX' \in Pc
    BY <1>1, NextPcType DEF ClockRun, RunFront
  <2>2. /\ instruction_EX' \in Instruction
        /\ inst_ram' \in [Pc -> Instruction]
    BY <1>1 DEF ClockRun, RunFront, TypeOK
  <2>3. /\ stall_EX' \in {0, 1}
        /\ regwrite_WB' \in {0, 1}
        /\ regsel_WB' \in {0, 1, 2, 3, X}
    BY <1>2 DEF ClockRun, RunFront, RunBack, ControlSignals
  <2>4. /\ rd_WB' \in Reg
        /\ imm20_WB' \in Word
        /\ GPIO_in_WB' \in Word
        /\ R_WB' \in Word \cup {X}
    BY <1>1, ResultType, ValueAssumption DEF ClockRun, RunBack, Instruction
  <2>5. regwrite_WB' = 1 => writedata_WB' \in Word
    <3> SUFFICES ASSUME regwrite_WB' = 1 PROVE writedata_WB' \in Word
      OBVIOUS
    <3>1. /\ controls.regsel \in 0 .. 3
          /\ controls.regsel = C!FromAlu => controls.aluop \in 0 .. 15
      BY <1>1, WrittenValueExists DEF ClockRun, RunBack, controls
    <3>2. regsel_WB' \in 0 .. 3 /\ (regsel_WB' = C!FromAlu => R_WB' \in Word)
      BY <3>1, ResultType DEF ClockRun, RunBack
    <3>3. QED
      BY <3>2, <2>1, <2>4, PcIsWord
         DEF writedata_WB, C!FromGpio, C!FromImm20, C!FromAlu, C!FromPc
  <2>6. mem' \in [Reg -> Word]
    BY EdgeType DEF ClockRun
  <2>7. CPU_out' \in Word
    <3>1. readdata1 \in Word
      BY <1>1, ReadType DEF readdata1, Instruction
    <3>2. QED
      BY <3>1 DEF ClockRun, RunFront, TypeOK
  <2>8. rst_n' \in {0, 1} /\ bubble' \in BOOLEAN
    BY DEF ClockRun, RunFront, TypeOK
  <2>9. QED
    BY <2>1, <2>2, <2>3, <2>4, <2>5, <2>6, <2>7, <2>8 DEF TypeOK
<1>4. ZeroRegister'
  BY EdgeKeepsZero DEF ClockRun, ZeroRegister
<1>5. SlotMatchesPc'
  BY DEF ClockRun, RunFront, SlotMatchesPc
<1>6. FetchFollowsSlot'
  BY NoStallCountsOn DEF ClockRun, RunFront, FetchFollowsSlot
<1>7. QED
  BY <1>3, <1>4, <1>5, <1>6

(* The reset edge sets the slot and the write-back stage right whatever    *)
(* they held.                                                              *)
LEMMA ResetInv ==
    ASSUME TypeOK, ZeroRegister, ClockReset
    PROVE  PipelineInv'
<1>1. mem' \in [Reg -> Word] /\ mem'[0] = 0
  BY EdgeType, EdgeKeepsZero DEF ClockReset, ZeroRegister
<1>2. writedata_WB' \in Word
  BY PcIsWord DEF ClockReset, ResetBack, writedata_WB, C!FromGpio
<1>3. TypeOK'
  BY <1>1, <1>2, ZeroInstructionType, PcIsWord, RegAssumption
     DEF ClockReset, ResetFront, ResetBack, TypeOK
<1>4. QED
  BY <1>1, <1>3 DEF ClockReset, ResetFront, ResetBack, PipelineInv, ZeroRegister,
                    SlotMatchesPc, FetchFollowsSlot

(* The key leaves the pipeline as it is. *)
LEMMA KeyKeeps ==
    ASSUME TypeOK, ZeroRegister, KeyPress \/ KeyRelease
    PROVE  /\ TypeOK' /\ ZeroRegister'
           /\ SlotMatchesPc => SlotMatchesPc'
           /\ FetchFollowsSlot => FetchFollowsSlot'
<1>1. mem' \in [Reg -> Word] /\ mem'[0] = 0
  BY PcIsWord, RegAssumption DEF KeyPress, KeyRelease, TypeOK, ZeroRegister
<1>2. UNCHANGED <<inst_ram, pipeline>> /\ rst_n' \in {0, 1}
  BY DEF KeyPress, KeyRelease
<1>3. writedata_WB' = writedata_WB
  BY <1>2 DEF writedata_WB, pipeline
<1>4. TypeOK'
  BY <1>1, <1>2, <1>3 DEF TypeOK, pipeline
<1>5. QED
  BY <1>1, <1>2, <1>4 DEF pipeline, ZeroRegister, SlotMatchesPc, FetchFollowsSlot

LEMMA KeyInv ==
    ASSUME PipelineInv, KeyPress \/ KeyRelease
    PROVE  PipelineInv'
  BY KeyKeeps DEF PipelineInv

LEMMA StutterInv ==
    ASSUME PipelineInv, UNCHANGED vars
    PROVE  PipelineInv'
<1>1. writedata_WB' = writedata_WB
  BY DEF vars, writedata_WB
<1>2. QED
  BY <1>1 DEF vars, PipelineInv, TypeOK, ZeroRegister, SlotMatchesPc, FetchFollowsSlot

(* The pipeline invariant holds in every reachable state: every register   *)
(* keeps its width and nothing unspecified is ever written (TypeOK), x0 is *)
(* 0, the execute slot holds the instruction at PC_EX or the 0 of a reset, *)
(* and the fetch runs one word ahead of an unstalled instruction.          *)
THEOREM PipelineInvariant == Spec => []PipelineInv
<1>1. Init => PipelineInv
  BY InitInv
<1>2. PipelineInv /\ [Next]_vars => PipelineInv'
  BY RunInv, ResetInv, KeyInv, StutterInv DEF Next, PipelineInv
<1>3. QED
  BY <1>1, <1>2, PTL DEF Spec

(* The type invariant alone: no don't-care signal reaches a register.      *)
THEOREM TypeCorrect == Spec => []TypeOK
<1>1. PipelineInv => TypeOK
  BY DEF PipelineInv
<1>2. QED
  BY <1>1, PipelineInvariant, PTL

(* The storage of register 0 holds 0 for ever, over every reset and with    *)
(* every write in flight: regfile.sv:65 reads it without a guard.           *)
THEOREM ZeroRegisterStays == Spec => []ZeroRegister
<1>1. PipelineInv => ZeroRegister
  BY DEF PipelineInv
<1>2. QED
  BY <1>1, PipelineInvariant, PTL

(* What executes is what the memory holds at PC_EX; only the slot that a    *)
(* reset has emptied has no address, and cpu.sv:171 keeps its write away.   *)
THEOREM SlotIsInstructionAtPc == Spec => []SlotMatchesPc
<1>1. PipelineInv => SlotMatchesPc
  BY DEF PipelineInv
<1>2. QED
  BY <1>1, PipelineInvariant, PTL

(* The fetch is one word ahead of an instruction that is not squashed, so   *)
(* the link cpu.sv:157 takes one cycle late is that of the jump.            *)
THEOREM FetchRunsAhead == Spec => []FetchFollowsSlot
<1>1. PipelineInv => FetchFollowsSlot
  BY DEF PipelineInv
<1>2. QED
  BY <1>1, PipelineInvariant, PTL
-----------------------------------------------------------------------------
(* The wires of the execute slot. *)

(* The loop of ExecuteLoop.tla has a controller of its own, with the same  *)
(* table.                                                                  *)
LEMMA LoopMatches ==
    /\ Loop!RType = C!RType
    /\ Loop!IType = C!IType
    /\ \A table, i : Loop!Matching(table, i) = C!Matching(table, i)
  BY DEF Loop!RType, C!RType, Loop!IType, C!IType, Loop!Matching, C!Matching,
         Loop!AND, C!AND, Loop!OR, C!OR, Loop!XOR, C!XOR, Loop!ADD, C!ADD, Loop!SUB, C!SUB,
         Loop!MUL, C!MUL, Loop!MULH, C!MULH, Loop!MULHU, C!MULHU, Loop!SLL, C!SLL,
         Loop!SRL, C!SRL, Loop!SRA, C!SRA, Loop!SLT, C!SLT, Loop!SLTU, C!SLTU

LEMMA LoopCompute ==
    ASSUME NEW table, NEW alusrc, NEW i
    PROVE  Loop!Compute(table, alusrc, i) = C!Compute(table, alusrc, i)
  BY LoopMatches
     DEF Loop!Compute, C!Compute, Loop!Row, C!Row, Loop!Nothing, C!Nothing,
         Loop!FromAlu, C!FromAlu, Loop!PcNext, C!PcNext

LEMMA LoopBranch ==
    ASSUME NEW i, NEW r, NEW z
    PROVE  Loop!BranchRow(i, r, z) = C!BranchRow(i, r, z)
<1>1. Loop!IsBranch(i.funct3) <=> C!IsBranch(i.funct3)
  BY DEF Loop!IsBranch, C!IsBranch
<1>2. Loop!Taken(i.funct3, r, z) <=> C!Taken(i.funct3, r, z)
  BY DEF Loop!Taken, C!Taken
<1>3. Loop!BranchAluop(i.funct3) = C!BranchAluop(i.funct3)
  BY DEF Loop!BranchAluop, C!BranchAluop, Loop!SUB, C!SUB, Loop!SLT, C!SLT, Loop!SLTU, C!SLTU
<1>4. QED
  BY <1>1, <1>2, <1>3
     DEF Loop!BranchRow, C!BranchRow, Loop!Row, C!Row, Loop!Nothing, C!Nothing,
         Loop!FromPc, C!FromPc, Loop!PcBranch, C!PcBranch, Loop!PcNext, C!PcNext

LEMMA LoopControls ==
    ASSUME NEW i, NEW s, NEW r, NEW z
    PROVE  Loop!Controls(i, s, r, z) = C!Controls(i, s, r, z)
<1>1. Loop!StalledRow = C!StalledRow /\ Loop!Nothing = C!Nothing
  BY DEF Loop!StalledRow, C!StalledRow, Loop!Nothing, C!Nothing, Loop!Row, C!Row
<1>2. Loop!JumpRow(Loop!PcJal) = C!JumpRow(C!PcJal)
      /\ Loop!JumpRow(Loop!PcJalr) = C!JumpRow(C!PcJalr)
  BY DEF Loop!JumpRow, C!JumpRow, Loop!PcJal, C!PcJal, Loop!PcJalr, C!PcJalr, Loop!Row, C!Row,
         Loop!FromPc, C!FromPc
<1>3. Loop!CsrRow(i) = C!CsrRow(i)
  BY DEF Loop!CsrRow, C!CsrRow, Loop!HexCsr, C!HexCsr, Loop!Row, C!Row, Loop!FromGpio,
         C!FromGpio, Loop!PcNext, C!PcNext
<1>4. Loop!Row(X, 1, Loop!FromImm20, X, 0, Loop!PcNext, 0)
          = C!Row(X, 1, C!FromImm20, X, 0, C!PcNext, 0)
  BY DEF Loop!Row, C!Row, Loop!FromImm20, C!FromImm20, Loop!PcNext, C!PcNext
<1>5. QED
  BY <1>1, <1>2, <1>3, <1>4, LoopMatches, LoopCompute, LoopBranch
     DEF Loop!Controls, C!Controls, Loop!Jal, C!Jal, Loop!Jalr, C!Jalr, Loop!Branch, C!Branch,
         Loop!OpImm, C!OpImm, Loop!Op, C!Op, Loop!Lui, C!Lui, Loop!System, C!System

(* A row that gives the ALU nothing to do is no branch, and the same for   *)
(* every result.                                                           *)
LEMMA IdleAlu ==
    ASSUME NEW i, NEW s, NEW r, NEW z, NEW r2, NEW z2, C!Controls(i, s, r, z).aluop = X
    PROVE  /\ C!Controls(i, s, r, z) = C!Controls(i, s, r2, z2)
           /\ ~ (s # 1 /\ i.opcode = C!Branch /\ C!IsBranch(i.funct3))
<1>1. CASE s # 1 /\ i.opcode = C!Branch
  <2>1. /\ C!Controls(i, s, r, z) = C!BranchRow(i, r, z)
        /\ C!Controls(i, s, r2, z2) = C!BranchRow(i, r2, z2)
    BY <1>1 DEF C!Controls, C!Jal, C!Jalr, C!Branch
  <2>2. CASE ~ C!IsBranch(i.funct3)
    BY <2>1, <2>2 DEF C!BranchRow
  <2>3. CASE C!IsBranch(i.funct3)
    <3>1. C!Controls(i, s, r, z).aluop = C!BranchAluop(i.funct3)
      BY <2>1, <2>3 DEF C!BranchRow, C!Row
    <3>2. C!BranchAluop(i.funct3) \in Int
      BY DEF C!BranchAluop, C!SUB, C!SLT, C!SLTU
    <3>3. QED
      BY <3>1, <3>2, ValueAssumption
  <2>4. QED
    BY <2>2, <2>3
<1>2. CASE ~ (s # 1 /\ i.opcode = C!Branch)
  BY <1>2 DEF C!Controls
<1>3. QED
  BY <1>1, <1>2

(* An operation comes with a second operand.                               *)
LEMMA OperandChosen ==
    ASSUME NEW i, NEW s, NEW r, NEW z, C!Controls(i, s, r, z).aluop # X
    PROVE  C!Controls(i, s, r, z).alusrc \in {0, 1}
  BY DEF C!Controls, C!StalledRow, C!Nothing, C!JumpRow, C!BranchRow, C!Compute, C!CsrRow,
         C!Row

(* The wires of this module are the resting state of the loop: nothing     *)
(* that is evaluated again changes, so that a clock edge samples what      *)
(* cpu.sv:97-148 has settled on.                                           *)
THEOREM WiresAreSettled == Spec => []WiresSettled
<1>1. TypeOK => WiresSettled
  <2> SUFFICES ASSUME TypeOK PROVE Loop!Settled
    BY DEF WiresSettled
  <2> DEFINE i == instruction_EX
             s == stall_EX
             b == IF controls.alusrc = X THEN X ELSE B_EX
             z == IF R_EX = X THEN X ELSE zero_EX
  <2>1. i \in Instruction /\ s \in {0, 1}
    BY DEF TypeOK
  <2>2. i.imm12 \in Word /\ readdata1 \in Word /\ readdata2 \in Word
    BY <2>1, ReadType DEF Instruction, readdata1, readdata2
  <2>3. X \notin Word /\ X # 0 /\ X # 1
    BY ValueAssumption DEF Word
  <2>4. operation.aluop = controls.aluop /\ operation.alusrc = controls.alusrc
    BY <2>1, OperationIndependent DEF operation, controls
  <2>5. controls.aluop # X => controls.alusrc \in {0, 1} /\ R_EX \in Word
    BY <2>1, OperandChosen, ResultType, ControlsType DEF controls, ControlSignals
  <2>6. controls.aluop = X => R_EX = X
    BY <2>4 DEF R_EX
  <2>7. controls = Loop!ControllerDrives
    <3>1. CASE R_EX = X
      <4>1. controls.aluop = X
        BY <2>3, <2>5, <3>1
      <4>2. /\ C!Controls(i, s, R_EX, z) = controls
            /\ ~ (s # 1 /\ i.opcode = C!Branch /\ C!IsBranch(i.funct3))
        BY <4>1, IdleAlu DEF controls
      <4>3. ~ Loop!Undecided
        BY <4>2 DEF Loop!Undecided, Loop!Branch, C!Branch, C!IsBranch
      <4>4. QED
        BY <4>2, <4>3, LoopControls DEF Loop!ControllerDrives
    <3>2. CASE R_EX # X
      <4>1. z = zero_EX /\ zero_EX # X
        BY <2>3, <3>2 DEF zero_EX
      <4>2. ~ Loop!Undecided
        BY <3>2, <4>1 DEF Loop!Undecided
      <4>3. QED
        BY <4>1, <4>2, LoopControls DEF Loop!ControllerDrives, controls
    <3>3. QED
      BY <3>1, <3>2
  <2>8. b = Loop!MuxDrives
    BY <2>3, <2>4 DEF Loop!MuxDrives, B_EX
  <2>9. R_EX = Loop!AluDrives
    <3>1. CASE controls.aluop = X
      BY <2>6, <3>1 DEF Loop!AluDrives
    <3>2. CASE controls.aluop # X
      <4>1. b = B_EX /\ B_EX \in Word
        BY <2>2, <2>3, <2>4, <2>5, <3>2 DEF B_EX
      <4>2. QED
        BY <2>3, <2>4, <3>2, <4>1 DEF Loop!AluDrives, R_EX
    <3>3. QED
      BY <3>1, <3>2
  <2>10. z = Loop!ZeroDrives
    BY DEF Loop!ZeroDrives, zero_EX
  <2>11. QED
    BY <2>7, <2>8, <2>9, <2>10 DEF Loop!Settled
<1>2. QED
  BY <1>1, TypeCorrect, PTL
=============================================================================
