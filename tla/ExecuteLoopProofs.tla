-------------------------- MODULE ExecuteLoopProofs --------------------------
(***************************************************************************)
(* Theorems about the loop of wires in the execute stage, for any ALU that *)
(* computes numbers and any instructions, operands and left-over values.   *)
(***************************************************************************)
EXTENDS ExecuteLoop, TLAPS

(* What the loop needs of a row of the table: an operation the ALU has     *)
(* comes with a second operand, and what steers the PC is specified.       *)
Definite(row) ==
    /\ row.aluop \in AluOp \cup {X}
    /\ row.aluop # X => row.alusrc \in {0, 1}
    /\ X \notin {row.pc_src, row.stall, row.regwrite}

LEMMA RowDefinite ==
    ASSUME NEW alusrc \in {0, 1, X}, NEW regwrite \in {0, 1}, NEW regsel,
           NEW aluop \in AluOp \cup {X}, NEW gpio_we, NEW pc_src \in 0 .. 3,
           NEW stall \in {0, 1}, aluop # X => alusrc \in {0, 1}
    PROVE  Definite(Row(alusrc, regwrite, regsel, aluop, gpio_we, pc_src, stall))
  BY SlotAssumption DEF Row, Definite

LEMMA ComputeDefinite ==
    ASSUME NEW i, NEW table \in {RType, IType}, NEW alusrc \in {0, 1}
    PROVE  Definite(Compute(table, alusrc, i))
<1>1. CASE Matching(table, i) = {}
  BY <1>1, RowDefinite DEF Compute, Nothing, AluOp
<1>2. CASE Matching(table, i) # {}
  <2> DEFINE e == CHOOSE m \in Matching(table, i) : TRUE
  <2>1. e \in table
    BY <1>2 DEF Matching
  <2>2. e.aluop \in AluOp
    BY <2>1 DEF RType, IType, AluOp, AND, OR, XOR, ADD, SUB, MUL, MULH, MULHU, SLL, SRL,
                SRA, SLT, SLTU
  <2>3. Compute(table, alusrc, i) = Row(alusrc, 1, FromAlu, e.aluop, 0, PcNext, 0)
    BY <1>2 DEF Compute
  <2> HIDE DEF e
  <2>4. QED
    BY <2>2, <2>3, RowDefinite DEF PcNext
<1>3. QED
  BY <1>1, <1>2

LEMMA BranchDefinite ==
    ASSUME NEW i, NEW r, NEW z
    PROVE  Definite(BranchRow(i, r, z))
<1>1. BranchAluop(i.funct3) \in AluOp
  BY DEF BranchAluop, AluOp, SUB, SLT, SLTU
<1>2. Definite(Nothing)
  BY RowDefinite DEF Nothing, AluOp
<1>3. /\ Definite(Row(0, 1, FromPc, BranchAluop(i.funct3), 0, PcBranch, 1))
      /\ Definite(Row(0, 1, FromPc, BranchAluop(i.funct3), 0, PcNext, 0))
  BY <1>1, RowDefinite DEF PcBranch, PcNext
<1>4. QED
  BY <1>2, <1>3 DEF BranchRow

LEMMA ControlsDefinite ==
    ASSUME NEW i, NEW s, NEW r, NEW z
    PROVE  Definite(Controls(i, s, r, z))
<1>1. Definite(Nothing) /\ Definite(StalledRow)
  BY RowDefinite DEF StalledRow, Nothing, AluOp
<1>2. Definite(JumpRow(PcJal)) /\ Definite(JumpRow(PcJalr))
  BY RowDefinite DEF JumpRow, PcJal, PcJalr
<1>3. Definite(CsrRow(i)) /\ Definite(Row(X, 1, FromImm20, X, 0, PcNext, 0))
  BY RowDefinite DEF CsrRow, PcNext
<1>4. Definite(Compute(IType, 1, i)) /\ Definite(Compute(RType, 0, i))
  BY ComputeDefinite
<1>5. QED
  BY <1>1, <1>2, <1>3, <1>4, BranchDefinite DEF Controls

(* The ALU's result steers nothing but the decision of a branch: neither   *)
(* the operation and operand of the ALU, ...                               *)
LEMMA OperationIndependent ==
    ASSUME NEW i, NEW s, NEW r, NEW z, NEW r2, NEW z2
    PROVE  /\ Controls(i, s, r, z).aluop = Controls(i, s, r2, z2).aluop
           /\ Controls(i, s, r, z).alusrc = Controls(i, s, r2, z2).alusrc
<1>1. /\ BranchRow(i, r, z).aluop = BranchRow(i, r2, z2).aluop
      /\ BranchRow(i, r, z).alusrc = BranchRow(i, r2, z2).alusrc
  BY DEF BranchRow, Row
<1>2. QED
  BY <1>1 DEF Controls

(* ... nor anything else in a row that gives the ALU nothing to do.        *)
LEMMA IdleRowIndependent ==
    ASSUME NEW i, NEW s, NEW r, NEW z, NEW r2, NEW z2,
           Controls(i, s, r, z).aluop = X
    PROVE  /\ Controls(i, s, r, z) = Controls(i, s, r2, z2)
           /\ ~ (s # 1 /\ i.opcode = Branch /\ IsBranch(i.funct3))
<1>1. CASE s # 1 /\ i.opcode = Branch
  <2>1. Controls(i, s, r, z) = BranchRow(i, r, z) /\ Controls(i, s, r2, z2) = BranchRow(i, r2, z2)
    BY <1>1 DEF Controls, Jal, Jalr, Branch
  <2>2. CASE ~ IsBranch(i.funct3)
    BY <2>1, <2>2 DEF BranchRow
  <2>3. CASE IsBranch(i.funct3)
    <3>1. Controls(i, s, r, z).aluop = BranchAluop(i.funct3)
      BY <2>1, <2>3 DEF BranchRow, Row
    <3>2. BranchAluop(i.funct3) \in Int
      BY DEF BranchAluop, SUB, SLT, SLTU
    <3>3. QED
      BY <3>1, <3>2, SlotAssumption
  <2>4. QED
    BY <2>2, <2>3
<1>2. CASE ~ (s # 1 /\ i.opcode = Branch)
  BY <1>2 DEF Controls
<1>3. QED
  BY <1>1, <1>2

(* The controller's outputs are a row of the table but for two bits of a   *)
(* branch that is not decided yet.                                         *)
LEMMA DrivenRow ==
    /\ ControllerDrives.aluop = Operation.aluop
    /\ ControllerDrives.alusrc = Operation.alusrc
<1> DEFINE row == Controls(slot.i, slot.stall_EX, R_EX, zero_EX)
<1>1. row.aluop = Operation.aluop /\ row.alusrc = Operation.alusrc
  BY OperationIndependent DEF Operation
<1>2. /\ [row EXCEPT !.pc_src = X, !.stall = X].aluop = row.aluop
      /\ [row EXCEPT !.pc_src = X, !.stall = X].alusrc = row.alusrc
  <2>1. \E alusrc, regwrite, regsel, aluop, gpio_we, pc_src, stall :
            row = Row(alusrc, regwrite, regsel, aluop, gpio_we, pc_src, stall)
    BY DEF Controls, StalledRow, Nothing, JumpRow, BranchRow, Compute, CsrRow
  <2> HIDE DEF row
  <2>2. QED
    BY <2>1 DEF Row
<1>3. QED
  BY <1>1, <1>2 DEF ControllerDrives

LEMMA SlotTyped == Spec => [](slot \in Slots)
<1>1. Init => slot \in Slots
  BY DEF Init
<1>2. slot \in Slots /\ [Next]_vars => (slot \in Slots)'
  BY DEF Next, vars, EvaluateController, EvaluateMux, EvaluateAlu, EvaluateZero, ClockEdge
<1>3. QED
  BY <1>1, <1>2, PTL DEF Spec

-----------------------------------------------------------------------------
(* The execute stage comes to rest on one value of its wires only, the one *)
(* Cpu.tla computes, whatever the blocks were fed with on the way there.   *)
THEOREM LoopRestsOnSolution == Spec => []RestsOnSolution
<1>1. slot \in Slots => RestsOnSolution
  <2> SUFFICES ASSUME slot \in Slots, Settled
               PROVE  /\ R_EX = Result
                      /\ controls = Controls(slot.i, slot.stall_EX, Result,
                                             IF Result = 0 THEN 1 ELSE 0)
                      /\ X \notin {controls.pc_src, controls.stall, controls.regwrite}
    BY DEF RestsOnSolution
  <2>1. controls.aluop = Operation.aluop /\ controls.alusrc = Operation.alusrc
    BY DrivenRow DEF Settled
  <2>2. Definite(Operation)
    BY ControlsDefinite DEF Operation
  <2>3. CASE Operation.aluop = X
    <3>1. R_EX = X /\ Result = X /\ X # 0
      BY <2>1, <2>3, SlotAssumption DEF Settled, AluDrives, Result
    <3>2. /\ \A r, z : Controls(slot.i, slot.stall_EX, r, z) = Operation
          /\ ~ (slot.stall_EX # 1 /\ slot.i.opcode = Branch /\ IsBranch(slot.i.funct3))
      BY <2>3, IdleRowIndependent DEF Operation
    <3>3. ~ Undecided
      BY <3>2 DEF Undecided, IsBranch
    <3>4. controls = Operation
      BY <3>2, <3>3 DEF Settled, ControllerDrives
    <3>5. QED
      BY <2>2, <3>1, <3>2, <3>4 DEF Definite
  <2>4. CASE Operation.aluop # X
    <3>1. Operation.aluop \in AluOp /\ Operation.alusrc \in {0, 1}
      BY <2>2, <2>4 DEF Definite
    <3>2. B_EX = IF Operation.alusrc = 1 THEN slot.i.imm12 ELSE slot.readdata2
      BY <2>1, <3>1, SlotAssumption DEF Settled, MuxDrives
    <3>3. B_EX # X
      BY <3>2, SlotAssumption
    <3>4. R_EX = Alu(Operation.aluop, slot.readdata1, B_EX)
      BY <2>1, <2>4, <3>3 DEF Settled, AluDrives
    <3>5. R_EX = Result /\ R_EX # X
      BY <2>4, <3>1, <3>2, <3>4, SlotAssumption DEF Result
    <3>6. zero_EX = (IF Result = 0 THEN 1 ELSE 0) /\ zero_EX # X
      BY <3>5, SlotAssumption DEF Settled, ZeroDrives
    <3>7. controls = Controls(slot.i, slot.stall_EX, R_EX, zero_EX)
      BY <3>5, <3>6 DEF Settled, ControllerDrives, Undecided
    <3>8. QED
      BY <3>5, <3>6, <3>7, ControlsDefinite DEF Definite
  <2>5. QED
    BY <2>3, <2>4
<1>2. QED
  BY <1>1, SlotTyped, PTL

(* The other way round: those values are at rest, so there is always one.  *)
THEOREM SolutionRests ==
    ASSUME slot \in Slots,
           R_EX = Result,
           zero_EX = ZeroDrives,
           B_EX = MuxDrives,
           controls = Controls(slot.i, slot.stall_EX, Result, IF Result = 0 THEN 1 ELSE 0)
    PROVE  Settled
<1>1. controls.aluop = Operation.aluop /\ controls.alusrc = Operation.alusrc
  BY OperationIndependent DEF Operation
<1>2. Definite(Operation)
  BY ControlsDefinite DEF Operation
<1>3. CASE Operation.aluop = X
  <2>1. R_EX = AluDrives
    BY <1>1, <1>3 DEF Result, AluDrives
  <2>2. /\ \A r, z : Controls(slot.i, slot.stall_EX, r, z) = Operation
        /\ ~ (slot.stall_EX # 1 /\ slot.i.opcode = Branch /\ IsBranch(slot.i.funct3))
    BY <1>3, IdleRowIndependent DEF Operation
  <2>3. ~ Undecided
    BY <2>2 DEF Undecided, IsBranch
  <2>4. controls = ControllerDrives
    BY <2>2, <2>3 DEF ControllerDrives
  <2>5. QED
    BY <2>1, <2>4 DEF Settled
<1>4. CASE Operation.aluop # X
  <2>1. Operation.aluop \in AluOp /\ Operation.alusrc \in {0, 1}
    BY <1>2, <1>4 DEF Definite
  <2>2. B_EX = IF Operation.alusrc = 1 THEN slot.i.imm12 ELSE slot.readdata2
    BY <1>1, <2>1, SlotAssumption DEF MuxDrives
  <2>3. B_EX # X
    BY <2>2, SlotAssumption
  <2>4. R_EX = AluDrives
    BY <1>1, <1>4, <2>1, <2>2, <2>3 DEF Result, AluDrives
  <2>5. R_EX # X
    BY <1>4, <2>1, <2>2, SlotAssumption DEF Result
  <2>6. zero_EX = (IF Result = 0 THEN 1 ELSE 0) /\ zero_EX # X
    BY <2>5, SlotAssumption DEF ZeroDrives
  <2>7. controls = ControllerDrives
    BY <2>5, <2>6 DEF ControllerDrives, Undecided
  <2>8. QED
    BY <2>4, <2>7 DEF Settled
<1>5. QED
  BY <1>3, <1>4

(* The loop is broken where it matters: evaluated again after a change of  *)
(* the result, the controller keeps the operation and operand that the     *)
(* result was computed with (controller.sv:51-168).                        *)
THEOREM LoopKeepsOperation == Spec => OperationStands
<1>1. [Next]_vars =>
        [slot' = slot /\ controls.aluop = Operation.aluop /\ controls.alusrc = Operation.alusrc
           => /\ controls'.aluop = Operation.aluop
              /\ controls'.alusrc = Operation.alusrc]_vars
  BY DrivenRow
     DEF Next, vars, EvaluateController, EvaluateMux, EvaluateAlu, EvaluateZero, ClockEdge
<1>2. QED
  BY <1>1, PTL DEF Spec, OperationStands
=============================================================================
