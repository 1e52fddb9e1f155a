----------------------------- MODULE Controller -----------------------------
(***************************************************************************)
(* The control unit of the processor (lab_jb_hsmith/controller.sv): a      *)
(* combinational table from the decoded instruction in the execute slot,   *)
(* the stall flag and the two ALU results a branch looks at, to the        *)
(* control signals.                                                        *)
(*                                                                         *)
(* A signal the table leaves unspecified (the x of 12'b1_1_11_xxxx_x_10_1) *)
(* is the value X: what it turns into depends on the build.                *)
(***************************************************************************)
EXTENDS Encoding

CONSTANT X              \* an unspecified (don't-care) control signal

(* Values of regsel (inputs of the write-back mux) and of pc_src. *)
FromGpio  == 0
FromImm20 == 1
FromAlu   == 2
FromPc    == 3

PcNext    == 0
PcBranch  == 1
PcJal     == 2
PcJalr    == 3

-----------------------------------------------------------------------------
(* Branches: the ALU operation whose result decides each of them.          *)
BranchAluop(funct3) ==
    IF funct3 \in {0, 1} THEN SUB ELSE IF funct3 \in {4, 5} THEN SLT ELSE SLTU

Taken(funct3, R, zero) ==
    \/ funct3 = 0 /\ zero = 1
    \/ funct3 = 1 /\ zero = 0
    \/ funct3 \in {4, 6} /\ R = 1
    \/ funct3 \in {5, 7} /\ R = 0

-----------------------------------------------------------------------------
(* One row of the table: the concatenation assigned to `controls'.         *)
Row(alusrc, regwrite, regsel, aluop, gpio_we, pc_src, stall) ==
    [alusrc |-> alusrc, regwrite |-> regwrite, regsel |-> regsel,
     aluop |-> aluop, gpio_we |-> gpio_we, pc_src |-> pc_src, stall |-> stall]

Nothing == Row(0, 0, 0, 0, 0, 0, 0)         \* 12'd0

Compute(table, alusrc, i) ==
    IF Matching(table, i) = {}
      THEN Nothing
      ELSE LET e == CHOOSE m \in Matching(table, i) : TRUE
           IN  Row(alusrc, 1, FromAlu, e.aluop, 0, PcNext, 0)

BranchRowUntakenNothing(i, R, zero) ==      \* mutant: 12'd0 when not taken
    IF ~ IsBranch(i.funct3) \/ ~ Taken(i.funct3, R, zero)
      THEN Nothing
      ELSE Row(0, 1, FromPc, BranchAluop(i.funct3), 0, PcBranch, 1)

(* A branch writes the register its instruction bits 11..7 name, whether   *)
(* it is taken or not: regwrite is 1 in all twelve rows.                   *)
BranchRow(i, R, zero) ==
    IF ~ IsBranch(i.funct3)
      THEN Nothing
      ELSE IF Taken(i.funct3, R, zero)
             THEN Row(0, 1, FromPc, BranchAluop(i.funct3), 0, PcBranch, 1)
             ELSE Row(0, 1, FromPc, BranchAluop(i.funct3), 0, PcNext, 0)

CsrRowAlwaysWrites(i) ==            \* mutant: the HEX row forgets regwrite = 0
    IF i.csr = HexCsr THEN Row(X, 1, X, X, 1, PcNext, 0)
                      ELSE Row(X, 1, FromGpio, X, 0, PcNext, 0)

CsrRow(i) ==
    IF i.csr = HexCsr THEN Row(X, 0, X, X, 1, PcNext, 0)
                      ELSE Row(X, 1, FromGpio, X, 0, PcNext, 0)

JumpRowNoStall(pc_src) ==           \* mutant: nothing squashes the next slot
    Row(1, 1, FromPc, X, X, pc_src, 0)

JumpRow(pc_src) == Row(1, 1, FromPc, X, X, pc_src, 1)

StalledRowStalls == Row(0, 0, 0, 0, 0, 0, 1)    \* mutant: the stall keeps itself up

(* The slot behind a taken branch or a jump gets no effect at all.         *)
StalledRow == Nothing

(* The whole table. *)
Controls(i, stall_EX, R, zero) ==
    IF stall_EX = 1           THEN StalledRow
    ELSE IF i.opcode = Jal    THEN JumpRow(PcJal)
    ELSE IF i.opcode = Jalr   THEN JumpRow(PcJalr)
    ELSE IF i.opcode = Branch THEN BranchRow(i, R, zero)
    ELSE IF i.opcode = OpImm  THEN Compute(IType, 1, i)
    ELSE IF i.opcode = Op     THEN Compute(RType, 0, i)
    ELSE IF i.opcode = Lui    THEN Row(X, 1, FromImm20, X, 0, PcNext, 0)
    ELSE IF i.opcode = System THEN CsrRow(i)
    ELSE Nothing
=============================================================================
