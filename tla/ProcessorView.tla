--------------------------- MODULE ProcessorView ----------------------------
(***************************************************************************)
(* Two readers of the same word: the disassembler, whose text a student    *)
(* debugs with, and the processor, whose decoder and control table decide  *)
(* what is done.  Both work from the 32-bit word alone, in different       *)
(* languages and with different tables.                                    *)
(***************************************************************************)
EXTENDS Disassembler

CONSTANT X              \* an unspecified control signal

C == INSTANCE Controller
Decode == INSTANCE Decoder WITH instruction <- inst

(* The decoder's outputs that the control table looks at. *)
Seen ==
    [opcode |-> Decode!Unsigned(Decode!opcode), funct3 |-> Decode!Unsigned(Decode!funct3),
     funct7 |-> Decode!Unsigned(Decode!funct7), csr |-> Decode!Unsigned(Decode!csr)]

(* The control signals of the word if it is not squashed, for an ALU       *)
(* result R that is 0 or 1.                                                *)
Signals(R) == C!Controls(Seen, 0, R, 1 - R)

-----------------------------------------------------------------------------
(* The operations the processor is to carry out, and how.                  *)
RegisterOps ==
    [add |-> C!ADD, sub |-> C!SUB, and |-> C!AND, or |-> C!OR, xor |-> C!XOR,
     sll |-> C!SLL, srl |-> C!SRL, sra |-> C!SRA, slt |-> C!SLT, sltu |-> C!SLTU,
     mul |-> C!MUL, mulh |-> C!MULH, mulhu |-> C!MULHU]

ImmediateOps == [addi |-> C!ADD, andi |-> C!AND, ori |-> C!OR, xori |-> C!XOR]
ShiftOps == [slli |-> C!SLL, srli |-> C!SRL, srai |-> C!SRA]

(* A branch: what the ALU computes, and the result that takes it. *)
Branches ==
    [beq |-> <<C!SUB, 0>>, bne |-> <<C!SUB, 1>>, blt |-> <<C!SLT, 1>>,
     bge |-> <<C!SLT, 0>>, bltu |-> <<C!SLTU, 1>>, bgeu |-> <<C!SLTU, 0>>]

Implemented ==
    DOMAIN RegisterOps \union DOMAIN ImmediateOps \union DOMAIN ShiftOps
    \union DOMAIN Branches \union {"lui", "jal", "jalr", "csrrw"}

(* Shift amounts of 32 and more exist on wider machines only.              *)
BeyondWord(d) == d.op \in DOMAIN ShiftOps /\ d.imm >= 32

ComputesWith(op, alusrc) == Signals(0) = C!Row(alusrc, 1, C!FromAlu, op, 0, C!PcNext, 0)

Writes(source) == Signals(0).regwrite = 1 /\ Signals(0).regsel = source

JumpsTo(pc_src) == Writes(C!FromPc) /\ Signals(0).pc_src = pc_src /\ Signals(0).stall = 1

BranchesOn(aluop, result) ==
    \A R \in {0, 1} :
        /\ Signals(R).aluop = aluop
        /\ Signals(R).pc_src = C!PcBranch <=> R = result
        /\ Signals(R).stall = 1 <=> R = result

SameOperation(d) ==
    CASE d.op \in DOMAIN RegisterOps  -> ComputesWith(RegisterOps[d.op], 0)
      [] d.op \in DOMAIN ImmediateOps -> ComputesWith(ImmediateOps[d.op], 1)
      [] d.op \in DOMAIN ShiftOps     -> ComputesWith(ShiftOps[d.op], 1)
      [] d.op \in DOMAIN Branches     -> BranchesOn(Branches[d.op][1], Branches[d.op][2])
      [] d.op = "lui"   -> Writes(C!FromImm20)
      [] d.op = "jal"   -> JumpsTo(C!PcJal)
      [] d.op = "jalr"  -> JumpsTo(C!PcJalr)
      [] d.op = "csrrw" -> Signals(0) = C!CsrRow(Seen)

SameOperands(d) ==
    LET U(bits) == Decode!Unsigned(bits)
    IN  /\ d.codec \in {"r", "i", "i_sh7", "i_csr", "u", "uj"} => U(Decode!rd) = d.rd
        /\ d.codec \in {"r", "i", "i_sh7", "i_csr", "sb"} => U(Decode!rs1) = d.rs1
        /\ d.codec \in {"r", "sb"} => U(Decode!rs2) = d.rs2
        /\ CASE d.op \in DOMAIN ImmediateOps -> Decode!imm12_32.value = d.imm
             [] d.op \in DOMAIN ShiftOps -> Decode!imm12_32.value % 32 = d.imm
             [] d.op \in DOMAIN Branches -> U(Decode!branch_words) = (d.imm \div 4) % 4096
             [] d.op = "jal"   -> U(Decode!jal_words) = (d.imm \div 4) % 4096
             [] d.op = "jalr"  -> U(Decode!jalr_words) = (d.imm \div 4) % 4096
             [] d.op = "lui"   -> Decode!imm20_SL.value = d.imm
             [] d.op = "csrrw" -> U(Decode!csr) = d.imm
             [] OTHER          -> TRUE

Comparable == stage = "lift" /\ isa = "rv32" /\ Field(inst, 1, 0) = 3

(* What the simulators show is what the processor does: for every word     *)
(* disassembled as an instruction the processor implements, the control    *)
(* table orders that operation, on the registers and with the immediate    *)
(* the text names.                                                         *)
ShownIsExecuted ==
    Comparable /\ dec.op \in Implemented /\ ~ BeyondWord(dec) =>
        SameOperation(dec) /\ SameOperands(dec)

(* The processor does nothing behind the back of the text: a word that     *)
(* writes a register or the displays (as every jump and branch does) is    *)
(* shown as an implemented instruction.  The exceptions are those fields   *)
(* that the table does not look at, funct3 of jalr and of system           *)
(* instructions: with another funct3 such a word is executed all the same, *)
(* and never shown as an implemented instruction.                          *)
ExecutedIsShown ==
    LET s == Signals(0)
        NotLookedAt == \/ Seen.opcode = C!Jalr /\ Seen.funct3 # 0
                       \/ Seen.opcode = C!System /\ Seen.funct3 # 1
    IN  Comparable /\ (s.regwrite = 1 \/ s.gpio_we = 1) =>
            (dec.op \in Implemented <=> ~ NotLookedAt)

(* The two properties of the decoder, on every word that is disassembled.  *)
(* OffsetsInWords: a branch or jump goes where its encoding says, its word *)
(* offset being the byte offset divided by 4, forwards and backwards.      *)
OffsetsInWords == stage = "lift" => Decode!OffsetsInWords

(* ImmediatesWidened: widening keeps the value of an immediate.            *)
ImmediatesWidened == stage = "lift" => Decode!ImmediatesWidened
=============================================================================
