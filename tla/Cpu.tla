-------------------------------- MODULE Cpu ---------------------------------
(***************************************************************************)
(* The three-stage processor of lab_jb_hsmith/cpu.sv: fetch, execute and   *)
(* write back overlap, one stage register each, and the asynchronous reset *)
(* key may be pressed at any moment.                                       *)
(*                                                                         *)
(* Words are the naturals below WordMod (2^32 in the code) and instruction *)
(* addresses the naturals below PcMod (2^12), with the arithmetic the wires*)
(* do, modulo those bounds.  An instruction is the record of the fields    *)
(* the decoder hands out; imm12 is already sign-extended, imm20 already    *)
(* shifted, and the three jump offsets already cut to word offsets.        *)
(***************************************************************************)
EXTENDS Integers

CONSTANTS
    WordMod,            \* 2^32
    PcMod,              \* 2^12, the number of words of the instruction memory
    Reg,                \* register numbers
    X,                  \* an unspecified control signal
    XResolves,          \* what an unspecified one-bit signal may act as
    Alu(_, _, _),       \* the ALU: operation, A, B
    GpioIn,             \* values the switches can have
    Programs,           \* contents the instruction memory can be loaded with
    PowerOnMem          \* contents the register file can power up with

Word == 0 .. WordMod - 1
Pc == 0 .. PcMod - 1

C == INSTANCE Controller

Instruction ==
    [opcode : 0 .. 127, funct3 : 0 .. 7, funct7 : 0 .. 127, csr : 0 .. 4095,
     rd : Reg, rs1 : Reg, rs2 : Reg, imm12 : Word, imm20 : Word,
     branch : Pc, jal : Pc, jalr : Pc]

ASSUME SizeAssumption ==
    /\ WordMod \in Nat
    /\ PcMod \in Nat
    /\ 1 < PcMod
    /\ PcMod <= WordMod

ASSUME RegAssumption == 0 \in Reg /\ Reg \subseteq Nat

ASSUME ValueAssumption ==
    /\ X \notin Int
    /\ XResolves \subseteq {0, 1}
    /\ GpioIn \subseteq Word
    /\ Programs \subseteq [Pc -> Instruction]
    /\ PowerOnMem \subseteq [Reg -> Word]

(* Of the ALU itself the pipeline needs this much (Alu.tla has the rest):  *)
(* it returns words, a difference is 0 for equal operands only, and a      *)
(* comparison returns 0 or 1.                                              *)
ASSUME AluAssumption ==
    /\ \A op \in 0 .. 15, a \in Word, b \in Word : Alu(op, a, b) \in Word
    /\ \A a \in Word, b \in Word : Alu(C!SUB, a, b) = 0 <=> a = b
    /\ \A op \in {C!SLT, C!SLTU}, a \in Word, b \in Word : Alu(op, a, b) \in {0, 1}

VARIABLES
    inst_ram,           \* instruction memory, loaded once from the .dat file
    PC_FETCH,           \* address being fetched
    PC_EX,              \* address of the instruction in the execute slot
    instruction_EX,     \* the instruction in the execute slot
    stall_EX,           \* 1: the execute slot is to have no effect
    rd_WB,              \* write-back stage: destination register
    regwrite_WB,        \*   write enable
    regsel_WB,          \*   which of the next three (or PC_EX) to write
    imm20_WB,
    R_WB,
    GPIO_in_WB,
    mem,                \* the register file's storage
    CPU_out,            \* the register behind the HEX displays
    rst_n,              \* KEY[0], low while the reset key is pressed
    bubble              \* auxiliary: the execute slot holds the 0 a reset put there

pipeline == <<PC_FETCH, PC_EX, instruction_EX, stall_EX, rd_WB, regwrite_WB,
              regsel_WB, imm20_WB, R_WB, GPIO_in_WB, CPU_out, bubble>>
vars == <<inst_ram, PC_FETCH, PC_EX, instruction_EX, stall_EX, rd_WB, regwrite_WB,
          regsel_WB, imm20_WB, R_WB, GPIO_in_WB, mem, CPU_out, rst_n, bubble>>

(* The word 0 that reset puts into the execute slot, decoded. *)
ZeroInstruction ==
    [opcode |-> 0, funct3 |-> 0, funct7 |-> 0, csr |-> 0, rd |-> 0, rs1 |-> 0,
     rs2 |-> 0, imm12 |-> 0, imm20 |-> 0, branch |-> 0, jal |-> 0, jalr |-> 0]

-----------------------------------------------------------------------------
(* Combinational signals. *)

(* The write-back mux.  R_WB is X where the ALU was given no operation. *)
writedata_WB ==
    IF regsel_WB = C!FromGpio       THEN GPIO_in_WB
    ELSE IF regsel_WB = C!FromImm20 THEN imm20_WB
    ELSE IF regsel_WB = C!FromAlu   THEN R_WB
    ELSE IF regsel_WB = C!FromPc    THEN PC_EX
    ELSE X

rf == INSTANCE Regfile WITH rst <- 1 - rst_n, we <- regwrite_WB,
                            writeaddr <- rd_WB, writedata <- writedata_WB

readdata1 == rf!Read(instruction_EX.rs1)
readdata2 == rf!Read(instruction_EX.rs2)

(* The controller picks the operation and second operand of the ALU        *)
(* without looking at its result, and only then the branch by the result:  *)
(* the loop through both has one solution, reached here in two steps.      *)
operation == C!Controls(instruction_EX, stall_EX, 0, 0)

B_EX ==
    IF operation.alusrc = 1 THEN instruction_EX.imm12 ELSE readdata2

R_EX ==
    IF operation.aluop = X THEN X ELSE Alu(operation.aluop, readdata1, B_EX)

zero_EX == IF R_EX = 0 THEN 1 ELSE 0

controls == C!Controls(instruction_EX, stall_EX, R_EX, zero_EX)

branch_addr_EX == (PC_EX + instruction_EX.branch) % PcMod
jal_addr_EX == (PC_EX + instruction_EX.jal) % PcMod
jalr_addr_EX == (readdata1 + instruction_EX.jalr) % PcMod

nextPC ==
    IF controls.pc_src = C!PcJalr        THEN jalr_addr_EX
    ELSE IF controls.pc_src = C!PcJal    THEN jal_addr_EX
    ELSE IF controls.pc_src = C!PcBranch THEN branch_addr_EX
    ELSE (PC_FETCH + 1) % PcMod

(* What a one-bit signal acts as when it gates a register. *)
Resolve(signal) == IF signal = X THEN XResolves ELSE {signal}

-----------------------------------------------------------------------------
(* The state after the first clock edge of the power-on reset.  The edge   *)
(* sets neither regwrite_WB nor the register file, apart from register 0.  *)
Init ==
    /\ inst_ram \in Programs
    /\ PC_FETCH = 0
    /\ PC_EX = 0
    /\ instruction_EX = ZeroInstruction
    /\ stall_EX = 0
    /\ rd_WB = 0
    /\ regwrite_WB \in {0, 1}
    /\ regsel_WB = 0
    /\ imm20_WB = 0
    /\ R_WB = 0
    /\ GPIO_in_WB = 0
    /\ mem \in {[m EXCEPT ![0] = 0] : m \in PowerOnMem}
    /\ CPU_out = 0
    /\ rst_n = 0
    /\ bubble = TRUE

ResetFrontKeepsOutput ==            \* mutant: the display register is forgotten
    /\ PC_FETCH' = 0
    /\ instruction_EX' = ZeroInstruction
    /\ stall_EX' = 0
    /\ bubble' = TRUE
    /\ UNCHANGED <<PC_EX, CPU_out>>

(* A rising clock edge while the reset key is pressed.  Of the registers   *)
(* it leaves out, PC_EX and regwrite_WB, the second keeps the write port   *)
(* enabled for as long as the reset lasts.                                 *)
ResetFront ==
    /\ PC_FETCH' = 0
    /\ instruction_EX' = ZeroInstruction
    /\ stall_EX' = 0
    /\ CPU_out' = 0
    /\ bubble' = TRUE
    /\ UNCHANGED PC_EX

ResetBackKeepsRd ==                 \* mutant: rd_WB is left out like regwrite_WB
    /\ regsel_WB' = 0
    /\ imm20_WB' = 0
    /\ R_WB' = 0
    /\ GPIO_in_WB' = 0
    /\ UNCHANGED <<rd_WB, regwrite_WB>>

ResetBack ==
    /\ rd_WB' = 0
    /\ regsel_WB' = 0
    /\ imm20_WB' = 0
    /\ R_WB' = 0
    /\ GPIO_in_WB' = 0
    /\ UNCHANGED regwrite_WB

ClockReset ==
    /\ rst_n = 0
    /\ ResetFront
    /\ ResetBack
    /\ mem' = rf!Edge
    /\ UNCHANGED <<inst_ram, rst_n>>

(* A rising clock edge in normal operation: every stage moves on. *)
RunFront ==
    /\ PC_FETCH' = nextPC
    /\ PC_EX' = PC_FETCH
    /\ instruction_EX' = inst_ram[PC_FETCH]
    /\ stall_EX' = controls.stall
    /\ \E gpio_we \in Resolve(controls.gpio_we) :
          CPU_out' = IF gpio_we = 1 THEN readdata1 ELSE CPU_out
    /\ bubble' = FALSE

RunBack ==
    /\ rd_WB' = instruction_EX.rd
    /\ regwrite_WB' = controls.regwrite
    /\ regsel_WB' = controls.regsel
    /\ imm20_WB' = instruction_EX.imm20
    /\ R_WB' = R_EX
    /\ GPIO_in_WB' \in GpioIn

ClockRun ==
    /\ rst_n = 1
    /\ RunFront
    /\ RunBack
    /\ mem' = rf!Edge
    /\ UNCHANGED <<inst_ram, rst_n>>

(* The reset key goes down between clock edges: the register file's        *)
(* asynchronous reset acts at once, the pipeline waits for the next edge.  *)
KeyPress ==
    /\ rst_n = 1
    /\ rst_n' = 0
    /\ mem' = [mem EXCEPT ![0] = 0]
    /\ UNCHANGED <<inst_ram, pipeline>>

(* The key goes up: before an edge saw it, or after some edges did. *)
KeyRelease ==
    /\ rst_n = 0
    /\ rst_n' = 1
    /\ UNCHANGED <<inst_ram, pipeline, mem>>

Clock == ClockReset \/ ClockRun

Next == ClockReset \/ ClockRun \/ KeyPress \/ KeyRelease

Spec == Init /\ [][Next]_vars

(* The clock never stops; nobody has to press or release the key. *)
FairSpec == Spec /\ WF_vars(Clock)

-----------------------------------------------------------------------------
(* The pipeline as a sequential machine.  The registers are the storage    *)
(* with the value in the write-back stage laid over it; the next           *)
(* instruction is the one in the execute slot, or the one being fetched    *)
(* when the slot is stalled or holds what a reset left there.              *)
Registers == [r \in Reg |-> IF r = 0 THEN 0
                            ELSE IF regwrite_WB = 1 /\ r = rd_WB THEN writedata_WB
                            ELSE mem[r]]

NextInstruction == IF stall_EX = 1 \/ bubble THEN PC_FETCH ELSE PC_EX

Sequential == INSTANCE Isa WITH rom <- inst_ram, pc <- NextInstruction,
                                regs <- Registers, prev <- mem, out <- CPU_out

(* The processor executes the program one instruction after the other:     *)
(* no instruction is lost or done twice around a jump, a taken branch or a *)
(* reset, and each sees every result of the ones before it, although the   *)
(* last of them is still on its way to the register file.                  *)
RunsSequentially == Sequential!Spec

(* The wires of the execute slot as the simulator evaluates them, block by *)
(* block; what depends on an unspecified signal is unknown there.          *)
Loop == INSTANCE ExecuteLoop WITH
    Slots <- [i : Instruction, stall_EX : {0, 1}, readdata1 : Word, readdata2 : Word],
    slot <- [i |-> instruction_EX, stall_EX |-> stall_EX,
             readdata1 |-> readdata1, readdata2 |-> readdata2],
    B_EX <- IF controls.alusrc = X THEN X ELSE B_EX,
    zero_EX <- IF R_EX = X THEN X ELSE zero_EX

(* What this module takes the wires to be is where the loop through mux,   *)
(* ALU and controller is at rest, in whatever slot the pipeline gets into: *)
(* no clock edge ever samples a wire that is still going to change.        *)
WiresSettled == Loop!Settled

-----------------------------------------------------------------------------
(* Every signal register holds a value of its width, and nothing           *)
(* unspecified gets as far as a value that is going to be written, the     *)
(* register file or the displays.                                          *)
TypeOK ==
    /\ inst_ram \in [Pc -> Instruction]
    /\ PC_FETCH \in Pc
    /\ PC_EX \in Pc
    /\ instruction_EX \in Instruction
    /\ stall_EX \in {0, 1}
    /\ rd_WB \in Reg
    /\ regwrite_WB \in {0, 1}
    /\ regsel_WB \in {0, 1, 2, 3, X}
    /\ imm20_WB \in Word
    /\ R_WB \in Word \cup {X}
    /\ GPIO_in_WB \in Word
    /\ regwrite_WB = 1 => writedata_WB \in Word
    /\ mem \in [Reg -> Word]
    /\ CPU_out \in Word
    /\ rst_n \in {0, 1}
    /\ bubble \in BOOLEAN

(* Register 0 is 0 in the storage as well as through the read ports, which *)
(* pass the storage on unguarded whenever no write is pending.             *)
ZeroRegister == mem[0] = 0

(* The instruction in the execute slot is the one at PC_EX, unless a reset *)
(* put it there.  PC_EX, which reset does not clear, is not to be trusted  *)
(* in that case: nothing may be written from it.                           *)
SlotMatchesPc ==
    IF bubble THEN /\ instruction_EX = ZeroInstruction
                   /\ stall_EX = 0
                   /\ rd_WB = 0
              ELSE instruction_EX = inst_ram[PC_EX]

(* While a real, unstalled instruction executes, the address after it is   *)
(* being fetched: this is what makes the PC_EX seen one cycle later, from  *)
(* the write-back stage, the link of the jump that is being written back.  *)
FetchFollowsSlot == ~ bubble /\ stall_EX = 0 => PC_FETCH = (PC_EX + 1) % PcMod

(* The whole pipeline invariant, inductive. *)
PipelineInv == TypeOK /\ ZeroRegister /\ SlotMatchesPc /\ FetchFollowsSlot

-----------------------------------------------------------------------------
(* An unstalled instruction is in the execute slot and will take effect at *)
(* the next clock edge.                                                    *)
Executing == rst_n = 1 /\ stall_EX = 0 /\ ~ bubble

(* Once nobody presses the reset key any more, instructions go on being    *)
(* executed for ever: no sequence of jumps keeps the slot stalled.         *)
Progress == <>[](rst_n = 1) => []<>Executing

(* A key that is held down brings the processor to address 0 showing 0,      *)
(* with nothing left to be written to a register, and keeps it there.      *)
ResetTakesHold ==
    <>[](rst_n = 0) => <>[](/\ PC_FETCH = 0
                            /\ CPU_out = 0
                            /\ Registers = mem)

-----------------------------------------------------------------------------
(* What the documents say of the instructions. *)

(* The displays change only by a reset or by a csrrw to io2: gpio_out is   *)
(* "updated using csrrw" (lab_jb_hsmith/README.md:149-151).                *)
OutputOnlyByCsr ==
    [][CPU_out' # CPU_out =>
          \/ rst_n = 0
          \/ instruction_EX.opcode = C!System /\ instruction_EX.csr = C!HexCsr]_vars

(* The instruction in the execute slot is executed by the next clock edge. *)
Executes(opcode) == Executing /\ rst_n' = 1 /\ instruction_EX.opcode = opcode

(* A branch only moves the PC: "if (R[rs1]==R[rs2]) PC += sext(offset)"    *)
(* (lab_jb/2021F_lab_jb/README.md:214).                                    *)
BranchWritesNoRegister ==
    [][Executes(C!Branch) => Registers' = Registers]_vars

(* Reading an unknown CSR, none of the three that are wired (inputs 3840,  *)
(* 3841 and the displays), gives 0 (lab_jb_hsmith/README.md:607-608).      *)
OtherCsrReadsZero ==
    [][(/\ Executes(C!System)
        /\ instruction_EX.csr \notin {3840, 3841, C!HexCsr})
          => Registers'[instruction_EX.rd] = 0]_vars
=============================================================================
